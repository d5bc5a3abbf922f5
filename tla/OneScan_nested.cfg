CONSTANTS
  Sigs <- MC_SigsNested
  Inputs <- MC_InputsSmall
  ConfOf <- MC_ConfOf
  Groups = {g1}
  NoResult = NoResult
INIT MC_Init
NEXT MC_Next
\* a query ends when every group has had its final
CHECK_DEADLOCK FALSE
INVARIANT OneScanExact
