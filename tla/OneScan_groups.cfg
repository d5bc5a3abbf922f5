CONSTANTS
  Sigs <- MC_Sigs
  Inputs <- MC_Inputs
  ConfOf <- MC_ConfOf
  Groups = {g1, g2}
  NoResult = NoResult
INIT MC_Init
NEXT MC_Next
INVARIANTS OneScanTypeOK OneScanExact NoNullDereference HQConfExact
\* a query ends when its last group has had its final
CHECK_DEADLOCK FALSE
