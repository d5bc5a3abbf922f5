CONSTANTS
  Groups = {g1}
  Vars = {1, 2}
  Rngs = {1, 2}
  Dist <- MC_Dist
  WSD_LEN = 2
  MaxClauses = 2
  MaxAborts = 1
  Strategy = "plain"
  NoResult = NoResult
  Approaches = {"R"}
  Epsilons <- MC_Eps
INIT MC_Init
NEXT MC_Next
\* a query ends when every group has had its final
CHECK_DEADLOCK FALSE
INVARIANT FinalIsExact
