CONSTANTS
  Groups = {g1}
  Vars = {1, 2, 3}
  Rngs = {1, 2}
  Dist <- MC_Dist
  WSD_LEN = 2
  MaxClauses = 3
  MaxAborts = 0
  Strategy = "plain"
  NoResult = NoResult
  Approaches = {"R"}
  Epsilons <- MC_EpsExact
INIT MC_Init
NEXT MC_Next
\* a query ends when its group has had its final
CHECK_DEADLOCK FALSE
INVARIANT ApproxWithinEpsilon
