CONSTANTS
  Groups = {g1, g2}
  Vars = {1, 2}
  Rngs = {1, 2}
  Dist <- MC_Dist
  WSD_LEN = 2
  MaxClauses = 3
  MaxAborts = 0
  Strategy = "sorted"
  NoResult = NoResult
  Approaches = {"R"}
  Epsilons <- MC_Eps
INIT MC_Init
NEXT MC_Next
\* a query ends when every group has had its final
CHECK_DEADLOCK FALSE
INVARIANTS TypeOK FinalIsExact IndveRestoresS TconfIsConfOfRow
