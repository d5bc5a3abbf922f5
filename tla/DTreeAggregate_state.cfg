CONSTANTS
  Groups = {g1}
  Vars = {1, 2}
  Rngs = {1, 2}
  Dist <- MC_DistLate
  WSD_LEN = 2
  MaxClauses = 2
  MaxAborts = 1
  Strategy = "plain"
  NoResult = NoResult
  Approaches = {"R", "X"}
  Epsilons <- MC_EpsBoth
INIT MC_Init
NEXT MC_Next
\* a query ends when its group has had its final
CHECK_DEADLOCK FALSE
INVARIANTS TypeOK DTreeRestoresS BucketBoundsSound QuickSortSorts
