CONSTANTS
  Groups = {g1}
  Vars = {1, 2}
  Rngs = {1, 2}
  Dist <- MC_AconfDistLate
  WSD_LEN = 2
  MaxClauses = 3
  MaxAborts = 1
  Strategy = "plain"
  NoResult = NoResult
  Approaches = {"R"}
  Epsilons <- MC_EpsZero
  AconfEpsilons <- MC_EpsPositive
  AconfDeltas <- MC_Deltas
  Upsilon1 <- MC_Upsilon1
  AccCap <- MC_AccCap
  N2 = 1
  N3 = 2
SPECIFICATION ASpec
\* a query ends when its group has had its final
CHECK_DEADLOCK FALSE
INVARIANTS AconfTypeOK EstimatorUnbiased
PROPERTY AconfTerminates
