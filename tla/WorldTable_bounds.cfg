CONSTANTS
  Keys <- MC_Keys
  Rngs <- MC_Rngs
  INIT_NBITS = 1
  LIST_INIT_SIZE = 2
  MaxEntries = 7
  NULL = NULL
INIT Init
NEXT Next
INVARIANTS
  TypeOK
  BucketsNeverOverflow
