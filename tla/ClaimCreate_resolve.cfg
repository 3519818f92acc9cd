CONSTANTS
  Batch = {r1, r2}
  Ulb = {u1, u2}
  Key = {k1, k2}
  MaxBatchNumber = 1
  ChunkSize = 2
  NoKey = NoKey
  NoBatch = NoBatch
SPECIFICATION FairCreateSpec
PROPERTY BuildsResolve
CHECK_DEADLOCK FALSE
