CONSTANTS
  Batch = {r1, r2}
  Ulb = {u1, u2}
  Key = {k1, k2}
  MaxBatchNumber = 2
  ChunkSize = 1
  NoKey = NoKey
  NoBatch = NoBatch
SPECIFICATION CreateSpec
SYMMETRY Symmetry
INVARIANTS ReadyIsWhole LocksAreBacked AuditTrail BatchesAreDistinct SuccessMeansReady
PROPERTIES ReadyIsNeverLost ImplementsLedger
CHECK_DEADLOCK FALSE
