CONSTANTS
  Batch = {b1, b2}
  Ulb = {u1, u2, u3}
  Editor = {e1}
  Faults = {}
  Misreported = {}
  MaxBatchNumber = 2
  Key = {}
  Path = {}
  NoKey = NoKey
  NoBatch = NoBatch
  NoEditor = NoEditor
  NoPath = NoPath
SPECIFICATION EditSpec
INVARIANT AbandonedHoldsNothing
CHECK_DEADLOCK FALSE
