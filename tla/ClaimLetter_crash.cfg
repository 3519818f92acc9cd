CONSTANTS
  Batch = {b1}
  Ulb = {u1, u2}
  Key = {k1}
  ChunkSize = 2
  MaxBatchNumber = 2
  Editor = {e1}
  Faults = {"crash"}
  Misreported = {}
  Submitter = {s1}
  Saver = {}
  MaxSaves = 1
  Path = {p1}
  NoKey = NoKey
  NoBatch = NoBatch
  NoEditor = NoEditor
  NoPath = NoPath
SPECIFICATION LetterSpec
SYMMETRY Symmetry
INVARIANT SubmittedIsWhole
CHECK_DEADLOCK FALSE
