CONSTANTS
  Batch = {b1, b2}
  Ulb = {u1, u2}
  Key = {k1, k2}
  ChunkSize = 2
  MaxBatchNumber = 2
  Editor = {}
  Faults = {}
  Misreported = {}
  Submitter = {s1, s2}
  Saver = {}
  MaxSaves = 0
  Path = {p1}
  NoKey = NoKey
  NoBatch = NoBatch
  NoEditor = NoEditor
  NoPath = NoPath
SPECIFICATION LetterSpec
SYMMETRY Symmetry
INVARIANTS AtMostOneUnderReview
CHECK_DEADLOCK FALSE
