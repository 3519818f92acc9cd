CONSTANTS
  Batch = {b1, b2}
  Ulb = {u1, u2}
  Key = {k1}
  ChunkSize = 2
  MaxBatchNumber = 2
  Editor = {e1, e2}
  Faults = {"read", "prepare", "delete", "persist", "totals", "verify", "commit", "undo", "restore", "unlock", "release", "crash"}
  Misreported = {"prepare", "delete", "persist", "commit", "undo", "unlock"}
  Submitter = {s1, s2}
  Saver = {w1}
  MaxSaves = 1
  Path = {p1, p2}
  NoKey = NoKey
  NoBatch = NoBatch
  NoEditor = NoEditor
  NoPath = NoPath
SPECIFICATION ScenesSpec
SYMMETRY Symmetry
INVARIANTS LetterTypeOK SubmittedIsWhole DraftIsWholeIfRestored SignedLetterIsCurrent SubmittedArtifacts AtMostOneUnderReview SubmitAuditTrail ClaimedStaysLocked
PROPERTIES ReviewIsFrozen NoLostUpdate
CHECK_DEADLOCK FALSE
