CONSTANTS
  Upload = {}
  DocId = {d1}
  Handler = {}
  MaxRuns = 1
  Casts <- MCResting
  DurUpload = {v1}
  DurDocId = {tiedGrant}
  DurHandler = {h1}
  DurMaxRuns = 2
  DurCasts <- MCRetried
  MaxAttempts = 2
  NoUpload = NoUpload
SPECIFICATION UlbFormsSpec
INVARIANT DurStaleResultIsDropped
CHECK_DEADLOCK FALSE
