CONSTANTS
  Upload = {v1, v2, v3}
  DocId = {d1}
  Handler = {h1, h2}
  MaxRuns = 2
  Casts <- MCCasts
  DurUpload = {v1, v2, v3}
  DurDocId = {tiedGrant, untiedGrant}
  DurHandler = {h1, h2}
  DurMaxRuns = 2
  DurCasts <- MCDurCasts
  MaxAttempts = 2
  NoUpload = NoUpload
SPECIFICATION UlbFormsSpec
SYMMETRY Symmetry
INVARIANTS UlbFormsTypeOK PassedOnEvidence SettledOncePerRun StrikesAreEarned QueueMatchesHistory ApprovedIsWhole NoneIsStranded DurPassedOnEvidence DurSubmittedPassed
PROPERTY ReviewedFileStays
CHECK_DEADLOCK FALSE
