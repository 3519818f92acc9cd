CONSTANTS
  Filing = {t1, t2}
  NoFiling = NoFiling
  Decision = {q1, q2}
  FormId = {sfcForm, otherForm}
  SfcForm = sfcForm
  Saver = {w1}
  Submitter = {s1}
  Reviewer = {p1}
  NoRequest = NoRequest
  FcUlb = {u1, u2}
  FcFormDoc = FcFormDoc
  FcRequest = {t1, t2}
  FcMaxSaves = 3
  FcCasts <- AllScenes
  EulbUlb = {u1, u2}
  EulbRequest = {t1, t2}
  EulbMaxOps = 5
  EulbCasts <- AllEulbScenes
  DfUlb = {u1, u2}
  DfRequest = {t1, t2}
  DfMaxOps = 5
  DfAmount = {1, 3}
  DfGrant = {2, 4}
  DfCasts <- AllDfScenes
SPECIFICATION FormsSpec
SYMMETRY Symmetry
CONSTRAINT TwoAtOnce
INVARIANTS FormsTypeOK LogTellsEntries HistoryIsTrue ReviewIsOfTheSubmit PmuCanDecideUnlessSkewed DatasetsAreWhole ApprovedRowByRowUnlessTangled DfAddsUpUnlessTangled
PROPERTIES ImplementsLife UnderReviewIsFrozen ApprovedRowsAreKept ApprovedRowsChangeOnRecord
CHECK_DEADLOCK FALSE
