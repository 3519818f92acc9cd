CONSTANTS
  Filing = {t1, t2}
  NoFiling = NoFiling
  Decision = {q1, q2}
  FormId = {sfcForm, otherForm}
  SfcForm = sfcForm
  Saver = {w1}
  Submitter = {s1}
  Reviewer = {p1}
  NoRequest = NoRequest
  FcUlb = {u1, u2}
  FcFormDoc = FcFormDoc
  FcRequest = {t1, t2}
  FcMaxSaves = 3
  FcCasts <- TwoReviewers
  EulbUlb = {u1, u2}
  EulbRequest = {t1, t2}
  EulbMaxOps = 4
  EulbCasts <- NoEulbScene
  DfUlb = {u1, u2}
  DfRequest = {t1, t2}
  DfMaxOps = 5
  DfAmount = {1, 3}
  DfGrant = {2, 4}
  DfCasts <- NoDfScene
SPECIFICATION FormsSpec
SYMMETRY Symmetry
INVARIANT PmuCanDecide
CHECK_DEADLOCK FALSE
