CONSTANTS
  Filing = {r1}
  NoFiling = NoFiling
  Decision = {q1}
  FormId = {sfcForm}
  SfcForm = sfcForm
  Saver = {w1}
  Submitter = {s1}
  Reviewer = {p1, p2}
  NoRequest = NoRequest
SPECIFICATION StateFormsSpec
SYMMETRY Symmetry

PROPERTY SettledByPmu
CHECK_DEADLOCK FALSE
