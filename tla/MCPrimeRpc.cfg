CONSTANTS
  i1 = i1
  i2 = i2
  Ids = {i1, i2}
  c1 = c1
  c2 = c2
  CallIds = {c1, c2}
  Updates <- MCUpdates
  Texts = {"answer", "long"}
  LongTexts = {"long"}
  None = None
  Bytes <- MCBytes
  Snapshot <- MCSnapshot
  Floor = 1
  RawLimit = 12
  AccountedLimit = 10
  SemanticLimit = 8
  TelemetryLimit = 1
  ControlLimit = 1
  MaxOfKind <- MCMaxOfKind
  MaxIdle = 1
  MaxCancels = 1
SPECIFICATION Spec
SYMMETRY MCSymmetry
INVARIANTS
  AnswerIsProven
  StageIsEarned
  NothingLeftBehind
CHECK_DEADLOCK FALSE
