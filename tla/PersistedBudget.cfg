\* Row sizes in bytes; a limit of 20000 as in tests/test_remediation.py:1572, so that after
\* the reserve there is room for one large request or a handful of rows.
SPECIFICATION Spec
CONSTANTS
  Limit = 20000
  Reserve = 16384
  NewJobs = {620, 3250}
  Outputs = {90, 900}
  Calls = {300}
  CallEnd = 41
  MaxOpen = 3
  Moves = {180, 420}
  Attempt = 170
  Closing = 60
  ErrorSizes = {0, 110, 4200}
  OwnError = 120
INVARIANTS
  ReserveKept
  EndNeverRefused
