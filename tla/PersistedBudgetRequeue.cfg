\* The same sizes: an interrupted job whose output left little beside the reserve.
SPECIFICATION Spec
CONSTANTS
  Limit = 20000
  Reserve = 16384
  NewJobs = {620}
  Outputs = {90, 900}
  Calls = {300}
  CallEnd = 41
  MaxOpen = 3
  Moves = {180, 420}
  Attempt = 170
  Closing = 60
  ErrorSizes = {0, 110, 4200}
  OwnError = 120
INVARIANT RequeueNeverRefused
