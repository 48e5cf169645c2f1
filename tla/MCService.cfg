CONSTANTS
  s1 = s1
  s2 = s2
  c1 = c1
  Services = {s1, s2}
  Calls = {c1}
  CallsOf <- MCCallsOf
  MaySurvive = TRUE
  MaxSwaps = 1
  MaxFaults = 1
SPECIFICATION FairSpec
INVARIANTS
  OneOwner
  QuietWhenDown
  GroupGoneBeforeAnswer
  CancelIsNeverAnswered
PROPERTIES
  DrainsEnd
CHECK_DEADLOCK FALSE
