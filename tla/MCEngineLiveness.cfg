\* Two jobs on one worker, with one branch each.
SPECIFICATION FairSpec
CONSTANTS
  Jobs = {j1, j2}
  Workers = {w1}
  Branches = {b1}
  Main = Main
  Nobody = Nobody
  RolloutPermits = 1
  MaxRuns = 1
  OneDeadline = {j2}
  Answers = {"valid", "error"}
PROPERTIES
  RunEnds
  QueueIsServed
  StopEnds
