\* Two jobs on two workers, one branch each; the deadlines of the second job coincide.
SPECIFICATION Spec
CONSTANTS
  Jobs = {j1, j2}
  Workers = {w1, w2}
  Branches = {b1}
  Main = Main
  Nobody = Nobody
  RolloutPermits = 1
  MaxRuns = 1
  OneDeadline = {j2}
  Answers = {"valid", "error"}
INVARIANTS
  PermitsConserved
  RunningIsOwned
