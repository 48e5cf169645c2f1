\* One job, two branches that share one permit, one restart of its run.
SPECIFICATION Spec
CONSTANTS
  Jobs = {j1}
  Workers = {w1}
  Branches = {b1, b2}
  Main = Main
  Nobody = Nobody
  RolloutPermits = 1
  MaxRuns = 2
  OneDeadline = {}
  Answers = {"valid", "malformed", "invalid", "oversized", "error"}
SYMMETRY Symmetry
INVARIANTS
  TypeOK
  BranchesAreJoined
  DeadlinesExplainOutcome
  CancelWins
  OpenCallsAreInFlight
  CompleteMeansComplete
PROPERTIES
  StopLeavesJobsAlone
  RefinesLifecycle
