\* One job, whose hard deadline may pass at any point of its run.
SPECIFICATION FairSpec
CONSTANTS
  Jobs = {j1}
  Workers = {w1}
  Branches = {b1}
  Main = Main
  Nobody = Nobody
  RolloutPermits = 1
  MaxRuns = 1
  OneDeadline = {}
  Answers = {"valid"}
PROPERTY NoJobActiveForever
