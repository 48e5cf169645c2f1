\* One job: up to three attempts, two recorded provider calls each, three configurations.
SPECIFICATION Spec
CONSTANTS
  JobIds = {j1}
  Hashes = {h1}
  Keys = {}
  plain = plain
  failover = failover
  Policies = {plain, failover}
  FailoverPolicies = {failover}
  Configs <- HistoryConfigs
  MaxAttempts = 3
  MaxCalls = 2
  MaxQueued = 1
  RetentionLimit = 1
  NoHash = NoHash
  NoKey = NoKey
  NoPolicy = NoPolicy
INVARIANTS
  AttemptDiscipline
  NoAutomaticReplay
  OneFailoverPolicy
  CancelIsDurable
PROPERTIES
  TerminalIsFinal
  VerdictIsFinal
  RefinesLifecycle
