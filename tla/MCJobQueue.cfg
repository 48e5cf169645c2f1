\* Two jobs of one service configuration: queue order and limit, keys, retention.
SPECIFICATION Spec
CONSTANTS
  JobIds = {j1, j2}
  Hashes = {h1, h2}
  Keys = {k1}
  plain = plain
  failover = failover
  Policies = {failover}
  FailoverPolicies = {failover}
  Configs <- QueueConfigs
  MaxAttempts = 2
  MaxCalls = 1
  MaxQueued = 2
  RetentionLimit = 2
  NoHash = NoHash
  NoKey = NoKey
  NoPolicy = NoPolicy
SYMMETRY Symmetry
INVARIANTS
  KeyNamesItsJob
PROPERTIES
  KeyIsStable
  ClaimsOldestFirst
