----------------------------- MODULE MCJobStore -----------------------------
(***************************************************************************)
(* JobStore on small sets, for two questions.  MCJobHistory.cfg follows    *)
(* one job through every history three attempts and changing service       *)
(* configurations can give it; MCJobQueue.cfg has two jobs that share the  *)
(* queue, an idempotency key and the retention sweep.                      *)
(***************************************************************************)
EXTENDS JobStore, TLC

CONSTANTS plain, failover

\* A restart may change the provider policy, and lower the retry ceiling.
HistoryConfigs == {[ceiling |-> 3, policy |-> plain],
                   [ceiling |-> 3, policy |-> failover],
                   [ceiling |-> 2, policy |-> plain]}

QueueConfigs == {[ceiling |-> 2, policy |-> failover]}

Symmetry == Permutations(JobIds) \union Permutations(Hashes)

=============================================================================
