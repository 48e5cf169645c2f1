------------------------------ MODULE JobStore ------------------------------
(***************************************************************************)
(* The durable job store of the research service: SQLiteRepository, as a   *)
(* state machine over its tables.  Every action is one SQLite transaction  *)
(* of one repository method, so it is atomic: it commits as a whole, or it *)
(* raises, rolls back and leaves the tables alone (a stuttering step).     *)
(* Refusals by the persisted-byte ledger are such rollbacks; the ledger    *)
(* itself is the subject of PersistedBudget.                               *)
(*                                                                         *)
(* Time is abstracted to the only thing the store asks of it: whether the  *)
(* deadline of a job has passed, a flag that is raised once and stays up.  *)
(* created_at is abstracted to the order in which jobs were created.       *)
(***************************************************************************)
EXTENDS Naturals, FiniteSets

CONSTANTS
  JobIds,            \* the uuids a job may get; one is free again once its job is deleted
  Hashes,            \* request hashes
  Keys,              \* idempotency keys
  Policies,          \* provider policies: the (backend, model) pair recorded by a claim
  FailoverPolicies,  \* those whose backend name contains "->"
  Configs,           \* [ceiling, policy]: what one service process is configured with
  MaxAttempts,       \* the largest retry ceiling of any configuration
  MaxCalls,          \* bound: physical provider calls recorded per attempt
  MaxQueued,         \* Settings.max_queued_jobs
  RetentionLimit,    \* the limit argument of cleanup_retention
  NoHash, NoKey, NoPolicy

ASSUME StoreAssumption ==
  /\ MaxAttempts \in Nat \ {0}
  /\ MaxCalls \in Nat
  /\ MaxQueued \in Nat \ {0}
  /\ RetentionLimit \in Nat \ {0}
  /\ FailoverPolicies \subseteq Policies
  /\ Configs \subseteq [ceiling : 1..MaxAttempts, policy : Policies]
  /\ Configs # {}
  /\ NoHash \notin Hashes
  /\ NoKey \notin Keys
  /\ NoPolicy \notin Policies

VARIABLES
  job,       \* research_jobs: one row per job id
  attempts,  \* attempts: the rows of a job, by attempt number
  calls,     \* provider_calls: how each row of an attempt ended, by position
  keyRow,    \* idempotency_keys: key -> (request hash, job id)
  older,     \* the pairs <<i, j>> of existing jobs with i created before j
  config     \* the settings of the running service process

vars == <<job, attempts, calls, keyRow, older, config>>

-----------------------------------------------------------------------------
(* Rows *)

Active == {"framing", "rolling_out", "critiquing", "synthesizing"}
Terminal == {"succeeded", "failed", "cancelled"}
NonTerminal == Active \union {"queued"}
JobStates == NonTerminal \union Terminal \union {"absent"}

\* "settled" stands for every code the engine may pass to settle_terminal.
Errors == {"none", "settled", "CANCELLED", "DEADLINE_EXCEEDED", "RETRY_EXHAUSTED",
           "PROVIDER_POLICY_DRIFT", "PROVIDER_ATTEMPT_INTERRUPTED"}

AttemptNumbers == 1..MaxAttempts
CallSlots == 1..MaxCalls

JobRow == [state : JobStates, hash : Hashes \union {NoHash}, cancel : BOOLEAN,
           expired : BOOLEAN, attempt : 0..MaxAttempts, error : Errors]

\* cancel is cancellation_requested; attempt = 0 stands for attempt_id NULL.
NoJob == [state |-> "absent", hash |-> NoHash, cancel |-> FALSE,
          expired |-> FALSE, attempt |-> 0, error |-> "none"]

AttemptRow == [state : {"none", "active", "terminal", "abandoned"},
               policy : Policies \union {NoPolicy}]

NoAttemptRow == [state |-> "none", policy |-> NoPolicy]
NoAttempts == [a \in AttemptNumbers |-> NoAttemptRow]

\* "ended" stands for every status finish_provider_call may record.
CallStatuses == {"none", "open", "ended", "uncertain", "cancelled"}
NoCalls == [a \in AttemptNumbers |-> [c \in CallSlots |-> "none"]]

KeyRow == [hash : Hashes \union {NoHash}, job : JobIds \union {NoKey}]
NoKeyRow == [hash |-> NoHash, job |-> NoKey]

TypeOK ==
  /\ job \in [JobIds -> JobRow]
  /\ attempts \in [JobIds -> [AttemptNumbers -> AttemptRow]]
  /\ calls \in [JobIds -> [AttemptNumbers -> [CallSlots -> CallStatuses]]]
  /\ keyRow \in [Keys -> KeyRow]
  /\ older \subseteq JobIds \X JobIds
  /\ config \in Configs

-----------------------------------------------------------------------------
(* The transition relation and the guards the methods share *)

NextStage == [s \in Active |-> CASE s = "framing" -> {"rolling_out"}
                                 [] s = "rolling_out" -> {"critiquing"}
                                 [] s = "critiquing" -> {"synthesizing"}
                                 [] s = "synthesizing" -> {}]

Allowed == [s \in NonTerminal |->
              IF s = "queued" THEN {"framing", "cancelled", "failed"}
                              ELSE NextStage[s] \union Terminal \union {"queued"}]

\* _transition_locked succeeds: the job exists, is not terminal, its current attempt is
\* the caller's (a caller that passes no attempt, 0, is not fenced) and the edge is legal.
CanTransition(j, a, to) ==
  /\ job[j].state \in NonTerminal
  /\ a # 0 => job[j].attempt = a
  /\ to \in Allowed[job[j].state]

\* A late output is admitted although its job was asked to stop.
AcceptsDespiteCancel(j, a) ==
  job[j].attempt = a /\ job[j].state \in NonTerminal /\ ~job[j].expired

AcceptsOutput(j, a) ==
  /\ job[j].attempt = a
  /\ job[j].state \in NonTerminal
  /\ ~job[j].cancel
  /\ ~job[j].expired

Exists(j) == job[j].state # "absent"
Queued == {j \in JobIds : job[j].state = "queued"}

\* Job rows after a transition, and below after one that records a terminal error.
Moved(j, to) == [job EXCEPT ![j].state = to]

MovedWith(j, to, e) == [job EXCEPT ![j].state = to, ![j].error = e]

AttemptEnded(j, a, s) == [attempts EXCEPT ![j][a].state = s]

\* The provider calls of a job with the open ones of the attempts in A closed as status.
Closed(j, A, status) ==
  [a \in AttemptNumbers |-> [c \in CallSlots |->
     IF a \in A /\ calls[j][a][c] = "open" THEN status ELSE calls[j][a][c]]]

-----------------------------------------------------------------------------
(* Submission, cancellation, retention *)

KeyFree(k) == k \in Keys => keyRow[k] = NoKeyRow

\* A submission that inserts a job.  The replay of a known key and its refusals
\* (IDEMPOTENCY_CONFLICT, QUEUE_FULL) write nothing.
CreateJob(j, h, k) ==
  /\ ~Exists(j)
  /\ KeyFree(k)
  /\ Cardinality(Queued) < MaxQueued
  /\ job' = [job EXCEPT ![j] = [NoJob EXCEPT !.state = "queued", !.hash = h]]
  /\ keyRow' = [x \in Keys |-> IF x = k THEN [hash |-> h, job |-> j] ELSE keyRow[x]]
  /\ older' = older \union {<<i, j>> : i \in {i \in JobIds : Exists(i)}}
  /\ UNCHANGED <<attempts, calls, config>>

\* A queued job is cancelled on the spot, without raising cancellation_requested.
CancelQueued(j) ==
  /\ job[j].state = "queued"
  /\ job' = MovedWith(j, "cancelled", "CANCELLED")
  /\ UNCHANGED <<attempts, calls, keyRow, older, config>>

\* A running job only gets the durable request; its engine task settles it later.
CancelActive(j) ==
  /\ job[j].state \in Active
  /\ job' = [job EXCEPT ![j].cancel = TRUE]
  /\ UNCHANGED <<attempts, calls, keyRow, older, config>>

RequestCancel(j) == CancelQueued(j) \/ CancelActive(j)

\* The idempotency_keys table is left out of the deletion.
KeysKept(S) == keyRow

\* The deletion from idempotency_keys is not restricted to the jobs of the sweep.
KeysForgotten(S) == [k \in Keys |-> NoKeyRow]

KeysWithout(S) == [k \in Keys |-> IF keyRow[k].job \in S THEN NoKeyRow ELSE keyRow[k]]

\* One pass of cleanup_retention over the terminal jobs S whose updated_at is past the
\* cutoff: their rows go from every table, in one transaction.
CleanupRetention(S) ==
  /\ S # {}
  /\ Cardinality(S) <= RetentionLimit
  /\ \A j \in S : job[j].state \in Terminal
  /\ job' = [j \in JobIds |-> IF j \in S THEN NoJob ELSE job[j]]
  /\ attempts' = [j \in JobIds |-> IF j \in S THEN NoAttempts ELSE attempts[j]]
  /\ calls' = [j \in JobIds |-> IF j \in S THEN NoCalls ELSE calls[j]]
  /\ keyRow' = KeysWithout(S)
  /\ older' = {p \in older : p[1] \notin S /\ p[2] \notin S}
  /\ UNCHANGED config

\* The wall clock passes the deadline of a job that is still running (nothing reads the
\* deadline of a terminal job).
DeadlinePasses(j) ==
  /\ job[j].state \in NonTerminal
  /\ job' = [job EXCEPT ![j].expired = TRUE]
  /\ UNCHANGED <<attempts, calls, keyRow, older, config>>

-----------------------------------------------------------------------------
(* Claiming the next job *)

\* Any queued job is claimed.
HeadAnyOrder(j) == job[j].state = "queued" /\ ~job[j].cancel

\* The oldest queued job that nobody asked to cancel.
Head(j) ==
  /\ job[j].state = "queued"
  /\ ~job[j].cancel
  /\ \A i \in JobIds : <<i, j>> \in older => job[i].state # "queued" \/ job[i].cancel

HasAttempt(j, a) == attempts[j][a].state # "none"

\* n is 1 + MAX(number) over the attempts of j.
IsNextAttempt(j, n) ==
  /\ n > 1 => HasAttempt(j, n - 1)
  /\ \A a \in AttemptNumbers : HasAttempt(j, a) => a < n

\* Only the policy of the running service is looked at.
DriftedNow(j) ==
  HasAttempt(j, 1) /\ config.policy \in FailoverPolicies /\ attempts[j][1].policy # config.policy

\* The first attempt ran under another policy, and one of the two is a failover policy.
Drifted(j) ==
  /\ HasAttempt(j, 1)
  /\ {attempts[j][1].policy, config.policy} \cap FailoverPolicies # {}
  /\ attempts[j][1].policy # config.policy

WithinCeiling(n) == n <= config.ceiling

\* The three ways a claim ends without an attempt: it fails the head job and returns None.
ClaimExpired(j) ==
  /\ Head(j)
  /\ job[j].expired
  /\ job' = MovedWith(j, "failed", "DEADLINE_EXCEEDED")
  /\ UNCHANGED <<attempts, calls, keyRow, older, config>>

ClaimDrifted(j) ==
  /\ Head(j)
  /\ ~job[j].expired
  /\ Drifted(j)
  /\ job' = MovedWith(j, "failed", "PROVIDER_POLICY_DRIFT")
  /\ UNCHANGED <<attempts, calls, keyRow, older, config>>

ClaimExhausted(j) ==
  /\ Head(j)
  /\ ~job[j].expired
  /\ ~Drifted(j)
  /\ \E n \in 1..(MaxAttempts + 1) : IsNextAttempt(j, n) /\ ~WithinCeiling(n)
  /\ job' = MovedWith(j, "failed", "RETRY_EXHAUSTED")
  /\ UNCHANGED <<attempts, calls, keyRow, older, config>>

ClaimAttempt(j) ==
  /\ Head(j)
  /\ ~job[j].expired
  /\ ~Drifted(j)
  /\ \E n \in 1..(MaxAttempts + 1) :
       /\ IsNextAttempt(j, n)
       /\ WithinCeiling(n)
       /\ attempts' = [attempts EXCEPT ![j][n] = [state |-> "active", policy |-> config.policy]]
       /\ job' = [job EXCEPT ![j].attempt = n, ![j].state = "framing"]
  /\ UNCHANGED <<calls, keyRow, older, config>>

ClaimNextJob(j) == ClaimExpired(j) \/ ClaimDrifted(j) \/ ClaimExhausted(j) \/ ClaimAttempt(j)

-----------------------------------------------------------------------------
(* What the task of an attempt writes *)

\* transition(j, to, a), which the engine calls for the stages after framing.
Transition(j, a, to) ==
  /\ AcceptsOutput(j, a)
  /\ CanTransition(j, a, to)
  /\ job' = Moved(j, to)
  /\ UNCHANGED <<attempts, calls, keyRow, older, config>>

\* settle_terminal(j, to, a, error): only success is fenced by cancellation and deadline.
SettleTerminal(j, a, to, e) ==
  /\ to \in Terminal
  /\ to = "succeeded" => AcceptsOutput(j, a)
  /\ CanTransition(j, a, to)
  /\ job' = MovedWith(j, to, e)
  /\ attempts' = AttemptEnded(j, a, "terminal")
  /\ UNCHANGED <<calls, keyRow, older, config>>

SettleSucceeded(j, a) == SettleTerminal(j, a, "succeeded", "none")
SettleFailed(j, a) == SettleTerminal(j, a, "failed", "settled")

\* The one caller that cancels first checks that a cancellation was requested.
SettleCancelled(j, a) == job[j].cancel /\ SettleTerminal(j, a, "cancelled", "CANCELLED")

\* The rows of an attempt fill in order: c is the next free one.
AddProviderCall(j, a, c) ==
  /\ AcceptsOutput(j, a)
  /\ \A d \in CallSlots : calls[j][a][d] = "none" <=> d >= c
  /\ calls' = [calls EXCEPT ![j][a][c] = "open"]
  /\ UNCHANGED <<job, attempts, keyRow, older, config>>

\* finish_provider_call does not ask whether the row is still open.
FinishProviderCall(j, a, c) ==
  /\ calls[j][a][c] # "none"
  /\ AcceptsOutput(j, a)
  /\ calls' = [calls EXCEPT ![j][a][c] = "ended"]
  /\ UNCHANGED <<job, attempts, keyRow, older, config>>

\* settle_cancelled_provider_call does not ask whether the job is terminal.
SettleCancelledCall(j, a, c) ==
  /\ calls[j][a][c] = "open"
  /\ job[j].attempt = a
  /\ job[j].cancel
  /\ calls' = [calls EXCEPT ![j][a][c] = "cancelled"]
  /\ UNCHANGED <<job, attempts, keyRow, older, config>>

-----------------------------------------------------------------------------
(* recover_startup: one transaction over every job, run by the next service process  *)
(* before any of its workers starts.  The process before it may have stopped at any  *)
(* point, so the step is always possible; g is the configuration of the new process. *)

Finished(j) == job[j].state \in Terminal

\* Jobs to cancel, whether or not they are still running.
CancelRequested(j) == job[j].cancel /\ Exists(j)

Cancelling(j) == job[j].cancel /\ job[j].state \in NonTerminal

Interrupted(j, a) ==
  /\ attempts[j][a].state = "active"
  /\ job[j].state \in Active
  /\ ~job[j].cancel

\* Only calls that are still open speak against a replay.
OpenCallsForbid(j, a) ==
  /\ attempts[j][a].policy \in FailoverPolicies
  /\ \E c \in CallSlots : calls[j][a][c] = "open"

\* An attempt under a failover policy that reached a provider is not replayed.
MustNotReplay(j, a) ==
  /\ attempts[j][a].policy \in FailoverPolicies
  /\ \E c \in CallSlots : calls[j][a][c] # "none"

InterruptedJob(j, g) ==
  LET a == job[j].attempt IN
  CASE MustNotReplay(j, a) ->
         [job[j] EXCEPT !.state = "failed", !.error = "PROVIDER_ATTEMPT_INTERRUPTED"]
    [] ~MustNotReplay(j, a) /\ a < g.ceiling ->
         [job[j] EXCEPT !.state = "queued", !.attempt = 0, !.error = "none"]
    [] ~MustNotReplay(j, a) /\ a >= g.ceiling ->
         [job[j] EXCEPT !.state = "failed", !.error = "RETRY_EXHAUSTED"]

RecoveredJob(j, g) ==
  CASE Cancelling(j) -> [job[j] EXCEPT !.state = "cancelled", !.error = "CANCELLED"]
    [] \E a \in AttemptNumbers : Interrupted(j, a) -> InterruptedJob(j, g)
    [] OTHER -> job[j]

\* Only the attempts of jobs that run on are abandoned.
RecoveredAttemptUncancelled(j, a) ==
  IF Interrupted(j, a) THEN [attempts[j][a] EXCEPT !.state = "abandoned"] ELSE attempts[j][a]

RecoveredAttempt(j, a) ==
  CASE Finished(j) /\ attempts[j][a].state = "active" ->
         [attempts[j][a] EXCEPT !.state = "terminal"]
    [] (Cancelling(j) /\ job[j].attempt = a) \/ Interrupted(j, a) ->
         [attempts[j][a] EXCEPT !.state = "abandoned"]
    [] OTHER -> attempts[j][a]

\* Rows left open by a job that was already terminal are closed now; those of a job the
\* same recovery cancels, or queues again, stay open.
RecoveredCalls(j) ==
  CASE Finished(j) ->
         Closed(j, AttemptNumbers, IF job[j].state = "cancelled" THEN "cancelled" ELSE "uncertain")
    [] OTHER ->
         Closed(j, {a \in AttemptNumbers : Interrupted(j, a) /\ MustNotReplay(j, a)}, "uncertain")

RecoverStartup(g) ==
  /\ job' = [j \in JobIds |-> RecoveredJob(j, g)]
  /\ attempts' = [j \in JobIds |-> [a \in AttemptNumbers |-> RecoveredAttempt(j, a)]]
  /\ calls' = [j \in JobIds |-> RecoveredCalls(j)]
  /\ config' = g
  /\ UNCHANGED <<keyRow, older>>

-----------------------------------------------------------------------------

Init ==
  /\ job = [j \in JobIds |-> NoJob]
  /\ attempts = [j \in JobIds |-> NoAttempts]
  /\ calls = [j \in JobIds |-> NoCalls]
  /\ keyRow = [k \in Keys |-> NoKeyRow]
  /\ older = {}
  /\ config \in Configs

AttemptStep(j, a) ==
  \/ \E to \in Active : Transition(j, a, to)
  \/ SettleSucceeded(j, a)
  \/ SettleFailed(j, a)
  \/ SettleCancelled(j, a)
  \/ \E c \in CallSlots : AddProviderCall(j, a, c)
  \/ \E c \in CallSlots : FinishProviderCall(j, a, c)
  \/ \E c \in CallSlots : SettleCancelledCall(j, a, c)

JobStep(j) ==
  \/ \E h \in Hashes, k \in Keys \union {NoKey} : CreateJob(j, h, k)
  \/ RequestCancel(j)
  \/ DeadlinePasses(j)
  \/ ClaimNextJob(j)
  \/ \E a \in AttemptNumbers : AttemptStep(j, a)

Next ==
  \/ \E j \in JobIds : JobStep(j)
  \/ \E S \in SUBSET JobIds : CleanupRetention(S)
  \/ \E g \in Configs : RecoverStartup(g)

Spec == Init /\ [][Next]_vars

-----------------------------------------------------------------------------
(* Properties *)

\* A job has a current attempt exactly while it is past the queue, that attempt is the
\* only active one while the job runs, and none is active otherwise: recovery, settlement
\* and claims (repository.py:673-959) never leave two runs of one job, or a run of none.
AttemptDiscipline ==
  \A j \in JobIds :
    /\ job[j].state \in Active =>
         {a \in AttemptNumbers : attempts[j][a].state = "active"} = {job[j].attempt}
    /\ job[j].state \notin Active =>
         \A a \in AttemptNumbers : attempts[j][a].state # "active"

\* Attempts are numbered without gaps and every attempt before the last was abandoned by
\* a recovery: a job is never run again after one of its attempts was settled.
RerunOnlyAfterAbandon ==
  \A j \in JobIds : \A a \in AttemptNumbers \ {1} :
    HasAttempt(j, a) => attempts[j][a - 1].state = "abandoned"

\* An attempt under a failover policy that reached a provider is the last one of its job,
\* and the job never waits in the queue again ("automatic replay refused",
\* repository.py:890-915).
NoAutomaticReplay ==
  \A j \in JobIds : \A a \in AttemptNumbers :
    /\ attempts[j][a].policy \in FailoverPolicies
    /\ \E c \in CallSlots : calls[j][a][c] # "none"
    => /\ job[j].state # "queued"
       /\ \A b \in AttemptNumbers : HasAttempt(j, b) => b <= a

\* All attempts of a job that ever ran under a failover policy ran under the same policy,
\* whatever configurations the restarts in between had (repository.py:713-744).
OneFailoverPolicy ==
  \A j \in JobIds : \A a, b \in AttemptNumbers :
    /\ HasAttempt(j, a) /\ HasAttempt(j, b)
    /\ attempts[j][a].policy \in FailoverPolicies
    => attempts[j][b].policy = attempts[j][a].policy

\* A durable cancellation request survives restarts: the job is never queued again and
\* never succeeds (repository.py:837-872 runs before any claim).
CancelIsDurable ==
  \A j \in JobIds : job[j].cancel => job[j].state \in Active \union {"failed", "cancelled"}

\* A terminal job is frozen (state, error, attempt, cancellation) until retention deletes
\* it, through restarts and late calls of its task (repository.py:497-499).
TerminalIsFinal ==
  [][\A j \in JobIds : job[j].state \in Terminal => job'[j] \in {job[j], NoJob}]_vars

\* Every terminal job says why it did not succeed, and no other job carries an error: the
\* transition and the error are two statements of every handler that ends a job.
ErrorExplainsOutcome ==
  \A j \in JobIds : job[j].error # "none" <=> job[j].state \in {"failed", "cancelled"}

\* An idempotency key names a job that exists and was created with the key's request hash.
KeyNamesItsJob ==
  \A k \in Keys : keyRow[k] # NoKeyRow =>
    /\ keyRow[k].job \in JobIds
    /\ Exists(keyRow[k].job)
    /\ job[keyRow[k].job].hash = keyRow[k].hash

\* A key never moves to another job while the job it names exists: a retried submission
\* cannot start the research twice (repository.py:405-413).
KeyIsStable ==
  [][\A k \in Keys : keyRow[k] # NoKeyRow =>
       keyRow'[k] = keyRow[k] \/ job'[keyRow[k].job].state = "absent"]_vars

\* The audit verdict of a call that was closed as uncertain or cancelled is never
\* rewritten by late output (finish_provider_call does not look at ended_at).
VerdictIsFinal ==
  [][\A j \in JobIds, a \in AttemptNumbers, c \in CallSlots :
       calls[j][a][c] \in {"uncertain", "cancelled"} =>
         calls'[j][a][c] = calls[j][a][c] \/ job'[j].state = "absent"]_vars

\* The worker claims in order of creation: no job is started while an older one that
\* nobody asked to cancel is still waiting, also after the older one was queued again.
ClaimsOldestFirst ==
  [][\A i, j \in JobIds :
       /\ <<i, j>> \in older
       /\ job[j].state = "queued" /\ job'[j].state = "framing"
       => job[i].state # "queued"]_vars

-----------------------------------------------------------------------------
(* The inductive invariant behind these properties *)

\* The attempts of j are 1..n for some n, all of them abandoned while j is queued.
AttemptHistory(j) ==
  /\ \E n \in 0..MaxAttempts : \A a \in AttemptNumbers : HasAttempt(j, a) <=> a <= n
  /\ \A a \in AttemptNumbers : HasAttempt(j, a) \/ attempts[j][a] = NoAttemptRow
  /\ \A a \in AttemptNumbers \ {1} : HasAttempt(j, a) => attempts[j][a - 1].state = "abandoned"
  /\ job[j].state = "queued" =>
       \A a \in AttemptNumbers : HasAttempt(j, a) => attempts[j][a].state = "abandoned"

\* A running job has an active attempt, its last; no other attempt of it is active.
CurrentAttempt(j) ==
  /\ job[j].state \in Active =>
       /\ job[j].attempt \in AttemptNumbers
       /\ attempts[j][job[j].attempt].state = "active"
       /\ \A a \in AttemptNumbers : HasAttempt(j, a) => a <= job[j].attempt
  /\ \A a \in AttemptNumbers : attempts[j][a].state = "active" =>
       job[j].state \in Active /\ job[j].attempt = a

\* What the columns of a job row say about each other.
JobColumns(j) ==
  /\ job[j].cancel => job[j].state \in Active \union {"failed", "cancelled"}
  /\ job[j].error # "none" <=> job[j].state \in {"failed", "cancelled"}
  /\ job[j].state = "queued" => job[j].attempt = 0
  /\ job[j].state = "absent" =>
       job[j] = NoJob /\ attempts[j] = NoAttempts /\ calls[j] = NoCalls

PoliciesOf(j) ==
  /\ \A a \in AttemptNumbers :
       MustNotReplay(j, a) =>
         /\ job[j].state # "queued"
         /\ \A b \in AttemptNumbers : HasAttempt(j, b) => b <= a
  /\ \A a, b \in AttemptNumbers :
       /\ HasAttempt(j, a) /\ HasAttempt(j, b)
       /\ attempts[j][a].policy \in FailoverPolicies
       => attempts[j][b].policy = attempts[j][a].policy

JobInv(j) == AttemptHistory(j) /\ CurrentAttempt(j) /\ JobColumns(j) /\ PoliciesOf(j)

StoreInv == TypeOK /\ (\A j \in JobIds : JobInv(j)) /\ KeyNamesItsJob

-----------------------------------------------------------------------------
(* The store implements the lifecycle: a job's runs are its attempts. *)

RunsOf(j) ==
  CHOOSE n \in 0..MaxAttempts : \A a \in AttemptNumbers : HasAttempt(j, a) <=> a <= n

LC == INSTANCE JobLifecycle WITH
        Jobs <- JobIds,
        MaxRuns <- MaxAttempts,
        stage <- [j \in JobIds |-> job[j].state],
        runs <- [j \in JobIds |-> RunsOf(j)],
        asked <- [j \in JobIds |-> job[j].cancel]

\* Each step of the store is, for every job at once, a step of that job's lifecycle or
\* none: specification.md REQ-007, with its retry ceiling and its durable cancellation.
RefinesLifecycle == LC!Lifecycle

=============================================================================
