# Verification of the research service

TLA+ models of `thinkroom`, checked with TLC and proved about with TLAPS. The
models are translated from `src/src/thinkroom/`; the map in `PROJECT.json` names
the lines behind every definition.

## The system

A research job is submitted through REST, MCP, CLI or the SDK, stored in SQLite,
claimed by a worker of the engine, and taken through five provider phases
(frame, fork, rollouts, critique, synthesis) to a terminal state.

| Component | State | Operations | Interacts with |
|---|---|---|---|
| Job store `repository.py` | the tables `research_jobs`, `attempts`, `provider_calls`, `artifacts`, `state_transitions`, `idempotency_keys`; the byte ledger derived from them | `create_job`, `claim_next_job`, `transition`, `settle_terminal`, `add_/finish_/settle_cancelled_provider_call`, `put_artifact`, `request_cancel`, `recover_startup`, `cleanup_retention` | called by engine, interfaces and retention loop; one SQLite transaction per call |
| Engine `engine.py` | workers, one asyncio task per job, branch tasks, two semaphores, detached provider tasks | `submit`, `cancel`, `start`, `stop`, `recover`, `run`, `_phase`, `_invoke_provider_bounded` | store, backend |
| Failover backend `backends.py` | call identities; a circuit rebuilt from audit rows | `invoke_with_audit` | two routes, the store through the audit adapter |
| Prime Agent adapter `backends.py` | the locals of one RPC session, its process, its directory | `invoke`, one handler per event | a subprocess and the child it admits |
| Process isolation `process_backend.py` | child processes, receivers, deferred cancellations | `invoke`, stop and drain | a process group, the engine that cancels |
| Service `service.py` | lock, database custody, readiness, retention task | `start`, `stop` | store, engine, provider calls |
| Progress view `progress.py` | none | `derive_research_progress` | rows of the store |
| Skills installer `skills.py` | files and a receipt | `install`, `uninstall`, `status` | file system |
| Interfaces, schemas, packs, scripts | none | | |

What is hard here: a cancellation arrives at any await of a task, or before its
first step; two deadlines pass at any point, and every write asks again whether
the hard one has; the process dies between any two transactions and the next one
runs with other settings; a provider call may never end and keeps its permit;
branches of one job run beside each other; the ledger of a job may be full when
the job has to end; a provider process may ignore every signal while its caller
cancels, stops or dies; two services start on one path; a file is replaced between
the look at it and the change. `PROJECT.json` lists these as hazards, each at its line.

What makes the components correct:

- Store: at most one run per job, reruns only after an interruption, no replay of
  failover attempts, durable cancellation, frozen outcomes, keys that stay with
  their job, claims in order of creation, room for the end of every job.
- Engine: branches are joined, permits conserved, every running job owned, the
  outcome agrees with deadlines, cancellation and the fate of the branches, runs
  end and the service stops whatever providers do.
- Failover: at most three calls per phase and branch, no call of an open circuit,
  nothing crosses providers after a cancellation or a semantic failure.
- Process isolation: no answer before the group of a child is gone, a cancellation
  during the drain is not lost, and the drain ends.
- Service: one owner of the database, and nothing left behind a clean end.
- Prime Agent adapter: an answer exactly when the events prove it, a stage that is
  the strongest evidence read, no process left.
- Skills installer: mutations that have the lock are all or nothing, and nobody's
  bytes are destroyed.

## Modules

| Module | Models |
|---|---|
| `JobLifecycle` | abstract: what the store and the engine promise about one job |
| `JobStore` | every transaction of the repository on jobs, attempts, calls and keys |
| `PersistedBudget` | the byte ledger of one job and the settlement reserve |
| `Engine` | workers, tasks, phases, permits, deadlines, cancellation, stop, crash, restart |
| `Failover` | the calls of one attempt under the failover backend: retry, fallback, repair, circuit |
| `ProcessIsolation` | one provider invocation: child, group, pipe, stop escalation, cancellation |
| `ServiceLifecycle` | processes that start, stop and die on one database path; composes `ProcessIsolation` |
| `PrimeRpc` | the event automaton of one Prime Agent session |
| `SkillsInstaller` | install and uninstall of the managed files |

`MCJobStore`, `MCEngine`, `MCFailover`, `MCService`, `MCPrimeRpc` and `MCSkills` give
the constants their values for TLC. `JobStoreProofs`, `PersistedBudgetProofs`,
`EngineProofs`, `FailoverProofs`, `ServiceProofs`, `PrimeRpcProofs`,
`SkillsProofs` and `SkillsRollbackProofs` hold the theorems. `JobStore` and `Engine` both implement
`JobLifecycle`: the one through its rows, the other through its tasks.

### JobStore

One action is one transaction: it commits, or raises and rolls back, which is a
stuttering step. The columns kept are those a guard or a property reads: `state`,
`cancellation_requested`, `attempt_id` (as the attempt's number), the error code,
attempts with their policy, how each provider call ended, the idempotency keys.
Time is one flag per job, raised when its deadline passes; `created_at` is the
order of creation, which assumes that the wall clock does not run backwards
between submissions. `RecoverStartup(g)` may follow any state: every state is one
the process can die in, and `g` is the configuration of the next process.
`claim_next_job` is four actions, one per way out. The error a failed run settles
with is one value, `"settled"`. `update_job` and `end_attempt` have no caller.

### PersistedBudget

Counts what every transaction adds to the rows of one job. A transaction that
does not fit is refused and rolled back; the model records which kind of
transaction that was. Calls left open are counted because a later startup closes
them without any check. Row sizes are constants; `ReserveAssumption` says that
the reserve covers one transition, one terminal error, the end of an attempt and
of the calls left open. With the limits of `config.py` at most two calls per
attempt and five attempts leave calls open, which is far below 16384 bytes.

### Engine

`task[j]` is the asyncio task of a job, `lane[j][l]` a provider phase in progress:
one lane per branch and `Main` for the serial phases. `loop` says which lane runs
between two awaits, so a block of code without an await is not interrupted, except
by the clock, which every guard and every fenced write reads anew, and by a crash.
`free` and `detached` are the permits of the two semaphores and of the provider
tasks left behind. The store is reduced to the current attempt: `job`, the state
of the latest provider call of each lane, and the fence `Accepts`. A restart closes
only the call rows `recover_startup` closes, those of jobs that had ended before; the
rows it leaves open are forgotten when the next attempt of the job is claimed.

Failures are grouped by what the engine tells apart (see the comment at `Codes`):
`"MALFORMED"` is MALFORMED_PROVIDER_OUTPUT or a schema violation, `"INVALID"` an
answer that fits its schema and fails a semantic check, `"FENCED"` a refused write.
The test of `cancellation_requested` in `_guard` is left out: `cancel` writes the
request and cancels the task without an await in between, so a running task that
finds the request has already been cancelled.

Left out: the ledger's refusals, the failover backend (`Failover` models its calls;
here a call is one call) and the two-second limit after which `stop` raises; the process ends
either way.

### Failover

`calls[l]` are the `provider_calls` rows of a lane, a phase and branch; `lane[l]`
holds the locals of `_invoke` and the repair budget of `_phase`. A step runs a lane
from one await to the next, so ending a failed call, deciding and starting the next
call are one step: nothing else runs in between in the code. The admission lock is
therefore not a variable. The circuit is not one either: as in the code, each
admission sums the rows anew. `Windows` chooses which lanes a behaviour follows; a
serial phase that is not followed was answered at once, which is a start the
program has. The clock counts units. An event that is due runs before the clock
moves, but a route may overrun its timeout while it unwinds, and may then still
raise an error of its own, or fail to stop at all (`RouteBreaks`).

Error codes are grouped by what the ladder does with them; only a provider error
is ever asked how long it took, so a row keeps one flag for that. The soft
deadline and the permits are `Engine`'s; two branches run beside each other, as
with `rollout_provider_concurrency` 2. Left out: call identities, and `invoke`
without an audit, which the engine does not use.

### ProcessIsolation

`call[c]` is the coroutine of one invocation, `child[c]` its leader and the rest of
the group; a step is what the coroutine does between two awaits. `stage` is where
`_stop_process` is: asked, SIGTERM, SIGKILL, then the same for the group. A grace
period may pass at any time, and with `MaySurvive` a process may outlive SIGKILL.
The except clause and the finally clause each stop the process; `why` says which
one is at work, because a failure in the second is not retried. `Receive` takes an
error of the pipe under a living leader (`"broken"`) too; `ReceiveEof` is the end of
file a dead one leaves. Left out: sampled progress metrics, and how an envelope is
read (a message is its kind).

### ServiceLifecycle

One action per step of `start`, and of the unwinding that an error and `stop` share.
A file is the inode a path leads to, so a lock and a connection stay with what was
opened while `Swap` puts another file at the path; a path does not come to lead
back to a former file. `_assert_startup_custody` is checked where the code checks
it. The engine inside is reduced to the provider calls it makes and cancels.
`QuietWhenDown` looks at leaders and helpers of all calls; `NothingSurvives` names the
two ways a process outlives a clean end: `invoke` reported that it could not stop it
(RuntimeError), or it is a helper behind a refused progress envelope (see Findings).
A cancellation of `stop` itself is not modelled.

### PrimeRpc

`s` holds the locals of `invoke` and `run_rpc`, one event is one `Read`, and the
handler of a kind of event is one operator (`OnChild`, `OnToolEnd`, ...). An event
is what the adapter reads off a line; the agent may send any at any time, in any
order. `log` is there for the properties only: it keeps the events that may be
evidence, in order, and leaves out those that say nothing (`Idle`), at most
`MaxIdle` of them. The five limits are constants, the length of a line depends on
its kind. Left out: timestamps, progress metrics and the parsing of a line.

### SkillsInstaller

A mutation plans, opens the root (`OpenRoot`, which creates it for an install), locks it
(`Flock`), takes a snapshot, and walks the managed paths, the receipt last; `proc[m].i` is the file it is at, and an error turns the walk around. `here`
is what the process last knew to be at a path, `goal` and `snap` what it walks
to. One file is removed in three steps (`MoveAside`, `Look`, `Remove`) and written
in two (`Link`, `Check`). `Fault` lets a system call fail; the cleanup inside the
helper that made the call is part of that step. `Crash` may happen anywhere; `Edit`
is somebody who does not take the lock and works on the managed names only. A new
inode has a number nothing refers to, so numbers are reused as kernels do; the guard
`HasFresh` keeps a behaviour within the numbers of `Inodes`, and the 12 of the run
are never all in use. `Root` stands for itself and its missing ancestors. A process may
open the root and another one remove it, as part of its rollback, before the first has
the lock: that process then holds a directory without a name (`"orphaned"`) and fails.
Left out: `status`, which only reads, modes, links, and directories that are
replaced meanwhile.

## Runs

| Run | Question | Bounds |
|---|---|---|
| `JobHistory` | consistency of one job's rows, refinement of the lifecycle | 1 job, 3 attempts, 2 calls each, 3 configurations that differ in policy and ceiling; jobs share nothing but queue and keys |
| `JobQueue` | keys, queue order, retention | 2 jobs, 1 key, 2 hashes, 2 attempts |
| `EngineRun` | outcomes of one run against everything that may happen to it | 1 job, 2 branches, 1 rollout permit, 2 attempts, all answers |
| `EnginePermits` | permits and ownership | 2 jobs, 2 workers, 1 branch each, 1 permit of each kind; the deadlines of one job coincide |
| `EngineLiveness` | runs end, queue is served, stop returns | 2 jobs, 1 worker, 1 attempt |
| `EngineLostSettlement` | refuted: AC-006 | 1 job, 1 branch |
| `PersistedBudget` | reserve, limit, refusals | limit 20000 as in `tests/test_remediation.py:1572`, rows of realistic size, 3 open calls |
| `FailoverLadder` | calls per lane, the precedence of the resilience contract, circuit, time reserved | a serial phase and a branch, or two branches; timeouts 2 and 3, fast failures within 1, delays 0 and 1, deadline 8 |
| `Service` | one owner, clean ends, answers behind the group's end, drains | 2 services, 1 call, 1 swapped path, 1 failing step of a startup, processes that survive SIGKILL |
| `PrimeRpc` | answers, stages and cleanup against every order of events | 2 children, 2 tool calls, 7 child updates, one text within the limit and one above it, 1 cancellation; 1 event of a kind in the log (2 child updates), 1 event left out |
| `Skills` | mutations against failures, crashes and edits | 2 processes, 2 releases, 4 paths in 3 directories, 1 edit, 2 failing calls, 12 inode numbers |
| `PersistedBudgetRequeue` | refuted: repository.py:30-31 for the requeue | the same sizes as `PersistedBudget` |

Two branches with one permit are the least number for which one waits while the
other runs, succeeds, fails or is skipped. Three attempts give a first, a middle
and a last one; two configurations with one policy and two ceilings show a lowered
ceiling between requeue and claim. Branches, jobs and hashes are symmetric where
no liveness property is checked. The bounds of `FailoverLadder` keep the order of
the production values (fast failure, primary, fallback); the deadline leaves room
for a whole ladder, for one that no longer fits, and for a second lane behind the
first. Two services are the least number that compete for a lock, and one call is
enough because calls share nothing but the two seconds the service waits. The limits
of `PrimeRpc` are so small that each can be met, and so large that a whole proof
(response, message or reply, recipe, result, text, end) fits, with one event beside
it. Two failing calls let one failure meet another on the way back. The releases
of `Skills` change a file, keep one and add one.

`FailoverLadder`, `Service`, `PrimeRpc` and `Skills` turn the deadlock check off: an
attempt whose lanes are over, services that are down, a session and mutations that
have ended all really stop. Elsewhere the service can always be restarted, and the
ledger of a job that ended can always be recovered once more.

Every property of a passing run has a mutant in `PROJECT.json`: a plausible change
of one mapped definition that makes TLC find the property violated.

### Findings

Two runs refute a sentence of the documents or of a comment; the details are in
`PROJECT.json`.

- `engine.py:1103`: the result of the final settlement is ignored. When the hard
  deadline passes just before it, the job stays `synthesizing` without a task.
- `repository.py:927`: the requeue in `recover_startup` asks for room beside the
  reserve; one full job then fails every startup.

Other disagreements were met while modelling. The models do what the code does; no
run is spent on them.

- `repository.py:824`: the order of the passes of `recover_startup` leaves open the
  calls of an interrupted attempt that was cancelled; docs/OPERATIONS.md:37 says that
  unfinished calls are marked `uncertain`. `JobStore` and `Engine` both keep them open,
  and `OpenCallsAreInFlight` excepts them.
- `engine.py:873`: a deadline met in a branch surfaces as `INTERNAL_ERROR`, not as
  the `DEADLINE_EXCEEDED` of docs/specification.md:121.
- `engine.py:788`: a malformed fork repair after a diversity failure fails the job; the
  comment at 775-776 and docs/specification.md:255 expect the deterministic fallback.
- `skills.py:672`: the look at the file that was moved aside is not guarded; when it
  fails, the file stays under its quarantine name, although docs/specification.md:245
  calls uninstall all-or-nothing. `AllOrNothing` excepts this failure by name.
- `skills.py:802`: `install` builds its `_SecureTree` outside its try. When a later call
  of that constructor fails, or another process has the lock, the directories made
  before it stay, with an ordinary error; docs/OPERATIONS.md:15 promises the removal of
  a new directory after an open or sync failure, which the code does for the failing
  one only. No file has been touched by then: `AllOrNothing` starts at the lock.
- `process_backend.py:432`: when a progress envelope is refused and the leader is dead,
  the finally clause leaves the rest of the group; docs/OPERATIONS.md:28 lets malformed
  output converge through the group-draining owner. `GroupGoneBeforeAnswer` and, for
  helpers, `QuietWhenDown` except it.
- `service.py:530`: `_retention_done` tests `ready`, which also asks whether a provider
  call was left behind; a retention loop that ends meanwhile leaves `_ready` raised,
  and the service is ready again later without retention.
- `progress.py:72`: the circuit score of the view leaves out the raw transport limit
  that the circuit counts (`backends.py:1559`).
- `repository.py:616`: a terminal message of 4000 control characters would outgrow the
  reserve; the engine passes constant messages only.

### Fairness

`EngineLiveness`, `EngineLostSettlement` and `Service` use `FairSpec`. In the engine it
assumes weak fairness of what the event loop itself does: resuming a ready task or
worker, firing a due timer, delivering a requested cancellation, and the clock.
Nothing is assumed of callers, crashes and restarts, of a provider's answer, or of
the end of a provider task that was left behind. Weak fairness is enough because a
run has finitely many steps (`RunsAreFinite` proves it), so a step that stays possible
is taken; a permit that
is taken by others each time is not needed, since the admission timeout ends the
wait. In the service it assumes weak fairness of starting, of unwinding and of the
coroutine of each call, and nothing of children: a process that ignores every
signal, sends nothing and never ends is a fair behaviour. A drain has at most
fourteen stages before it (`DrainsAreBounded`), so it too cannot be put off. The
bounded waits of `_stop_process` end by their timers, which the same event loop fires.

## Proofs

The theorems hold for every value of the constants that meets the assumptions of
its module: `StoreAssumption`; `BudgetAssumption` with `ReserveAssumption`;
`EngineAssumption`; `LaneAssumption`, `TimeAssumption` and `WindowAssumption`;
`SurviveAssumption`, `CallsOfAssumption` and `BoundAssumption`;
`UpdatesAssumption`, `LengthsAssumption` and `NoneAssumption`; `OrderAssumption`,
`VersionAssumption`, `ForeignAssumption` and `ProcessAssumption`. None of them is about
the size of a set; the branches of the engine are finite.

`JobStoreProofs`: none of the store's invariants is inductive alone. That one
attempt is active at most, for example, needs to know that a queued job has only
abandoned attempts, which needs the numbering of attempts without gaps. `StoreInv`
joins, for each job, `AttemptHistory`, `CurrentAttempt`, `JobColumns` and
`PoliciesOf`, and the keys. The lemmas show it for one job under each transaction;
recovery and retention, which touch all jobs at once, are functions of each job
alone. From `StoreInv` follow `OneRunPerJob`, `RerunsFollowAbandons`,
`FailoverIsNotReplayed`, `OnePolicyPerJob`, `CancelIsKept`, `KeysNameJobs` and the
action properties `OutcomeIsFinal`, `QueueIsFair`, `KeysStay` and `VerdictsAreFinal`.
For the last, `VerdictsOf` adds where a verdict may stand: on a call of an attempt
that is over, or of a job with a cancellation request, and there the output fence
refuses what comes late. The refinement of `JobLifecycle`
(`StoreImplementsLifecycle`) counts the runs of a job by its attempts: since they are
numbered without gaps, a claim adds one run and nothing else changes their number.
One lemma for each transaction finds the step of the lifecycle it makes, if any.

`PersistedBudgetProofs`: the limit is not inductive, because the recovery of an
ended job closes its calls without a check. `BudgetInv` accounts for those calls
in advance (`used + error + open * CallEnd <= Limit`). `EndFits` derives from
`ReserveAssumption` that everything the end of a job writes fits into the reserve;
`RunsOn` and `EndsWithinReserve` treat the two kinds of transactions once, and
`NextBudget` applies them to each action. Three results follow: the reserve is
kept, the limit holds, and no transaction that ends a job is refused.

`EngineProofs`: the outcome of a job is decided by its task, which sees the row only
through the fence, while deadlines, cancellations and branches move on beside it.
`EngineInv` says for each job how its parts fit: `StageOf` how far the task may be
ahead of the row (only because the hard deadline held the row back), `AskedOf` when a
task or lane may have been cancelled, `LanesOf` which lanes are in progress in which
stage, `ReasonsOf` which failure a lane may carry in the hand, and since when,
`RowsOf` which call rows may be open (those of calls in flight, and those an earlier
process left on a job not claimed since), `OutcomeOf` what the row may say, `DownOf` that a
dead process leaves nothing in memory; and `PermitInv` counts permits over all jobs.
The properties are seldom inductive alone: `BranchesAreJoined` needs to know that a
gather ends only when all lanes rest, `DeadlinesExplainOutcome` which errors are
still on their way to the row. One group of lemmas says what moving a single lane
of a single job may do, and each action is an instance of it; the start of the
branches, stop, crash and recovery have proofs of their own. From `EngineInv` follow
all invariants of `EngineRun` and `EnginePermits`, that stop changes no job, and the
refinement: each step moves at most one job, along `JobLifecycle`, or is a restart,
which moves all of them. `RunsAreFinite` ranks a run by the phases before its task and,
within a phase, each lane by the steps before it: whatever the job, its timers, its
callers and the process do, the phases get fewer, or one lane comes nearer its end and
the others stay. The one repair starts the call of a lane again, and is what `spent`
is for: a lane that has it left ranks above one that has not.

`FailoverProofs`: the limit on rows is enforced through `calls_used`, a local that is
counted up, taken back and lost between invocations, and the retry does not compare
it with the limit at all. `IInv` adds that the local agrees with the rows while the
coroutine still reads it, and that a lane asleep before its retry has a call left.
One lemma per helper shows that a lane in such a state stays in one, and
`OneLaneMoves` that the other lanes are not touched; `CallBudget` follows. `TimeInv`
adds what a lane has reserved: a sleep ends with room for the retry and the fallback,
a call in flight was admitted with its timeout left. `LadderInv` adds what the rows
say of the place the lane stands at (`Pairs`, `Stage`): a row that was followed
although it did not fail has spent the repair budget, and a lane that sleeps or makes
a first call has made no retry yet. From them follow `TimeIsReserved` and
`LadderIsKept`. The circuit is computed from the rows at each admission, and its
score is a number of points: the set of triples of a lane, a row and a reason to
count it. As a cardinality it can be reasoned about without induction:
`CircuitIsEvidence` shows, with the theorems on finite sets, that two points are what
the resilience contract says in words, one hard failure or two fast ones, and
`CircuitIsKept` that each admission honours it.

`ServiceProofs`: `CallInv` says of one invocation that no leader is alive from the
moment the group is swept and that a cancellation is on record, as the caller's or in
the outcome, until the end. `ServiceInv` adds what each service holds in each
stage, that two services hold no lock file in common, that a clean end had drained
its calls, helpers included but for the two exceptions, and that only a crash loses
one. That a clean end implies drained calls is not inductive without the flag `unclean`, which carries the answer from the wait
to the release. `ServiceRunsInvocations` takes the calls apart again: seen alone
(`Alone(c)`), each call of a service is an invocation of `ProcessIsolation`, the
cancellation of all calls at a stop and their loss in a crash included, so what holds
of an invocation holds of a call. `DrainsAreBounded` ranks the stages of a drain over
the attempt of the except clause and the one of the finally clause (`StepsLeft`).

`PrimeRpcProofs`: the stage is written by five handlers and only one of them may
write it without comparing. `RpcInv` ties the stage to the locals (`StageOK`) and the
locals to the events in the log (`Recorded`); for the cleanup, that a session which
has not begun has no process. `AnswersAreProven` runs in both directions, so each
local needs more than a witness: `Ledger` says what the locals of the proof (child,
start, end, text) are in terms of all events read, and `AnswerInv` that an ending
session answers exactly if they add up. One lemma for each kind of event says which
of them it may change.

`SkillsProofs`: a process removes a file only after a look at what it moved, so the
proof follows beliefs, not files: where a process saw somebody else's bytes, what it
wants there and what it would restore are those bytes too, and the walk passes over
that path, forwards and back.

`SkillsRollbackProofs`: that a mutation is all or nothing is a statement about its
last step and the tree before its first, so `RollInv` follows the holder of the lock
from one to the other. `Claim` compares the tree with what was found: unchanged
before the walk (`Untouched`), at its goal behind the walk and as found ahead of it
(`Advanced`), with the old bytes behind a walk that turned round (`Reverted`), and at
the current file whatever its place between two system calls says (`InHand`). It
holds for a mutation that nobody disturbed and whose way back had no failure of its
own, which is what `AllOrNothing` asks of it. What a process may know of the root before
it has the lock is `Opened`: the root it has open exists, or it is `"orphaned"`. That a
file moved aside can be told from those an earlier mutation left there needs `Separate`: no two files of a path
have one inode number. `AllOrNothing` and `TornIsLeftAlone` follow; the second needs
only that a walk under way found a whole bundle or nothing.

Only model-checked: the liveness properties `RunEnds`, `QueueIsServed`, `StopEnds` and
`DrainsEnd`, since liveness under fairness and ENABLED are outside what the installed
provers do. Half of two of them is proved as an action property, that the way to the
end is bounded and nothing lengthens it (`RunsAreFinite` for `RunEnds`,
`DrainsAreBounded` for `DrainsEnd`); that the next step is taken is left to TLC.
Every invariant and every action property of the passing runs, and both
refinements, are proved. Anything computed by recursion over data would stay with
TLC too; the modules have no RECURSIVE operator.

## Not modelled

- The OpenAI backend is one HTTP request, the scripted one fixed answers; neither
  keeps state. Their failures are answers of `Engine` and route failures of `Failover`.
- The progress view is a pure function of the rows that `Failover` models; a model of
  it would compare one sum with another (see the finding on `progress.py:72`).
- Schemas, limits and settings validate values; their outcome is the kind of an answer
  in `Engine`, and the limits are constants of `PersistedBudget` and `PrimeRpc`.
- Domain packs, strategies and verification are prompt material and pure checks.
- The interfaces translate requests into the operations of `JobStore` and `Engine` and
  keep nothing; the scripts are sequential file handling.
- Schema migration and attestation run behind the lock, before any other transaction,
  in one transaction: `Migrate` of `ServiceLifecycle` is that step.

## What is left

1. `Engine` with the refusals of the ledger, composed with `PersistedBudget`: the
   worker that spins on a refused claim (`engine.py:548`).
2. Two routes of `Failover` as calls of `ProcessIsolation`, to derive overruns from
   the stop escalation.
