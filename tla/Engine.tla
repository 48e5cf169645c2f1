------------------------------- MODULE Engine -------------------------------
(***************************************************************************)
(* The research engine: ResearchEngine with its workers, one asyncio task  *)
(* per claimed job, one task per branch while rollouts are gathered, two   *)
(* provider semaphores and the detached provider tasks.  The store is      *)
(* reduced to what the engine reads and writes of the current attempt;     *)
(* JobStore has it in full, and both implement JobLifecycle.  The backend  *)
(* has one route, so that the engine itself records the provider calls; a  *)
(* FailoverBackend records one call per route and is left out.             *)
(*                                                                         *)
(* There is one event loop: a task that is resumed runs until it suspends. *)
(* loop says who runs.  Every action either is a whole block of a worker   *)
(* or of a handler, or is one step of the block of the lane that holds the *)
(* loop; only the clock and a crash come between the steps of a block.     *)
(***************************************************************************)
EXTENDS Naturals, FiniteSets

CONSTANTS
  Jobs, Workers, Branches,
  Main,            \* the lane of the phases that run one at a time
  Nobody,          \* a worker without a job; the event loop between two blocks
  RolloutPermits,  \* Settings.rollout_provider_concurrency
  MaxRuns,         \* Settings.max_job_attempts
  OneDeadline,     \* jobs whose soft deadline is no earlier than their hard one
  Answers          \* the kinds of provider answers considered

ASSUME EngineAssumption ==
  /\ Main \notin Branches
  /\ Branches # {} /\ IsFiniteSet(Branches)
  /\ Nobody \notin Jobs \union (Jobs \X (Branches \union {Main}))
  /\ RolloutPermits \in Nat \ {0}
  /\ MaxRuns \in Nat \ {0}
  /\ OneDeadline \subseteq Jobs
  /\ Answers \subseteq {"valid", "malformed", "invalid", "oversized", "error"}

VARIABLES
  job,       \* the durable row of a job and the outcome of its attempt
  clock,     \* which of the job's two deadlines have passed
  rows,      \* the call row of each lane's latest call in the latest attempt of the job
  task,      \* the asyncio task of a job
  lane,      \* the provider phases in progress
  worker,    \* the job whose task a worker awaits
  free,      \* permits left in the two semaphores
  detached,  \* provider tasks nobody waits for that still hold a permit
  service,   \* the service process
  loop       \* the lane that runs, or Nobody

vars == <<job, clock, rows, task, lane, worker, free, detached, service, loop>>

-----------------------------------------------------------------------------

Running == {"framing", "rolling_out", "critiquing", "synthesizing"}
Done == {"succeeded", "failed", "cancelled"}
Lanes == Branches \union {Main}
Kind(l) == IF l = Main THEN "serial" ELSE "rollout"
Capacity == [serial |-> 1, rollout |-> RolloutPermits]

\* "MALFORMED" stands for MALFORMED_PROVIDER_OUTPUT and for a schema violation, "INVALID" for
\* INVALID_PROVENANCE and INSUFFICIENT_DIVERSITY, "FENCED" for the RuntimeError
\* CANCELLED_OR_STALE_ATTEMPT of a refused write, "OTHER" for any other failure.
Codes == {"none", "SOFT_DEADLINE_REACHED", "DEADLINE_EXCEEDED", "DEADLINE_INSUFFICIENT",
          "MALFORMED", "OUTPUT_LIMIT_EXCEEDED", "INVALID", "FENCED", "STALE_ATTEMPT", "OTHER"}

Errors == (Codes \ {"FENCED"}) \union
          {"INTERNAL_ERROR", "CANCELLED", "RETRY_EXHAUSTED"}

NewRow == [state |-> "absent", asked |-> FALSE, error |-> "none", runs |-> 0, partial |-> FALSE]
NoTask == [at |-> "none", cancel |-> FALSE]

\* spent: what the one repair call of the phase was spent on.
IdleLane == [at |-> "idle", why |-> "none", spent |-> "none"]

LaneEnds == {"succeeded", "lost", "skipped", "raised", "cancelled"}

TypeOK ==
  /\ job \in [Jobs -> [state : Running \union Done \union {"absent", "queued"}, asked : BOOLEAN,
                       error : Errors, runs : 0..MaxRuns, partial : BOOLEAN]]
  /\ clock \in [Jobs -> {"early", "soft", "hard"}]
  /\ rows \in [Jobs -> [Lanes -> {"none", "open", "ended", "cancelled"}]]
  /\ task \in [Jobs -> [at : {"none", "created", "frame", "fork", "rollout", "critique",
                              "synthesis", "done", "cancelled"}, cancel : BOOLEAN]]
  /\ lane \in [Jobs -> [Lanes ->
       [at : {"idle", "created", "guard", "admit", "waiting", "admitted", "record", "calling",
              "answered", "ok", "failed", "store", "stored", "partial", "settle", "settle_partial"}
             \union LaneEnds,
        why : Codes \union Answers,
        spent : {"none", "malformed", "invalid"}]]]
  /\ worker \in [Workers -> Jobs \union {Nobody}]
  /\ free \in [{"serial", "rollout"} -> Nat]
  /\ detached \in [{"serial", "rollout"} -> Nat]
  /\ service \in {"up", "stopping", "down"}
  /\ loop \in (Jobs \X Lanes) \union {Nobody}

-----------------------------------------------------------------------------
(* What the steps share *)

\* _attempt_accepts_output_locked.  The attempt of a task is the current one: jobs are put
\* back into the queue only by the startup of the next process.
Accepts(j) == job[j].state \in Running /\ ~job[j].asked /\ clock[j] # "hard"

Runs(j, l, at) == loop = <<j, l>> /\ lane[j][l].at = at
Suspended(j, l, at) == loop = Nobody /\ lane[j][l].at = at
Wakes(j, l, at) == Suspended(j, l, at) /\ ~task[j].cancel

\* Lane l goes on within its phase; is through with it; has raised an exception.
At(j, l, at) == lane' = [lane EXCEPT ![j][l].at = at]
Leaves(j, l, at) == lane' = [lane EXCEPT ![j][l] = [IdleLane EXCEPT !.at = at]]
Fails(j, l, code) == lane' = [lane EXCEPT ![j][l].at = "failed", ![j][l].why = code]

\* _guard, then the step called next.  Its test of cancellation_requested finds nothing:
\* cancel records the request and cancels the task in one block.
GuardThen(j, l, next) ==
  \/ clock[j] = "hard" /\ Fails(j, l, "DEADLINE_EXCEEDED")
  \/ clock[j] # "hard" /\ At(j, l, next)

Take(k) == free' = [free EXCEPT ![k] = @ - 1]
Release(k) == free' = [free EXCEPT ![k] = @ + 1]

\* The call is left behind although its permit is given back.
DetachAndRelease(k) ==
  /\ detached' = [detached EXCEPT ![k] = @ + 1]
  /\ free' = [free EXCEPT ![k] = @ + 1]

\* The permit stays with the provider task until that task ends.
Detach(k) == detached' = [detached EXCEPT ![k] = @ + 1] /\ UNCHANGED free

\* The row is closed unless the write is fenced; no row is open before the first call.
RowEnded(j, l) ==
  rows' = IF rows[j][l] = "open" /\ Accepts(j) THEN [rows EXCEPT ![j][l] = "ended"] ELSE rows

\* The task of j is over.
TaskOver(j) ==
  /\ task' = [task EXCEPT ![j] = [at |-> "done", cancel |-> FALSE]]
  /\ lane' = [lane EXCEPT ![j][Main].at = "idle"]
  /\ loop' = Nobody

Settled(j, state, error) == job' = [job EXCEPT ![j].state = state, ![j].error = error]

-----------------------------------------------------------------------------
(* One provider phase in lane l: _phase and _invoke_provider_bounded *)

Guard(j, l) ==
  /\ Runs(j, l, "guard")
  /\ GuardThen(j, l, "admit")
  /\ UNCHANGED <<job, clock, rows, task, worker, free, detached, service, loop>>

\* The rendered prompt exceeds the context limit.
RefusePrompt(j, l) ==
  /\ Runs(j, l, "admit")
  /\ Fails(j, l, "OTHER")
  /\ UNCHANGED <<job, clock, rows, task, worker, free, detached, service, loop>>

\* Framing, fork and rollouts are admitted until the soft deadline only.
SoftLimited(j) == task[j].at \in {"frame", "fork", "rollout"} /\ j \notin OneDeadline
AdmissionOver(j) == clock[j] = "hard" \/ (SoftLimited(j) /\ clock[j] = "soft")

\* The semaphore is awaited without a timeout.
NeverOver(j) == FALSE

WaitOver(j) == AdmissionOver(j)

\* A rejection at the soft deadline is reported as the hard one.
RejectAsHard(j, l) == Fails(j, l, "DEADLINE_EXCEEDED")

Reject(j, l) ==
  Fails(j, l, IF SoftLimited(j) THEN "SOFT_DEADLINE_REACHED" ELSE "DEADLINE_EXCEEDED")

Admit(j, l) ==
  /\ Runs(j, l, "admit")
  /\ \/ AdmissionOver(j) /\ Reject(j, l) /\ UNCHANGED <<free, loop>>
     \/ /\ ~AdmissionOver(j) /\ free[Kind(l)] > 0
        /\ At(j, l, "admitted") /\ Take(Kind(l)) /\ UNCHANGED loop
     \/ /\ ~AdmissionOver(j) /\ free[Kind(l)] = 0
        /\ At(j, l, "waiting") /\ loop' = Nobody /\ UNCHANGED free
  /\ UNCHANGED <<job, clock, rows, task, worker, detached, service>>

Acquire(j, l) ==
  /\ Wakes(j, l, "waiting")
  /\ free[Kind(l)] > 0
  /\ At(j, l, "admitted") /\ Take(Kind(l))
  /\ loop' = <<j, l>>
  /\ UNCHANGED <<job, clock, rows, task, worker, detached, service>>

WaitExpires(j, l) ==
  /\ Wakes(j, l, "waiting")
  /\ WaitOver(j)
  /\ Reject(j, l)
  /\ loop' = <<j, l>>
  /\ UNCHANGED <<job, clock, rows, task, worker, free, detached, service>>

\* With the permit in hand the deadlines are read again; what is left must cover the
\* timeout of a provider call.
Recheck(j, l) ==
  /\ Runs(j, l, "admitted")
  /\ \/ AdmissionOver(j) /\ Reject(j, l) /\ Release(Kind(l))
     \/ ~AdmissionOver(j) /\ Fails(j, l, "DEADLINE_INSUFFICIENT") /\ Release(Kind(l))
     \/ ~AdmissionOver(j) /\ At(j, l, "record") /\ UNCHANGED free
  /\ UNCHANGED <<job, clock, rows, task, worker, detached, service, loop>>

\* add_provider_call, then the provider task is created and awaited.
Record(j, l) ==
  /\ Runs(j, l, "record")
  /\ \/ /\ Accepts(j)
        /\ rows' = [rows EXCEPT ![j][l] = "open"]
        /\ At(j, l, "calling") /\ loop' = Nobody /\ UNCHANGED free
     \/ /\ ~Accepts(j)
        /\ Fails(j, l, "FENCED") /\ Release(Kind(l)) /\ UNCHANGED <<rows, loop>>
  /\ UNCHANGED <<job, clock, task, worker, detached, service>>

\* Only fork, critique and synthesis have answers that fit the schema and are refused.
Answer(j, l, r) ==
  /\ Wakes(j, l, "calling")
  /\ r = "invalid" => task[j].at \in {"fork", "critique", "synthesis"}
  /\ lane' = [lane EXCEPT ![j][l].at = "answered", ![j][l].why = r]
  /\ Release(Kind(l))
  /\ loop' = <<j, l>>
  /\ UNCHANGED <<job, clock, rows, task, worker, detached, service>>

\* The timeout of the call: the provider task is cancelled and left behind.  At most as
\* much time was left as the timeout, or the code is BACKEND_TIMEOUT.
CallExpires(j, l) ==
  /\ Wakes(j, l, "calling")
  /\ Detach(Kind(l))
  /\ \/ clock[j] = "hard" /\ Fails(j, l, "DEADLINE_EXCEEDED")
     \/ Fails(j, l, "OTHER")
  /\ RowEnded(j, l)
  /\ loop' = <<j, l>>
  /\ UNCHANGED <<job, clock, task, worker, service>>

Failure == [malformed |-> "MALFORMED", invalid |-> "INVALID",
            oversized |-> "OUTPUT_LIMIT_EXCEEDED", error |-> "OTHER"]

\* The answer is checked and its row closed; the first unusable answer is repaired once.
CheckAnswer(j, l) ==
  LET r == lane[j][l].why IN
  /\ Runs(j, l, "answered")
  /\ RowEnded(j, l)
  /\ \/ clock[j] = "hard" /\ r # "error" /\ Fails(j, l, "DEADLINE_EXCEEDED")
     \/ clock[j] # "hard" /\ r = "valid" /\ Leaves(j, l, "ok")
     \/ /\ r = "malformed" \/ (r = "invalid" /\ clock[j] # "hard")
        /\ lane[j][l].spent = "none"
        /\ lane' = [lane EXCEPT ![j][l] = [at |-> "guard", why |-> "none", spent |-> r]]
     \/ /\ r # "valid" /\ (r = "invalid" => clock[j] # "hard")
        /\ r \in {"malformed", "invalid"} => lane[j][l].spent # "none"
        /\ Fails(j, l, Failure[r])
  /\ UNCHANGED <<job, clock, task, worker, free, detached, service, loop>>

Phase(j, l) ==
  \/ Guard(j, l) \/ RefusePrompt(j, l) \/ Admit(j, l) \/ Recheck(j, l) \/ Record(j, l)
  \/ CheckAnswer(j, l)

\* The row of the cancelled call is not settled.
RowForgotten(j, l) == rows

\* settle_cancelled_provider_call asks for a requested cancellation.
CancelledRow(j, l) ==
  IF rows[j][l] = "open" /\ job[j].asked THEN [rows EXCEPT ![j][l] = "cancelled"] ELSE rows

\* The cancelled task sees CancelledError at its await, before any answer or timeout; a
\* provider task that has not ended by then is left behind.
DeliverCancel(j, l) ==
  /\ \/ Suspended(j, l, "waiting") /\ UNCHANGED <<free, detached>>
     \/ Suspended(j, l, "calling") /\ Release(Kind(l)) /\ UNCHANGED detached
     \/ Suspended(j, l, "calling") /\ Detach(Kind(l))
  /\ task[j].cancel
  /\ Leaves(j, l, "cancelled")
  /\ rows' = CancelledRow(j, l)
  /\ loop' = IF l = Main THEN <<j, l>> ELSE Nobody
  /\ UNCHANGED <<job, clock, task, worker, service>>

DetachedEnds(k) ==
  /\ loop = Nobody
  /\ detached[k] > 0
  /\ detached' = [detached EXCEPT ![k] = @ - 1]
  /\ Release(k)
  /\ UNCHANGED <<job, clock, rows, task, lane, worker, service, loop>>

-----------------------------------------------------------------------------
(* A branch of the rollouts, gathered by the task of the job *)

BranchStarts(j, b) ==
  /\ Suspended(j, b, "created")
  /\ \/ task[j].cancel /\ Leaves(j, b, "cancelled") /\ UNCHANGED loop
     \/ ~task[j].cancel /\ At(j, b, "guard") /\ loop' = <<j, b>>
  /\ UNCHANGED <<job, clock, rows, task, worker, free, detached, service>>

\* The branch artifact is written.  When that is refused, so is the one that would have
\* recorded the failure, and the second refusal leaves the branch as an exception.
BranchEnds(j, b) ==
  /\ loop = <<j, b>>
  /\ lane[j][b].at \in {"ok", "failed"}
  /\ Leaves(j, b, CASE ~Accepts(j) -> "raised"
                   [] Accepts(j) /\ lane[j][b].at = "ok" -> "succeeded"
                   [] OTHER -> IF lane[j][b].why = "SOFT_DEADLINE_REACHED" THEN "skipped" ELSE "lost")
  /\ loop' = Nobody
  /\ UNCHANGED <<job, clock, rows, task, worker, free, detached, service>>

\* A branch that was not admitted does not end.
EndedIfAdmitted(j, b) == lane[j][b].at \in LaneEnds \ {"skipped"}

Ended(j, b) == lane[j][b].at \in LaneEnds
BranchesAt(j, at) == {b \in Branches : lane[j][b].at = at}

\* The first branch that raises wakes the task (gather without return_exceptions).
GatherFirstFailure(j) ==
  (\A b \in Branches : Ended(j, b)) \/ BranchesAt(j, "raised") # {} \/ BranchesAt(j, "lost") # {}

GatherComplete(j) == \A b \in Branches : Ended(j, b)

Gather(j) ==
  /\ Suspended(j, Main, "idle")
  /\ task[j].at = "rollout"
  /\ GatherComplete(j)
  /\ \/ task[j].cancel /\ At(j, Main, "cancelled")
     \/ ~task[j].cancel /\ BranchesAt(j, "raised") # {} /\ Fails(j, Main, "FENCED")
     \/ ~task[j].cancel /\ BranchesAt(j, "raised") = {} /\ At(j, Main, "ok")
  /\ loop' = <<j, Main>>
  /\ UNCHANGED <<job, clock, rows, task, worker, free, detached, service>>

-----------------------------------------------------------------------------
(* The task of a job: run and _run_attempt *)

Starts(j) ==
  /\ loop = Nobody
  /\ task[j].at = "created"
  /\ \/ /\ task[j].cancel
        /\ task' = [task EXCEPT ![j] = [at |-> "cancelled", cancel |-> FALSE]]
        /\ UNCHANGED <<lane, loop>>
     \/ /\ ~task[j].cancel
        /\ task' = [task EXCEPT ![j].at = "frame"]
        /\ At(j, Main, "guard")
        /\ loop' = <<j, Main>>
  /\ UNCHANGED <<job, clock, rows, worker, free, detached, service>>

\* Every phase is followed by a _guard before its outcome is stored or judged.
Checkpoint(j) ==
  /\ Runs(j, Main, "ok")
  /\ GuardThen(j, Main, "store")
  /\ UNCHANGED <<job, clock, rows, task, worker, free, detached, service, loop>>

\* The outcome of a phase is written: a refused write raises.
Store(j) ==
  /\ Runs(j, Main, "store")
  /\ task[j].at # "rollout"
  /\ \/ Accepts(j) /\ At(j, Main, "stored")
     \/ ~Accepts(j) /\ Fails(j, Main, "FENCED")
  /\ UNCHANGED <<job, clock, rows, task, worker, free, detached, service, loop>>

Stored(j, phase) == Runs(j, Main, "stored") /\ task[j].at = phase

Begin(j, phase) ==
  /\ task' = [task EXCEPT ![j].at = phase]
  /\ Leaves(j, Main, "guard")

\* transition, whose result is not looked at: a fenced one leaves the stage alone.
Moves(j, stage) == job' = IF Accepts(j) THEN [job EXCEPT ![j].state = stage] ELSE job

AfterFrame(j) ==
  /\ Stored(j, "frame")
  /\ Moves(j, "rolling_out")
  /\ \/ clock[j] # "early" /\ Leaves(j, Main, "partial") /\ UNCHANGED task
     \/ clock[j] = "early" /\ Begin(j, "fork")
  /\ UNCHANGED <<clock, rows, worker, free, detached, service, loop>>

\* gather creates one task per perspective and waits for all of them.
AfterFork(j) ==
  /\ Stored(j, "fork")
  /\ \/ clock[j] # "early" /\ Leaves(j, Main, "partial") /\ UNCHANGED <<task, loop>>
     \/ /\ clock[j] = "early"
        /\ task' = [task EXCEPT ![j].at = "rollout"]
        /\ lane' = [lane EXCEPT ![j] = [l \in Lanes |->
                      IF l = Main THEN IdleLane ELSE [IdleLane EXCEPT !.at = "created"]]]
        /\ loop' = Nobody
  /\ UNCHANGED <<job, clock, rows, worker, free, detached, service>>

JudgeRollouts(j) ==
  /\ Runs(j, Main, "store")
  /\ task[j].at = "rollout"
  /\ \/ /\ BranchesAt(j, "succeeded") = {} /\ BranchesAt(j, "skipped") # {}
        /\ At(j, Main, "partial") /\ UNCHANGED <<job, task>>
     \/ /\ BranchesAt(j, "succeeded") = {} /\ BranchesAt(j, "skipped") = {}
        /\ Fails(j, Main, "OTHER") /\ UNCHANGED <<job, task>>
     \/ /\ BranchesAt(j, "succeeded") # {}
        /\ Moves(j, "critiquing") /\ Begin(j, "critique")
  /\ UNCHANGED <<clock, rows, worker, free, detached, service, loop>>

AfterCritique(j) ==
  /\ Stored(j, "critique")
  /\ Moves(j, "synthesizing") /\ Begin(j, "synthesis")
  /\ UNCHANGED <<clock, rows, worker, free, detached, service, loop>>

\* Branches that failed count like branches that were not admitted.
NoneSkipped(j) == BranchesAt(j, "succeeded") # {}

AllAdmitted(j) == BranchesAt(j, "skipped") = {}

AfterSynthesis(j) ==
  /\ Stored(j, "synthesis")
  /\ GuardThen(j, Main, IF AllAdmitted(j) THEN "settle" ELSE "partial")
  /\ UNCHANGED <<job, clock, rows, task, worker, free, detached, service, loop>>

\* What the handlers around the phases turn into a result.
Salvaged(j) ==
  LET why == lane[j][Main].why IN
  CASE task[j].at = "frame" -> why = "SOFT_DEADLINE_REACHED"
    [] task[j].at = "fork" ->
         \/ why \in {"SOFT_DEADLINE_REACHED", "INVALID"}
         \/ why \in {"MALFORMED", "OUTPUT_LIMIT_EXCEEDED"} /\ lane[j][Main].spent # "invalid"
    [] task[j].at \in {"critique", "synthesis"} ->
         why = "DEADLINE_INSUFFICIENT" /\ clock[j] # "early"
    [] OTHER -> FALSE

\* A deadline leads to a partial result, an unusable fork to the fallback perspectives.
Salvage(j) ==
  /\ Runs(j, Main, "failed")
  /\ Salvaged(j)
  /\ Leaves(j, Main, IF lane[j][Main].why \in {"SOFT_DEADLINE_REACHED", "DEADLINE_INSUFFICIENT"}
                     THEN "partial" ELSE "ok")
  /\ UNCHANGED <<job, clock, rows, task, worker, free, detached, service, loop>>

StorePartial(j) ==
  /\ Runs(j, Main, "partial")
  /\ \/ Accepts(j) /\ At(j, Main, "settle_partial")
     \/ ~Accepts(j) /\ Fails(j, Main, "FENCED")
  /\ UNCHANGED <<job, clock, rows, task, worker, free, detached, service, loop>>

SettlePartial(j) ==
  /\ Runs(j, Main, "settle_partial")
  /\ \/ /\ Accepts(j)
        /\ job' = [job EXCEPT ![j].state = "succeeded", ![j].partial = TRUE]
        /\ TaskOver(j)
     \/ ~Accepts(j) /\ Fails(j, Main, "STALE_ATTEMPT") /\ UNCHANGED <<job, task, loop>>
  /\ UNCHANGED <<clock, rows, worker, free, detached, service>>

\* The result of this settle_terminal is not looked at either.
SettleSuccess(j) ==
  /\ Runs(j, Main, "settle")
  /\ Moves(j, "succeeded")
  /\ TaskOver(j)
  /\ UNCHANGED <<clock, rows, worker, free, detached, service>>

\* run catches an exception of the attempt: _settle_requested_cancellation comes first.
RunFails(j) ==
  LET why == lane[j][Main].why IN
  /\ Runs(j, Main, "failed")
  /\ ~Salvaged(j) \/ (task[j].at = "fork" /\ why = "INVALID")  \* INSUFFICIENT_DIVERSITY
  /\ IF job[j].asked THEN Settled(j, "cancelled", "CANCELLED")
     ELSE Settled(j, "failed", IF why = "FENCED" THEN "INTERNAL_ERROR" ELSE why)
  /\ TaskOver(j)
  /\ UNCHANGED <<clock, rows, worker, free, detached, service>>

\* A cancelled run is always, never left to the next startup.
AlwaysLeft == TRUE
NeverLeft == FALSE

LeftToRecovery == service = "stopping"

\* run sees the cancellation.
RunCancelled(j) ==
  /\ Runs(j, Main, "cancelled")
  /\ \/ LeftToRecovery /\ UNCHANGED job
     \/ ~LeftToRecovery /\ job[j].asked /\ Settled(j, "cancelled", "CANCELLED")
  /\ TaskOver(j)
  /\ UNCHANGED <<clock, rows, worker, free, detached, service>>

Continue(j) ==
  \/ Checkpoint(j) \/ Store(j) \/ AfterFrame(j) \/ AfterFork(j) \/ JudgeRollouts(j)
  \/ AfterCritique(j) \/ AfterSynthesis(j) \/ Salvage(j) \/ StorePartial(j)
  \/ SettlePartial(j) \/ SettleSuccess(j) \/ RunFails(j) \/ RunCancelled(j)

-----------------------------------------------------------------------------
(* Workers, callers and the service *)

Submit(j) ==
  /\ loop = Nobody /\ service = "up"
  /\ job[j].state = "absent"
  /\ job' = [job EXCEPT ![j].state = "queued"]
  /\ UNCHANGED <<clock, rows, task, lane, worker, free, detached, service, loop>>

\* claim_next_job and the creation of the task are one block of a worker.  The new attempt has
\* made no calls yet.
Claim(w, j) ==
  /\ loop = Nobody /\ service = "up"
  /\ worker[w] = Nobody
  /\ job[j].state = "queued"
  /\ \/ /\ clock[j] = "hard"
        /\ Settled(j, "failed", "DEADLINE_EXCEEDED")
        /\ UNCHANGED <<rows, task, worker>>
     \/ /\ clock[j] # "hard"
        /\ job' = [job EXCEPT ![j].state = "framing", ![j].runs = @ + 1]
        /\ rows' = [rows EXCEPT ![j] = [l \in Lanes |-> "none"]]
        /\ task' = [task EXCEPT ![j].at = "created"]
        /\ worker' = [worker EXCEPT ![w] = j]
  /\ UNCHANGED <<clock, lane, free, detached, service, loop>>

\* A worker wakes from the task it awaited.  A task that was cancelled before it ran
\* settled nothing: the worker does.
WorkerWakes(w) ==
  LET j == worker[w] IN
  /\ loop = Nobody /\ j # Nobody
  /\ task[j].at \in {"done", "cancelled"}
  /\ \/ task[j].at = "cancelled" /\ ~LeftToRecovery /\ Settled(j, "cancelled", "CANCELLED")
     \/ (task[j].at = "done" \/ LeftToRecovery) /\ UNCHANGED job
  /\ worker' = [worker EXCEPT ![w] = Nobody]
  /\ task' = [task EXCEPT ![j] = NoTask]
  /\ UNCHANGED <<clock, rows, lane, free, detached, service, loop>>

Live(j) == task[j].at \notin {"none", "done", "cancelled"}

Cancel(j) ==
  /\ loop = Nobody /\ service = "up"
  /\ \/ job[j].state = "queued" /\ Settled(j, "cancelled", "CANCELLED")
     \/ job[j].state \in Running /\ job' = [job EXCEPT ![j].asked = TRUE]
  /\ task' = IF Live(j) THEN [task EXCEPT ![j].cancel = TRUE] ELSE task
  /\ UNCHANGED <<clock, rows, lane, worker, free, detached, service, loop>>

Stop ==
  /\ loop = Nobody /\ service = "up"
  /\ service' = "stopping"
  /\ task' = [j \in Jobs |-> IF Live(j) THEN [task[j] EXCEPT !.cancel = TRUE] ELSE task[j]]
  /\ UNCHANGED <<job, clock, rows, lane, worker, free, detached, loop>>

\* The process is gone with everything it held in memory.
ProcessEnds ==
  /\ service' = "down"
  /\ task' = [j \in Jobs |-> NoTask]
  /\ lane' = [j \in Jobs |-> [l \in Lanes |-> IdleLane]]
  /\ worker' = [w \in Workers |-> Nobody]
  /\ free' = Capacity
  /\ detached' = [k \in {"serial", "rollout"} |-> 0]
  /\ loop' = Nobody
  /\ UNCHANGED <<job, clock, rows>>

\* stop also waits for the provider tasks left behind, for as long as they take.
DrainedOfProviders == (\A j \in Jobs : ~Live(j)) /\ \A k \in DOMAIN detached : detached[k] = 0

\* stop waits for every active task; it gives provider tasks left behind two seconds.
Drained == \A j \in Jobs : ~Live(j)

Stopped ==
  /\ loop = Nobody /\ service = "stopping"
  /\ Drained
  /\ ProcessEnds

Crash == service # "down" /\ ProcessEnds

\* A job that was asked to stop is taken for any other interrupted job.
RecoveredForgetful(j) ==
  IF job[j].state \notin Running THEN job[j]
  ELSE IF job[j].runs < MaxRuns THEN [job[j] EXCEPT !.state = "queued"]
  ELSE [job[j] EXCEPT !.state = "failed", !.error = "RETRY_EXHAUSTED"]

\* The run that was interrupted is not counted against the ceiling.
RecoveredOnceMore(j) ==
  IF job[j].state \in Running /\ ~job[j].asked THEN [job[j] EXCEPT !.state = "queued"] ELSE job[j]

\* recover_startup, for the attempts the last process left active.
Recovered(j) ==
  CASE job[j].state \notin Running -> job[j]
    [] job[j].state \in Running /\ job[j].asked ->
         [job[j] EXCEPT !.state = "cancelled", !.error = "CANCELLED"]
    [] OTHER ->
         IF job[j].runs < MaxRuns THEN [job[j] EXCEPT !.state = "queued"]
         ELSE [job[j] EXCEPT !.state = "failed", !.error = "RETRY_EXHAUSTED"]

\* recover_startup closes the open calls of the jobs that had ended before it looks at the others:
\* those of a job that it cancels, fails or queues again stay open.
RecoveredRows(j) ==
  [l \in Lanes |->
     CASE rows[j][l] = "open" /\ job[j].state = "cancelled" -> "cancelled"
       [] rows[j][l] = "open" /\ job[j].state \in Done \ {"cancelled"} -> "ended"
       [] OTHER -> rows[j][l]]

\* The next process starts.
Restart ==
  /\ service = "down"
  /\ service' = "up"
  /\ job' = [j \in Jobs |-> Recovered(j)]
  /\ rows' = [j \in Jobs |-> RecoveredRows(j)]
  /\ UNCHANGED <<clock, task, lane, worker, free, detached, loop>>

\* A deadline of a job that is not finished passes.
ClockPasses(j) ==
  /\ job[j].state \in Running \union {"queued"}
  /\ clock[j] # "hard"
  /\ clock' = [clock EXCEPT ![j] =
                 IF clock[j] = "soft" \/ j \in OneDeadline THEN "hard" ELSE "soft"]
  /\ UNCHANGED <<job, rows, task, lane, worker, free, detached, service, loop>>

-----------------------------------------------------------------------------

Init ==
  /\ job = [j \in Jobs |-> NewRow]
  /\ clock = [j \in Jobs |-> "early"]
  /\ rows = [j \in Jobs |-> [l \in Lanes |-> "none"]]
  /\ task = [j \in Jobs |-> NoTask]
  /\ lane = [j \in Jobs |-> [l \in Lanes |-> IdleLane]]
  /\ worker = [w \in Workers |-> Nobody]
  /\ free = Capacity
  /\ detached = [k \in {"serial", "rollout"} |-> 0]
  /\ service = "up"
  /\ loop = Nobody

\* What the event loop or the provider boundary does for lane l of job j.
LaneStep(j, l) ==
  \/ Phase(j, l) \/ Acquire(j, l) \/ WaitExpires(j, l)
  \/ (\E r \in Answers : Answer(j, l, r)) \/ CallExpires(j, l) \/ DeliverCancel(j, l)

BranchStep(j, b) == BranchStarts(j, b) \/ BranchEnds(j, b)
TaskStep(j) == Starts(j) \/ Gather(j) \/ Continue(j)
WorkerStep(w) == WorkerWakes(w) \/ \E j \in Jobs : Claim(w, j)

Next ==
  \/ \E j \in Jobs, l \in Lanes : LaneStep(j, l)
  \/ \E j \in Jobs, b \in Branches : BranchStep(j, b)
  \/ \E j \in Jobs : TaskStep(j) \/ Submit(j) \/ Cancel(j) \/ ClockPasses(j)
  \/ \E w \in Workers : WorkerStep(w)
  \/ \E k \in {"serial", "rollout"} : DetachedEnds(k)
  \/ Stop \/ Stopped \/ Crash \/ Restart

\* The event loop resumes whatever is ready, timers fire and time passes.  Nothing is
\* assumed of callers, of crashes, or of provider tasks: an answer may never come, a task
\* left behind may never end.
Fairness ==
  /\ \A j \in Jobs : WF_vars(TaskStep(j)) /\ WF_vars(ClockPasses(j))
  /\ \A j \in Jobs, l \in Lanes :
       /\ WF_vars(Phase(j, l) \/ Acquire(j, l) \/ WaitExpires(j, l))
       /\ WF_vars(CallExpires(j, l)) /\ WF_vars(DeliverCancel(j, l))
  /\ \A j \in Jobs, b \in Branches : WF_vars(BranchStep(j, b))
  /\ \A w \in Workers : WF_vars(WorkerStep(w))
  /\ WF_vars(Stopped)

Spec == Init /\ [][Next]_vars
FairSpec == Spec /\ Fairness

-----------------------------------------------------------------------------
(* Properties *)

HoldsPermit(k) ==
  {p \in Jobs \X Lanes : Kind(p[2]) = k /\ lane[p[1]][p[2]].at \in {"admitted", "record", "calling"}}

\* No permit of the two semaphores is lost and none is given twice, whatever is cancelled,
\* timed out or left behind meanwhile: each is free, with a lane, or with a detached
\* provider task (engine.py:347-362, 407-513).
PermitsConserved ==
  \A k \in DOMAIN Capacity : free[k] + Cardinality(HoldsPermit(k)) + detached[k] = Capacity[k]

\* The final settle_terminal was refused because the hard deadline had passed
\* (engine.py:1103 ignores the result): the job is left in its stage.
SettlementLost(j) ==
  job[j].state = "synthesizing" /\ clock[j] = "hard" /\ task[j].at \in {"none", "done"}

\* While the service is up, a job that is past the queue is in the hands of a task or of
\* the worker about to look at it, unless its settlement was lost: nothing else would ever
\* end it (engine.py:515-549, 621-680).
RunningIsOwned ==
  \A j \in Jobs : service = "up" /\ job[j].state \in Running =>
    Live(j) \/ task[j].at = "cancelled" \/ SettlementLost(j)

\* Branch tasks exist only while the task of their job gathers them: none outlives the
\* rollout stage, so no branch artifact is written beside a critique or after the job's
\* end (engine.py:876-881, REQ-005).
BranchesAreJoined ==
  \A j \in Jobs, b \in Branches :
    lane[j][b].at \notin LaneEnds \union {"idle"} =>
      task[j].at = "rollout" /\ job[j].state \in {"framing", "rolling_out"}

\* What a job ends with agrees with its deadlines: the soft one never fails a job and is
\* the only reason for a partial result, and DEADLINE_EXCEEDED is the hard one.
DeadlinesExplainOutcome ==
  \A j \in Jobs :
    /\ job[j].error # "SOFT_DEADLINE_REACHED"
    /\ job[j].error = "DEADLINE_EXCEEDED" => clock[j] = "hard"
    /\ job[j].partial => clock[j] # "early"

\* A job that was asked to stop while it ran ends as cancelled, also when the process is
\* stopped or dies before the task has seen the cancellation.
CancelWins == \A j \in Jobs : job[j].asked /\ job[j].state \in Done => job[j].state = "cancelled"

\* Before the hard deadline, which fences the write, a call row is open only as long as the
\* call is: whether an answer, a timeout or a cancellation ends it, its row is closed, although
\* the cancellation refuses every other write of the attempt (engine.py:1378).  What an earlier
\* process left open is still open on a job that has not been claimed since: recover_startup
\* closes only the calls of jobs that had ended before (repository.py:824-868).
OpenCallsAreInFlight ==
  \A j \in Jobs, l \in Lanes : service = "up" /\ clock[j] # "hard" /\ rows[j][l] = "open" =>
    \/ lane[j][l].at \in {"calling", "answered"}
    \/ task[j].at = "none" /\ job[j].state \notin Running

\* A job succeeds without the partial mark only if every branch was admitted.
CompleteMeansComplete ==
  \A j \in Jobs : job[j].state = "succeeded" /\ ~job[j].partial => BranchesAt(j, "skipped") = {}

\* stop changes no job: what ran is left to the recovery of the next process, in the stage
\* it had (engine.py:630-633).
StopLeavesJobsAlone == [][service = "stopping" => UNCHANGED job]_vars

LC == INSTANCE JobLifecycle WITH
        stage <- [j \in Jobs |-> job[j].state],
        runs <- [j \in Jobs |-> job[j].runs],
        asked <- [j \in Jobs |-> job[j].asked]

\* Tasks, branches, permits and restarts move each job along the same lifecycle as the store.
RefinesLifecycle == LC!Lifecycle

\* A running job ends, whatever its provider does and however long permits stay with calls
\* that were left behind; the exception is the settlement that was lost.
RunEnds ==
  \A j \in Jobs : job[j].state \in Running ~>
    (job[j].state \notin Running \/ service # "up" \/ SettlementLost(j))

\* Every queued job is started or ended: no worker is held for ever by the job it runs.
QueueIsServed == \A j \in Jobs : job[j].state = "queued" ~> job[j].state # "queued" \/ service # "up"

\* stop returns although provider tasks that were left behind never end.
StopEnds == service = "stopping" ~> service = "down"

\* AC-006 as the specification states it: "no task remains active forever".  The lost
\* settlement breaks it.
NoJobActiveForever ==
  \A j \in Jobs : job[j].state \in Running ~> job[j].state \notin Running \/ service # "up"

=============================================================================
