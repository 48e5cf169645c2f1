-------------------------- MODULE PersistedBudget ---------------------------
(***************************************************************************)
(* The persisted-byte ledger of one job (the ledgers of two jobs share     *)
(* nothing): what each repository transaction adds to the rows of the job, *)
(* which of them leave the settlement reserve untouched, and which of them *)
(* the ledger refuses.  A refused transaction raises and rolls back; that  *)
(* is a step here, which changes nothing but refused.  JobStore has the    *)
(* rows themselves; here they are only counted, and an attempt's output is *)
(* any sequence of sizes.                                                  *)
(***************************************************************************)
EXTENDS Naturals

CONSTANTS
  Limit,      \* Settings.max_persisted_bytes_per_job
  Reserve,    \* _TERMINAL_SETTLEMENT_RESERVE
  NewJobs,    \* sizes: the job row with its request, and the idempotency key
  Outputs,    \* sizes: an artifact, or what a finished provider call gains
  Calls,      \* sizes: a started provider call
  CallEnd,    \* what closing an open provider call adds to its row
  MaxOpen,    \* how many provider calls of a job may be open at once
  Moves,      \* sizes: a state_transitions row and the growth of the job row
  Attempt,    \* an attempt row, and attempt_id in the job row
  Closing,    \* ended_at, outcome and recovery_reason of an attempt
  ErrorSizes, \* the terminal errors that are passed to settle_terminal; 0 for none
  OwnError    \* the largest terminal error the repository writes of its own

ASSUME BudgetAssumption ==
  /\ Limit \in Nat /\ Reserve \in Nat
  /\ NewJobs \subseteq Nat /\ Outputs \subseteq Nat /\ Calls \subseteq Nat
  /\ CallEnd \in Nat /\ MaxOpen \in Nat
  /\ Moves \subseteq Nat /\ Attempt \in Nat /\ Closing \in Nat
  /\ ErrorSizes \subseteq Nat /\ OwnError \in Nat

\* What the reserve is for: "one bounded state-transition row, terminal error, and attempt
\* closure", beside the calls that the end of the job leaves open.
ASSUME ReserveAssumption ==
  \A m \in Moves : \A e \in ErrorSizes \union {OwnError} :
    m + e + Closing + MaxOpen * CallEnd <= Reserve

VARIABLES
  stage,    \* "absent", "queued", "active" or "done"
  used,     \* _persisted_bytes_locked without the terminal error
  error,    \* bytes of terminal_error
  open,     \* provider calls of the job that are not ended
  asked,    \* cancellation_requested
  refused   \* the kind of transaction the ledger refused in the last step

vars == <<stage, used, error, open, asked, refused>>

TypeOK ==
  /\ stage \in {"absent", "queued", "active", "done"}
  /\ used \in Nat /\ error \in Nat
  /\ open \in 0..MaxOpen
  /\ asked \in BOOLEAN
  /\ refused \in {"none", "write", "claim", "fail", "cancel", "settle", "recover", "requeue"}

-----------------------------------------------------------------------------

\* The ledger is checked before the rows are written, not with them.
FitsBeforeWriting(n) == used + error + Reserve <= Limit

\* The ledger with n more bytes, for a job that ends and for one that runs on.
FitsWithoutReserve(n) == used + error + n <= Limit

\* The reserve is not asked for.
ReserveForgotten(n) == FitsWithoutReserve(n)

FitsWithReserve(n) == used + error + n + Reserve <= Limit

\* One transaction: it adds n bytes, or the ledger refuses it and it is rolled back.
Transaction(kind, fits, n, effect) ==
  IF fits
  THEN used' = used + n /\ refused' = "none" /\ effect
  ELSE refused' = kind /\ UNCHANGED <<stage, used, error, open, asked>>

CreateJob(n) ==
  /\ stage = "absent"
  /\ FitsWithReserve(n)
  /\ Transaction("none", TRUE, n, stage' = "queued" /\ UNCHANGED <<error, open, asked>>)

\* The claim: a new attempt and the transition to framing.
ClaimNextJob(m) ==
  /\ stage = "queued"
  /\ Transaction("claim", FitsWithReserve(Attempt + m), Attempt + m,
                 stage' = "active" /\ UNCHANGED <<error, open, asked>>)

\* The job ends without its task: the transition is checked, the error that is written
\* after it is not.
EndsUnclaimed(kind, m) ==
  /\ stage = "queued"
  /\ Transaction(kind, FitsWithoutReserve(m), m,
                 stage' = "done" /\ error' = OwnError /\ UNCHANGED <<open, asked>>)

\* claim_next_job fails a job past its deadline, its policy or its ceiling.
FailAtClaim(m) == EndsUnclaimed("fail", m)
CancelQueued(m) == EndsUnclaimed("cancel", m)

CancelActive ==
  /\ stage = "active"
  /\ asked' = TRUE /\ refused' = "none"
  /\ UNCHANGED <<stage, used, error, open>>

\* What the task of an attempt writes keeps the reserve; afterwards now calls are open.
Writes(n, now) ==
  /\ stage = "active"
  /\ Transaction("write", FitsWithReserve(n), n,
                 open' = now /\ UNCHANGED <<stage, error, asked>>)

PutArtifact(n) == ~asked /\ Writes(n, open)
Transition(m) == ~asked /\ Writes(m, open)
AddProviderCall(n) == ~asked /\ open < MaxOpen /\ Writes(n, open + 1)
FinishProviderCall(n) == ~asked /\ open > 0 /\ Writes(n + CallEnd, open - 1)

SettleCancelledCall == asked /\ open > 0 /\ Writes(CallEnd, open - 1)

\* The error that is written: one too large for the ledger is replaced.
WrittenError(e) == IF used + e > Limit THEN OwnError ELSE e

\* settle_terminal checks the ledger before the transition, after it, and at its end; the
\* last check implies the others.
SettleTerminal(m, e) ==
  /\ stage = "active"
  /\ Transaction("settle", FitsWithoutReserve(m + Closing + WrittenError(e)), m + Closing,
                 stage' = "done" /\ error' = WrittenError(e) /\ UNCHANGED <<open, asked>>)

-----------------------------------------------------------------------------
(* recover_startup: one transaction, refused as a whole *)

\* A job that had ended: the calls it left open are closed, and nothing is checked.
RecoverEnded ==
  /\ stage = "done"
  /\ Transaction("none", TRUE, open * CallEnd, open' = 0 /\ UNCHANGED <<stage, error, asked>>)

\* An interrupted job ends: asked to cancel, at the retry ceiling, or under a failover
\* policy, the last of which closes its calls too.
RecoverToEnd(m, closed) ==
  LET n == m + Closing + closed * CallEnd IN
  /\ stage = "active"
  /\ Transaction("recover", FitsWithoutReserve(n), n,
                 stage' = "done" /\ error' = OwnError /\ open' = open - closed /\ UNCHANGED asked)

\* An interrupted job is queued again, and its transition keeps the reserve.  (attempt_id, which
\* is cleared after the check, stays counted.)
Requeue(m) ==
  /\ stage = "active" /\ ~asked
  /\ Transaction("requeue", FitsWithReserve(m + Closing), m + Closing,
                 stage' = "queued" /\ UNCHANGED <<error, open, asked>>)

RecoverStartup ==
  \/ RecoverEnded
  \/ \E m \in Moves : Requeue(m) \/ \E closed \in {0, open} : RecoverToEnd(m, closed)

-----------------------------------------------------------------------------

Init ==
  /\ stage = "absent" /\ used = 0 /\ error = 0 /\ open = 0
  /\ asked = FALSE /\ refused = "none"

Next ==
  \/ \E n \in NewJobs : CreateJob(n)
  \/ \E m \in Moves : ClaimNextJob(m) \/ FailAtClaim(m) \/ CancelQueued(m) \/ Transition(m)
  \/ CancelActive
  \/ \E n \in Outputs : PutArtifact(n) \/ FinishProviderCall(n)
  \/ \E n \in Calls : AddProviderCall(n)
  \/ SettleCancelledCall
  \/ \E m \in Moves, e \in ErrorSizes : SettleTerminal(m, e)
  \/ RecoverStartup

Spec == Init /\ [][Next]_vars

-----------------------------------------------------------------------------
(* Properties *)

\* A job that has not ended always has the settlement reserve to itself, whatever its
\* attempts, restarts and cancelled calls have written (repository.py:29-32).
ReserveKept == stage \in {"queued", "active"} => error = 0 /\ used + Reserve <= Limit

\* The ledger never exceeds the limit, although a startup closes the calls of an ended job,
\* and several transactions write a terminal error, after the last check.
LedgerWithinLimit == used + error <= Limit

\* The inductive form: the calls an ended job left open are accounted for in advance.
BudgetInv ==
  /\ TypeOK
  /\ ReserveKept
  /\ stage = "absent" => used = 0 /\ error = 0
  /\ stage = "done" => used + error + open * CallEnd <= Limit

\* No transaction that ends a job is ever refused: "Terminal liveness must not depend on
\* provider output leaving a convenient amount of space" (repository.py:30-31).
EndNeverRefused == refused \notin {"fail", "cancel", "settle", "recover"}

\* The same for the recovery of an interrupted job that may run again: startup
\* would fail as long as the job is there.  Requeueing asks for room beside the
\* reserve, so the output of the interrupted attempt decides (repository.py:519-521, 928).
RequeueNeverRefused == refused # "requeue"

=============================================================================
