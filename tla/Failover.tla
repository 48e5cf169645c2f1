------------------------------ MODULE Failover ------------------------------
(***************************************************************************)
(* The provider calls of one attempt under FailoverBackend: the primary    *)
(* route, its one retry, the fallback and the schema repair, for lanes (a  *)
(* phase and branch) that share a circuit rebuilt from the audit rows.     *)
(* One serial phase, then the rollout branches beside each other.  A step  *)
(* runs a lane to its next await, so a failed call and the start of the    *)
(* next one are one step.  The clock counts whole units.  The engine       *)
(* around the lanes (permits, soft deadline, job rows) is Engine; here it  *)
(* is what a lane sees of it.                                              *)
(***************************************************************************)
EXTENDS Naturals, FiniteSets, Sequences, SequencesExt

CONSTANTS
  Serial,     \* the lane of the serial phase, which may be asked a second time
  Branches,   \* the rollout lanes
  Primary,    \* primary_timeout_seconds
  Fallback,   \* fallback_timeout_seconds
  Fast,       \* fast_transient_seconds
  Delays,     \* retry_delay_seconds
  Deadline,   \* the hard deadline of the job
  Windows     \* the sets of lanes to follow from the start

ASSUME LaneAssumption == IsFiniteSet(Branches) /\ Serial \notin Branches

ASSUME TimeAssumption ==
  /\ Primary \in Nat \ {0} /\ Fallback \in Nat \ {0} /\ Fast \in Nat
  /\ Delays \subseteq Nat /\ Deadline \in Nat

ASSUME WindowAssumption == Windows \subseteq SUBSET ({Serial} \union Branches)

Lanes == {Serial} \union Branches

MaxPhysicalCalls == 3

\* The error codes the ladder tells apart.  RAW_TRANSPORT is OUTPUT_LIMIT_EXCEEDED with the
\* audit status OUTPUT_LIMIT_RAW_TRANSPORT, TERMINAL any other member of _TERMINAL_CODES, and
\* a code the backend does not know counts as UNCLASSIFIED_ERROR.
FallbackCodes == {"PROVIDER_ERROR", "RATE_LIMITED", "BACKEND_TIMEOUT", "UNCLASSIFIED_ERROR"}
RouteErrors == FallbackCodes \union {"RAW_TRANSPORT", "MALFORMED", "TERMINAL"}

Outcomes == RouteErrors \union
  {"none", "validated", "CALL_BUDGET_EXHAUSTED", "DEADLINE_INSUFFICIENT", "DEADLINE_EXCEEDED",
   "STALE_ATTEMPT", "CANCELLED"}

VARIABLES
  now,        \* the clock
  cancelled,  \* cancellation_requested: the output of the attempt is fenced
  calls,      \* the provider_calls rows of each lane, oldest first
  lane        \* where each lane stands

vars == <<now, cancelled, calls, lane>>

Call == [role : {"primary", "fallback"},
         code : RouteErrors \union {"started", "validated", "cancelled"},
         fast : BOOLEAN]                  \* a provider error within the fast-transient threshold

Lane == [pc : {"ready", "calling", "sleeping", "answered", "over"},
         try : {"none", "first", "retry", "fallback", "repair"},
         used : 0..MaxPhysicalCalls,      \* calls_used
         budget : 0..1,                   \* repair_budget
         since : 0..Deadline,             \* started_at of the call in flight
         wake : Nat,                      \* when asyncio.sleep returns
         outcome : Outcomes]

TypeOK ==
  /\ now \in 0..Deadline
  /\ cancelled \in BOOLEAN
  /\ calls \in [Lanes -> Seq(Call)]
  /\ lane \in [Lanes -> Lane]

-----------------------------------------------------------------------------

Timeout(role) == IF role = "primary" THEN Primary ELSE Fallback

\* remaining >= effective_timeout_seconds
Fits(role) == now + Timeout(role) <= Deadline

Points(c) ==
  CASE c.role = "primary" /\ c.code \in {"BACKEND_TIMEOUT", "RAW_TRANSPORT"} -> 2
    [] c.role = "primary" /\ c.code = "PROVIDER_ERROR" /\ c.fast -> 1
    [] OTHER -> 0

\* _circuit_score, of the rows cs of the attempt: the points are counted one by one, each named
\* by the row that scores it.
CircuitScore(cs) ==
  Cardinality(UNION {UNION {{<<l, i>>} \X (1..Points(cs[l][i])) : i \in 1..Len(cs[l])} :
                     l \in Lanes})

CircuitOpen(cs) == CircuitScore(cs) >= 2

\* The output fence of the repository: the attempt is current, not cancelled, not expired.
Accepts == ~cancelled /\ now < Deadline

\* The rows once the open call of lane l has ended with code.  How long a call took is only ever
\* asked of a provider error.
Ended(l, code) ==
  [calls EXCEPT ![l][Len(calls[l])] =
     [@ EXCEPT !.code = code, !.fast = code = "PROVIDER_ERROR" /\ now - lane[l].since <= Fast]]

\* A lane between two invocations: the locals of _invoke are gone.
Idle(pc, budget, outcome) ==
  [pc |-> pc, try |-> "none", used |-> 0, budget |-> budget, since |-> 0, wake |-> 0,
   outcome |-> outcome]

Over(l, cs, code) ==
  /\ calls' = cs
  /\ lane' = [lane EXCEPT ![l] = Idle("over", 0, code)]

\* _phase runs once more, at the cost of one from the repair budget.
AskAgain(l, cs) ==
  /\ lane[l].budget > 0
  /\ calls' = cs
  /\ lane' = [lane EXCEPT ![l] = Idle("ready", @.budget - 1, "none")]

\* A BackendError reaches _phase: malformed output is repaired once, on the shared budget.
Raise(l, cs, code) ==
  IF code = "MALFORMED" /\ lane[l].budget > 0 THEN AskAgain(l, cs) ELSE Over(l, cs, code)

\* audit.start, which the repository refuses for an attempt that is fenced, and the await.
StartCall(l, cs, role, try, used) ==
  IF Accepts
  THEN /\ calls' = [cs EXCEPT ![l] =
                      Append(@, [role |-> role, code |-> "started", fast |-> FALSE])]
       /\ lane' = [lane EXCEPT ![l] = [@ EXCEPT !.pc = "calling", !.try = try, !.used = used,
                                                !.since = now, !.wake = 0]]
  ELSE Over(l, cs, "STALE_ATTEMPT")

CallFallback(l, cs, used) ==
  \/ /\ used >= MaxPhysicalCalls
     /\ Raise(l, cs, "CALL_BUDGET_EXHAUSTED")
  \/ /\ used < MaxPhysicalCalls
     /\ ~Fits("fallback")
     /\ Raise(l, cs, "DEADLINE_INSUFFICIENT")
  \/ /\ used < MaxPhysicalCalls
     /\ Fits("fallback")
     /\ StartCall(l, cs, "fallback", "fallback", used + 1)

\* The primary route admitted on the score that was read when the invocation began: here,
\* that a circuit which opened since does not stop it.
CallPrimaryUnchecked(l, cs, used, try) ==
  \/ /\ ~Fits("primary")
     /\ Raise(l, cs, "DEADLINE_INSUFFICIENT")
  \/ /\ Fits("primary")
     /\ StartCall(l, cs, "primary", try, used + 1)

\* call_primary: the deadline first, then the circuit under the admission lock (which is never
\* contended: admit does not await).  _PrimaryCircuitOpen takes the count back.
CallPrimary(l, cs, used, try) ==
  \/ /\ ~Fits("primary")
     /\ Raise(l, cs, "DEADLINE_INSUFFICIENT")
  \/ /\ Fits("primary")
     /\ CircuitOpen(cs)
     /\ CallFallback(l, cs, used)
  \/ /\ Fits("primary")
     /\ ~CircuitOpen(cs)
     /\ StartCall(l, cs, "primary", try, used + 1)

\* A repair like any other invocation: the circuit decides the route.
RepairAnywhere(l) == CallPrimary(l, calls, Len(calls[l]), "repair")

\* The repair goes back to the route that produced the malformed output, or nowhere.
Repair(l) ==
  LET role == Last(calls[l]).role IN
  \/ /\ ~Fits(role)
     /\ Raise(l, calls, "DEADLINE_INSUFFICIENT")
  \/ /\ Fits(role)
     /\ role = "primary" /\ CircuitOpen(calls)
     /\ Raise(l, calls, "MALFORMED")
  \/ /\ Fits(role)
     /\ role = "fallback" \/ ~CircuitOpen(calls)
     /\ StartCall(l, calls, role, "repair", Len(calls[l]))

-----------------------------------------------------------------------------

\* The last call of the lane produced malformed output.
IsRepair(l) == calls[l] # << >> /\ Last(calls[l]).code = "MALFORMED"

\* calls_used counts the calls of this invocation only, not those of an earlier one.
InvokeAfresh(l) ==
  /\ lane[l].pc = "ready"
  /\ l \in Branches => lane[Serial].outcome = "validated"
  /\ \/ /\ ~Accepts
        /\ Over(l, calls, IF cancelled THEN "CANCELLED" ELSE "DEADLINE_EXCEEDED")
     \/ Accepts /\ IsRepair(l) /\ Repair(l)
     \/ /\ Accepts /\ ~IsRepair(l)
        /\ IF CircuitOpen(calls) THEN CallFallback(l, calls, 0)
                                 ELSE CallPrimary(l, calls, 0, "first")
  /\ UNCHANGED <<now, cancelled>>

\* One pass of the loop in _phase, from its guard to the first await inside _invoke.
Invoke(l) ==
  /\ lane[l].pc = "ready"
  /\ l \in Branches => lane[Serial].outcome = "validated"
  /\ LET used == Len(calls[l]) IN
     \/ /\ ~Accepts
        /\ Over(l, calls, IF cancelled THEN "CANCELLED" ELSE "DEADLINE_EXCEEDED")
     \/ /\ Accepts
        /\ used >= MaxPhysicalCalls
        /\ Raise(l, calls, "CALL_BUDGET_EXHAUSTED")
     \/ /\ Accepts
        /\ used < MaxPhysicalCalls
        /\ IsRepair(l)
        /\ Repair(l)
     \/ /\ Accepts
        /\ used < MaxPhysicalCalls
        /\ ~IsRepair(l)
        /\ IF CircuitOpen(calls) THEN CallFallback(l, calls, used)
                                 ELSE CallPrimary(l, calls, used, "first")
  /\ UNCHANGED <<now, cancelled>>

IsRetryable(c) == c.code = "RATE_LIMITED" \/ (c.code = "PROVIDER_ERROR" /\ c.fast)

\* A retry that leaves no time for the fallback.
RetryFitsAlone(delay) == now + delay + Primary <= Deadline

RetryFits(delay) == now + delay + Primary + Fallback <= Deadline

\* What _invoke does with an error of its first primary call.
AfterFirst(l, cs, code) ==
  LET retryable == IsRetryable(Last(cs[l])) IN
  \/ /\ code \in {"MALFORMED", "TERMINAL"}
     /\ Raise(l, cs, code)
  \/ \E delay \in Delays :
       /\ retryable /\ lane[l].used < MaxPhysicalCalls /\ RetryFits(delay)
       /\ calls' = cs
       /\ lane' = [lane EXCEPT ![l] = [@ EXCEPT !.pc = "sleeping", !.since = 0,
                                                !.wake = now + delay]]
  \/ /\ code \in FallbackCodes \union {"RAW_TRANSPORT"}
     /\ retryable => lane[l].used >= MaxPhysicalCalls \/ \E delay \in Delays : ~RetryFits(delay)
     /\ CallFallback(l, cs, lane[l].used)

AfterRetry(l, cs, code) ==
  IF code \in {"MALFORMED", "TERMINAL"} THEN Raise(l, cs, code)
                                        ELSE CallFallback(l, cs, lane[l].used)

\* The route raises a BackendError, its own or the route timeout; a route may also raise one
\* while it unwinds after the timeout.  The row is ended, or the attempt is found stale.
RouteFails(l, code) ==
  /\ lane[l].pc = "calling"
  /\ LET cs == Ended(l, code) IN
     \/ ~Accepts /\ Over(l, calls, "STALE_ATTEMPT")
     \/ Accepts /\ lane[l].try = "first" /\ AfterFirst(l, cs, code)
     \/ Accepts /\ lane[l].try = "retry" /\ AfterRetry(l, cs, code)
     \/ Accepts /\ lane[l].try \in {"fallback", "repair"} /\ Raise(l, cs, code)
  /\ UNCHANGED <<now, cancelled>>

\* The sleep before the retry ends.
Wake(l) ==
  /\ lane[l].pc = "sleeping"
  /\ lane[l].wake <= now
  /\ CallPrimary(l, calls, lane[l].used, "retry")
  /\ UNCHANGED <<now, cancelled>>

\* The route raises something else (a process that does not stop, for one): _invoke does not
\* catch it, and the engine closes the row.
RouteBreaks(l) ==
  /\ lane[l].pc = "calling"
  /\ Over(l, IF Accepts THEN Ended(l, "UNCLASSIFIED_ERROR") ELSE calls, "UNCLASSIFIED_ERROR")
  /\ UNCHANGED <<now, cancelled>>

\* A result that comes after the route timeout is dropped.
Answer(l) ==
  /\ lane[l].pc = "calling"
  /\ now <= lane[l].since + Timeout(Last(calls[l]).role)
  /\ lane' = [lane EXCEPT ![l].pc = "answered"]
  /\ UNCHANGED <<now, cancelled, calls>>

\* _phase validates the answer.  An answer of the serial phase that is well formed but not what
\* was asked for (perspectives that are not diverse) is asked for again, on the same budget.
CheckAnswer(l) ==
  /\ lane[l].pc = "answered"
  /\ \/ ~Accepts /\ Over(l, IF cancelled THEN Ended(l, "cancelled") ELSE calls,
                         IF cancelled THEN "CANCELLED" ELSE "DEADLINE_EXCEEDED")
     \/ Accepts /\ Over(l, Ended(l, "validated"), "validated")
     \/ Accepts /\ Raise(l, Ended(l, "MALFORMED"), "MALFORMED")
     \/ Accepts /\ Raise(l, Ended(l, "TERMINAL"), "TERMINAL")
     \/ Accepts /\ l = Serial /\ AskAgain(l, Ended(l, "validated"))
  /\ UNCHANGED <<now, cancelled>>

\* asyncio.wait runs out: the engine leaves the call behind, and its row is fenced.
Expire(l) ==
  /\ lane[l].pc \in {"calling", "sleeping"}
  /\ now = Deadline
  /\ Over(l, calls, "DEADLINE_EXCEEDED")
  /\ UNCHANGED <<now, cancelled>>

\* The task of the lane is cancelled, and its open row is closed.
DeliverCancel(l) ==
  /\ cancelled
  /\ lane[l].pc \in {"calling", "sleeping"}
  /\ Over(l, IF lane[l].pc = "calling" THEN Ended(l, "cancelled") ELSE calls, "CANCELLED")
  /\ UNCHANGED <<now, cancelled>>

RequestCancel ==
  /\ ~cancelled
  /\ cancelled' = TRUE
  /\ UNCHANGED <<now, calls, lane>>

\* The event loop is prompt: a lane whose sleep is over, or whose answer has come, runs before
\* the clock moves.  A call is not: it may overrun its timeout while it unwinds.
Tick ==
  /\ now < Deadline
  /\ \A l \in Lanes : /\ lane[l].pc # "answered"
                      /\ lane[l].pc = "sleeping" => now < lane[l].wake
  /\ now' = now + 1
  /\ UNCHANGED <<cancelled, calls, lane>>

\* The lanes of one window.  A serial phase outside of it was answered at once by the primary; a
\* branch outside of it was not asked for.
Init ==
  /\ now = 0
  /\ cancelled = FALSE
  /\ \E window \in Windows :
       /\ calls = [l \in Lanes |-> IF l = Serial /\ l \notin window
                                 THEN <<[role |-> "primary", code |-> "validated", fast |-> FALSE]>>
                                 ELSE << >>]
       /\ lane = [l \in Lanes |-> IF l \in window THEN Idle("ready", 1, "none")
                                ELSE Idle("over", 0, IF l = Serial THEN "validated" ELSE "none")]

Next ==
  \/ \E l \in Lanes : \/ Invoke(l) \/ Wake(l)
                      \/ \E code \in RouteErrors : RouteFails(l, code)
                      \/ RouteBreaks(l)
                      \/ Answer(l) \/ CheckAnswer(l)
                      \/ Expire(l) \/ DeliverCancel(l)
  \/ RequestCancel
  \/ Tick

Spec == Init /\ [][Next]_vars

-----------------------------------------------------------------------------

\* No lane has more than three physical calls, whatever mixture of retry, fallback, repair and
\* second question it took, and none is told that its calls are spent while one is left.
BudgetIsExact ==
  \A l \in Lanes :
    /\ Len(calls[l]) <= MaxPhysicalCalls
    /\ lane[l].outcome = "CALL_BUDGET_EXHAUSTED" => Len(calls[l]) = MaxPhysicalCalls

\* The precedence of the failover ladder, read off the rows a lane leaves behind (c, then d):
\* nothing follows a call that is open, cancelled or ended by a terminal error; malformed
\* output is repaired once, by the route that produced it; a failed fallback ends the lane; the
\* primary is called again only after a rate limit or a fast provider error, and then once.
LadderIsKept ==
  \A l \in Lanes :
    LET rows == calls[l]
        Repaired == {i \in 1..(Len(rows) - 1) : rows[i].code = "MALFORMED"}
        Retried == {i \in 1..(Len(rows) - 1) : /\ rows[i].code \in FallbackCodes
                                               /\ rows[i + 1].role = "primary"} IN
    /\ \A i \in 1..(Len(rows) - 1) :
         LET c == rows[i]
             d == rows[i + 1] IN
         /\ c.code \notin {"started", "cancelled", "TERMINAL"}
         /\ c.code = "MALFORMED" => d.role = c.role
         /\ c.role = "fallback" => c.code \in {"MALFORMED", "validated"}
    /\ \A i \in Retried : IsRetryable(rows[i])
    /\ Cardinality(Repaired) <= 1
    /\ Cardinality(Retried) <= 1

\* What opens the circuit, in the words of the resilience contract: a primary call that timed
\* out or overran its raw transport limit, or two fast provider errors of the primary.
CircuitEvidence(cs) ==
  LET Rows == UNION {{<<l, i>> : i \in 1..Len(cs[l])} : l \in Lanes}
      Primaries(codes) == {r \in Rows : /\ cs[r[1]][r[2]].role = "primary"
                                        /\ cs[r[1]][r[2]].code \in codes} IN
  \/ Primaries({"BACKEND_TIMEOUT", "RAW_TRANSPORT"}) # {}
  \/ \E r, s \in Primaries({"PROVIDER_ERROR"}) :
       r # s /\ cs[r[1]][r[2]].fast /\ cs[s[1]][s[2]].fast

\* No primary call starts once the attempt has the evidence, in whichever lane it arose and
\* whatever the lane was doing; and a lane goes to the fallback only after a primary call of its
\* own failed, to repair what the fallback produced, or on that evidence.
CircuitGatesCalls ==
  [][\A l \in Lanes : Len(calls'[l]) > Len(calls[l]) =>
       LET before == Len(calls[l])
           role == Last(calls'[l]).role IN
       /\ role = "primary" => ~CircuitEvidence(calls')
       /\ role = "fallback" =>
            \/ CircuitEvidence(calls')
            \/ /\ before > 0
               /\ LET c == calls'[l][before] IN
                  \/ c.role = "primary" /\ c.code \in FallbackCodes
                  \/ c.role = "fallback" /\ c.code = "MALFORMED"]_vars

\* A lane that sleeps before the retry, or whose retry is within its timeout, never ends for
\* want of time: the retry does not cost the lane its fallback.  And no call loses to the hard
\* deadline before it has had the timeout it was admitted with.
TimeIsReserved ==
  [][\A l \in Lanes : lane'[l] # lane[l] =>
       LET elapsed == now - lane[l].since IN
       /\ lane[l].pc = "sleeping" =>
            lane'[l].outcome \notin {"DEADLINE_INSUFFICIENT", "DEADLINE_EXCEEDED"}
       /\ lane[l].pc = "calling" /\ lane[l].try = "retry"
            /\ lane'[l].outcome = "DEADLINE_INSUFFICIENT" => elapsed > Primary
       /\ lane[l].pc = "calling" /\ lane'[l].outcome = "DEADLINE_EXCEEDED" =>
            elapsed >= Timeout(Last(calls[l]).role)]_vars

=============================================================================
