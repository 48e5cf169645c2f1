--------------------------- MODULE FailoverProofs ---------------------------
(***************************************************************************)
(* The call budget, the reserved time, the precedence of the failover      *)
(* ladder and the circuit, for any number of branches and any timeouts.    *)
(* The rows of a lane are bounded because calls_used, which lives in the   *)
(* coroutine, agrees with the rows whenever the coroutine still reads it:  *)
(* IInv says so, and that a sleeping lane has a call left.  TimeInv adds   *)
(* the time a lane has reserved, LadderInv what its rows say of where it   *)
(* stands; the circuit needs no more, once the score is shown to be what   *)
(* the resilience contract says in words (CircuitIsEvidence).              *)
(***************************************************************************)
EXTENDS Failover, FiniteSetTheorems, TLAPS

LOCAL INSTANCE SequenceTheorems

\* One lane: its rows and where it stands.
LaneOK(rows, r) ==
  /\ Len(rows) <= MaxPhysicalCalls
  /\ r.pc \in {"calling", "answered"} => rows # << >>
  /\ r.pc = "calling" /\ r.try \in {"first", "retry"} => r.used = Len(rows)
  /\ r.pc = "sleeping" => r.used = Len(rows) /\ r.used < MaxPhysicalCalls
  /\ r.pc # "over" => r.outcome = "none"
  /\ r.outcome = "CALL_BUDGET_EXHAUSTED" => Len(rows) = MaxPhysicalCalls

Typed ==
  /\ calls \in [Lanes -> Seq(Call)]
  /\ lane \in [Lanes -> Lane]

LanesOK ==
  /\ Typed
  /\ \A l \in Lanes : LaneOK(calls[l], lane[l])

IInv ==
  /\ now \in 0..Deadline
  /\ cancelled \in BOOLEAN
  /\ LanesOK

\* The rows cs differ from calls only in how the last call of lane l ended.
RowsOf(l, cs) ==
  /\ cs \in [Lanes -> Seq(Call)]
  /\ Len(cs[l]) = Len(calls[l])
  /\ \A m \in Lanes \ {l} : cs[m] = calls[m]

\* What the helpers below are used under: the invariant, and lane l not over.
Ready(l, cs) ==
  /\ IInv
  /\ l \in Lanes
  /\ lane[l].pc # "over"
  /\ RowsOf(l, cs)

-----------------------------------------------------------------------------

\* A step that gives lane l a good row sequence and record, and leaves the others alone.
LEMMA OneLaneMoves ==
  ASSUME IInv, NEW l \in Lanes, NEW rows \in Seq(Call), NEW r \in Lane, LaneOK(rows, r),
         calls' \in [Lanes -> Seq(Call)], calls'[l] = rows,
         \A m \in Lanes \ {l} : calls'[m] = calls[m],
         lane' = [lane EXCEPT ![l] = r]
  PROVE  LanesOK'
<1>1. lane' \in [Lanes -> Lane]
  BY DEF IInv, LanesOK, Typed
<1>2. ASSUME NEW m \in Lanes
      PROVE  LaneOK(calls'[m], lane'[m])
  <2>1. CASE m = l
    BY <2>1 DEF IInv, LanesOK, Typed
  <2>2. CASE m # l
    <3>1. calls'[m] = calls[m] /\ lane'[m] = lane[m]
      BY <2>2 DEF IInv, LanesOK, Typed
    <3>. QED
      BY <3>1 DEF IInv, LanesOK
  <2>. QED
    BY <2>1, <2>2
<1>. QED
  BY <1>1, <1>2 DEF LanesOK, Typed

LEMMA OverKeeps ==
  ASSUME NEW l, NEW cs, Ready(l, cs), NEW code \in Outcomes,
         code = "CALL_BUDGET_EXHAUSTED" => Len(cs[l]) >= MaxPhysicalCalls,
         Over(l, cs, code)
  PROVE  LanesOK'
<1>. DEFINE r == Idle("over", 0, code)
<1>1. r \in Lane
  BY TimeAssumption DEF Idle, Lane, MaxPhysicalCalls
<1>2. LaneOK(cs[l], r)
  BY DEF LaneOK, Idle, Ready, RowsOf, IInv, LanesOK, Typed, MaxPhysicalCalls
<1>3. cs[l] \in Seq(Call) /\ calls' = cs /\ lane' = [lane EXCEPT ![l] = r]
  BY DEF Over, Ready, RowsOf, IInv, LanesOK, Typed
<1>. QED
  BY <1>1, <1>2, <1>3, OneLaneMoves DEF Ready, RowsOf

LEMMA AskAgainKeeps ==
  ASSUME NEW l, NEW cs, Ready(l, cs), AskAgain(l, cs)
  PROVE  LanesOK'
<1>. DEFINE r == Idle("ready", lane[l].budget - 1, "none")
<1>1. lane[l] \in Lane /\ LaneOK(calls[l], lane[l]) /\ cs[l] \in Seq(Call)
  BY DEF Ready, RowsOf, IInv, LanesOK, Typed
<1>2. r \in Lane
  BY <1>1, TimeAssumption DEF Idle, Lane, AskAgain, MaxPhysicalCalls, Outcomes
<1>3. LaneOK(cs[l], r)
  BY <1>1 DEF LaneOK, Idle, Ready, RowsOf
<1>4. calls' = cs /\ lane' = [lane EXCEPT ![l] = r]
  BY DEF AskAgain, Ready, IInv, LanesOK, Typed
<1>. QED
  BY <1>1, <1>2, <1>3, <1>4, OneLaneMoves DEF Ready, RowsOf

LEMMA RaiseKeeps ==
  ASSUME NEW l, NEW cs, Ready(l, cs), NEW code \in Outcomes,
         code = "CALL_BUDGET_EXHAUSTED" => Len(cs[l]) >= MaxPhysicalCalls,
         Raise(l, cs, code)
  PROVE  LanesOK'
BY OverKeeps, AskAgainKeeps DEF Raise

\* A call starts only with room for its row; a first call or a retry is counted.
LEMMA StartCallKeeps ==
  ASSUME NEW l, NEW cs, Ready(l, cs), NEW role \in {"primary", "fallback"},
         NEW try \in {"first", "retry", "fallback", "repair"},
         NEW used \in 0..MaxPhysicalCalls,
         Len(cs[l]) < MaxPhysicalCalls,
         try \in {"first", "retry"} => used = Len(cs[l]) + 1,
         StartCall(l, cs, role, try, used)
  PROVE  LanesOK'
<1>1. CASE ~Accepts
  BY <1>1, OverKeeps DEF StartCall, Outcomes
<1>2. CASE Accepts
  <2>. DEFINE call == [role |-> role, code |-> "started", fast |-> FALSE]
              r == [lane[l] EXCEPT !.pc = "calling", !.try = try, !.used = used,
                                   !.since = now, !.wake = 0]
  <2>1. lane[l] \in Lane /\ LaneOK(calls[l], lane[l]) /\ cs[l] \in Seq(Call)
    BY DEF Ready, RowsOf, IInv, LanesOK, Typed
  <2>2. call \in Call
    BY DEF Call
  <2>3. Append(cs[l], call) \in Seq(Call) /\ Len(Append(cs[l], call)) = Len(cs[l]) + 1
    BY <2>1, <2>2
  <2>4. r \in Lane
    BY <2>1 DEF Lane, Ready, IInv
  <2>5. /\ r.pc = "calling" /\ r.try = try /\ r.used = used /\ r.outcome = "none"
    BY <2>1 DEF Lane, LaneOK, Ready
  <2>6. Append(cs[l], call) # << >>
    <3>1. Len(cs[l]) \in Nat /\ Len(<< >>) = 0
      BY <2>1
    <3>. QED
      BY <2>3, <3>1
  <2>7. LaneOK(Append(cs[l], call), r)
    BY <2>1, <2>3, <2>5, <2>6 DEF LaneOK, MaxPhysicalCalls
  <2>8. /\ calls' = [cs EXCEPT ![l] = Append(cs[l], call)]
        /\ lane' = [lane EXCEPT ![l] = r]
    BY <1>2 DEF StartCall
  <2>9. /\ calls' \in [Lanes -> Seq(Call)]
        /\ calls'[l] = Append(cs[l], call)
        /\ \A m \in Lanes \ {l} : calls'[m] = calls[m]
    BY <2>3, <2>8 DEF Ready, RowsOf
  <2>. QED
    BY <2>3, <2>4, <2>7, <2>8, <2>9, OneLaneMoves DEF Ready
<1>. QED
  BY <1>1, <1>2

\* With a count that agrees with the rows, the limit on the count is one on the rows.
LEMMA CallFallbackKeeps ==
  ASSUME NEW l, NEW cs, Ready(l, cs), CallFallback(l, cs, Len(cs[l]))
  PROVE  LanesOK'
<1>1. cs[l] \in Seq(Call) /\ Len(cs[l]) \in Nat
  BY DEF Ready, RowsOf
<1>2. CASE Len(cs[l]) >= MaxPhysicalCalls /\ Raise(l, cs, "CALL_BUDGET_EXHAUSTED")
  BY <1>2, RaiseKeeps DEF Outcomes
<1>3. CASE Raise(l, cs, "DEADLINE_INSUFFICIENT")
  BY <1>3, RaiseKeeps DEF Outcomes
<1>4. CASE /\ Len(cs[l]) < MaxPhysicalCalls
           /\ StartCall(l, cs, "fallback", "fallback", Len(cs[l]) + 1)
  BY <1>1, <1>4, StartCallKeeps DEF MaxPhysicalCalls
<1>. QED
  BY <1>2, <1>3, <1>4 DEF CallFallback

LEMMA CallPrimaryKeeps ==
  ASSUME NEW l, NEW cs, Ready(l, cs), NEW try \in {"first", "retry"},
         Len(cs[l]) < MaxPhysicalCalls, CallPrimary(l, cs, Len(cs[l]), try)
  PROVE  LanesOK'
<1>1. cs[l] \in Seq(Call) /\ Len(cs[l]) \in Nat
  BY DEF Ready, RowsOf
<1>2. CASE Raise(l, cs, "DEADLINE_INSUFFICIENT")
  BY <1>2, RaiseKeeps DEF Outcomes
<1>3. CASE CallFallback(l, cs, Len(cs[l]))
  BY <1>3, CallFallbackKeeps
<1>4. CASE StartCall(l, cs, "primary", try, Len(cs[l]) + 1)
  BY <1>1, <1>4, StartCallKeeps DEF MaxPhysicalCalls
<1>. QED
  BY <1>2, <1>3, <1>4 DEF CallPrimary

\* The open call of a lane ends: no row is added, and the other lanes keep theirs.
LEMMA EndedRows ==
  ASSUME IInv, NEW l \in Lanes, lane[l].pc \in {"calling", "answered"},
         NEW code \in RouteErrors \union {"validated", "cancelled"}
  PROVE  RowsOf(l, Ended(l, code))
<1>. DEFINE n == Len(calls[l])
            c == [calls[l][n] EXCEPT !.code = code,
                    !.fast = code = "PROVIDER_ERROR" /\ now - lane[l].since <= Fast]
<1>1. calls \in [Lanes -> Seq(Call)] /\ calls[l] \in Seq(Call) /\ calls[l] # << >>
  BY DEF IInv, LanesOK, Typed, LaneOK
<1>2. n \in 1..Len(calls[l]) /\ calls[l][n] \in Call
  BY <1>1
<1>3. c \in Call
  BY <1>2 DEF Call
<1>4. Ended(l, code) = [calls EXCEPT ![l] = [calls[l] EXCEPT ![n] = c]]
  BY DEF Ended
<1>5. [calls[l] EXCEPT ![n] = c] \in Seq(Call) /\ Len([calls[l] EXCEPT ![n] = c]) = n
  BY <1>1, <1>2, <1>3
<1>. HIDE DEF n, c
<1>. QED
  BY <1>1, <1>4, <1>5 DEF RowsOf, n

-----------------------------------------------------------------------------

LEMMA InvokeKeeps ==
  ASSUME IInv, NEW l \in Lanes, Invoke(l)
  PROVE  LanesOK'
<1>1. Ready(l, calls)
  BY DEF Ready, RowsOf, Invoke, IInv, LanesOK, Typed
<1>2. calls[l] \in Seq(Call) /\ Len(calls[l]) \in Nat
  BY DEF IInv, LanesOK, Typed
<1>3. CASE Over(l, calls, IF cancelled THEN "CANCELLED" ELSE "DEADLINE_EXCEEDED")
  BY <1>1, <1>3, OverKeeps DEF Outcomes
<1>4. CASE Len(calls[l]) >= MaxPhysicalCalls /\ Raise(l, calls, "CALL_BUDGET_EXHAUSTED")
  BY <1>1, <1>4, RaiseKeeps DEF Outcomes
<1>5. CASE Len(calls[l]) < MaxPhysicalCalls /\ IsRepair(l) /\ Repair(l)
  <2>. DEFINE role == Last(calls[l]).role
  <2>1. role \in {"primary", "fallback"}
    <3>1. calls[l] # << >>
      BY <1>5 DEF IsRepair
    <3>2. calls[l][Len(calls[l])] \in Call
      BY <1>2, <3>1
    <3>. QED
      BY <3>2 DEF Last, Call
  <2>2. CASE Raise(l, calls, "DEADLINE_INSUFFICIENT")
    BY <1>1, <2>2, RaiseKeeps DEF Outcomes
  <2>3. CASE Raise(l, calls, "MALFORMED")
    BY <1>1, <2>3, RaiseKeeps DEF Outcomes, RouteErrors
  <2>4. CASE StartCall(l, calls, role, "repair", Len(calls[l]))
    BY <1>1, <1>2, <1>5, <2>1, <2>4, StartCallKeeps DEF MaxPhysicalCalls
  <2>. QED
    BY <1>5, <2>2, <2>3, <2>4 DEF Repair
<1>6. CASE Len(calls[l]) < MaxPhysicalCalls /\ CallFallback(l, calls, Len(calls[l]))
  BY <1>1, <1>6, CallFallbackKeeps
<1>7. CASE Len(calls[l]) < MaxPhysicalCalls /\ CallPrimary(l, calls, Len(calls[l]), "first")
  BY <1>1, <1>7, CallPrimaryKeeps
<1>. QED
  BY <1>3, <1>4, <1>5, <1>6, <1>7 DEF Invoke

LEMMA RouteFailsKeeps ==
  ASSUME IInv, NEW l \in Lanes, NEW code \in RouteErrors, RouteFails(l, code)
  PROVE  LanesOK'
<1>. DEFINE cs == Ended(l, code)
<1>1. Ready(l, calls)
  BY DEF Ready, RowsOf, RouteFails, IInv, LanesOK, Typed
<1>2. RowsOf(l, cs)
  BY EndedRows DEF RouteFails
<1>3. Ready(l, cs)
  BY <1>2 DEF Ready, RouteFails
<1>4. code \in Outcomes /\ code # "CALL_BUDGET_EXHAUSTED"
  BY DEF Outcomes, RouteErrors, FallbackCodes
<1>5. /\ lane[l] \in Lane /\ LaneOK(calls[l], lane[l]) /\ lane[l].pc = "calling"
      /\ cs[l] \in Seq(Call) /\ Len(cs[l]) = Len(calls[l]) /\ Len(cs[l]) \in Nat
  BY <1>2 DEF IInv, LanesOK, Typed, RouteFails, RowsOf
<1>6. lane[l].try \in {"first", "retry"} => lane[l].used = Len(cs[l])
  BY <1>5 DEF LaneOK
<1>7. CASE Over(l, calls, "STALE_ATTEMPT")
  BY <1>1, <1>7, OverKeeps DEF Outcomes
<1>8. CASE Raise(l, cs, code)
  BY <1>3, <1>4, <1>8, RaiseKeeps
<1>9. CASE lane[l].try \in {"first", "retry"} /\ CallFallback(l, cs, lane[l].used)
  BY <1>3, <1>6, <1>9, CallFallbackKeeps
<1>10. ASSUME lane[l].try = "first", NEW delay \in Delays,
              lane[l].used < MaxPhysicalCalls, calls' = cs,
              lane' = [lane EXCEPT ![l] = [@ EXCEPT !.pc = "sleeping", !.since = 0,
                                                    !.wake = now + delay]]
       PROVE  LanesOK'
  <2>. DEFINE r == [lane[l] EXCEPT !.pc = "sleeping", !.since = 0, !.wake = now + delay]
  <2>1. now \in Nat /\ now + delay \in Nat /\ 0 \in 0..Deadline
    BY TimeAssumption DEF IInv
  <2>2. r \in Lane
    BY <1>5, <2>1 DEF Lane
  <2>3. r.pc = "sleeping" /\ r.used = lane[l].used /\ r.outcome = "none"
    BY <1>5 DEF Lane, LaneOK
  <2>4. LaneOK(cs[l], r)
    BY <1>5, <1>6, <1>10, <2>3 DEF LaneOK
  <2>5. lane' = [lane EXCEPT ![l] = r]
    BY <1>10
  <2>. HIDE DEF r, cs
  <2>. QED
    BY <1>2, <1>5, <1>10, <2>2, <2>4, <2>5, OneLaneMoves DEF RowsOf
<1>11. CASE lane[l].try = "first" /\ AfterFirst(l, cs, code)
  BY <1>8, <1>9, <1>10, <1>11 DEF AfterFirst
<1>12. CASE lane[l].try = "retry" /\ AfterRetry(l, cs, code)
  BY <1>8, <1>9, <1>12 DEF AfterRetry
<1>. QED
  BY <1>7, <1>8, <1>11, <1>12 DEF RouteFails

LEMMA WakeKeeps ==
  ASSUME IInv, NEW l \in Lanes, Wake(l)
  PROVE  LanesOK'
<1>1. Ready(l, calls)
  BY DEF Ready, RowsOf, Wake, IInv, LanesOK, Typed
<1>2. lane[l].used = Len(calls[l]) /\ Len(calls[l]) < MaxPhysicalCalls
  BY DEF Wake, IInv, LanesOK, LaneOK
<1>. QED
  BY <1>1, <1>2, CallPrimaryKeeps DEF Wake

\* The steps that end a lane, or that only note its answer.
LEMMA EndingsKeep ==
  ASSUME IInv, NEW l \in Lanes,
         RouteBreaks(l) \/ Answer(l) \/ CheckAnswer(l) \/ Expire(l) \/ DeliverCancel(l)
  PROVE  LanesOK'
<1>1. Ready(l, calls)
  BY DEF Ready, RowsOf, IInv, LanesOK, Typed, RouteBreaks, Answer, CheckAnswer, Expire,
         DeliverCancel
<1>2. ASSUME lane[l].pc \in {"calling", "answered"},
             NEW code \in RouteErrors \union {"validated", "cancelled"}
      PROVE  Ready(l, Ended(l, code))
  BY <1>2, EndedRows DEF Ready
<1>3. CASE RouteBreaks(l)
  <2>1. Ready(l, Ended(l, "UNCLASSIFIED_ERROR"))
    BY <1>2, <1>3 DEF RouteBreaks, RouteErrors, FallbackCodes
  <2>2. PICK cs \in {calls, Ended(l, "UNCLASSIFIED_ERROR")} : Over(l, cs, "UNCLASSIFIED_ERROR")
    BY <1>3 DEF RouteBreaks
  <2>3. "UNCLASSIFIED_ERROR" \in Outcomes
    BY DEF Outcomes, RouteErrors, FallbackCodes
  <2>. QED
    BY <1>1, <2>1, <2>2, <2>3, OverKeeps
<1>4. CASE Answer(l)
  <2>. DEFINE r == [lane[l] EXCEPT !.pc = "answered"]
  <2>1. lane[l] \in Lane /\ LaneOK(calls[l], lane[l]) /\ calls[l] \in Seq(Call)
    BY DEF IInv, LanesOK, Typed
  <2>2. r \in Lane /\ r.pc = "answered" /\ r.outcome = lane[l].outcome
    BY <2>1 DEF Lane
  <2>3. LaneOK(calls[l], r)
    BY <1>4, <2>1, <2>2 DEF LaneOK, Answer
  <2>4. calls' = calls /\ lane' = [lane EXCEPT ![l] = r]
    BY <1>4 DEF Answer
  <2>. QED
    BY <2>1, <2>2, <2>3, <2>4, OneLaneMoves DEF IInv, LanesOK, Typed
<1>5. CASE CheckAnswer(l)
  <2>1. lane[l].pc = "answered"
    BY <1>5 DEF CheckAnswer
  <2>2. /\ Ready(l, Ended(l, "cancelled")) /\ Ready(l, Ended(l, "validated"))
        /\ Ready(l, Ended(l, "MALFORMED")) /\ Ready(l, Ended(l, "TERMINAL"))
    BY <1>2, <2>1 DEF RouteErrors
  <2>3. CASE Over(l, IF cancelled THEN Ended(l, "cancelled") ELSE calls,
                  IF cancelled THEN "CANCELLED" ELSE "DEADLINE_EXCEEDED")
    BY <1>1, <2>2, <2>3, OverKeeps DEF Outcomes
  <2>4. CASE Over(l, Ended(l, "validated"), "validated")
    BY <2>2, <2>4, OverKeeps DEF Outcomes
  <2>5. CASE Raise(l, Ended(l, "MALFORMED"), "MALFORMED")
    BY <2>2, <2>5, RaiseKeeps DEF Outcomes, RouteErrors
  <2>6. CASE Raise(l, Ended(l, "TERMINAL"), "TERMINAL")
    BY <2>2, <2>6, RaiseKeeps DEF Outcomes, RouteErrors
  <2>7. CASE AskAgain(l, Ended(l, "validated"))
    BY <2>2, <2>7, AskAgainKeeps
  <2>. QED
    BY <1>5, <2>3, <2>4, <2>5, <2>6, <2>7 DEF CheckAnswer
<1>6. CASE Expire(l)
  BY <1>1, <1>6, OverKeeps DEF Expire, Outcomes
<1>7. CASE DeliverCancel(l)
  <2>1. lane[l].pc = "calling" => Ready(l, Ended(l, "cancelled"))
    BY <1>2
  <2>2. "CANCELLED" \in Outcomes
    BY DEF Outcomes
  <2>. QED
    BY <1>1, <1>7, <2>1, <2>2, OverKeeps DEF DeliverCancel
<1>. QED
  BY <1>3, <1>4, <1>5, <1>6, <1>7

\* The lanes that Init makes.
LEMMA FreshLaneOK ==
  ASSUME NEW rows \in {<<[role |-> "primary", code |-> "validated", fast |-> FALSE]>>, << >>},
         NEW r \in {Idle("ready", 1, "none"), Idle("over", 0, "validated"),
                    Idle("over", 0, "none")}
  PROVE  LaneOK(rows, r)
<1>1. Len(rows) <= MaxPhysicalCalls
  <2>1. CASE rows = << >>
    BY <2>1 DEF MaxPhysicalCalls
  <2>2. CASE rows # << >>
    <3>. DEFINE c == [role |-> "primary", code |-> "validated", fast |-> FALSE]
    <3>1. rows = << c >>
      BY <2>2
    <3>. HIDE DEF c
    <3>2. Len(rows) = 1
      BY <3>1
    <3>. QED
      BY <3>2 DEF MaxPhysicalCalls
  <2>. QED
    BY <2>1, <2>2
<1>2. /\ r.pc \in {"ready", "over"}
      /\ r.outcome \in {"none", "validated"}
      /\ r.pc # "over" => r.outcome = "none"
  BY DEF Idle
<1>. QED
  BY <1>1, <1>2 DEF LaneOK

LEMMA InitIInv == Init => IInv
<1>. SUFFICES ASSUME Init PROVE IInv
  OBVIOUS
<1>. DEFINE answered == <<[role |-> "primary", code |-> "validated", fast |-> FALSE]>>
<1>1. now \in 0..Deadline /\ cancelled \in BOOLEAN
  <2>1. now = 0 /\ cancelled = FALSE
    BY DEF Init
  <2>2. 0 \in 0..Deadline
    BY TimeAssumption
  <2>. QED
    BY <2>1, <2>2
<1>2. answered \in Seq(Call) /\ Len(answered) = 1 /\ << >> \in Seq(Call) /\ Len(<< >>) = 0
  BY DEF Call
<1>3. /\ Idle("ready", 1, "none") \in Lane
      /\ Idle("over", 0, "validated") \in Lane /\ Idle("over", 0, "none") \in Lane
  BY TimeAssumption DEF Idle, Lane, Outcomes, MaxPhysicalCalls
<1>4. /\ \A l \in Lanes : /\ calls[l] \in {answered, << >>}
                          /\ lane[l] \in {Idle("ready", 1, "none"), Idle("over", 0, "validated"),
                                          Idle("over", 0, "none")}
      /\ calls = [l \in Lanes |-> calls[l]] /\ lane = [l \in Lanes |-> lane[l]]
  BY DEF Init
<1>5. Typed
  BY <1>2, <1>3, <1>4 DEF Typed
<1>6. ASSUME NEW l \in Lanes
      PROVE  LaneOK(calls[l], lane[l])
  BY <1>4, FreshLaneOK
<1>. QED
  BY <1>1, <1>5, <1>6 DEF IInv, LanesOK

LEMMA NextIInv == IInv /\ [Next]_vars => IInv'
<1>. SUFFICES ASSUME IInv, [Next]_vars PROVE IInv'
  OBVIOUS
<1>1. ASSUME NEW l \in Lanes, Invoke(l)
      PROVE  IInv'
  BY <1>1, InvokeKeeps DEF Invoke, IInv
<1>2. ASSUME NEW l \in Lanes, NEW code \in RouteErrors, RouteFails(l, code)
      PROVE  IInv'
  BY <1>2, RouteFailsKeeps DEF RouteFails, IInv
<1>3. ASSUME NEW l \in Lanes, Wake(l)
      PROVE  IInv'
  BY <1>3, WakeKeeps DEF Wake, IInv
<1>4. ASSUME NEW l \in Lanes,
             RouteBreaks(l) \/ Answer(l) \/ CheckAnswer(l) \/ Expire(l) \/ DeliverCancel(l)
      PROVE  IInv'
  <2>1. LanesOK'
    BY <1>4, EndingsKeep
  <2>2. UNCHANGED <<now, cancelled>>
    BY <1>4 DEF RouteBreaks, Answer, CheckAnswer, Expire, DeliverCancel
  <2>. QED
    BY <2>1, <2>2 DEF IInv
<1>5. ASSUME UNCHANGED <<calls, lane>>
      PROVE  LanesOK'
  BY <1>5 DEF IInv, LanesOK, Typed
<1>6. CASE RequestCancel
  BY <1>5, <1>6 DEF RequestCancel, IInv
<1>7. CASE Tick
  BY <1>5, <1>7, TimeAssumption DEF Tick, IInv
<1>8. CASE UNCHANGED vars
  BY <1>5, <1>8 DEF vars, IInv
<1>. QED
  BY <1>1, <1>2, <1>3, <1>4, <1>6, <1>7, <1>8 DEF Next

LEMMA LadderInvariant == Spec => []IInv
BY InitIInv, NextIInv, PTL DEF Spec

\* The rows and the coroutine states of every lane have the shape the model says.
THEOREM LadderTyped == Spec => []TypeOK
<1>1. IInv => TypeOK
  BY DEF IInv, LanesOK, Typed, TypeOK
<1>. QED
  BY <1>1, LadderInvariant, PTL

\* For any number of branches, any timeouts and any deadline: no lane ever has more than three
\* physical calls, and CALL_BUDGET_EXHAUSTED is only said of a lane that has had all three.
THEOREM CallBudget == Spec => []BudgetIsExact
<1>1. IInv => BudgetIsExact
  BY DEF IInv, LanesOK, LaneOK, BudgetIsExact
<1>. QED
  BY <1>1, LadderInvariant, PTL

-----------------------------------------------------------------------------

\* The time of a lane: a sleep ends with room for the retry and the fallback, every call was
\* admitted with its timeout left, and a retry with the fallback's beside it.
TimesOf(l) ==
  /\ lane[l].pc = "sleeping" =>
       now <= lane[l].wake /\ lane[l].wake + Primary + Fallback <= Deadline
  /\ lane[l].pc = "calling" => lane[l].since + Timeout(Last(calls[l]).role) <= Deadline
  /\ lane[l].pc = "calling" /\ lane[l].try = "retry" =>
       lane[l].since + Primary + Fallback <= Deadline

TimeInv == IInv /\ \A l \in Lanes : TimesOf(l)

OthersRest(l) == \A m \in Lanes \ {l} : calls'[m] = calls[m] /\ lane'[m] = lane[m]

\* What TimeIsReserved says of one lane.
Reserved(l) ==
  LET elapsed == now - lane[l].since IN
  /\ lane[l].pc = "sleeping" =>
       lane'[l].outcome \notin {"DEADLINE_INSUFFICIENT", "DEADLINE_EXCEEDED"}
  /\ lane[l].pc = "calling" /\ lane[l].try = "retry"
       /\ lane'[l].outcome = "DEADLINE_INSUFFICIENT" => elapsed > Primary
  /\ lane[l].pc = "calling" /\ lane'[l].outcome = "DEADLINE_EXCEEDED" =>
       elapsed >= Timeout(Last(calls[l]).role)

LEMMA EndsInTime ==
  ASSUME NEW l, NEW cs, Ready(l, cs), NEW code, Raise(l, cs, code) \/ Over(l, cs, code)
  PROVE  OthersRest(l) /\ TimesOf(l)' /\ lane'[l].outcome \in {code, "none"}
<1>1. PICK r \in {Idle("over", 0, code), Idle("ready", lane[l].budget - 1, "none")} :
        calls' = cs /\ lane' = [lane EXCEPT ![l] = r]
  BY DEF Raise, Over, AskAgain, Ready, IInv, LanesOK, Typed
<1>2. r.pc \in {"over", "ready"} /\ r.outcome \in {code, "none"}
  BY DEF Idle
<1>3. lane'[l] = r /\ OthersRest(l)
  BY <1>1 DEF OthersRest, Ready, RowsOf, IInv, LanesOK, Typed
<1>. QED
  BY <1>2, <1>3 DEF TimesOf

\* A call that is admitted with the time it needs.
LEMMA StartsInTime ==
  ASSUME NEW l, NEW cs, Ready(l, cs), now' = now, NEW role \in {"primary", "fallback"},
         NEW try, NEW used, Fits(role), StartCall(l, cs, role, try, used),
         try = "retry" => now + Primary + Fallback <= Deadline
  PROVE  OthersRest(l) /\ TimesOf(l)' /\ lane'[l].outcome \in {"STALE_ATTEMPT", "none"}
<1>1. CASE ~Accepts
  BY <1>1, EndsInTime DEF StartCall
<1>2. CASE Accepts
  <2>. DEFINE call == [role |-> role, code |-> "started", fast |-> FALSE]
  <2>1. lane[l] \in Lane /\ LaneOK(calls[l], lane[l]) /\ cs[l] \in Seq(Call) /\ call \in Call
    BY DEF Ready, RowsOf, IInv, LanesOK, Typed, Call
  <2>2. /\ calls' = [cs EXCEPT ![l] = Append(cs[l], call)]
        /\ lane' = [lane EXCEPT ![l] = [lane[l] EXCEPT !.pc = "calling", !.try = try,
                                          !.used = used, !.since = now, !.wake = 0]]
    BY <1>2 DEF StartCall
  <2>3. OthersRest(l)
    BY <2>2 DEF OthersRest, Ready, RowsOf, IInv, LanesOK, Typed
  <2>4. /\ lane'[l].pc = "calling" /\ lane'[l].try = try /\ lane'[l].since = now
        /\ lane'[l].outcome = "none"
    BY <2>1, <2>2 DEF Ready, IInv, LanesOK, Typed, Lane, LaneOK
  <2>5. Last(calls'[l]).role = role
    <3>1. calls'[l] = Append(cs[l], call)
      BY <2>2 DEF Ready, RowsOf
    <3>2. /\ Len(calls'[l]) = Len(cs[l]) + 1
          /\ calls'[l][Len(cs[l]) + 1] = call
      BY <2>1, <3>1
    <3>. QED
      BY <3>2 DEF Last
  <2>6. TimesOf(l)'
    <3>1. lane'[l].since + Timeout(role) <= Deadline
      BY <2>4 DEF Fits
    <3>2. Timeout(role)' = Timeout(role)
      BY DEF Timeout
    <3>. QED
      BY <2>4, <2>5, <3>1, <3>2 DEF TimesOf, Timeout
  <2>. QED
    BY <2>3, <2>4, <2>6
<1>. QED
  BY <1>1, <1>2

LEMMA FallsBackInTime ==
  ASSUME NEW l, NEW cs, Ready(l, cs), now' = now, NEW used, CallFallback(l, cs, used)
  PROVE  /\ OthersRest(l) /\ TimesOf(l)'
         /\ lane'[l].outcome # "DEADLINE_EXCEEDED"
         /\ lane'[l].outcome = "DEADLINE_INSUFFICIENT" => used < MaxPhysicalCalls /\ ~Fits("fallback")
<1>1. CASE Raise(l, cs, "CALL_BUDGET_EXHAUSTED")
  BY <1>1, EndsInTime
<1>2. CASE used < MaxPhysicalCalls /\ ~Fits("fallback") /\ Raise(l, cs, "DEADLINE_INSUFFICIENT")
  BY <1>2, EndsInTime
<1>3. CASE Fits("fallback") /\ StartCall(l, cs, "fallback", "fallback", used + 1)
  BY <1>3, StartsInTime
<1>. QED
  BY <1>1, <1>2, <1>3 DEF CallFallback

LEMMA CallsPrimaryInTime ==
  ASSUME NEW l, NEW cs, Ready(l, cs), now' = now, NEW used, NEW try,
         try = "retry" => now + Primary + Fallback <= Deadline, CallPrimary(l, cs, used, try)
  PROVE  /\ OthersRest(l) /\ TimesOf(l)'
         /\ lane'[l].outcome # "DEADLINE_EXCEEDED"
         /\ lane'[l].outcome = "DEADLINE_INSUFFICIENT" => ~Fits("primary") \/ ~Fits("fallback")
<1>1. CASE ~Fits("primary") /\ Raise(l, cs, "DEADLINE_INSUFFICIENT")
  BY <1>1, EndsInTime
<1>2. CASE CallFallback(l, cs, used)
  BY <1>2, FallsBackInTime
<1>3. CASE Fits("primary") /\ StartCall(l, cs, "primary", try, used + 1)
  BY <1>3, StartsInTime
<1>. QED
  BY <1>1, <1>2, <1>3 DEF CallPrimary

\* A lane that is ready starts with whatever time is left.
LEMMA InvokeInTime ==
  ASSUME TimeInv, NEW l \in Lanes, Invoke(l)
  PROVE  OthersRest(l) /\ TimesOf(l)' /\ Reserved(l)
<1>1. Ready(l, calls) /\ lane[l].pc = "ready" /\ now' = now
  BY DEF TimeInv, Ready, RowsOf, Invoke, IInv, LanesOK, Typed
<1>2. Reserved(l)
  BY <1>1 DEF Reserved
<1>3. CASE \E code : Over(l, calls, code) \/ Raise(l, calls, code)
  BY <1>1, <1>2, <1>3, EndsInTime
<1>4. CASE IsRepair(l) /\ Repair(l)
  <2>. DEFINE role == Last(calls[l]).role
  <2>1. role \in {"primary", "fallback"}
    <3>1. calls[l] # << >> /\ calls[l] \in Seq(Call)
      BY <1>1, <1>4 DEF IsRepair, Ready, RowsOf
    <3>2. calls[l][Len(calls[l])] \in Call
      BY <3>1
    <3>. QED
      BY <3>2 DEF Last, Call
  <2>2. CASE Fits(role) /\ StartCall(l, calls, role, "repair", Len(calls[l]))
    BY <1>1, <1>2, <2>1, <2>2, StartsInTime
  <2>. QED
    BY <1>3, <1>4, <2>2 DEF Repair
<1>5. CASE CallFallback(l, calls, Len(calls[l]))
  BY <1>1, <1>2, <1>5, FallsBackInTime
<1>6. CASE CallPrimary(l, calls, Len(calls[l]), "first")
  BY <1>1, <1>2, <1>6, CallsPrimaryInTime
<1>. QED
  BY <1>3, <1>4, <1>5, <1>6, Zenon DEF Invoke

\* A failed call ends its lane for want of time only after it has used up its own share.
LEMMA RouteFailsInTime ==
  ASSUME TimeInv, NEW l \in Lanes, NEW code \in RouteErrors, RouteFails(l, code)
  PROVE  OthersRest(l) /\ TimesOf(l)' /\ Reserved(l)
<1>. DEFINE cs == Ended(l, code)
<1>1. Ready(l, calls) /\ lane[l].pc = "calling" /\ now' = now
  BY DEF TimeInv, Ready, RowsOf, RouteFails, IInv, LanesOK, Typed
<1>2. Ready(l, cs)
  BY <1>1, EndedRows DEF Ready
<1>3. /\ lane[l] \in Lane /\ now \in Nat /\ lane[l].since \in Nat /\ Deadline \in Nat
      /\ Primary \in Nat /\ Fallback \in Nat
  BY <1>1, TimeAssumption DEF Ready, IInv, LanesOK, Typed, Lane
<1>4. code \notin {"DEADLINE_INSUFFICIENT", "DEADLINE_EXCEEDED"}
  BY DEF RouteErrors, FallbackCodes
<1>5. CASE Over(l, calls, "STALE_ATTEMPT")
  BY <1>1, <1>5, EndsInTime DEF Reserved
<1>6. CASE Raise(l, cs, code)
  BY <1>1, <1>2, <1>4, <1>6, EndsInTime DEF Reserved
<1>7. CASE lane[l].try \in {"first", "retry"} /\ CallFallback(l, cs, lane[l].used)
  <2>1. /\ OthersRest(l) /\ TimesOf(l)' /\ lane'[l].outcome # "DEADLINE_EXCEEDED"
        /\ lane'[l].outcome = "DEADLINE_INSUFFICIENT" => ~Fits("fallback")
    BY <1>1, <1>2, <1>7, FallsBackInTime
  <2>2. lane[l].try = "retry" /\ ~Fits("fallback") => now - lane[l].since > Primary
    BY <1>1, <1>3 DEF TimeInv, TimesOf, Fits, Timeout
  <2>. QED
    BY <1>1, <2>1, <2>2 DEF Reserved
<1>8. ASSUME NEW delay \in Delays, lane[l].try = "first", RetryFits(delay), calls' = cs,
             lane' = [lane EXCEPT ![l] = [@ EXCEPT !.pc = "sleeping", !.since = 0,
                                                   !.wake = now + delay]]
      PROVE  OthersRest(l) /\ TimesOf(l)' /\ Reserved(l)
  <2>1. /\ lane'[l].pc = "sleeping" /\ lane'[l].wake = now + delay /\ lane'[l].outcome = "none"
        /\ OthersRest(l)
    BY <1>1, <1>2, <1>3, <1>8
       DEF OthersRest, Ready, RowsOf, IInv, LanesOK, LaneOK, Typed, Lane
  <2>2. delay \in Nat /\ now <= now + delay /\ now + delay + Primary + Fallback <= Deadline
    BY <1>3, <1>8, TimeAssumption DEF RetryFits
  <2>. QED
    BY <1>1, <2>1, <2>2 DEF TimesOf, Reserved
<1>9. CASE lane[l].try = "first" /\ AfterFirst(l, cs, code)
  BY <1>6, <1>7, <1>8, <1>9 DEF AfterFirst
<1>10. CASE lane[l].try = "retry" /\ AfterRetry(l, cs, code)
  BY <1>6, <1>7, <1>10 DEF AfterRetry
<1>. QED
  BY <1>5, <1>6, <1>9, <1>10 DEF RouteFails

\* The lane wakes at the time it asked for, so what was reserved is still there.
LEMMA WakeInTime ==
  ASSUME TimeInv, NEW l \in Lanes, Wake(l)
  PROVE  OthersRest(l) /\ TimesOf(l)' /\ Reserved(l)
<1>1. Ready(l, calls) /\ lane[l].pc = "sleeping" /\ now' = now
  BY DEF TimeInv, Ready, RowsOf, Wake, IInv, LanesOK, Typed
<1>2. /\ lane[l].wake \in Nat /\ now \in Nat /\ Deadline \in Nat
      /\ Primary \in Nat \ {0} /\ Fallback \in Nat \ {0}
  BY <1>1, TimeAssumption DEF Ready, IInv, LanesOK, Typed, Lane
<1>3. now + Primary + Fallback <= Deadline
  BY <1>1, <1>2 DEF TimeInv, TimesOf, Wake
<1>4. Fits("primary") /\ Fits("fallback")
  BY <1>2, <1>3 DEF Fits, Timeout
<1>5. CallPrimary(l, calls, lane[l].used, "retry")
  BY DEF Wake
<1>. QED
  BY <1>1, <1>3, <1>4, <1>5, CallsPrimaryInTime DEF Reserved

LEMMA EndingsInTime ==
  ASSUME TimeInv, NEW l \in Lanes,
         RouteBreaks(l) \/ Answer(l) \/ CheckAnswer(l) \/ Expire(l) \/ DeliverCancel(l)
  PROVE  OthersRest(l) /\ TimesOf(l)' /\ Reserved(l)
<1>1. Ready(l, calls) /\ now' = now
  BY DEF TimeInv, Ready, RowsOf, IInv, LanesOK, Typed, RouteBreaks, Answer, CheckAnswer, Expire,
         DeliverCancel
<1>2. ASSUME lane[l].pc \in {"calling", "answered"},
             NEW code \in RouteErrors \union {"validated", "cancelled"}
      PROVE  Ready(l, Ended(l, code))
  BY <1>1, <1>2, EndedRows DEF Ready
<1>3. CASE RouteBreaks(l)
  <2>1. Ready(l, Ended(l, "UNCLASSIFIED_ERROR"))
    BY <1>2, <1>3 DEF RouteBreaks, RouteErrors, FallbackCodes
  <2>2. PICK cs \in {calls, Ended(l, "UNCLASSIFIED_ERROR")} : Over(l, cs, "UNCLASSIFIED_ERROR")
    BY <1>3 DEF RouteBreaks
  <2>3. OthersRest(l) /\ TimesOf(l)' /\ lane'[l].outcome \in {"UNCLASSIFIED_ERROR", "none"}
    BY <1>1, <2>1, <2>2, EndsInTime
  <2>. QED
    BY <1>1, <1>3, <2>3 DEF Reserved, RouteBreaks
<1>4. CASE Answer(l)
  <2>1. /\ lane'[l].pc = "answered" /\ lane'[l].outcome = "none" /\ OthersRest(l)
        /\ lane[l].pc = "calling"
    BY <1>1, <1>4 DEF Answer, OthersRest, Ready, IInv, LanesOK, LaneOK, Typed, Lane
  <2>. QED
    BY <2>1 DEF TimesOf, Reserved
<1>5. CASE CheckAnswer(l)
  <2>1. lane[l].pc = "answered"
    BY <1>5 DEF CheckAnswer
  <2>2. /\ Ready(l, Ended(l, "cancelled")) /\ Ready(l, Ended(l, "validated"))
        /\ Ready(l, Ended(l, "MALFORMED")) /\ Ready(l, Ended(l, "TERMINAL"))
    BY <1>2, <2>1 DEF RouteErrors
  <2>3. Reserved(l)
    BY <2>1 DEF Reserved
  <2>4. CASE Over(l, IF cancelled THEN Ended(l, "cancelled") ELSE calls,
                  IF cancelled THEN "CANCELLED" ELSE "DEADLINE_EXCEEDED")
    BY <1>1, <2>2, <2>3, <2>4, EndsInTime
  <2>5. CASE Over(l, Ended(l, "validated"), "validated")
    BY <2>2, <2>3, <2>5, EndsInTime
  <2>6. CASE Raise(l, Ended(l, "MALFORMED"), "MALFORMED")
    BY <2>2, <2>3, <2>6, EndsInTime
  <2>7. CASE Raise(l, Ended(l, "TERMINAL"), "TERMINAL")
    BY <2>2, <2>3, <2>7, EndsInTime
  <2>8. CASE AskAgain(l, Ended(l, "validated"))
    <3>1. Raise(l, Ended(l, "validated"), "MALFORMED")
      BY <2>8 DEF Raise, AskAgain
    <3>. QED
      BY <2>2, <2>3, <3>1, EndsInTime
  <2>. QED
    BY <1>5, <2>4, <2>5, <2>6, <2>7, <2>8 DEF CheckAnswer
<1>6. CASE Expire(l)
  <2>1. OthersRest(l) /\ TimesOf(l)' /\ lane'[l].outcome # "DEADLINE_INSUFFICIENT"
    BY <1>1, <1>6, EndsInTime DEF Expire
  <2>2. /\ lane[l].wake \in Nat /\ lane[l].since \in Nat /\ now = Deadline /\ Deadline \in Nat
        /\ Primary \in Nat \ {0} /\ Fallback \in Nat \ {0}
        /\ Timeout(Last(calls[l]).role) \in Nat
    BY <1>1, <1>6, TimeAssumption DEF Expire, Ready, IInv, LanesOK, Typed, Lane, Timeout
  <2>3. lane[l].pc # "sleeping"
    BY <2>2 DEF TimeInv, TimesOf
  <2>4. lane[l].pc = "calling" => now - lane[l].since >= Timeout(Last(calls[l]).role)
    BY <2>2 DEF TimeInv, TimesOf
  <2>. QED
    BY <2>1, <2>3, <2>4 DEF Reserved
<1>7. CASE DeliverCancel(l)
  <2>1. OthersRest(l) /\ TimesOf(l)' /\ lane'[l].outcome \in {"CANCELLED", "none"}
    BY <1>1, <1>2, <1>7, EndsInTime DEF DeliverCancel
  <2>. QED
    BY <2>1 DEF Reserved
<1>. QED
  BY <1>3, <1>4, <1>5, <1>6, <1>7

LEMMA LanesKeepTime ==
  ASSUME TimeInv, [Next]_vars
  PROVE  \A l \in Lanes : TimesOf(l)' /\ (lane'[l] # lane[l] => Reserved(l))
<1>1. ASSUME NEW l \in Lanes, OthersRest(l) /\ TimesOf(l)' /\ Reserved(l), now' = now
      PROVE  \A m \in Lanes : TimesOf(m)' /\ (lane'[m] # lane[m] => Reserved(m))
  <2>1. ASSUME NEW m \in Lanes \ {l}
        PROVE  TimesOf(m)' /\ lane'[m] = lane[m]
    BY <1>1 DEF TimeInv, TimesOf, OthersRest, Timeout
  <2>. QED
    BY <1>1, <2>1
<1>2. ASSUME NEW l \in Lanes,
             \/ Invoke(l) \/ Wake(l)
             \/ \E code \in RouteErrors : RouteFails(l, code)
             \/ RouteBreaks(l) \/ Answer(l) \/ CheckAnswer(l) \/ Expire(l) \/ DeliverCancel(l)
      PROVE  \A m \in Lanes : TimesOf(m)' /\ (lane'[m] # lane[m] => Reserved(m))
  <2>1. now' = now
    BY <1>2 DEF Invoke, Wake, RouteFails, RouteBreaks, Answer, CheckAnswer, Expire, DeliverCancel
  <2>2. OthersRest(l) /\ TimesOf(l)' /\ Reserved(l)
    BY <1>2, InvokeInTime, WakeInTime, RouteFailsInTime, EndingsInTime
  <2>. QED
    BY <1>1, <2>1, <2>2
<1>3. CASE Tick
  <2>1. ASSUME NEW l \in Lanes
        PROVE  TimesOf(l)'
    <3>1. lane[l] \in Lane /\ now \in Nat
      BY TimeAssumption DEF TimeInv, IInv, LanesOK, Typed
    <3>2. lane' = lane /\ calls' = calls /\ now' = now + 1
      BY <1>3 DEF Tick
    <3>3. lane[l].pc = "sleeping" => now + 1 <= lane[l].wake
      BY <1>3, <3>1 DEF Tick, Lane
    <3>. QED
      BY <3>2, <3>3 DEF TimeInv, TimesOf, Timeout
  <2>. QED
    BY <1>3, <2>1 DEF Tick
<1>4. CASE RequestCancel \/ UNCHANGED vars
  BY <1>4 DEF RequestCancel, vars, TimeInv, TimesOf, Timeout
<1>. QED
  BY <1>2, <1>3, <1>4 DEF Next

\* For any timeouts, delays and deadline: a retry never costs a lane its fallback, and no call
\* that was admitted loses to the hard deadline before it has had its timeout.
THEOREM RetryLeavesTime == Spec => TimeIsReserved
<1>1. Init => TimeInv
  <2>. SUFFICES ASSUME Init PROVE TimeInv
    OBVIOUS
  <2>1. \A l \in Lanes : lane[l].pc \in {"ready", "over"}
    BY DEF Init, Idle
  <2>. QED
    BY <2>1, InitIInv DEF TimeInv, TimesOf
<1>2. TimeInv /\ [Next]_vars => TimeInv'
  BY LanesKeepTime, NextIInv DEF TimeInv
<1>3. TimeInv /\ [Next]_vars =>
        [\A l \in Lanes : lane'[l] # lane[l] => Reserved(l)]_vars
  BY LanesKeepTime
<1>4. TimeIsReserved <=> [][\A l \in Lanes : lane'[l] # lane[l] => Reserved(l)]_vars
  BY DEF TimeIsReserved, Reserved
<1>. QED
  BY <1>1, <1>2, <1>3, <1>4, PTL DEF Spec

-----------------------------------------------------------------------------

IsRetried(rows, i) == rows[i].code \in FallbackCodes /\ rows[i + 1].role = "primary"

\* What one row allows of the next.
Follows(c, d) ==
  /\ c.code \notin {"started", "cancelled", "TERMINAL"}
  /\ c.code = "MALFORMED" => d.role = c.role
  /\ c.role = "fallback" => c.code \in {"MALFORMED", "validated"}
  /\ c.code \in FallbackCodes /\ d.role = "primary" => IsRetryable(c)

\* The rows of a lane that has b of its repair budget left: a call that was followed though it
\* did not fail has spent the budget.
Pairs(rows, b) ==
  \A i \in 1..(Len(rows) - 1) :
    /\ Follows(rows[i], rows[i + 1])
    /\ rows[i].code \in {"MALFORMED", "validated"} => b = 0
    /\ \A k \in 1..(Len(rows) - 1) :
         /\ rows[i].code = "MALFORMED" /\ rows[k].code = "MALFORMED" => i = k
         /\ IsRetried(rows, i) /\ IsRetried(rows, k) => i = k

\* The last row against the place where the lane stands.
Stage(rows, r) ==
  LET n == Len(rows)
      FirstTry == n = 1 \/ rows[n - 1].code = "validated" IN
  /\ r.pc = "ready" /\ rows # << >> =>
       /\ r.budget = 0 /\ rows[n].code \in {"MALFORMED", "validated"}
       /\ \A i \in 1..(n - 1) : rows[i].code # "MALFORMED"
  /\ r.pc = "calling" /\ r.try \in {"first", "retry"} => rows[n].role = "primary"
  /\ r.pc = "calling" /\ r.try = "first" => FirstTry
  /\ r.pc = "sleeping" =>
       rows # << >> /\ rows[n].role = "primary" /\ IsRetryable(rows[n]) /\ FirstTry

LadderInv ==
  /\ TimeInv
  /\ \A l \in Lanes : Pairs(calls[l], lane[l].budget) /\ Stage(calls[l], lane[l])

Kept(l) == Pairs(calls'[l], lane'[l].budget) /\ Stage(calls'[l], lane'[l])

\* A call of this role may follow these rows.
May(rows, role, b) ==
  LET n == Len(rows)
      c == rows[n] IN
  rows # << >> =>
    /\ Follows(c, [role |-> role])
    /\ c.code \in {"MALFORMED", "validated"} => b = 0
    /\ c.code = "MALFORMED" => \A i \in 1..(n - 1) : rows[i].code # "MALFORMED"
    /\ c.code \in FallbackCodes /\ role = "primary" => \A i \in 1..(n - 1) : ~IsRetried(rows, i)

\* What the ladder asks of lane l once its open call has ended as cs says.
Laddered(l, cs) ==
  /\ Ready(l, cs)
  /\ Pairs(cs[l], lane[l].budget)

LEMMA AppendPairs ==
  ASSUME NEW rows \in Seq(Call), NEW b, NEW role \in {"primary", "fallback"},
         NEW d \in Call, d.role = role, Pairs(rows, b), May(rows, role, b)
  PROVE  Pairs(Append(rows, d), b)
<1>. DEFINE more == Append(rows, d)
            n == Len(rows)
<1>1. /\ n \in Nat /\ Len(more) = n + 1 /\ more[n + 1] = d
      /\ \A i \in 1..n : more[i] = rows[i]
      /\ n # 0 => rows # << >>
  OBVIOUS
<1>. HIDE DEF more, n
<1>2. \A i \in 1..n : i \in 1..(n - 1) \/ i = n
  BY <1>1
<1>3. ASSUME NEW i \in 1..(n - 1)
      PROVE  /\ more[i] = rows[i] /\ more[i + 1] = rows[i + 1]
             /\ Follows(rows[i], rows[i + 1])
             /\ rows[i].code \in {"MALFORMED", "validated"} => b = 0
             /\ IsRetried(more, i) <=> IsRetried(rows, i)
  BY <1>1 DEF Pairs, IsRetried, n
<1>4. ASSUME NEW i \in 1..(n - 1), NEW k \in 1..(n - 1)
      PROVE  /\ rows[i].code = "MALFORMED" /\ rows[k].code = "MALFORMED" => i = k
             /\ IsRetried(rows, i) /\ IsRetried(rows, k) => i = k
  BY DEF Pairs, n
<1>5. ASSUME n \in 1..n
      PROVE  /\ more[n] = rows[n] /\ Follows(rows[n], [role |-> role])
             /\ rows[n].code \in {"MALFORMED", "validated"} => b = 0
             /\ rows[n].code = "MALFORMED" => \A i \in 1..(n - 1) : rows[i].code # "MALFORMED"
             /\ IsRetried(more, n) => \A i \in 1..(n - 1) : ~IsRetried(rows, i)
  BY <1>1, <1>5 DEF May, IsRetried, n
<1>6. ASSUME n \in 1..n
      PROVE  Follows(more[n], more[n + 1])
  <2>1. more[n] = rows[n] /\ Follows(rows[n], [role |-> role]) /\ more[n + 1] = d
    BY <1>1, <1>5, <1>6
  <2>. QED
    BY <2>1 DEF Follows
<1>7. ASSUME NEW i \in 1..n
      PROVE  /\ Follows(more[i], more[i + 1])
             /\ more[i].code \in {"MALFORMED", "validated"} => b = 0
  <2>1. CASE i = n
    BY <1>5, <1>6, <2>1
  <2>2. CASE i # n
    BY <1>2, <1>3, <2>2
  <2>. QED
    BY <2>1, <2>2
<1>8. ASSUME NEW i \in 1..n, NEW k \in 1..n
      PROVE  /\ more[i].code = "MALFORMED" /\ more[k].code = "MALFORMED" => i = k
             /\ IsRetried(more, i) /\ IsRetried(more, k) => i = k
  <2>1. CASE i \in 1..(n - 1) /\ k \in 1..(n - 1)
    BY <1>3, <1>4, <2>1
  <2>2. CASE i \in 1..(n - 1) /\ k = n
    BY <1>3, <1>5, <2>2
  <2>3. CASE i = n /\ k \in 1..(n - 1)
    BY <1>3, <1>5, <2>3
  <2>. QED
    BY <1>2, <2>1, <2>2, <2>3
<1>9. Len(more) - 1 = n
  BY <1>1
<1>. QED
  BY <1>7, <1>8, <1>9 DEF Pairs, more

\* The row of the call that ends is the last one, which the pairs ask only for its role.
LEMMA EndedPairs ==
  ASSUME LadderInv, NEW l \in Lanes, lane[l].pc \in {"calling", "answered"},
         NEW code \in RouteErrors \union {"validated", "cancelled"}
  PROVE  LET cs == Ended(l, code)
             n == Len(cs[l]) IN
         /\ Laddered(l, cs)
         /\ cs[l] # << >> /\ cs[l] \in Seq(Call) /\ n = Len(calls[l])
         /\ cs[l][n].code = code /\ cs[l][n].role = calls[l][n].role
         /\ \A i \in 1..(n - 1) : cs[l][i] = calls[l][i]
<1>. DEFINE cs == Ended(l, code)
            n == Len(calls[l])
            c == [calls[l][n] EXCEPT !.code = code,
                    !.fast = code = "PROVIDER_ERROR" /\ now - lane[l].since <= Fast]
<1>1. calls \in [Lanes -> Seq(Call)] /\ calls[l] \in Seq(Call) /\ calls[l] # << >>
  BY DEF LadderInv, TimeInv, IInv, LanesOK, Typed, LaneOK
<1>2. n \in 1..n /\ calls[l][n] \in Call
  BY <1>1
<1>3. c \in Call /\ c.code = code /\ c.role = calls[l][n].role
  BY <1>2 DEF Call
<1>4. cs[l] = [calls[l] EXCEPT ![n] = c]
  BY <1>1 DEF Ended
<1>5. /\ Len(cs[l]) = n /\ cs[l] \in Seq(Call) /\ cs[l][n] = c /\ cs[l] # << >>
      /\ \A i \in 1..(n - 1) : cs[l][i] = calls[l][i]
  <2>. HIDE DEF c, cs
  <2>1. Len(cs[l]) = n /\ cs[l] \in Seq(Call)
    BY <1>1, <1>2, <1>3, <1>4
  <2>2. cs[l][n] = c /\ \A i \in 1..(n - 1) : cs[l][i] = calls[l][i]
    BY <1>1, <1>2, <1>4
  <2>. QED
    BY <1>2, <2>1, <2>2
<1>6. Ready(l, cs)
  BY EndedRows DEF LadderInv, TimeInv, Ready
<1>. HIDE DEF c, cs, n
<1>7. \A i \in 1..(n - 1) : /\ cs[l][i] = calls[l][i]
                            /\ cs[l][i + 1].role = calls[l][i + 1].role
  <2>1. ASSUME NEW i \in 1..(n - 1)
        PROVE  cs[l][i + 1].role = calls[l][i + 1].role
    <3>1. i + 1 = n \/ i + 1 \in 1..(n - 1)
      BY <1>2
    <3>. QED
      BY <1>3, <1>5, <3>1
  <2>. QED
    BY <1>5, <2>1
<1>8. \A i \in 1..(n - 1) :
        /\ Follows(calls[l][i], calls[l][i + 1]) <=> Follows(cs[l][i], cs[l][i + 1])
        /\ IsRetried(calls[l], i) <=> IsRetried(cs[l], i)
  BY <1>7 DEF Follows, IsRetried
<1>9. Pairs(calls[l], lane[l].budget) => Pairs(cs[l], lane[l].budget)
  BY <1>5, <1>7, <1>8 DEF Pairs, n
<1>. QED
  BY <1>3, <1>5, <1>6, <1>9 DEF Laddered, LadderInv, cs, n

-----------------------------------------------------------------------------

LEMMA OverLadder ==
  ASSUME NEW l, NEW cs, Laddered(l, cs), NEW code, Over(l, cs, code)
  PROVE  Kept(l)
<1>1. calls'[l] = cs[l] /\ lane'[l] = Idle("over", 0, code)
  BY DEF Over, Laddered, Ready, IInv, LanesOK, Typed
<1>2. lane'[l].pc = "over" /\ lane'[l].budget = 0
  BY <1>1 DEF Idle
<1>3. Pairs(cs[l], 0)
  BY DEF Laddered, Pairs
<1>. QED
  BY <1>1, <1>2, <1>3 DEF Kept, Stage

\* The lane is asked again once, after an answer: the rows before it are failures.
LEMMA AskAgainLadder ==
  ASSUME NEW l, NEW cs, Laddered(l, cs), AskAgain(l, cs),
         cs[l][Len(cs[l])].code \in {"MALFORMED", "validated"}
  PROVE  Kept(l)
<1>1. /\ calls'[l] = cs[l] /\ lane'[l] = Idle("ready", lane[l].budget - 1, "none")
      /\ lane[l].budget > 0 /\ lane[l] \in Lane
  BY DEF AskAgain, Laddered, Ready, IInv, LanesOK, Typed
<1>2. lane[l].budget = 1
  BY <1>1 DEF Lane
<1>3. lane'[l].pc = "ready" /\ lane'[l].budget = 0
  BY <1>1, <1>2 DEF Idle
<1>4. Pairs(cs[l], 1) /\ Pairs(cs[l], 0)
  BY <1>2 DEF Laddered, Pairs
<1>5. \A i \in 1..(Len(cs[l]) - 1) : cs[l][i].code # "MALFORMED"
  BY <1>4 DEF Pairs
<1>. QED
  BY <1>1, <1>3, <1>4, <1>5 DEF Kept, Stage

LEMMA RaiseLadder ==
  ASSUME NEW l, NEW cs, Laddered(l, cs), NEW code, Raise(l, cs, code),
         code = "MALFORMED" /\ lane[l].budget > 0 => cs[l][Len(cs[l])].code = "MALFORMED"
  PROVE  Kept(l)
BY OverLadder, AskAgainLadder DEF Raise

LEMMA StartCallLadder ==
  ASSUME NEW l, NEW cs, Laddered(l, cs), NEW role \in {"primary", "fallback"},
         NEW try, NEW used, StartCall(l, cs, role, try, used), May(cs[l], role, lane[l].budget),
         try \in {"first", "retry"} => role = "primary",
         try = "first" => cs[l] = << >> \/ cs[l][Len(cs[l])].code = "validated"
  PROVE  Kept(l)
<1>1. CASE ~Accepts
  BY <1>1, OverLadder DEF StartCall
<1>2. CASE Accepts
  <2>. DEFINE call == [role |-> role, code |-> "started", fast |-> FALSE]
              n == Len(cs[l])
  <2>1. lane[l] \in Lane /\ cs[l] \in Seq(Call) /\ call \in Call /\ call.role = role
    BY DEF Laddered, Ready, RowsOf, IInv, LanesOK, Typed, Call
  <2>2. /\ calls'[l] = Append(cs[l], call)
        /\ lane'[l] = [lane[l] EXCEPT !.pc = "calling", !.try = try, !.used = used,
                                      !.since = now, !.wake = 0]
    BY <1>2 DEF StartCall, Laddered, Ready, RowsOf, IInv, LanesOK, Typed
  <2>3. lane'[l].pc = "calling" /\ lane'[l].try = try /\ lane'[l].budget = lane[l].budget
    BY <2>1, <2>2 DEF Lane
  <2>. HIDE DEF call
  <2>4. Pairs(calls'[l], lane'[l].budget)
    BY <2>1, <2>2, <2>3, AppendPairs DEF Laddered
  <2>5. /\ Len(calls'[l]) = n + 1 /\ n \in Nat /\ calls'[l][n + 1] = call
        /\ \A i \in 1..n : calls'[l][i] = cs[l][i]
        /\ n = 0 <=> cs[l] = << >>
    BY <2>1, <2>2
  <2>6. Stage(calls'[l], lane'[l])
    <3>. HIDE DEF n
    <3>1. calls'[l][Len(calls'[l])].role = role
      BY <2>1, <2>5
    <3>2. try = "first" => \/ Len(calls'[l]) = 1
                           \/ calls'[l][Len(calls'[l]) - 1].code = "validated"
      <4>1. CASE cs[l] = << >>
        BY <2>5, <4>1
      <4>2. CASE cs[l] # << >>
        <5>1. n \in 1..n /\ Len(calls'[l]) - 1 = n
          BY <2>5, <4>2
        <5>. QED
          BY <2>5, <4>2, <5>1 DEF n
      <4>. QED
        BY <4>1, <4>2
    <3>. QED
      BY <2>3, <3>1, <3>2 DEF Stage
  <2>. QED
    BY <2>4, <2>6 DEF Kept
<1>. QED
  BY <1>1, <1>2

LEMMA CallFallbackLadder ==
  ASSUME NEW l, NEW cs, Laddered(l, cs), NEW used, CallFallback(l, cs, used),
         May(cs[l], "fallback", lane[l].budget)
  PROVE  Kept(l)
<1>1. CASE Raise(l, cs, "CALL_BUDGET_EXHAUSTED") \/ Raise(l, cs, "DEADLINE_INSUFFICIENT")
  BY <1>1, RaiseLadder
<1>2. CASE StartCall(l, cs, "fallback", "fallback", used + 1)
  BY <1>2, StartCallLadder
<1>. QED
  BY <1>1, <1>2 DEF CallFallback

LEMMA CallPrimaryLadder ==
  ASSUME NEW l, NEW cs, Laddered(l, cs), NEW used, NEW try \in {"first", "retry"},
         CallPrimary(l, cs, used, try),
         May(cs[l], "fallback", lane[l].budget), May(cs[l], "primary", lane[l].budget),
         try = "first" => cs[l] = << >> \/ cs[l][Len(cs[l])].code = "validated"
  PROVE  Kept(l)
<1>1. CASE Raise(l, cs, "DEADLINE_INSUFFICIENT")
  BY <1>1, RaiseLadder
<1>2. CASE CallFallback(l, cs, used)
  BY <1>2, CallFallbackLadder
<1>3. CASE StartCall(l, cs, "primary", try, used + 1)
  BY <1>3, StartCallLadder
<1>. QED
  BY <1>1, <1>2, <1>3 DEF CallPrimary

-----------------------------------------------------------------------------

LEMMA InvokeLadder ==
  ASSUME LadderInv, NEW l \in Lanes, Invoke(l)
  PROVE  Kept(l)
<1>. DEFINE rows == calls[l]
            n == Len(rows)
            b == lane[l].budget
<1>1. /\ Laddered(l, calls) /\ lane[l].pc = "ready"
      /\ Stage(rows, lane[l]) /\ rows \in Seq(Call) /\ lane[l] \in Lane
  BY DEF LadderInv, TimeInv, Laddered, Ready, RowsOf, Invoke, IInv, LanesOK, Typed
<1>2. rows # << >> =>
        /\ b = 0 /\ rows[n].code \in {"MALFORMED", "validated"} /\ rows[n] \in Call
        /\ \A i \in 1..(n - 1) : rows[i].code # "MALFORMED"
  BY <1>1 DEF Stage
<1>3. CASE \E code \in Outcomes \ {"MALFORMED"} : Over(l, calls, code) \/ Raise(l, calls, code)
  BY <1>1, <1>3, OverLadder, RaiseLadder
<1>4. CASE IsRepair(l) /\ Repair(l)
  <2>1. rows # << >> /\ rows[n].code = "MALFORMED" /\ Last(rows) = rows[n]
    BY <1>4 DEF IsRepair, Last
  <2>2. rows[n].role \in {"primary", "fallback"}
    BY <1>2, <2>1 DEF Call
  <2>3. Follows(rows[n], [role |-> rows[n].role])
    BY <2>1 DEF Follows, FallbackCodes
  <2>4. May(rows, rows[n].role, b)
    BY <1>2, <2>1, <2>3 DEF May, FallbackCodes
  <2>5. CASE Raise(l, calls, "DEADLINE_INSUFFICIENT") \/ Raise(l, calls, "MALFORMED")
    BY <1>1, <2>1, <2>5, RaiseLadder
  <2>6. CASE StartCall(l, calls, rows[n].role, "repair", n)
    BY <1>1, <2>2, <2>4, <2>6, StartCallLadder
  <2>. QED
    BY <1>4, <2>1, <2>5, <2>6 DEF Repair
<1>5. CASE /\ ~IsRepair(l)
           /\ CallFallback(l, calls, n) \/ CallPrimary(l, calls, n, "first")
  <2>1. rows # << >> => rows[n].code = "validated"
    BY <1>2, <1>5 DEF IsRepair, Last
  <2>2. \A role : rows # << >> => Follows(rows[n], [role |-> role])
    BY <2>1 DEF Follows, FallbackCodes
  <2>3. \A role : May(rows, role, b)
    BY <1>2, <2>1, <2>2 DEF May, FallbackCodes
  <2>. QED
    BY <1>1, <1>5, <2>1, <2>3, CallFallbackLadder, CallPrimaryLadder
<1>. QED
  BY <1>3, <1>4, <1>5 DEF Invoke, Outcomes

LEMMA RouteFailsLadder ==
  ASSUME LadderInv, NEW l \in Lanes, NEW code \in RouteErrors, RouteFails(l, code)
  PROVE  Kept(l)
<1>. DEFINE cs == Ended(l, code)
            n == Len(cs[l])
<1>1. /\ Laddered(l, calls) /\ lane[l].pc = "calling" /\ lane[l] \in Lane
      /\ Stage(calls[l], lane[l]) /\ LaneOK(calls[l], lane[l])
  BY DEF LadderInv, TimeInv, Laddered, Ready, RowsOf, RouteFails, IInv, LanesOK, Typed
<1>2. /\ Laddered(l, cs) /\ cs[l] # << >> /\ cs[l] \in Seq(Call) /\ n = Len(calls[l])
      /\ cs[l][n].code = code /\ cs[l][n].role = calls[l][n].role
      /\ \A i \in 1..(n - 1) : cs[l][i] = calls[l][i]
  BY <1>1, EndedPairs
<1>. HIDE DEF cs
<1>3. n \in Nat \ {0} /\ cs[l][n] \in Call /\ Last(cs[l]) = cs[l][n]
  BY <1>2 DEF Last
<1>4. CASE Over(l, calls, "STALE_ATTEMPT")
  BY <1>1, <1>4, OverLadder
<1>5. CASE Raise(l, cs, code)
  BY <1>2, <1>5, RaiseLadder
<1>6. CASE /\ lane[l].try \in {"first", "retry"} /\ code \in FallbackCodes \union {"RAW_TRANSPORT"}
           /\ CallFallback(l, cs, lane[l].used)
  <2>1. cs[l][n].role = "primary"
    BY <1>1, <1>2, <1>6 DEF Stage
  <2>2. cs[l][n].code \notin {"started", "cancelled", "TERMINAL", "MALFORMED", "validated"}
    BY <1>2, <1>6 DEF FallbackCodes
  <2>3. Follows(cs[l][n], [role |-> "fallback"])
    BY <2>1, <2>2 DEF Follows
  <2>4. May(cs[l], "fallback", lane[l].budget)
    BY <2>2, <2>3 DEF May
  <2>. QED
    BY <1>2, <1>6, <2>4, CallFallbackLadder
<1>7. ASSUME lane[l].try = "first", NEW delay \in Delays, IsRetryable(Last(cs[l])), calls' = cs,
             lane' = [lane EXCEPT ![l] = [@ EXCEPT !.pc = "sleeping", !.since = 0,
                                                   !.wake = now + delay]]
      PROVE  Kept(l)
  <2>1. /\ lane'[l].pc = "sleeping" /\ lane'[l].budget = lane[l].budget
        /\ calls'[l] = cs[l]
    BY <1>1, <1>7 DEF Laddered, Ready, IInv, LanesOK, Typed, Lane
  <2>2. cs[l][n].role = "primary" /\ IsRetryable(cs[l][n])
    BY <1>1, <1>2, <1>3, <1>7 DEF Stage
  <2>3. n = 1 \/ cs[l][n - 1].code = "validated"
    <3>1. n = 1 \/ calls[l][n - 1].code = "validated"
      BY <1>1, <1>2, <1>7 DEF Stage
    <3>2. n = 1 \/ n - 1 \in 1..(n - 1)
      <4>. HIDE DEF n
      <4>. QED
        BY <1>3
    <3>. QED
      BY <1>2, <3>1, <3>2
  <2>. QED
    BY <1>2, <2>1, <2>2, <2>3 DEF Kept, Stage, Laddered
<1>8. CASE lane[l].try = "first" /\ AfterFirst(l, cs, code)
  BY <1>5, <1>6, <1>7, <1>8 DEF AfterFirst
<1>9. CASE lane[l].try = "retry" /\ AfterRetry(l, cs, code)
  <2>1. code \in {"MALFORMED", "TERMINAL"} \/ code \in FallbackCodes \union {"RAW_TRANSPORT"}
    BY DEF RouteErrors
  <2>. QED
    BY <1>5, <1>6, <1>9, <2>1 DEF AfterRetry
<1>. QED
  BY <1>4, <1>5, <1>8, <1>9 DEF RouteFails, cs

\* The retry follows the first call of its invocation, so that no other retry is among the rows.
LEMMA WakeLadder ==
  ASSUME LadderInv, NEW l \in Lanes, Wake(l)
  PROVE  Kept(l)
<1>. DEFINE rows == calls[l]
            n == Len(rows)
<1>1. /\ Laddered(l, calls) /\ lane[l].pc = "sleeping" /\ rows \in Seq(Call)
      /\ Stage(rows, lane[l]) /\ LaneOK(rows, lane[l])
  BY DEF LadderInv, TimeInv, Laddered, Ready, RowsOf, Wake, IInv, LanesOK, Typed
<1>2. /\ rows # << >> /\ rows[n].role = "primary" /\ IsRetryable(rows[n])
      /\ n = 1 \/ rows[n - 1].code = "validated"
      /\ n \in 1..2
  <2>1. n \in Nat /\ (rows # << >> => n # 0)
    BY <1>1
  <2>2. n < 3
    BY <1>1 DEF LaneOK, MaxPhysicalCalls
  <2>3. /\ rows # << >> /\ rows[n].role = "primary" /\ IsRetryable(rows[n])
        /\ n = 1 \/ rows[n - 1].code = "validated"
    BY <1>1 DEF Stage
  <2>4. n \in 1..2
    <3>. HIDE DEF n
    <3>. QED
      BY <2>1, <2>2, <2>3
  <2>. QED
    BY <2>3, <2>4
<1>3. rows[n].code \in {"RATE_LIMITED", "PROVIDER_ERROR"}
  BY <1>2 DEF IsRetryable
<1>4. \A i \in 1..(n - 1) : ~IsRetried(rows, i)
  <2>1. ASSUME NEW i \in 1..(n - 1)
        PROVE  ~IsRetried(rows, i)
    <3>1. i = n - 1 /\ n # 1
      BY <1>2
    <3>. QED
      BY <1>2, <3>1 DEF IsRetried, FallbackCodes
  <2>. QED
    BY <2>1
<1>5. Follows(rows[n], [role |-> "primary"]) /\ Follows(rows[n], [role |-> "fallback"])
  BY <1>2, <1>3 DEF Follows
<1>6. May(rows, "primary", lane[l].budget) /\ May(rows, "fallback", lane[l].budget)
  BY <1>3, <1>4, <1>5 DEF May
<1>. QED
  BY <1>1, <1>6, CallPrimaryLadder DEF Wake

LEMMA EndingsLadder ==
  ASSUME LadderInv, NEW l \in Lanes,
         RouteBreaks(l) \/ Answer(l) \/ CheckAnswer(l) \/ Expire(l) \/ DeliverCancel(l)
  PROVE  Kept(l)
<1>1. Laddered(l, calls) /\ Stage(calls[l], lane[l])
  BY DEF LadderInv, TimeInv, Laddered, Ready, RowsOf, IInv, LanesOK, Typed, RouteBreaks, Answer,
         CheckAnswer, Expire, DeliverCancel
<1>2. ASSUME lane[l].pc \in {"calling", "answered"},
             NEW code \in RouteErrors \union {"validated", "cancelled"}
      PROVE  /\ Laddered(l, Ended(l, code))
             /\ Ended(l, code)[l][Len(Ended(l, code)[l])].code = code
  BY <1>2, EndedPairs
<1>3. CASE RouteBreaks(l)
  <2>1. Laddered(l, Ended(l, "UNCLASSIFIED_ERROR"))
    BY <1>2, <1>3 DEF RouteBreaks, RouteErrors, FallbackCodes
  <2>2. PICK cs \in {calls, Ended(l, "UNCLASSIFIED_ERROR")} : Over(l, cs, "UNCLASSIFIED_ERROR")
    BY <1>3 DEF RouteBreaks
  <2>. QED
    BY <1>1, <2>1, <2>2, OverLadder
<1>4. CASE Answer(l)
  <2>1. /\ lane'[l].pc = "answered" /\ lane'[l].budget = lane[l].budget /\ calls'[l] = calls[l]
    BY <1>1, <1>4 DEF Answer, Laddered, Ready, IInv, LanesOK, Typed, Lane
  <2>. QED
    BY <1>1, <2>1 DEF Kept, Stage, Laddered
<1>5. CASE CheckAnswer(l)
  <2>1. lane[l].pc = "answered"
    BY <1>5 DEF CheckAnswer
  <2>2. /\ Laddered(l, Ended(l, "cancelled")) /\ Laddered(l, Ended(l, "validated"))
        /\ Laddered(l, Ended(l, "MALFORMED")) /\ Laddered(l, Ended(l, "TERMINAL"))
    BY <1>2, <2>1 DEF RouteErrors
  <2>3. CASE Over(l, IF cancelled THEN Ended(l, "cancelled") ELSE calls,
                  IF cancelled THEN "CANCELLED" ELSE "DEADLINE_EXCEEDED")
    BY <1>1, <2>2, <2>3, OverLadder
  <2>4. CASE Over(l, Ended(l, "validated"), "validated")
    BY <2>2, <2>4, OverLadder
  <2>5. CASE Raise(l, Ended(l, "MALFORMED"), "MALFORMED")
    <3>1. Ended(l, "MALFORMED")[l][Len(Ended(l, "MALFORMED")[l])].code = "MALFORMED"
      BY <1>2, <2>1 DEF RouteErrors
    <3>. QED
      BY <2>2, <2>5, <3>1, RaiseLadder
  <2>6. CASE Raise(l, Ended(l, "TERMINAL"), "TERMINAL")
    BY <2>2, <2>6, RaiseLadder
  <2>7. CASE AskAgain(l, Ended(l, "validated"))
    <3>1. Ended(l, "validated")[l][Len(Ended(l, "validated")[l])].code = "validated"
      BY <1>2, <2>1
    <3>. QED
      BY <2>2, <2>7, <3>1, AskAgainLadder
  <2>. QED
    BY <1>5, <2>3, <2>4, <2>5, <2>6, <2>7 DEF CheckAnswer
<1>6. CASE Expire(l)
  BY <1>1, <1>6, OverLadder DEF Expire
<1>7. CASE DeliverCancel(l)
  BY <1>1, <1>2, <1>7, OverLadder DEF DeliverCancel
<1>. QED
  BY <1>3, <1>4, <1>5, <1>6, <1>7

LEMMA NextLadderInv == LadderInv /\ [Next]_vars => LadderInv'
<1>. SUFFICES ASSUME LadderInv, [Next]_vars PROVE LadderInv'
  OBVIOUS
<1>1. TimeInv'
  BY LanesKeepTime, NextIInv DEF LadderInv, TimeInv
<1>2. ASSUME NEW l \in Lanes,
             \/ Invoke(l) \/ Wake(l)
             \/ \E code \in RouteErrors : RouteFails(l, code)
             \/ RouteBreaks(l) \/ Answer(l) \/ CheckAnswer(l) \/ Expire(l) \/ DeliverCancel(l)
      PROVE  \A m \in Lanes : Kept(m)
  <2>1. Kept(l)
    BY <1>2, InvokeLadder, WakeLadder, RouteFailsLadder, EndingsLadder
  <2>2. OthersRest(l)
    BY <1>2, InvokeInTime, WakeInTime, RouteFailsInTime, EndingsInTime DEF LadderInv
  <2>. QED
    BY <2>1, <2>2 DEF OthersRest, Kept, LadderInv
<1>3. ASSUME UNCHANGED <<calls, lane>>
      PROVE  \A m \in Lanes : Kept(m)
  BY <1>3 DEF Kept, LadderInv
<1>4. \A m \in Lanes : Kept(m)
  BY <1>2, <1>3 DEF Next, RequestCancel, Tick, vars
<1>5. \A m \in Lanes : Pairs(calls[m], lane[m].budget)' /\ Stage(calls[m], lane[m])'
  BY <1>4 DEF Kept, Pairs, Stage, Follows, IsRetried, IsRetryable, FallbackCodes
<1>. QED
  BY <1>1, <1>5 DEF LadderInv

LEMMA InitLadderInv == Init => LadderInv
<1>. SUFFICES ASSUME Init PROVE LadderInv
  OBVIOUS
<1>. DEFINE answered == <<[role |-> "primary", code |-> "validated", fast |-> FALSE]>>
<1>1. \A l \in Lanes : lane[l].pc \in {"ready", "over"}
  BY DEF Init, Idle
<1>2. ASSUME NEW l \in Lanes
      PROVE  Pairs(calls[l], lane[l].budget) /\ Stage(calls[l], lane[l])
  <2>1. calls[l] = << >> \/ (calls[l] = answered /\ lane[l].pc = "over")
    <3>1. PICK window \in Windows :
            /\ calls = [m \in Lanes |-> IF m = Serial /\ m \notin window THEN answered ELSE << >>]
            /\ lane = [m \in Lanes |-> IF m \in window THEN Idle("ready", 1, "none")
                         ELSE Idle("over", 0, IF m = Serial THEN "validated" ELSE "none")]
      BY DEF Init
    <3>. HIDE DEF answered
    <3>2. calls[l] = << >> \/ (calls[l] = answered /\ l \notin window)
      BY <3>1
    <3>3. l \notin window => lane[l].pc = "over"
      BY <3>1 DEF Idle
    <3>. QED
      BY <3>2, <3>3
  <2>2. Len(calls[l]) \in {0, 1}
    <3>. HIDE DEF answered
    <3>1. Len(<< >>) = 0
      OBVIOUS
    <3>2. Len(answered) = 1
      BY DEF answered
    <3>. QED
      BY <2>1, <3>1, <3>2
  <2>. QED
    BY <1>1, <2>1, <2>2 DEF Pairs, Stage
<1>3. TimeInv
  BY <1>1, InitIInv DEF TimeInv, TimesOf
<1>. QED
  BY <1>2, <1>3 DEF LadderInv

LEMMA AtMostOne ==
  ASSUME NEW n, NEW S \in SUBSET (1..n), \A i, k \in S : i = k
  PROVE  Cardinality(S) <= 1
<1>1. CASE S = {}
  BY <1>1, FS_EmptySet
<1>2. ASSUME NEW i \in S
      PROVE  Cardinality(S) <= 1
  <2>1. S = {i}
    BY <1>2
  <2>. QED
    BY <2>1, FS_Singleton
<1>. QED
  BY <1>1, <1>2

\* For any number of branches, timeouts and delays: the rows of a lane follow the precedence of
\* the ladder, with one retry and one repair at most.
THEOREM LadderPrecedence == Spec => []LadderIsKept
<1>1. ASSUME LadderInv
      PROVE  LadderIsKept
  <2>1. SUFFICES ASSUME NEW l \in Lanes
                 PROVE  LET rows == calls[l]
                            n == Len(rows)
                            Repaired == {i \in 1..(n - 1) : rows[i].code = "MALFORMED"}
                            Retried == {i \in 1..(n - 1) : IsRetried(rows, i)} IN
                        /\ \A i \in 1..(n - 1) : Follows(rows[i], rows[i + 1])
                        /\ \A i \in Retried : IsRetryable(rows[i])
                        /\ Cardinality(Repaired) <= 1
                        /\ Cardinality(Retried) <= 1
    BY DEF LadderIsKept, Follows, IsRetried
  <2>. DEFINE rows == calls[l]
              n == Len(rows)
              Repaired == {i \in 1..(n - 1) : rows[i].code = "MALFORMED"}
              Retried == {i \in 1..(n - 1) : IsRetried(rows, i)}
  <2>2. Pairs(rows, lane[l].budget)
    BY <1>1 DEF LadderInv
  <2>3. \A i \in 1..(n - 1) : Follows(rows[i], rows[i + 1])
    BY <2>2 DEF Pairs
  <2>4. \A i \in Retried : IsRetryable(rows[i])
    BY <2>3 DEF Follows, IsRetried
  <2>5. Cardinality(Repaired) <= 1 /\ Cardinality(Retried) <= 1
    <3>1. Repaired \in SUBSET (1..(n - 1)) /\ Retried \in SUBSET (1..(n - 1))
      OBVIOUS
    <3>2. (\A i, k \in Repaired : i = k) /\ (\A i, k \in Retried : i = k)
      BY <2>2 DEF Pairs
    <3>. HIDE DEF Repaired, Retried, n
    <3>. QED
      BY <3>1, <3>2, AtMostOne
  <2>. QED
    BY <2>3, <2>4, <2>5
<1>. QED
  BY <1>1, InitLadderInv, NextLadderInv, PTL DEF Spec

-----------------------------------------------------------------------------

\* The points of the rows cs, which CircuitScore counts.
Score(cs) ==
  UNION {UNION {{<<l, i>>} \X (1..Points(cs[l][i])) : i \in 1..Len(cs[l])} : l \in Lanes}

\* Rows that the budget bounds.
Bounded(cs) ==
  /\ cs \in [Lanes -> Seq(Call)]
  /\ \A l \in Lanes : Len(cs[l]) <= MaxPhysicalCalls

\* A primary row that scores as much as the circuit takes, or half of it.
Heavy(c) == c.role = "primary" /\ c.code \in {"BACKEND_TIMEOUT", "RAW_TRANSPORT"}
Light(c) == c.role = "primary" /\ c.code = "PROVIDER_ERROR" /\ c.fast

LEMMA PointsOfRows ==
  ASSUME NEW c \in Call
  PROVE  /\ Points(c) \in 0..2
         /\ Points(c) = 2 <=> Heavy(c)
         /\ Points(c) = 1 <=> Light(c)
<1>1. Heavy(c) => ~Light(c)
  BY DEF Heavy, Light
<1>2. Heavy(c) => Points(c) = 2
  BY DEF Points, Heavy
<1>3. Light(c) => Points(c) = 1
  BY DEF Points, Light
<1>4. ~Heavy(c) /\ ~Light(c) => Points(c) = 0
  BY DEF Points, Heavy, Light
<1>. QED
  BY <1>1, <1>2, <1>3, <1>4

LEMMA TwoOrMore ==
  ASSUME NEW T, IsFiniteSet(T)
  PROVE  Cardinality(T) >= 2 <=> \E x, y \in T : x # y
<1>1. Cardinality(T) \in Nat
  BY FS_CardinalityType
<1>2. Cardinality(T) = 0 <=> T = {}
  BY FS_EmptySet
<1>3. Cardinality(T) = 1 <=> \E x : T = {x}
  BY FS_Singleton
<1>4. (T # {} /\ ~ \E x : T = {x}) <=> \E x, y \in T : x # y
  OBVIOUS
<1>. QED
  BY <1>1, <1>2, <1>3, <1>4

LEMMA ScoreMembers ==
  ASSUME NEW cs, Bounded(cs), NEW x
  PROVE  x \in Score(cs) <=>
           \E l \in Lanes : \E i \in 1..Len(cs[l]) : \E p \in 1..Points(cs[l][i]) : x = <<<<l, i>>, p>>
BY DEF Score

LEMMA ScoreIsFinite ==
  ASSUME NEW cs, Bounded(cs)
  PROVE  IsFiniteSet(Score(cs))
<1>. DEFINE Names == (Lanes \X (1..MaxPhysicalCalls)) \X (1..2)
<1>1. IsFiniteSet(Lanes)
  <2>1. IsFiniteSet({Serial}) /\ IsFiniteSet(Branches)
    BY FS_Singleton, LaneAssumption
  <2>. QED
    BY <2>1, FS_Union DEF Lanes
<1>2. IsFiniteSet(Names)
  <2>1. ASSUME NEW n \in Int
        PROVE  IsFiniteSet(1..n)
    BY FS_Interval
  <2>2. MaxPhysicalCalls \in Int /\ 2 \in Int
    BY DEF MaxPhysicalCalls
  <2>3. IsFiniteSet(1..MaxPhysicalCalls) /\ IsFiniteSet(1..2)
    BY <2>1, <2>2
  <2>4. IsFiniteSet(Lanes \X (1..MaxPhysicalCalls))
    BY <1>1, <2>3, FS_Product
  <2>. QED
    BY <2>3, <2>4, FS_Product
<1>3. ASSUME NEW x \in Score(cs)
      PROVE  x \in Names
  <2>1. PICK l \in Lanes : \E i \in 1..Len(cs[l]) : \E p \in 1..Points(cs[l][i]) : x = <<<<l, i>>, p>>
    BY ScoreMembers
  <2>2. PICK i \in 1..Len(cs[l]) : \E p \in 1..Points(cs[l][i]) : x = <<<<l, i>>, p>>
    BY <2>1
  <2>3. PICK p \in 1..Points(cs[l][i]) : x = <<<<l, i>>, p>>
    BY <2>2
  <2>4. cs[l] \in Seq(Call) /\ Len(cs[l]) \in Nat /\ Len(cs[l]) <= MaxPhysicalCalls
    BY DEF Bounded
  <2>5. i \in 1..MaxPhysicalCalls /\ cs[l][i] \in Call
    BY <2>4 DEF MaxPhysicalCalls
  <2>6. p \in 1..2
    BY <2>5, PointsOfRows
  <2>. QED
    BY <2>3, <2>5, <2>6
<1>. HIDE DEF Names
<1>. QED
  BY <1>2, <1>3, FS_Subset

\* The score, read off the rows again at every call, says what the resilience contract says in
\* words: the circuit of _circuit_score is open on the evidence and on nothing else.
LEMMA CircuitIsEvidence ==
  ASSUME NEW cs, Bounded(cs)
  PROVE  CircuitOpen(cs) <=> CircuitEvidence(cs)
<1>1. ASSUME NEW l \in Lanes, NEW i \in 1..Len(cs[l])
      PROVE  cs[l][i] \in Call
  BY DEF Bounded
<1>2. CircuitEvidence(cs) <=>
        \/ \E l \in Lanes : \E i \in 1..Len(cs[l]) : Heavy(cs[l][i])
        \/ \E l, k \in Lanes : \E i \in 1..Len(cs[l]), j \in 1..Len(cs[k]) :
             <<l, i>> # <<k, j>> /\ Light(cs[l][i]) /\ Light(cs[k][j])
  <2>. DEFINE Rows == UNION {{<<l, i>> : i \in 1..Len(cs[l])} : l \in Lanes}
              Of(codes) == {r \in Rows : /\ cs[r[1]][r[2]].role = "primary"
                                         /\ cs[r[1]][r[2]].code \in codes}
  <2>1. \A r : r \in Rows <=> \E l \in Lanes : \E i \in 1..Len(cs[l]) : r = <<l, i>>
    OBVIOUS
  <2>2. CircuitEvidence(cs) <=>
          \/ Of({"BACKEND_TIMEOUT", "RAW_TRANSPORT"}) # {}
          \/ \E r, s \in Of({"PROVIDER_ERROR"}) :
               r # s /\ cs[r[1]][r[2]].fast /\ cs[s[1]][s[2]].fast
    BY DEF CircuitEvidence
  <2>. HIDE DEF Rows
  <2>3. Of({"BACKEND_TIMEOUT", "RAW_TRANSPORT"}) # {} <=> \E r \in Rows : Heavy(cs[r[1]][r[2]])
    BY DEF Heavy
  <2>4. (\E r \in Rows : Heavy(cs[r[1]][r[2]])) <=>
          \E l \in Lanes : \E i \in 1..Len(cs[l]) : Heavy(cs[l][i])
    <3>1. ASSUME NEW r \in Rows, Heavy(cs[r[1]][r[2]])
          PROVE  \E l \in Lanes : \E i \in 1..Len(cs[l]) : Heavy(cs[l][i])
      <4>1. PICK l \in Lanes : \E i \in 1..Len(cs[l]) : r = <<l, i>>
        BY <2>1
      <4>2. PICK i \in 1..Len(cs[l]) : r = <<l, i>>
        BY <4>1
      <4>. QED
        BY <3>1, <4>2
    <3>2. ASSUME NEW l \in Lanes, NEW i \in 1..Len(cs[l]), Heavy(cs[l][i])
          PROVE  \E r \in Rows : Heavy(cs[r[1]][r[2]])
      <4>1. <<l, i>> \in Rows
        BY <2>1
      <4>. QED
        BY <3>2, <4>1
    <3>. QED
      BY <3>1, <3>2
  <2>5. (\E r, s \in Of({"PROVIDER_ERROR"}) :
           r # s /\ cs[r[1]][r[2]].fast /\ cs[s[1]][s[2]].fast) <=>
          \E r, s \in Rows : r # s /\ Light(cs[r[1]][r[2]]) /\ Light(cs[s[1]][s[2]])
    BY DEF Light
  <2>6. (\E r, s \in Rows : r # s /\ Light(cs[r[1]][r[2]]) /\ Light(cs[s[1]][s[2]])) <=>
          \E l, k \in Lanes : \E i \in 1..Len(cs[l]), j \in 1..Len(cs[k]) :
            <<l, i>> # <<k, j>> /\ Light(cs[l][i]) /\ Light(cs[k][j])
    <3>1. ASSUME NEW r \in Rows, NEW s \in Rows, r # s,
                 Light(cs[r[1]][r[2]]), Light(cs[s[1]][s[2]])
          PROVE  \E l, k \in Lanes : \E i \in 1..Len(cs[l]), j \in 1..Len(cs[k]) :
                   <<l, i>> # <<k, j>> /\ Light(cs[l][i]) /\ Light(cs[k][j])
      <4>1. PICK l \in Lanes : \E i \in 1..Len(cs[l]) : r = <<l, i>>
        BY <2>1
      <4>2. PICK i \in 1..Len(cs[l]) : r = <<l, i>>
        BY <4>1
      <4>3. PICK k \in Lanes : \E j \in 1..Len(cs[k]) : s = <<k, j>>
        BY <2>1
      <4>4. PICK j \in 1..Len(cs[k]) : s = <<k, j>>
        BY <4>3
      <4>. QED
        BY <3>1, <4>2, <4>4
    <3>2. ASSUME NEW l \in Lanes, NEW k \in Lanes, NEW i \in 1..Len(cs[l]), NEW j \in 1..Len(cs[k]),
                 <<l, i>> # <<k, j>>, Light(cs[l][i]), Light(cs[k][j])
          PROVE  \E r, s \in Rows : r # s /\ Light(cs[r[1]][r[2]]) /\ Light(cs[s[1]][s[2]])
      <4>1. <<l, i>> \in Rows /\ <<k, j>> \in Rows
        BY <2>1
      <4>. QED
        BY <3>2, <4>1
    <3>. QED
      BY <3>1, <3>2
  <2>. HIDE DEF Of
  <2>. QED
    BY <2>2, <2>3, <2>4, <2>5, <2>6
<1>3. CircuitOpen(cs) <=> \E x, y \in Score(cs) : x # y
  <2>1. CircuitScore(cs) = Cardinality(Score(cs))
    BY DEF CircuitScore, Score
  <2>. QED
    BY <2>1, ScoreIsFinite, TwoOrMore DEF CircuitOpen
<1>4. ASSUME NEW l \in Lanes, NEW i \in 1..Len(cs[l]), Heavy(cs[l][i])
      PROVE  \E x, y \in Score(cs) : x # y
  <2>1. 1 \in 1..Points(cs[l][i]) /\ 2 \in 1..Points(cs[l][i])
    <3>1. Points(cs[l][i]) = 2
      BY <1>1, <1>4, PointsOfRows
    <3>. QED
      BY <3>1
  <2>2. <<<<l, i>>, 1>> \in Score(cs) /\ <<<<l, i>>, 2>> \in Score(cs)
    BY <2>1, ScoreMembers
  <2>3. <<<<l, i>>, 1>> # <<<<l, i>>, 2>>
    OBVIOUS
  <2>. QED
    BY <2>2, <2>3
<1>5. ASSUME NEW l \in Lanes, NEW k \in Lanes, NEW i \in 1..Len(cs[l]), NEW j \in 1..Len(cs[k]),
             <<l, i>> # <<k, j>>, Light(cs[l][i]), Light(cs[k][j])
      PROVE  \E x, y \in Score(cs) : x # y
  <2>1. 1 \in 1..Points(cs[l][i]) /\ 1 \in 1..Points(cs[k][j])
    <3>1. Points(cs[l][i]) = 1 /\ Points(cs[k][j]) = 1
      BY <1>1, <1>5, PointsOfRows
    <3>. QED
      BY <3>1
  <2>2. <<<<l, i>>, 1>> \in Score(cs) /\ <<<<k, j>>, 1>> \in Score(cs)
    BY <2>1, ScoreMembers
  <2>3. <<<<l, i>>, 1>> # <<<<k, j>>, 1>>
    BY <1>5
  <2>. QED
    BY <2>2, <2>3
<1>6. ASSUME NEW x \in Score(cs), NEW y \in Score(cs), x # y
      PROVE  CircuitEvidence(cs)
  <2>1. PICK l \in Lanes : \E i \in 1..Len(cs[l]) : \E p \in 1..Points(cs[l][i]) : x = <<<<l, i>>, p>>
    BY ScoreMembers
  <2>2. PICK i \in 1..Len(cs[l]) : \E p \in 1..Points(cs[l][i]) : x = <<<<l, i>>, p>>
    BY <2>1
  <2>3. PICK p \in 1..Points(cs[l][i]) : x = <<<<l, i>>, p>>
    BY <2>2
  <2>4. PICK k \in Lanes : \E j \in 1..Len(cs[k]) : \E q \in 1..Points(cs[k][j]) : y = <<<<k, j>>, q>>
    BY ScoreMembers
  <2>5. PICK j \in 1..Len(cs[k]) : \E q \in 1..Points(cs[k][j]) : y = <<<<k, j>>, q>>
    BY <2>4
  <2>6. PICK q \in 1..Points(cs[k][j]) : y = <<<<k, j>>, q>>
    BY <2>5
  <2>7. CASE Heavy(cs[l][i]) \/ Heavy(cs[k][j])
    BY <1>2, <2>7
  <2>8. CASE ~Heavy(cs[l][i]) /\ ~Heavy(cs[k][j])
    <3>1. cs[l][i] \in Call /\ cs[k][j] \in Call
      BY <1>1
    <3>2. Points(cs[l][i]) = 1 /\ Points(cs[k][j]) = 1
      <4>1. Points(cs[l][i]) \in {0, 1} /\ Points(cs[k][j]) \in {0, 1}
        BY <2>8, <3>1, PointsOfRows
      <4>. QED
        BY <4>1
    <3>3. Light(cs[l][i]) /\ Light(cs[k][j]) /\ p = 1 /\ q = 1
      BY <3>1, <3>2, PointsOfRows
    <3>4. <<l, i>> # <<k, j>>
      BY <1>6, <2>3, <2>6, <3>3
    <3>. QED
      BY <1>2, <3>3, <3>4
  <2>. QED
    BY <2>7, <2>8
<1>. QED
  BY <1>2, <1>3, <1>4, <1>5, <1>6

-----------------------------------------------------------------------------

\* What CircuitGatesCalls says of one lane.
Gated(l) ==
  Len(calls'[l]) > Len(calls[l]) =>
    LET before == Len(calls[l])
        role == Last(calls'[l]).role IN
    /\ role = "primary" => ~CircuitEvidence(calls')
    /\ role = "fallback" =>
         \/ CircuitEvidence(calls')
         \/ /\ before > 0
            /\ LET c == calls'[l][before] IN
               \/ c.role = "primary" /\ c.code \in FallbackCodes
               \/ c.role = "fallback" /\ c.code = "MALFORMED"

\* What the rows say for a call of this role.
Grounds(rows, cs, role) ==
  /\ role = "primary" => ~CircuitOpen(cs)
  /\ role = "fallback" =>
       \/ CircuitOpen(cs)
       \/ /\ rows # << >>
          /\ LET c == rows[Len(rows)] IN
             \/ c.role = "primary" /\ c.code \in FallbackCodes
             \/ c.role = "fallback" /\ c.code = "MALFORMED"

LEMMA RowsAreBounded ==
  ASSUME NEW l, NEW cs, Ready(l, cs)
  PROVE  Bounded(cs)
<1>1. cs \in [Lanes -> Seq(Call)] /\ l \in Lanes
  BY DEF Ready, RowsOf
<1>2. ASSUME NEW m \in Lanes
      PROVE  Len(cs[m]) <= MaxPhysicalCalls
  <2>1. Len(calls[m]) <= MaxPhysicalCalls /\ Len(calls[l]) <= MaxPhysicalCalls
    BY <1>1 DEF Ready, IInv, LanesOK, LaneOK
  <2>. QED
    BY <2>1 DEF Ready, RowsOf
<1>. QED
  BY <1>1, <1>2 DEF Bounded

\* Nothing is gated in a step that adds no row.
LEMMA EndsGated ==
  ASSUME NEW l, NEW cs, Ready(l, cs), NEW code, Raise(l, cs, code) \/ Over(l, cs, code)
  PROVE  Gated(l)
<1>1. calls' = cs
  BY DEF Raise, Over, AskAgain
<1>2. Len(cs[l]) = Len(calls[l]) /\ Len(cs[l]) \in Nat
  BY DEF Ready, RowsOf
<1>. QED
  BY <1>1, <1>2 DEF Gated

\* The row of a call that starts is no evidence.
LEMMA StartsGated ==
  ASSUME IInv', NEW l, NEW cs, Ready(l, cs), NEW role \in {"primary", "fallback"}, NEW try, NEW used,
         StartCall(l, cs, role, try, used), Grounds(cs[l], cs, role)
  PROVE  Gated(l)
<1>1. CASE ~Accepts
  BY <1>1, EndsGated DEF StartCall
<1>2. CASE Accepts /\ Len(calls'[l]) > Len(calls[l])
  <2>. DEFINE call == [role |-> role, code |-> "started", fast |-> FALSE]
              n == Len(cs[l])
  <2>1. /\ cs \in [Lanes -> Seq(Call)] /\ cs[l] \in Seq(Call) /\ call \in Call /\ l \in Lanes
        /\ n \in Nat /\ n = Len(calls[l])
    <3>1. cs \in [Lanes -> Seq(Call)] /\ l \in Lanes /\ n = Len(calls[l])
      BY DEF Ready, RowsOf
    <3>2. cs[l] \in Seq(Call)
      BY <3>1
    <3>3. call \in Call
      BY DEF Call
    <3>. QED
      BY <3>1, <3>2, <3>3
  <2>2. calls' = [cs EXCEPT ![l] = Append(cs[l], call)]
    BY <1>2 DEF StartCall
  <2>3. calls' \in [Lanes -> Seq(Call)] /\ calls'[l] = Append(cs[l], call)
    BY <2>1, <2>2
  <2>4. /\ Len(calls'[l]) = n + 1 /\ calls'[l][n + 1] = call
        /\ \A i \in 1..n : calls'[l][i] = cs[l][i]
        /\ cs[l] # << >> => n # 0
    BY <2>1, <2>3
  <2>5. Last(calls'[l]).role = role
    <3>1. Last(calls'[l]) = call
      BY <2>4 DEF Last
    <3>. QED
      BY <3>1
  <2>. HIDE DEF call, n
  <2>6. Score(calls') = Score(cs)
    <3>1. ASSUME NEW m \in Lanes
          PROVE  UNION {{<<m, i>>} \X (1..Points(calls'[m][i])) : i \in 1..Len(calls'[m])} =
                 UNION {{<<m, i>>} \X (1..Points(cs[m][i])) : i \in 1..Len(cs[m])}
      <4>1. CASE m # l
        BY <2>1, <2>2, <4>1
      <4>2. CASE m = l
        <5>1. 1..Len(calls'[l]) = (1..n) \union {n + 1}
          BY <2>1, <2>4
        <5>2. {<<l, n + 1>>} \X (1..Points(calls'[l][n + 1])) = {}
          <6>1. Points(call) = 0
            BY DEF Points, call
          <6>. QED
            BY <2>4, <6>1
        <5>3. UNION {{<<l, i>>} \X (1..Points(calls'[l][i])) : i \in 1..Len(calls'[l])} =
              UNION {{<<l, i>>} \X (1..Points(calls'[l][i])) : i \in 1..n}
          BY <5>1, <5>2
        <5>4. UNION {{<<l, i>>} \X (1..Points(calls'[l][i])) : i \in 1..n} =
              UNION {{<<l, i>>} \X (1..Points(cs[l][i])) : i \in 1..n}
          BY <2>4
        <5>. QED
          BY <4>2, <5>3, <5>4 DEF n
      <4>. QED
        BY <4>1, <4>2
    <3>. QED
      BY <3>1 DEF Score
  <2>7. CircuitOpen(calls') <=> CircuitOpen(cs)
    BY <2>6 DEF CircuitOpen, CircuitScore, Score
  <2>8. Bounded(calls')
    BY DEF IInv, LanesOK, Typed, LaneOK, Bounded, MaxPhysicalCalls
  <2>. QED
    <3>1. CircuitOpen(cs) <=> CircuitEvidence(calls')
      BY <2>7, <2>8, CircuitIsEvidence
    <3>2. cs[l] # << >> => n > 0 /\ calls'[l][n] = cs[l][n]
      BY <2>1, <2>4
    <3>. QED
      BY <2>1, <2>5, <3>1, <3>2 DEF Gated, Grounds, n
<1>. QED
  BY <1>1, <1>2 DEF Gated

LEMMA CallFallbackGated ==
  ASSUME IInv', NEW l, NEW cs, Ready(l, cs), NEW used, CallFallback(l, cs, used),
         Grounds(cs[l], cs, "fallback")
  PROVE  Gated(l)
<1>1. CASE Raise(l, cs, "CALL_BUDGET_EXHAUSTED") \/ Raise(l, cs, "DEADLINE_INSUFFICIENT")
  BY <1>1, EndsGated
<1>2. CASE StartCall(l, cs, "fallback", "fallback", used + 1)
  BY <1>2, StartsGated
<1>. QED
  BY <1>1, <1>2 DEF CallFallback

\* The circuit is read at the call, after any sleep, from the rows that are there by then.
LEMMA CallPrimaryGated ==
  ASSUME IInv', NEW l, NEW cs, Ready(l, cs), NEW used, NEW try, CallPrimary(l, cs, used, try)
  PROVE  Gated(l)
<1>1. CASE Raise(l, cs, "DEADLINE_INSUFFICIENT")
  BY <1>1, EndsGated
<1>2. CASE CircuitOpen(cs) /\ CallFallback(l, cs, used)
  BY <1>2, CallFallbackGated DEF Grounds
<1>3. CASE ~CircuitOpen(cs) /\ StartCall(l, cs, "primary", try, used + 1)
  BY <1>3, StartsGated DEF Grounds
<1>. QED
  BY <1>1, <1>2, <1>3 DEF CallPrimary

LEMMA InvokeGated ==
  ASSUME LadderInv, IInv', NEW l \in Lanes, Invoke(l)
  PROVE  Gated(l)
<1>. DEFINE rows == calls[l]
<1>1. Ready(l, calls) /\ rows \in Seq(Call)
  BY DEF LadderInv, TimeInv, Ready, RowsOf, Invoke, IInv, LanesOK, Typed
<1>2. CASE \E code : Over(l, calls, code) \/ Raise(l, calls, code)
  BY <1>1, <1>2, EndsGated
<1>3. CASE IsRepair(l) /\ Repair(l)
  <2>. DEFINE c == rows[Len(rows)]
  <2>1. rows # << >> /\ c.code = "MALFORMED" /\ Last(rows) = c /\ c \in Call
    BY <1>1, <1>3 DEF IsRepair, Last
  <2>2. c.role \in {"primary", "fallback"}
    BY <2>1 DEF Call
  <2>3. CASE Raise(l, calls, "DEADLINE_INSUFFICIENT") \/ Raise(l, calls, "MALFORMED")
    BY <1>1, <2>3, EndsGated
  <2>4. CASE /\ c.role = "fallback" \/ ~CircuitOpen(calls)
             /\ StartCall(l, calls, c.role, "repair", Len(rows))
    <3>1. Grounds(rows, calls, c.role)
      BY <2>1, <2>4 DEF Grounds
    <3>. QED
      BY <1>1, <2>2, <2>4, <3>1, StartsGated
  <2>. QED
    BY <1>3, <2>1, <2>3, <2>4 DEF Repair
<1>4. CASE CircuitOpen(calls) /\ CallFallback(l, calls, Len(rows))
  BY <1>1, <1>4, CallFallbackGated DEF Grounds
<1>5. CASE CallPrimary(l, calls, Len(rows), "first")
  BY <1>1, <1>5, CallPrimaryGated
<1>. QED
  BY <1>2, <1>3, <1>4, <1>5 DEF Invoke

\* A fallback right after a failed call: the call was on the primary, and what it ended with is
\* either an error the fallback is for or evidence by itself.
LEMMA RouteFailsGated ==
  ASSUME LadderInv, IInv', NEW l \in Lanes, NEW code \in RouteErrors, RouteFails(l, code)
  PROVE  Gated(l)
<1>. DEFINE cs == Ended(l, code)
            n == Len(cs[l])
<1>1. /\ Ready(l, calls) /\ lane[l].pc = "calling" /\ Stage(calls[l], lane[l])
  BY DEF LadderInv, TimeInv, Ready, RowsOf, RouteFails, IInv, LanesOK, Typed
<1>2. /\ Ready(l, cs) /\ cs[l] # << >> /\ cs[l] \in Seq(Call) /\ n = Len(calls[l])
      /\ cs[l][n].code = code /\ cs[l][n].role = calls[l][n].role
  BY <1>1, EndedPairs DEF Laddered
<1>. HIDE DEF cs
<1>3. CASE Over(l, calls, "STALE_ATTEMPT")
  BY <1>1, <1>3, EndsGated
<1>4. CASE Raise(l, cs, code)
  BY <1>2, <1>4, EndsGated
<1>5. CASE /\ lane[l].try \in {"first", "retry"} /\ code \in FallbackCodes \union {"RAW_TRANSPORT"}
           /\ CallFallback(l, cs, lane[l].used)
  <2>1. cs[l][n].role = "primary"
    BY <1>1, <1>2, <1>5 DEF Stage
  <2>2. CASE code \in FallbackCodes
    <3>1. Grounds(cs[l], cs, "fallback")
      BY <1>2, <2>1, <2>2 DEF Grounds
    <3>. QED
      BY <1>2, <1>5, <3>1, CallFallbackGated
  <2>3. CASE code = "RAW_TRANSPORT"
    <3>1. Bounded(cs) /\ l \in Lanes /\ n \in 1..Len(cs[l])
      BY <1>2, RowsAreBounded
    <3>2. <<<<l, n>>, 1>> \in Score(cs) /\ <<<<l, n>>, 2>> \in Score(cs)
      <4>1. cs[l][n] \in Call /\ Heavy(cs[l][n])
        BY <1>2, <2>1, <2>3, <3>1 DEF Heavy
      <4>2. Points(cs[l][n]) = 2
        BY <4>1, PointsOfRows
      <4>3. 1 \in 1..Points(cs[l][n]) /\ 2 \in 1..Points(cs[l][n])
        BY <4>2
      <4>. QED
        BY <3>1, <4>3, ScoreMembers
    <3>3. Cardinality(Score(cs)) >= 2
      <4>1. IsFiniteSet(Score(cs))
        BY <3>1, ScoreIsFinite
      <4>2. <<<<l, n>>, 1>> # <<<<l, n>>, 2>>
        OBVIOUS
      <4>. QED
        BY <3>2, <4>1, <4>2, TwoOrMore
    <3>4. Grounds(cs[l], cs, "fallback")
      BY <3>3 DEF Grounds, CircuitOpen, CircuitScore, Score
    <3>. QED
      BY <1>2, <1>5, <3>4, CallFallbackGated
  <2>. QED
    BY <1>5, <2>2, <2>3
<1>6. CASE calls' = cs
  BY <1>2, <1>6 DEF Gated, Ready, RowsOf
<1>7. CASE lane[l].try = "first" /\ AfterFirst(l, cs, code)
  BY <1>4, <1>5, <1>6, <1>7 DEF AfterFirst
<1>8. CASE lane[l].try = "retry" /\ AfterRetry(l, cs, code)
  <2>1. code \in {"MALFORMED", "TERMINAL"} \/ code \in FallbackCodes \union {"RAW_TRANSPORT"}
    BY DEF RouteErrors
  <2>. QED
    BY <1>4, <1>5, <1>8, <2>1 DEF AfterRetry
<1>. QED
  BY <1>3, <1>4, <1>7, <1>8 DEF RouteFails, cs

\* The steps that start nothing: the rows are those before, or the last one has ended.
LEMMA EndingsGated ==
  ASSUME LadderInv, NEW l \in Lanes,
         RouteBreaks(l) \/ Answer(l) \/ CheckAnswer(l) \/ Expire(l) \/ DeliverCancel(l)
  PROVE  Gated(l)
<1>1. lane[l].pc \in {"calling", "answered", "sleeping"}
  BY DEF RouteBreaks, Answer, CheckAnswer, Expire, DeliverCancel
<1>2. \/ calls' = calls
      \/ /\ lane[l].pc \in {"calling", "answered"}
         /\ \E code \in RouteErrors \union {"validated", "cancelled"} : calls' = Ended(l, code)
  <2>1. /\ "UNCLASSIFIED_ERROR" \in RouteErrors /\ "MALFORMED" \in RouteErrors
        /\ "TERMINAL" \in RouteErrors
    BY DEF RouteErrors, FallbackCodes
  <2>2. CASE RouteBreaks(l)
    BY <2>1, <2>2 DEF RouteBreaks, Over
  <2>3. CASE Answer(l) \/ Expire(l)
    BY <2>3 DEF Answer, Expire, Over
  <2>4. CASE CheckAnswer(l)
    BY <2>1, <2>4 DEF CheckAnswer, Over, Raise, AskAgain
  <2>5. CASE DeliverCancel(l)
    BY <2>5 DEF DeliverCancel, Over
  <2>. QED
    BY <2>2, <2>3, <2>4, <2>5
<1>3. ASSUME NEW code \in RouteErrors \union {"validated", "cancelled"},
             lane[l].pc \in {"calling", "answered"}
      PROVE  Len(Ended(l, code)[l]) = Len(calls[l])
  BY <1>3, EndedPairs
<1>4. Len(calls'[l]) = Len(calls[l]) /\ Len(calls[l]) \in Nat
  <2>1. calls[l] \in Seq(Call)
    BY DEF LadderInv, TimeInv, IInv, LanesOK, Typed
  <2>. QED
    BY <1>2, <1>3, <2>1
<1>. QED
  BY <1>4 DEF Gated

LEMMA NextGated ==
  ASSUME LadderInv, IInv', [Next]_vars
  PROVE  \A l \in Lanes : Gated(l)
<1>1. \A m \in Lanes : Len(calls[m]) \in Nat
  BY DEF LadderInv, TimeInv, IInv, LanesOK, Typed
<1>2. ASSUME NEW l \in Lanes,
             \/ Invoke(l) \/ Wake(l)
             \/ \E code \in RouteErrors : RouteFails(l, code)
             \/ RouteBreaks(l) \/ Answer(l) \/ CheckAnswer(l) \/ Expire(l) \/ DeliverCancel(l)
      PROVE  \A m \in Lanes : Gated(m)
  <2>1. ASSUME Wake(l)
        PROVE  Gated(l)
    <3>1. Ready(l, calls)
      BY <2>1 DEF LadderInv, TimeInv, Ready, RowsOf, Wake, IInv, LanesOK, Typed
    <3>. QED
      BY <2>1, <3>1, CallPrimaryGated DEF Wake
  <2>2. Gated(l)
    BY <1>2, <2>1, InvokeGated, RouteFailsGated, EndingsGated
  <2>3. OthersRest(l)
    BY <1>2, InvokeInTime, WakeInTime, RouteFailsInTime, EndingsInTime DEF LadderInv
  <2>4. ASSUME NEW m \in Lanes \ {l}
        PROVE  Gated(m)
    BY <1>1, <2>3 DEF OthersRest, Gated
  <2>. QED
    BY <2>2, <2>4
<1>3. CASE calls' = calls
  BY <1>1, <1>3 DEF Gated
<1>. QED
  BY <1>2, <1>3 DEF Next, RequestCancel, Tick, vars

\* For any number of branches, timeouts and delays: no primary call starts on the evidence that
\* opens the circuit, and no fallback starts without a reason for it.
THEOREM CircuitIsKept == Spec => CircuitGatesCalls
<1>1. LadderInv /\ [Next]_vars => LadderInv'
  BY NextLadderInv
<1>2. LadderInv' => IInv'
  BY DEF LadderInv, TimeInv
<1>3. LadderInv /\ LadderInv' /\ [Next]_vars => [\A l \in Lanes : Gated(l)]_vars
  BY <1>2, NextGated
<1>4. CircuitGatesCalls <=> [][\A l \in Lanes : Gated(l)]_vars
  BY DEF CircuitGatesCalls, Gated
<1>. QED
  BY <1>1, <1>3, <1>4, InitLadderInv, PTL DEF Spec

=============================================================================
