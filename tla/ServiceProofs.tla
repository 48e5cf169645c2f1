--------------------------- MODULE ServiceProofs ---------------------------
(***************************************************************************)
(* Proofs about ServiceLifecycle and the provider calls of ProcessIsolation *)
(* for any number of services and calls, any number of faults and of files *)
(* that are put at the paths.                                              *)
(***************************************************************************)
EXTENDS ServiceLifecycle, TLAPS

-----------------------------------------------------------------------------
(* One provider call *)

\* What the coroutine of a call says about its processes: no leader is alive from the moment the
\* group is swept, and a cancellation is on record until the call has ended.
CallGood(r, k) ==
  /\ r.pc = "idle" => k.leader # "alive" /\ ~k.helpers /\ ~r.asked
  /\ r.pc = "receiving" => ~r.asked
  /\ r.pc = "stopping" =>
       /\ r.stage \in {"group", "groupTermed", "groupKilled"} => k.leader # "alive"
       /\ r.asked => r.callerCancelled \/ r.outcome \in {"cancelled", "RuntimeError"}
  /\ r.pc = "ended" =>
       /\ r.outcome # "RuntimeError" =>
            k.leader # "alive" /\ (r.outcome # "badProgress" => ~k.helpers)
       /\ r.asked => r.outcome \in {"cancelled", "RuntimeError"}

CallInv == CallTypeOK /\ \A c \in Calls : CallGood(call[c], child[c])

\* A call and its processes change to something good.
LEMMA CallChanges ==
  ASSUME CallInv, NEW c \in Calls, NEW r \in Call, Update(c, r),
         NEW k \in Child, child' = [child EXCEPT ![c] = k], CallGood(r, k)
  PROVE  CallInv'
  BY DEF CallInv, CallTypeOK, Update

\* Only the call changes.
LEMMA CallMoves ==
  ASSUME CallInv, NEW c \in Calls, NEW r \in Call, Update(c, r), UNCHANGED child,
         CallGood(r, child[c])
  PROVE  CallInv'
<1>1. child' = [child EXCEPT ![c] = child[c]] /\ child[c] \in Child
  BY DEF CallInv, CallTypeOK
<1> QED
  BY <1>1, CallChanges

LEMMA ChildStepInv ==
  ASSUME CallInv, NEW c \in Calls, ChildStep(c)
  PROVE  CallInv'
<1>1. call[c] \in Call /\ child[c] \in Child /\ CallGood(call[c], child[c])
  BY DEF CallInv, CallTypeOK
<1>2. ASSUME NEW m \in Messages, Say(c, m) PROVE CallInv'
  <2> DEFINE r == [call[c] EXCEPT !.mail = m]
  <2>1. r \in Call
    BY <1>1 DEF Call
  <2>2. CallGood(r, child[c])
    BY <1>1 DEF Call, CallGood
  <2> QED
    BY <1>2, <2>1, <2>2, CallMoves DEF Say
<1>3. ASSUME NEW k \in Child, UNCHANGED call, child' = [child EXCEPT ![c] = k],
             CallGood(call[c], k)
      PROVE  CallInv'
  <2>1. call' = [call EXCEPT ![c] = call[c]]
    BY <1>3 DEF CallInv, CallTypeOK
  <2> QED
    BY <1>1, <1>3, <2>1, CallChanges DEF Update
<1>4. CASE Spawn(c)
  <2> DEFINE k == [child[c] EXCEPT !.helpers = TRUE]
  <2>1. k \in Child /\ child' = [child EXCEPT ![c] = k] /\ UNCHANGED call
    BY <1>1, <1>4 DEF Spawn, Child
  <2>2. CallGood(call[c], k)
    BY <1>1, <1>4 DEF Spawn, LeaderAlive, CallGood, Child
  <2> QED
    BY <1>3, <2>1, <2>2
<1>5. CASE LeaderEnds(c)
  <2> DEFINE k == [child[c] EXCEPT !.leader = "dead"]
  <2>1. k \in Child /\ child' = [child EXCEPT ![c] = k] /\ UNCHANGED call
    BY <1>1, <1>5 DEF LeaderEnds, Child
  <2>2. CallGood(call[c], k)
    BY <1>1 DEF CallGood, Child
  <2> QED
    BY <1>3, <2>1, <2>2
<1>6. CASE HelpersEnd(c)
  <2> DEFINE k == [child[c] EXCEPT !.helpers = FALSE]
  <2>1. k \in Child /\ child' = [child EXCEPT ![c] = k] /\ UNCHANGED call
    BY <1>1, <1>6 DEF HelpersEnd, Child
  <2>2. CallGood(call[c], k)
    BY <1>1 DEF CallGood, Child
  <2> QED
    BY <1>3, <2>1, <2>2
<1> QED
  BY <1>2, <1>4, <1>5, <1>6 DEF ChildStep

LEMMA InvokeInv ==
  ASSUME CallInv, NEW c \in Calls, Invoke(c)
  PROVE  CallInv'
<1>1. call[c] \in Call /\ child[c] \in Child /\ CallGood(call[c], child[c]) /\ call[c].pc = "idle"
  BY DEF CallInv, CallTypeOK, Invoke
<1>2. CASE /\ Update(c, [call[c] EXCEPT !.pc = "ended", !.outcome = "PROVIDER_ERROR"])
           /\ UNCHANGED child
  <2> DEFINE r == [call[c] EXCEPT !.pc = "ended", !.outcome = "PROVIDER_ERROR"]
  <2>1. r \in Call
    BY <1>1 DEF Call, Outcomes
  <2>2. CallGood(r, child[c])
    BY <1>1 DEF Call, CallGood
  <2> QED
    BY <1>2, <2>1, <2>2, CallMoves
<1>3. CASE /\ Update(c, [call[c] EXCEPT !.pc = "receiving", !.owned = TRUE])
           /\ child' = [child EXCEPT ![c].leader = "alive"]
  <2> DEFINE r == [call[c] EXCEPT !.pc = "receiving", !.owned = TRUE]
             k == [child[c] EXCEPT !.leader = "alive"]
  <2>1. r \in Call /\ k \in Child /\ child' = [child EXCEPT ![c] = k]
    BY <1>1, <1>3 DEF Call, Child
  <2>2. CallGood(r, k)
    BY <1>1 DEF Call, CallGood
  <2> QED
    BY <1>3, <2>1, <2>2, CallChanges
<1> QED
  BY <1>2, <1>3 DEF Invoke

\* Entering the drain and the finally clause.
LEMMA StoppingGood ==
  ASSUME NEW r \in Call, NEW k \in Child, NEW why \in {"answer", "cancel", "eof", "finally"},
         NEW o \in Outcomes, r.asked => o \in {"cancelled", "RuntimeError"}
  PROVE  Stopping(r, why, o) \in Call /\ CallGood(Stopping(r, why, o), k)
<1>1. Stopping(r, why, o) \in Call
  BY DEF Stopping, Call, Stages
<1>2. /\ Stopping(r, why, o).pc = "stopping" /\ Stopping(r, why, o).stage = "check"
      /\ Stopping(r, why, o).asked = r.asked /\ Stopping(r, why, o).outcome = o
  BY DEF Stopping, Call
<1>3. r.asked \in BOOLEAN
  BY DEF Call
<1> QED
  BY <1>1, <1>2, <1>3 DEF CallGood

LEMMA FinallyGood ==
  ASSUME NEW r \in Call, NEW k \in Child, NEW alive \in BOOLEAN, NEW o \in Outcomes,
         r.asked => o \in {"cancelled", "RuntimeError"},
         alive \/ o = "RuntimeError" \/ (k.leader # "alive" /\ (o # "badProgress" => ~k.helpers))
  PROVE  Finally(r, alive, o) \in Call /\ CallGood(Finally(r, alive, o), k)
<1>1. CASE alive
  BY <1>1, StoppingGood DEF Finally
<1>2. CASE ~alive
  <2> DEFINE e == Finally(r, alive, o)
  <2>1. e \in Call
    BY <1>2 DEF Finally, Call, Stages
  <2>2. e.pc = "ended" /\ e.asked = r.asked /\ e.outcome = o
    BY <1>2 DEF Finally, Call
  <2>3. r.asked \in BOOLEAN
    BY DEF Call
  <2> HIDE DEF e
  <2>4. CallGood(e, k)
    BY <1>2, <2>2, <2>3 DEF CallGood
  <2> QED
    BY <2>1, <2>4 DEF e
<1> QED
  BY <1>1, <1>2

\* What the cancellation of a caller makes of a call is good, for every call at once.
LEMMA CancelledGood ==
  ASSUME NEW r \in Call, NEW k \in Child, CallGood(r, k)
  PROVE  Cancelled(r) \in Call /\ CallGood(Cancelled(r), k)
<1>1. CASE r.pc = "receiving"
  <2> DEFINE s == Stopping(r, "cancel", "cancelled")
             e == [s EXCEPT !.asked = TRUE]
  <2>1. s \in Call
    BY StoppingGood DEF Outcomes
  <2>2. s.pc = "stopping" /\ s.stage = "check" /\ s.outcome = "cancelled"
    BY DEF Stopping, Call
  <2> HIDE DEF s
  <2>3. e \in Call /\ e.pc = "stopping" /\ e.stage = "check" /\ e.outcome = "cancelled"
    BY <2>1, <2>2 DEF Call
  <2>4. Cancelled(r) = e
    BY <1>1 DEF Cancelled, s
  <2> HIDE DEF e
  <2> QED
    BY <2>3, <2>4 DEF CallGood
<1>2. CASE r.pc = "stopping"
  <2> DEFINE e == [r EXCEPT !.asked = TRUE, !.callerCancelled = TRUE]
  <2>1. e \in Call /\ e.pc = "stopping" /\ e.stage = r.stage /\ e.callerCancelled
    BY <1>2 DEF Call
  <2>2. Cancelled(r) = e
    BY <1>2 DEF Cancelled
  <2> HIDE DEF e
  <2> QED
    BY <1>2, <2>1, <2>2 DEF CallGood
<1> QED
  BY <1>1, <1>2 DEF Cancelled

LEMMA LoseGood ==
  ASSUME NEW r \in Call, NEW k \in Child, CallGood(r, k)
  PROVE  Lose(r) \in Call /\ CallGood(Lose(r), k)
<1>1. CASE r.pc \in {"receiving", "stopping"}
  <2>1. Lose(r) \in Call /\ Lose(r).pc = "lost"
    BY <1>1 DEF Lose, Call, Stages
  <2> QED
    BY <2>1 DEF CallGood
<1> QED
  BY <1>1 DEF Lose

LEMMA CancelInv ==
  ASSUME CallInv, NEW c \in Calls, Cancel(c)
  PROVE  CallInv'
<1>1. call[c] \in Call /\ child[c] \in Child /\ CallGood(call[c], child[c])
  BY DEF CallInv, CallTypeOK
<1>2. Update(c, Cancelled(call[c])) /\ UNCHANGED child
  BY DEF Cancel
<1> QED
  BY <1>1, <1>2, CancelledGood, CallMoves

LEMMA LoseCallInv ==
  ASSUME CallInv, NEW c \in Calls, LoseCall(c)
  PROVE  CallInv'
<1>1. call[c] \in Call /\ child[c] \in Child /\ CallGood(call[c], child[c])
  BY DEF CallInv, CallTypeOK
<1>2. Update(c, Lose(call[c])) /\ UNCHANGED child
  BY DEF LoseCall
<1> QED
  BY <1>1, <1>2, LoseGood, CallMoves

LEMMA ReceiveInv ==
  ASSUME CallInv, NEW c \in Calls, Receive(c)
  PROVE  CallInv'
<1> DEFINE r == [call[c] EXCEPT !.mail = "none"]
           m == call[c].mail
<1>1. call[c] \in Call /\ child[c] \in Child /\ CallGood(call[c], child[c])
  BY DEF CallInv, CallTypeOK
<1>2. r.pc = "receiving" /\ m \in Messages /\ UNCHANGED child
  BY <1>1 DEF Receive, Call
<1>3. r \in Call /\ ~r.asked
  BY <1>1, <1>2 DEF Call, CallGood
<1>4. CASE m = "progress"
  <2>1. Update(c, r)
    BY <1>4 DEF Receive
  <2>2. CallGood(r, child[c])
    BY <1>2, <1>3 DEF CallGood
  <2> QED
    BY <1>2, <1>3, <2>1, <2>2, CallMoves
<1>5. CASE m = "bad"
  <2>1. Update(c, Finally(r, LeaderAlive(c), "badProgress"))
    BY <1>5 DEF Receive
  <2>2. LeaderAlive(c) \in BOOLEAN /\ (LeaderAlive(c) \/ child[c].leader # "alive")
    BY DEF LeaderAlive
  <2>3. "badProgress" \in Outcomes
    BY DEF Outcomes
  <2>4. /\ Finally(r, LeaderAlive(c), "badProgress") \in Call
        /\ CallGood(Finally(r, LeaderAlive(c), "badProgress"), child[c])
    BY <1>1, <1>3, <2>2, <2>3, FinallyGood
  <2> QED
    BY <1>2, <2>1, <2>4, CallMoves
<1>6. CASE m \notin {"progress", "bad", "broken"}
  <2>1. Update(c, Stopping(r, "answer", Answer(m)))
    BY <1>6 DEF Receive
  <2>2. Answer(m) \in Outcomes
    BY <1>2, <1>6 DEF Answer, Outcomes, Messages, Final
  <2>3. /\ Stopping(r, "answer", Answer(m)) \in Call
        /\ CallGood(Stopping(r, "answer", Answer(m)), child[c])
    BY <1>1, <1>3, <2>2, StoppingGood
  <2> QED
    BY <1>2, <2>1, <2>3, CallMoves
<1>7. CASE m = "broken"
  <2>1. Update(c, Stopping(r, "eof", "PROVIDER_ERROR"))
    BY <1>7 DEF Receive
  <2>2. "PROVIDER_ERROR" \in Outcomes
    BY DEF Outcomes
  <2>3. /\ Stopping(r, "eof", "PROVIDER_ERROR") \in Call
        /\ CallGood(Stopping(r, "eof", "PROVIDER_ERROR"), child[c])
    BY <1>1, <1>3, <2>2, StoppingGood
  <2> QED
    BY <1>2, <2>1, <2>3, CallMoves
<1> QED
  BY <1>4, <1>5, <1>6, <1>7

LEMMA ReceiveEofInv ==
  ASSUME CallInv, NEW c \in Calls, ReceiveEof(c)
  PROVE  CallInv'
<1>1. /\ call[c] \in Call /\ child[c] \in Child /\ ~call[c].asked
      /\ Update(c, Stopping(call[c], "eof", "PROVIDER_ERROR")) /\ UNCHANGED child
  BY DEF CallInv, CallTypeOK, CallGood, ReceiveEof
<1>2. "PROVIDER_ERROR" \in Outcomes
  BY DEF Outcomes
<1>3. /\ Stopping(call[c], "eof", "PROVIDER_ERROR") \in Call
      /\ CallGood(Stopping(call[c], "eof", "PROVIDER_ERROR"), child[c])
  BY <1>1, <1>2, StoppingGood
<1> QED
  BY <1>1, <1>3, CallMoves

\* The drain goes on to its next stage, while processes of the group may have died.
LEMMA AdvanceInv ==
  ASSUME CallInv, NEW c \in Calls, call[c].pc = "stopping", NEW stage \in Stages,
         Advance(c, stage), NEW k \in Child, child' = [child EXCEPT ![c] = k],
         stage \in {"group", "groupTermed", "groupKilled"} => k.leader # "alive"
  PROVE  CallInv'
<1> DEFINE r == [call[c] EXCEPT !.stage = stage]
<1>1. call[c] \in Call /\ CallGood(call[c], child[c])
  BY DEF CallInv, CallTypeOK
<1>2. /\ r \in Call /\ r.pc = "stopping" /\ r.stage = stage /\ r.asked = call[c].asked
      /\ r.outcome = call[c].outcome /\ r.callerCancelled = call[c].callerCancelled
  BY <1>1 DEF Call
<1>3. Update(c, r)
  BY DEF Advance
<1>4. call[c].asked => call[c].callerCancelled \/ call[c].outcome \in {"cancelled", "RuntimeError"}
  BY <1>1 DEF CallGood
<1> HIDE DEF r
<1>5. CallGood(r, k)
  BY <1>2, <1>4 DEF CallGood
<1> QED
  BY <1>2, <1>3, <1>5, CallChanges

LEMMA StoppedInv ==
  ASSUME CallInv, NEW c \in Calls, call[c].pc = "stopping", ~LeaderAlive(c), ~child[c].helpers,
         Stopped(c), UNCHANGED child
  PROVE  CallInv'
<1> DEFINE r == Finally(call[c], FALSE, AfterStop(call[c]))
<1>1. call[c] \in Call /\ child[c] \in Child /\ CallGood(call[c], child[c])
  BY DEF CallInv, CallTypeOK
<1>2. AfterStop(call[c]) \in Outcomes
  BY <1>1 DEF AfterStop, Call, Outcomes
<1>3. call[c].asked => AfterStop(call[c]) \in {"cancelled", "RuntimeError"}
  BY <1>1 DEF AfterStop, CallGood
<1>4. child[c].leader # "alive"
  BY DEF LeaderAlive
<1>5. r \in Call /\ CallGood(r, child[c])
  BY <1>1, <1>2, <1>3, <1>4, FinallyGood
<1>6. Update(c, r)
  BY DEF Stopped
<1> QED
  BY <1>5, <1>6, CallMoves

LEMMA StopFailedInv ==
  ASSUME CallInv, NEW c \in Calls, StopFailed(c), UNCHANGED child
  PROVE  CallInv'
<1>1. call[c] \in Call /\ child[c] \in Child /\ "RuntimeError" \in Outcomes
  BY DEF CallInv, CallTypeOK, Outcomes
<1>2. CASE call[c].why = "finally"
  <2> DEFINE f == Finally(call[c], FALSE, "RuntimeError")
             r == [f EXCEPT !.owned = TRUE]
  <2>1. f \in Call /\ CallGood(f, child[c])
    BY <1>1, FinallyGood
  <2>2. f.pc = "ended" /\ f.outcome = "RuntimeError"
    BY <1>1 DEF Finally, Call
  <2> HIDE DEF f
  <2>3. r \in Call /\ r.pc = "ended" /\ r.outcome = "RuntimeError"
    BY <2>1, <2>2 DEF Call
  <2>4. Update(c, r)
    BY <1>2 DEF StopFailed, f
  <2> HIDE DEF r
  <2>5. CallGood(r, child[c])
    BY <2>3 DEF CallGood
  <2> QED
    BY <2>3, <2>4, <2>5, CallMoves
<1>3. CASE call[c].why # "finally"
  <2>1. LeaderAlive(c) \in BOOLEAN
    BY DEF LeaderAlive
  <2>2. /\ Finally(call[c], LeaderAlive(c), "RuntimeError") \in Call
        /\ CallGood(Finally(call[c], LeaderAlive(c), "RuntimeError"), child[c])
    BY <1>1, <2>1, FinallyGood
  <2>3. Update(c, Finally(call[c], LeaderAlive(c), "RuntimeError"))
    BY <1>3 DEF StopFailed
  <2> QED
    BY <2>2, <2>3, CallMoves
<1> QED
  BY <1>2, <1>3

LEMMA StopLeaderInv ==
  ASSUME CallInv, NEW c \in Calls, StopLeader(c)
  PROVE  CallInv'
<1>1. call[c] \in Call /\ child[c] \in Child
  BY DEF CallInv, CallTypeOK
<1>2. child' = child => child' = [child EXCEPT ![c] = child[c]]
  BY DEF CallInv, CallTypeOK
<1>3. CASE /\ \E stage \in {"check", "asked", "termed", "killed"} : At(c, stage)
           /\ ~LeaderAlive(c) /\ LeaderGone(c) /\ UNCHANGED child
  <2>1. call[c].pc = "stopping" /\ child[c].leader # "alive" /\ "group" \in Stages
    BY <1>3 DEF At, LeaderAlive, Stages
  <2> QED
    BY <1>1, <1>2, <1>3, <2>1, AdvanceInv DEF LeaderGone
<1>4. CASE At(c, "check") /\ LeaderAlive(c) /\ Advance(c, "asked") /\ UNCHANGED child
  <2>1. call[c].pc = "stopping" /\ "asked" \in Stages
    BY <1>4 DEF At, Stages
  <2> QED
    BY <1>1, <1>2, <1>4, <2>1, AdvanceInv
<1>5. CASE At(c, "asked") /\ LeaderAlive(c) /\ Advance(c, "termed") /\ UNCHANGED child
  <2>1. call[c].pc = "stopping" /\ "termed" \in Stages
    BY <1>5 DEF At, Stages
  <2> QED
    BY <1>1, <1>2, <1>5, <2>1, AdvanceInv
<1>6. CASE /\ At(c, "termed") /\ LeaderAlive(c) /\ Advance(c, "killed")
           /\ \E survives \in Survives :
                child' = [child EXCEPT ![c].leader = IF survives THEN @ ELSE "dead",
                                       ![c].helpers = @ /\ survives]
  <2>1. call[c].pc = "stopping" /\ "killed" \in Stages
    BY <1>6 DEF At, Stages
  <2>2. PICK survives \in BOOLEAN :
          child' = [child EXCEPT ![c].leader = IF survives THEN @ ELSE "dead",
                                 ![c].helpers = @ /\ survives]
    BY <1>6, SurviveAssumption DEF Survives
  <2> DEFINE k == [child[c] EXCEPT !.leader = IF survives THEN @ ELSE "dead",
                                   !.helpers = @ /\ survives]
  <2>3. k \in Child
    BY <1>1 DEF Child
  <2>4. child' = [child EXCEPT ![c] = k]
    BY <1>1, <2>2 DEF CallInv, CallTypeOK, Child
  <2> HIDE DEF k
  <2> QED
    BY <1>6, <2>1, <2>3, <2>4, AdvanceInv
<1>7. CASE At(c, "killed") /\ LeaderAlive(c) /\ StopFailed(c) /\ UNCHANGED child
  BY <1>7, StopFailedInv
<1> QED
  BY <1>3, <1>4, <1>5, <1>6, <1>7 DEF StopLeader

LEMMA StopGroupInv ==
  ASSUME CallInv, NEW c \in Calls, StopGroup(c)
  PROVE  CallInv'
<1>1. call[c] \in Call /\ child[c] \in Child /\ CallGood(call[c], child[c])
  BY DEF CallInv, CallTypeOK
<1>2. \A stage \in {"group", "groupTermed", "groupKilled"} :
        At(c, stage) => call[c].pc = "stopping" /\ ~LeaderAlive(c)
  BY <1>1 DEF At, CallGood, LeaderAlive
<1>3. child' = child => child' = [child EXCEPT ![c] = child[c]]
  BY DEF CallInv, CallTypeOK
<1>4. CASE /\ \E stage \in {"group", "groupTermed", "groupKilled"} : At(c, stage)
           /\ ~child[c].helpers /\ Stopped(c) /\ UNCHANGED child
  BY <1>2, <1>4, StoppedInv
<1>5. CASE At(c, "group") /\ child[c].helpers /\ Advance(c, "groupTermed") /\ UNCHANGED child
  <2>1. call[c].pc = "stopping" /\ child[c].leader # "alive" /\ "groupTermed" \in Stages
    BY <1>2, <1>5 DEF LeaderAlive, Stages
  <2> QED
    BY <1>1, <1>3, <1>5, <2>1, AdvanceInv
<1>6. CASE /\ At(c, "groupTermed") /\ child[c].helpers /\ Advance(c, "groupKilled")
           /\ \E survives \in Survives : child' = [child EXCEPT ![c].helpers = survives]
  <2>1. call[c].pc = "stopping" /\ child[c].leader # "alive" /\ "groupKilled" \in Stages
    BY <1>2, <1>6 DEF LeaderAlive, Stages
  <2>2. PICK survives \in BOOLEAN : child' = [child EXCEPT ![c].helpers = survives]
    BY <1>6, SurviveAssumption DEF Survives
  <2> DEFINE k == [child[c] EXCEPT !.helpers = survives]
  <2>3. k \in Child /\ k.leader = child[c].leader /\ child' = [child EXCEPT ![c] = k]
    BY <1>1, <2>2 DEF Child
  <2> HIDE DEF k
  <2> QED
    BY <1>6, <2>1, <2>3, AdvanceInv
<1>7. CASE At(c, "groupKilled") /\ child[c].helpers /\ StopFailed(c) /\ UNCHANGED child
  BY <1>7, StopFailedInv
<1> QED
  BY <1>4, <1>5, <1>6, <1>7 DEF StopGroup

LEMMA ProgressInv ==
  ASSUME CallInv, NEW c \in Calls, Progress(c)
  PROVE  CallInv'
  BY ReceiveInv, ReceiveEofInv, StopLeaderInv, StopGroupInv DEF Progress

\* A call that has not begun or has ended stays so, and no call is lost by a step of its own.
StaysQuiet(r, q) ==
  /\ r.pc \in {"idle", "ended"} => q.pc \in {"idle", "ended"}
  /\ q.pc = "lost" => r.pc = "lost"

LEMMA DrainPc ==
  ASSUME NEW r \in Call, NEW why, NEW o, NEW alive \in BOOLEAN
  PROVE  /\ Stopping(r, why, o).pc = "stopping"
         /\ Finally(r, alive, o).pc \in {"stopping", "ended"}
<1>1. Stopping(r, why, o).pc = "stopping" /\ Stopping(r, "finally", o).pc = "stopping"
  BY DEF Stopping, Call
<1>2. CASE alive
  BY <1>1, <1>2 DEF Finally
<1>3. CASE ~alive
  <2>1. Finally(r, alive, o).pc = "ended"
    BY <1>3 DEF Finally, Call
  <2> QED
    BY <1>1, <2>1
<1> QED
  BY <1>2, <1>3

LEMMA OwnStepQuiet ==
  ASSUME CallInv, NEW c \in Calls, ChildStep(c) \/ Progress(c), NEW d \in Calls
  PROVE  StaysQuiet(call[d], call'[d])
<1>1. call \in [Calls -> Call] /\ call[c] \in Call /\ LeaderAlive(c) \in BOOLEAN
  BY DEF CallInv, CallTypeOK, LeaderAlive
<1>2. ASSUME NEW r, Update(c, r), call[c].pc \in {"receiving", "stopping"}, r.pc # "lost"
      PROVE  StaysQuiet(call[d], call'[d])
  BY <1>1, <1>2 DEF Update, StaysQuiet
<1>3. ASSUME UNCHANGED call PROVE StaysQuiet(call[d], call'[d])
  BY <1>3 DEF StaysQuiet
<1>4. CASE ChildStep(c)
  <2>1. ASSUME NEW m \in Messages, Say(c, m) PROVE StaysQuiet(call[d], call'[d])
    <3>1. [call[c] EXCEPT !.mail = m].pc = call[c].pc /\ call[c].pc = "receiving"
      BY <1>1, <2>1 DEF Say, Call
    <3> QED
      BY <1>2, <2>1, <3>1 DEF Say
  <2> QED
    BY <1>3, <1>4, <2>1 DEF ChildStep, Spawn, LeaderEnds, HelpersEnd
<1>5. CASE Receive(c)
  <2> DEFINE r == [call[c] EXCEPT !.mail = "none"]
             m == call[c].mail
  <2>1. r \in Call /\ r.pc = "receiving" /\ call[c].pc = "receiving"
    BY <1>1, <1>5 DEF Receive, Call
  <2>2. Update(c, CASE m = "progress" -> r
                    [] m = "bad" -> Finally(r, LeaderAlive(c), "badProgress")
                    [] m = "broken" -> Stopping(r, "eof", "PROVIDER_ERROR")
                    [] OTHER -> Stopping(r, "answer", Answer(m)))
    BY <1>5 DEF Receive
  <2>3. /\ Finally(r, LeaderAlive(c), "badProgress").pc # "lost"
        /\ Stopping(r, "answer", Answer(m)).pc # "lost"
        /\ Stopping(r, "eof", "PROVIDER_ERROR").pc # "lost"
    BY <1>1, <2>1, DrainPc
  <2> HIDE DEF r
  <2>4. CASE m = "progress"
    BY <1>2, <2>1, <2>2, <2>4
  <2>5. CASE m = "bad"
    BY <1>2, <2>1, <2>2, <2>3, <2>5
  <2>6. CASE m \notin {"progress", "bad", "broken"}
    BY <1>2, <2>1, <2>2, <2>3, <2>6
  <2>7. CASE m = "broken"
    BY <1>2, <2>1, <2>2, <2>3, <2>7
  <2> QED
    BY <2>4, <2>5, <2>6, <2>7
<1>6. CASE ReceiveEof(c)
  <2>1. Stopping(call[c], "eof", "PROVIDER_ERROR").pc # "lost"
    BY <1>1, DrainPc
  <2> QED
    BY <1>2, <1>6, <2>1 DEF ReceiveEof
<1>7. ASSUME call[c].pc = "stopping", Stopped(c) PROVE StaysQuiet(call[d], call'[d])
  <2>1. Finally(call[c], FALSE, AfterStop(call[c])).pc # "lost"
    BY <1>1, DrainPc
  <2> QED
    BY <1>2, <1>7, <2>1 DEF Stopped
<1>8. ASSUME call[c].pc = "stopping", StopFailed(c) PROVE StaysQuiet(call[d], call'[d])
  <2> DEFINE f == Finally(call[c], FALSE, "RuntimeError")
             g == Finally(call[c], LeaderAlive(c), "RuntimeError")
  <2>1. f.pc # "lost" /\ g.pc # "lost"
    BY <1>1, DrainPc
  <2>2. f \in Call
    BY <1>1 DEF Finally, Call, Stages, Outcomes
  <2> HIDE DEF f, g
  <2>3. [f EXCEPT !.owned = TRUE].pc # "lost"
    BY <2>1, <2>2 DEF Call
  <2> QED
    BY <1>2, <1>8, <2>1, <2>3 DEF StopFailed, f, g
<1>9. ASSUME NEW stage, call[c].pc = "stopping", Advance(c, stage)
      PROVE  StaysQuiet(call[d], call'[d])
  <2>1. [call[c] EXCEPT !.stage = stage].pc = "stopping"
    BY <1>1, <1>9 DEF Call
  <2> QED
    BY <1>2, <1>9, <2>1 DEF Advance
<1>10. CASE StopLeader(c)
  <2>1. call[c].pc = "stopping"
    BY <1>10 DEF StopLeader, At
  <2> QED
    BY <1>8, <1>9, <1>10, <2>1 DEF StopLeader, LeaderGone
<1>11. CASE StopGroup(c)
  <2>1. call[c].pc = "stopping"
    BY <1>11 DEF StopGroup, At
  <2> QED
    BY <1>7, <1>8, <1>9, <1>11, <2>1 DEF StopGroup
<1> QED
  BY <1>4, <1>5, <1>6, <1>10, <1>11 DEF Progress

LEMMA CallsStart ==
  ASSUME CallInit
  PROVE  CallInv
<1> DEFINE r == [pc |-> "idle", why |-> "none", stage |-> "none", asked |-> FALSE,
                 callerCancelled |-> FALSE, owned |-> FALSE, mail |-> "none",
                 outcome |-> "none"]
           k == [leader |-> "none", helpers |-> FALSE]
<1>1. r \in Call /\ k \in Child /\ CallGood(r, k)
  BY DEF Call, Child, Stages, Outcomes, CallGood
<1>2. call = [c \in Calls |-> r] /\ child = [c \in Calls |-> k]
  BY DEF CallInit
<1> HIDE DEF r, k
<1> QED
  BY <1>1, <1>2 DEF CallInv, CallTypeOK

\* Invocations alone, with no service around them, keep both promises of process_backend.py: the
\* group is gone behind an answer, and a cancellation is not answered.
THEOREM InvocationKeepsPromises == CallSpec => [](GroupGoneBeforeAnswer /\ CancelIsNeverAnswered)
<1>1. CallInit => CallInv
  BY CallsStart
<1>2. CallInv /\ [CallNext]_callVars => CallInv'
  <2>1. CallInv /\ CallNext => CallInv'
    BY ChildStepInv, InvokeInv, ProgressInv, CancelInv, LoseCallInv DEF CallNext
  <2>2. CallInv /\ UNCHANGED callVars => CallInv'
    BY DEF CallInv, CallTypeOK, callVars
  <2> QED
    BY <2>1, <2>2
<1>3. CallInv => GroupGoneBeforeAnswer /\ CancelIsNeverAnswered
  BY DEF CallInv, CallGood, GroupGoneBeforeAnswer, CancelIsNeverAnswered, LeaderAlive
<1> QED
  BY <1>1, <1>2, <1>3, PTL DEF CallSpec

-----------------------------------------------------------------------------
(* The services *)

\* What a service holds, when its lock path leads to inode p: a lock whenever it is between
\* acquisition and release, and a connection only under a lock.
Holds(r, p) ==
  /\ r.handle \in 0..p
  /\ r.pc \in {"new", "attested", "down"} => r.handle = 0 /\ r.open = 0
  /\ r.pc \notin {"new", "attested", "down"} => r.handle # 0
  /\ r.pc = "releasing" => r.open = 0
  /\ r.workers => r.pc \in {"up", "stopping"}

\* The service has waited for its calls and has seen all of them end.
CleanEnd(r) ==
  \/ r.pc \in {"closing", "releasing"} /\ ~r.unclean
  \/ r.pc = "down" /\ r.outcome \in {"failed", "stopped"}

ServiceType ==
  /\ svc \in [Services -> Service]
  /\ path \in [{"database", "lock"} -> Inode]
  /\ faults \in 0..MaxFaults

EachHolds == \A s \in Services : Holds(svc[s], path["lock"])

\* No two services hold the same lock file.
Exclusive ==
  \A s, t \in Services : s # t => svc[s].handle = 0 \/ svc[s].handle # svc[t].handle

Drained ==
  \A s \in Services : CleanEnd(svc[s]) =>
    \A c \in CallsOf[s] : call[c].pc \in {"idle", "ended"}

LostByCrash ==
  \A s \in Services : \A c \in CallsOf[s] :
    call[c].pc = "lost" => svc[s].pc = "down" /\ svc[s].outcome = "crashed"

ServiceInv == CallInv /\ ServiceType /\ EachHolds /\ Exclusive /\ Drained /\ LostByCrash

\* One service moves and nothing else does, except that a fault may be counted.
LEMMA ServiceMoves ==
  ASSUME ServiceInv, NEW s \in Services, NEW r \in Service, Set(s, r),
         UNCHANGED <<path, call, child>>, faults' \in 0..MaxFaults,
         Holds(r, path["lock"]),
         \/ r.handle \in {0, svc[s].handle}
         \/ \A t \in Services \ {s} : svc[t].handle # r.handle,
         CleanEnd(r) => \A c \in CallsOf[s] : call[c].pc \in {"idle", "ended"},
         svc[s].pc = "down" => r.pc = "down" /\ r.outcome = svc[s].outcome
  PROVE  ServiceInv'
<1>1. svc \in [Services -> Service] /\ svc' = [svc EXCEPT ![s] = r]
  BY DEF ServiceInv, ServiceType, Set
<1>2. svc'[s] = r /\ \A t \in Services \ {s} : svc'[t] = svc[t]
  BY <1>1
<1>3. CallInv'
  BY DEF ServiceInv, CallInv, CallTypeOK
<1>4. ServiceType'
  BY <1>1 DEF ServiceInv, ServiceType
<1>5. EachHolds'
  BY <1>2 DEF ServiceInv, EachHolds
<1>6. Exclusive'
  BY <1>2 DEF ServiceInv, Exclusive
<1>7. Drained'
  BY <1>2 DEF ServiceInv, Drained
<1>8. LostByCrash'
  BY <1>2 DEF ServiceInv, LostByCrash
<1> QED
  BY <1>3, <1>4, <1>5, <1>6, <1>7, <1>8 DEF ServiceInv

\* Calls move and no service does; no call of a service that has drained its calls begins.
LEMMA CallsMove ==
  ASSUME ServiceInv, CallInv', UNCHANGED serviceVars,
         \A s \in Services : \A c \in CallsOf[s] :
           /\ CleanEnd(svc[s]) /\ call[c].pc \in {"idle", "ended"} =>
                call'[c].pc \in {"idle", "ended"}
           /\ call'[c].pc = "lost" => call[c].pc = "lost"
  PROVE  ServiceInv'
<1>1. UNCHANGED <<svc, path, faults>>
  BY DEF serviceVars
<1>2. ServiceType' /\ EachHolds' /\ Exclusive'
  BY <1>1 DEF ServiceInv, ServiceType, EachHolds, Exclusive
<1>3. Drained'
  BY <1>1 DEF ServiceInv, Drained
<1>4. LostByCrash'
  BY <1>1 DEF ServiceInv, LostByCrash
<1> QED
  BY <1>2, <1>3, <1>4 DEF ServiceInv

LEMMA CallStepInv ==
  ASSUME ServiceInv, CallStep
  PROVE  ServiceInv'
<1>1. PICK c \in Calls : ChildStep(c) \/ Progress(c)
  BY DEF CallStep
<1>2. CallInv /\ CallInv'
  BY <1>1, ChildStepInv, ProgressInv DEF ServiceInv
<1>3. \A s \in Services : \A d \in CallsOf[s] : StaysQuiet(call[d], call'[d])
  BY <1>1, <1>2, OwnStepQuiet, CallsOfAssumption
<1> QED
  BY <1>2, <1>3, CallsMove DEF CallStep, StaysQuiet

LEMMA ProvideInv ==
  ASSUME ServiceInv, NEW s \in Services, Provide(s)
  PROVE  ServiceInv'
<1>1. PICK c \in CallsOf[s] : Invoke(c) \/ Cancel(c)
  BY DEF Provide
<1>2. c \in Calls /\ CallInv /\ call[c] \in Call /\ call \in [Calls -> Call]
  BY <1>1, CallsOfAssumption DEF ServiceInv, CallInv, CallTypeOK
<1>3. CallInv'
  BY <1>1, <1>2, InvokeInv, CancelInv
<1>4. \E r \in Call : Update(c, r) /\ r.pc # "lost"
  <2>1. CASE Invoke(c)
    <3> DEFINE e == [call[c] EXCEPT !.pc = "ended", !.outcome = "PROVIDER_ERROR"]
               f == [call[c] EXCEPT !.pc = "receiving", !.owned = TRUE]
    <3>1. e \in Call /\ e.pc # "lost" /\ f \in Call /\ f.pc # "lost"
      BY <1>2 DEF Call, Outcomes
    <3>2. Update(c, e) \/ Update(c, f)
      BY <2>1 DEF Invoke
    <3> QED
      BY <3>1, <3>2
  <2>2. CASE Cancel(c)
    <3>1. InProgress(c) /\ Update(c, Cancelled(call[c]))
      BY <2>2 DEF Cancel
    <3>2. CASE call[c].pc = "receiving"
      <4> DEFINE q == Stopping(call[c], "cancel", "cancelled")
      <4>1. q \in Call /\ q.pc = "stopping"
        BY <1>2, DrainPc DEF Stopping, Call, Stages, Outcomes
      <4> HIDE DEF q
      <4>2. [q EXCEPT !.asked = TRUE] \in Call /\ [q EXCEPT !.asked = TRUE].pc = "stopping"
        BY <4>1 DEF Call
      <4> QED
        BY <3>1, <3>2, <4>2 DEF Cancelled, q
    <3>3. CASE call[c].pc = "stopping"
      <4> DEFINE q == [call[c] EXCEPT !.asked = TRUE, !.callerCancelled = TRUE]
      <4>1. q \in Call /\ q.pc = "stopping"
        BY <1>2, <3>3 DEF Call
      <4>2. Cancelled(call[c]) = q
        BY <3>3 DEF Cancelled
      <4> QED
        BY <3>1, <4>1, <4>2
    <3> QED
      BY <3>1, <3>2, <3>3 DEF InProgress
  <2> QED
    BY <1>1, <2>1, <2>2
<1>5. ASSUME NEW t \in Services, NEW d \in CallsOf[t]
      PROVE  /\ CleanEnd(svc[t]) => d # c
             /\ d \in Calls
             /\ d # c => call'[d] = call[d]
             /\ call'[c].pc # "lost"
  <2>1. d \in Calls
    BY CallsOfAssumption
  <2>2. ~CleanEnd(svc[s])
    BY DEF Provide, CleanEnd
  <2>3. d = c => t = s
    BY <1>1, CallsOfAssumption
  <2>4. (d # c => call'[d] = call[d]) /\ call'[c].pc # "lost"
    BY <1>2, <1>4, <2>1 DEF Update
  <2> QED
    BY <2>1, <2>2, <2>3, <2>4
<1>6. \A t \in Services : \A d \in CallsOf[t] :
        /\ CleanEnd(svc[t]) /\ call[d].pc \in {"idle", "ended"} =>
             call'[d].pc \in {"idle", "ended"}
        /\ call'[d].pc = "lost" => call[d].pc = "lost"
  BY <1>5
<1> QED
  BY <1>3, <1>6, CallsMove DEF Provide

\* A service makes something of all of its calls and of itself.
LEMMA ServiceAndCallsMove ==
  ASSUME ServiceInv, NEW s \in Services, NEW r \in Service, Set(s, r),
         call' \in [Calls -> Call], UNCHANGED <<path, faults, child>>,
         \A c \in Calls : CallGood(call'[c], child[c]) /\ (c \notin CallsOf[s] => call'[c] = call[c]),
         Holds(r, path["lock"]), r.handle \in {0, svc[s].handle}, ~CleanEnd(r),
         \A c \in CallsOf[s] :
           call'[c].pc = "lost" => r.pc = "down" /\ r.outcome = "crashed"
  PROVE  ServiceInv'
<1>1. svc \in [Services -> Service] /\ svc' = [svc EXCEPT ![s] = r]
  BY DEF ServiceInv, ServiceType, Set
<1>2. svc'[s] = r /\ \A t \in Services \ {s} : svc'[t] = svc[t]
  BY <1>1
<1>3. CallInv'
  BY DEF ServiceInv, CallInv, CallTypeOK
<1>4. ServiceType'
  BY <1>1 DEF ServiceInv, ServiceType
<1>5. EachHolds'
  BY <1>2 DEF ServiceInv, EachHolds
<1>6. Exclusive'
  BY <1>2 DEF ServiceInv, Exclusive
<1>7. \A t \in Services \ {s} : \A c \in CallsOf[t] : call'[c] = call[c]
  BY CallsOfAssumption
<1>8. Drained'
  BY <1>2, <1>7 DEF ServiceInv, Drained
<1>9. LostByCrash'
  BY <1>2, <1>7 DEF ServiceInv, LostByCrash
<1> QED
  BY <1>3, <1>4, <1>5, <1>6, <1>8, <1>9 DEF ServiceInv

LEMMA StopEngineInv ==
  ASSUME ServiceInv, NEW s \in Services, StopEngine(s)
  PROVE  ServiceInv'
<1> DEFINE r == [svc[s] EXCEPT !.pc = "reaping", !.workers = FALSE]
<1>1. svc[s] \in Service /\ Holds(svc[s], path["lock"]) /\ svc[s].pc = "stopping" /\ Set(s, r)
  BY DEF ServiceInv, ServiceType, EachHolds, StopEngine
<1>2. /\ r \in Service /\ r.pc = "reaping" /\ ~r.workers
      /\ r.handle = svc[s].handle /\ r.open = svc[s].open
  BY <1>1 DEF Service
<1> HIDE DEF r
<1>3. Holds(r, path["lock"]) /\ ~CleanEnd(r)
  BY <1>1, <1>2 DEF Holds, CleanEnd
<1>4. \A c \in Calls : Cancelled(call[c]) \in Call /\ CallGood(Cancelled(call[c]), child[c])
  BY CancelledGood DEF ServiceInv, CallInv, CallTypeOK
<1>5. \A c \in CallsOf[s] : call[c].pc # "lost"
  BY <1>1 DEF ServiceInv, LostByCrash
<1>6. \A c \in CallsOf[s] : Cancelled(call[c]).pc # "lost"
  <2> TAKE c \in CallsOf[s]
  <2>1. call[c] \in Call
    BY CallsOfAssumption DEF ServiceInv, CallInv, CallTypeOK
  <2>2. CASE call[c].pc = "receiving"
    <3> DEFINE q == Stopping(call[c], "cancel", "cancelled")
    <3>1. q \in Call /\ q.pc = "stopping"
      BY <2>1, DrainPc DEF Stopping, Call, Stages, Outcomes
    <3> HIDE DEF q
    <3>2. [q EXCEPT !.asked = TRUE].pc = "stopping"
      BY <3>1 DEF Call
    <3> QED
      BY <2>2, <3>2 DEF Cancelled, q
  <2>3. CASE call[c].pc = "stopping"
    <3>1. [call[c] EXCEPT !.asked = TRUE, !.callerCancelled = TRUE].pc = "stopping"
      BY <2>1, <2>3 DEF Call
    <3> QED
      BY <2>3, <3>1 DEF Cancelled
  <2> QED
    BY <1>5, <2>2, <2>3 DEF Cancelled
<1>7. /\ call' = [c \in Calls |-> IF c \in CallsOf[s] THEN Cancelled(call[c]) ELSE call[c]]
      /\ UNCHANGED <<path, faults, child>>
  BY DEF StopEngine
<1>8. /\ call' \in [Calls -> Call]
      /\ \A c \in Calls :
           CallGood(call'[c], child[c]) /\ (c \notin CallsOf[s] => call'[c] = call[c])
  BY <1>4, <1>7 DEF ServiceInv, CallInv, CallTypeOK
<1>9. \A c \in CallsOf[s] : call'[c].pc # "lost"
  BY <1>6, <1>7, CallsOfAssumption
<1> QED
  BY <1>1, <1>2, <1>3, <1>7, <1>8, <1>9, ServiceAndCallsMove

LEMMA CrashInv ==
  ASSUME ServiceInv, NEW s \in Services, Crash(s)
  PROVE  ServiceInv'
<1> DEFINE r == [NewService EXCEPT !.pc = "down", !.outcome = "crashed"]
<1>1. /\ r \in Service /\ r.pc = "down" /\ r.outcome = "crashed" /\ r.handle = 0 /\ r.open = 0
      /\ ~r.workers
  BY DEF NewService, Service
<1>2. Set(s, r) /\ path["lock"] \in Nat
  BY BoundAssumption DEF Crash, ServiceInv, ServiceType, Inode
<1> HIDE DEF r
<1>3. Holds(r, path["lock"])
  BY <1>1, <1>2 DEF Holds
<1>4. ~CleanEnd(r)
  BY <1>1 DEF CleanEnd
<1>5. \A c \in Calls : Lose(call[c]) \in Call /\ CallGood(Lose(call[c]), child[c])
  BY LoseGood DEF ServiceInv, CallInv, CallTypeOK
<1>6. /\ call' = [c \in Calls |-> IF c \in CallsOf[s] THEN Lose(call[c]) ELSE call[c]]
      /\ UNCHANGED <<path, faults, child>>
  BY DEF Crash
<1>7. /\ call' \in [Calls -> Call]
      /\ \A c \in Calls :
           CallGood(call'[c], child[c]) /\ (c \notin CallsOf[s] => call'[c] = call[c])
  BY <1>5, <1>6 DEF ServiceInv, CallInv, CallTypeOK
<1> QED
  BY <1>1, <1>2, <1>3, <1>4, <1>6, <1>7, ServiceAndCallsMove

LEMMA SwapInv ==
  ASSUME ServiceInv, NEW which \in {"database", "lock"}, Swap(which)
  PROVE  ServiceInv'
<1>1. path \in [{"database", "lock"} -> Inode] /\ MaxSwaps \in Nat
  BY BoundAssumption DEF ServiceInv, ServiceType
<1>2. path["database"] \in Nat \ {0} /\ path["lock"] \in Nat \ {0}
  BY <1>1 DEF Inode
<1>3. path[which] + 1 \in Inode
  BY <1>1, <1>2 DEF Swap, Inode
<1>4. path' = [path EXCEPT ![which] = path[which] + 1] /\ UNCHANGED <<svc, faults, call, child>>
  BY DEF Swap
<1>5. path' \in [{"database", "lock"} -> Inode]
  BY <1>1, <1>3, <1>4
<1>6. path'["lock"] \in {path["lock"], path["lock"] + 1}
  BY <1>1, <1>4
<1>7. EachHolds'
  <2> SUFFICES ASSUME NEW s \in Services PROVE Holds(svc[s], path'["lock"])
    BY <1>4 DEF EachHolds
  <2>1. Holds(svc[s], path["lock"])
    BY DEF ServiceInv, EachHolds
  <2>2. svc[s].handle \in 0..path'["lock"]
    BY <1>2, <1>6, <2>1 DEF Holds
  <2> QED
    BY <2>1, <2>2 DEF Holds
<1>8. CallInv' /\ Exclusive' /\ Drained' /\ LostByCrash'
  BY <1>4 DEF ServiceInv, CallInv, CallTypeOK, Exclusive, Drained, LostByCrash
<1> QED
  BY <1>4, <1>5, <1>7, <1>8 DEF ServiceInv, ServiceType

\* A startup or shutdown in progress goes on, or is unwound.
LEMMA KeepsLock ==
  ASSUME ServiceInv, NEW s \in Services, svc[s].pc \notin {"new", "attested", "down"},
         NEW r \in Service, Set(s, r), UNCHANGED <<path, call, child>>, faults' \in 0..MaxFaults,
         r.handle = svc[s].handle, r.pc \notin {"new", "attested", "down", "releasing", "closing"},
         r.workers => r.pc \in {"up", "stopping"}
  PROVE  ServiceInv'
<1>1. Holds(svc[s], path["lock"])
  BY DEF ServiceInv, EachHolds
<1>2. Holds(r, path["lock"])
  BY <1>1 DEF Holds
<1>3. ~CleanEnd(r)
  BY DEF CleanEnd
<1> QED
  BY <1>2, <1>3, ServiceMoves

LEMMA UnwindingGood ==
  ASSUME NEW r \in Service, NEW o \in {"failed", "stopped"}
  PROVE  /\ Unwinding(r, o) \in Service
         /\ Unwinding(r, o).pc = "stopping" /\ Unwinding(r, o).handle = r.handle
  BY DEF Unwinding, Service

LEMMA AttestedInv ==
  ASSUME ServiceInv, NEW s \in Services, svc[s].pc \notin {"new", "attested", "down"},
         NEW r \in Service, Attested(s, r),
         r.handle = svc[s].handle, r.pc \notin {"new", "attested", "down", "releasing", "closing"},
         r.workers /\ InCustody(s) => r.pc \in {"up", "stopping"}
  PROVE  ServiceInv'
<1>1. UNCHANGED <<path, faults, call, child>> /\ faults' \in 0..MaxFaults
  BY DEF Attested, ServiceInv, ServiceType
<1>2. CASE InCustody(s)
  BY <1>1, <1>2, KeepsLock DEF Attested
<1>3. CASE ~InCustody(s)
  <2>1. Set(s, Unwinding(r, "failed"))
    BY <1>3 DEF Attested
  <2>2. /\ Unwinding(r, "failed") \in Service
        /\ Unwinding(r, "failed").pc = "stopping" /\ Unwinding(r, "failed").handle = r.handle
    BY UnwindingGood
  <2> QED
    BY <1>1, <2>1, <2>2, KeepsLock
<1> QED
  BY <1>2, <1>3

LEMMA StartInv ==
  ASSUME ServiceInv, NEW s \in Services, Start(s)
  PROVE  ServiceInv'
<1>1. /\ svc[s] \in Service /\ Holds(svc[s], path["lock"]) /\ faults \in 0..MaxFaults
      /\ path["lock"] \in Inode /\ path["database"] \in Inode
  BY DEF ServiceInv, ServiceType, EachHolds
<1>2. path["lock"] \in Nat \ {0}
  BY <1>1, BoundAssumption DEF Inode
<1> DEFINE refused == [svc[s] EXCEPT !.pc = "down", !.outcome = "refused"]
<1>3. ASSUME svc[s].pc \in {"new", "attested"}, Set(s, refused),
             UNCHANGED <<path, faults, call, child>>
      PROVE  ServiceInv'
  <2>1. /\ refused \in Service /\ refused.pc = "down" /\ refused.outcome = "refused"
        /\ refused.handle = svc[s].handle /\ refused.open = svc[s].open
        /\ refused.workers = svc[s].workers
    BY <1>1 DEF Service
  <2> HIDE DEF refused
  <2>2. Holds(refused, path["lock"]) /\ ~CleanEnd(refused)
    BY <1>1, <1>3, <2>1 DEF Holds, CleanEnd
  <2> QED
    BY <1>1, <1>3, <2>1, <2>2, ServiceMoves
<1>4. CASE Validate(s)
  <2> DEFINE r == [svc[s] EXCEPT !.pc = "attested"]
  <2>1. svc[s].pc = "new" /\ UNCHANGED <<path, faults, call, child>>
    BY <1>4 DEF Validate
  <2>2. CASE Set(s, r)
    <3>1. /\ r \in Service /\ r.pc = "attested" /\ r.handle = svc[s].handle
          /\ r.open = svc[s].open /\ r.workers = svc[s].workers
      BY <1>1 DEF Service
    <3> HIDE DEF r
    <3>2. Holds(r, path["lock"]) /\ ~CleanEnd(r)
      BY <1>1, <2>1, <3>1 DEF Holds, CleanEnd
    <3> QED
      BY <1>1, <2>1, <2>2, <3>1, <3>2, ServiceMoves
  <2> QED
    BY <1>3, <1>4, <2>1, <2>2 DEF Validate
<1>5. CASE Acquire(s)
  <2> DEFINE r == [svc[s] EXCEPT !.pc = "locked", !.handle = path["lock"]]
  <2>1. svc[s].pc = "attested" /\ UNCHANGED <<path, faults, call, child>>
    BY <1>5 DEF Acquire
  <2>2. CASE FlockFree(s) /\ Set(s, r)
    <3>1. /\ r \in Service /\ r.pc = "locked" /\ r.handle = path["lock"]
          /\ r.open = svc[s].open /\ r.workers = svc[s].workers
      BY <1>1 DEF Service
    <3> HIDE DEF r
    <3>2. Holds(r, path["lock"]) /\ ~CleanEnd(r)
      BY <1>1, <1>2, <2>1, <3>1 DEF Holds, CleanEnd
    <3>3. \A t \in Services \ {s} : svc[t].handle # r.handle
      BY <2>2, <3>1 DEF FlockFree
    <3> QED
      BY <1>1, <2>1, <2>2, <3>1, <3>2, <3>3, ServiceMoves
  <2> QED
    BY <1>3, <1>5, <2>1, <2>2 DEF Acquire
<1>6. CASE Reserve(s)
  <2> DEFINE r == [svc[s] EXCEPT !.reserved = path["database"]]
             q == [r EXCEPT !.pc = "reserved"]
  <2>1. svc[s].pc = "locked" /\ UNCHANGED <<path, faults, call, child>> /\ ~svc[s].workers
    BY <1>1, <1>6 DEF Reserve, Holds
  <2>2. r \in Service /\ r.handle = svc[s].handle /\ r.workers = svc[s].workers
    BY <1>1 DEF Service
  <2>3. Set(s, q) \/ Set(s, Unwinding(r, "failed"))
    BY <1>6 DEF Reserve
  <2> HIDE DEF r
  <2>4. q \in Service /\ q.pc = "reserved" /\ q.handle = svc[s].handle /\ ~q.workers
    BY <2>1, <2>2 DEF Service
  <2>5. /\ Unwinding(r, "failed") \in Service
        /\ Unwinding(r, "failed").pc = "stopping" /\ Unwinding(r, "failed").handle = r.handle
    BY <2>2, UnwindingGood
  <2> HIDE DEF q
  <2> QED
    BY <1>1, <2>1, <2>2, <2>3, <2>4, <2>5, KeepsLock
<1>7. CASE Open(s)
  <2> DEFINE r == [svc[s] EXCEPT !.pc = "opened", !.open = path["database"]]
  <2>1. svc[s].pc = "reserved" /\ Attested(s, r) /\ ~svc[s].workers
    BY <1>1, <1>7 DEF Open, Holds
  <2>2. r \in Service /\ r.pc = "opened" /\ r.handle = svc[s].handle /\ ~r.workers
    BY <1>1, <2>1 DEF Service
  <2> HIDE DEF r
  <2> QED
    BY <2>1, <2>2, AttestedInv
<1>8. CASE Migrate(s)
  <2> DEFINE r == [svc[s] EXCEPT !.pc = "migrated"]
  <2>1. svc[s].pc = "opened" /\ Attested(s, r) /\ ~svc[s].workers
    BY <1>1, <1>8 DEF Migrate, Holds
  <2>2. r \in Service /\ r.pc = "migrated" /\ r.handle = svc[s].handle /\ ~r.workers
    BY <1>1, <2>1 DEF Service
  <2> HIDE DEF r
  <2> QED
    BY <2>1, <2>2, AttestedInv
<1>9. CASE Recover(s)
  <2> DEFINE r == [svc[s] EXCEPT !.pc = "recovered"]
  <2>1. /\ svc[s].pc = "migrated" /\ Set(s, r) /\ ~svc[s].workers
        /\ UNCHANGED <<path, faults, call, child>>
    BY <1>1, <1>9 DEF Recover, Holds
  <2>2. r \in Service /\ r.pc = "recovered" /\ r.handle = svc[s].handle /\ ~r.workers
    BY <1>1, <2>1 DEF Service
  <2> HIDE DEF r
  <2> QED
    BY <1>1, <2>1, <2>2, KeepsLock
<1>10. CASE StartWorkers(s)
  <2> DEFINE started == [svc[s] EXCEPT !.workers = TRUE]
             r == [started EXCEPT !.pc = "up", !.retention = "running", !.ready = TRUE]
  <2>1. svc[s].pc = "recovered" /\ Attested(s, IF InCustody(s) THEN r ELSE started)
    BY <1>10 DEF StartWorkers
  <2>2. /\ started \in Service /\ started.pc = "recovered"
        /\ started.handle = svc[s].handle
    BY <1>1, <2>1 DEF Service
  <2> HIDE DEF started
  <2>3. r \in Service /\ r.pc = "up" /\ r.handle = svc[s].handle
    BY <2>2 DEF Service
  <2> HIDE DEF r
  <2>4. CASE InCustody(s)
    BY <2>1, <2>3, <2>4, AttestedInv
  <2>5. CASE ~InCustody(s)
    BY <2>1, <2>2, <2>5, AttestedInv
  <2> QED
    BY <2>4, <2>5
<1> QED
  BY <1>4, <1>5, <1>6, <1>7, <1>8, <1>9, <1>10 DEF Start

LEMMA UnwindInv ==
  ASSUME ServiceInv, NEW s \in Services, Reap(s) \/ CloseRepository(s) \/ Release(s)
  PROVE  ServiceInv'
<1>1. /\ svc[s] \in Service /\ Holds(svc[s], path["lock"]) /\ faults \in 0..MaxFaults
      /\ UNCHANGED <<path, faults, call, child>>
      /\ CleanEnd(svc[s]) => \A c \in CallsOf[s] : call[c].pc \in {"idle", "ended"}
  BY DEF ServiceInv, ServiceType, EachHolds, Drained, Reap, CloseRepository, Release
<1>2. CASE Reap(s)
  <2> DEFINE r == [svc[s] EXCEPT !.pc = "closing", !.unclean = LeftBehind(s)]
  <2>1. svc[s].pc = "reaping" /\ Set(s, r)
    BY <1>2 DEF Reap
  <2>2. LeftBehind(s) \in BOOLEAN
    BY DEF LeftBehind
  <2>3. /\ r \in Service /\ r.pc = "closing" /\ r.handle = svc[s].handle /\ r.open = svc[s].open
        /\ r.workers = svc[s].workers
    BY <1>1, <2>2 DEF Service
  <2>4. r.unclean = LeftBehind(s)
    BY <1>1 DEF Service
  <2> HIDE DEF r
  <2>5. Holds(r, path["lock"])
    BY <1>1, <2>1, <2>3 DEF Holds
  <2>6. ASSUME CleanEnd(r), NEW c \in CallsOf[s] PROVE call[c].pc \in {"idle", "ended"}
    <3>1. ~LeftBehind(s)
      BY <2>3, <2>4, <2>6 DEF CleanEnd
    <3>2. call[c] \in Call
      BY CallsOfAssumption DEF ServiceInv, CallInv, CallTypeOK
    <3>3. call[c].pc # "lost"
      BY <2>1 DEF ServiceInv, LostByCrash
    <3> QED
      BY <3>1, <3>2, <3>3 DEF LeftBehind, InProgress, Call
  <2> QED
    BY <1>1, <2>1, <2>3, <2>5, <2>6, ServiceMoves
<1>3. CASE CloseRepository(s)
  <2> DEFINE r == [svc[s] EXCEPT !.pc = "releasing", !.open = 0]
  <2>1. svc[s].pc = "closing" /\ Set(s, r)
    BY <1>3 DEF CloseRepository
  <2>2. /\ r \in Service /\ r.pc = "releasing" /\ r.handle = svc[s].handle /\ r.open = 0
        /\ r.workers = svc[s].workers /\ r.unclean = svc[s].unclean
    BY <1>1 DEF Service
  <2> HIDE DEF r
  <2>3. Holds(r, path["lock"]) /\ (CleanEnd(r) => CleanEnd(svc[s]))
    BY <1>1, <2>1, <2>2 DEF Holds, CleanEnd
  <2> QED
    BY <1>1, <2>1, <2>2, <2>3, ServiceMoves
<1>4. CASE Release(s)
  <2> DEFINE r == [svc[s] EXCEPT !.pc = "down", !.handle = 0, !.reserved = 0,
                                 !.outcome = IF svc[s].unclean THEN "broken" ELSE @]
  <2>1. svc[s].pc = "releasing" /\ Set(s, r)
    BY <1>4 DEF Release
  <2>2. /\ r \in Service /\ r.pc = "down" /\ r.handle = 0 /\ r.open = svc[s].open
        /\ r.workers = svc[s].workers
    BY <1>1 DEF Service
  <2>3. r.outcome = IF svc[s].unclean THEN "broken" ELSE svc[s].outcome
    BY <1>1 DEF Service
  <2> HIDE DEF r
  <2>4. path["lock"] \in Nat
    BY BoundAssumption DEF ServiceInv, ServiceType, Inode
  <2>5. svc[s].open = 0 /\ ~svc[s].workers
    BY <1>1, <2>1 DEF Holds
  <2>6. Holds(r, path["lock"])
    BY <2>2, <2>4, <2>5 DEF Holds
  <2>7. CleanEnd(r) => CleanEnd(svc[s])
    BY <1>1, <2>1, <2>2, <2>3 DEF CleanEnd
  <2> QED
    BY <1>1, <2>1, <2>2, <2>6, <2>7, ServiceMoves
<1> QED
  BY <1>2, <1>3, <1>4

LEMMA ServiceInit ==
  ASSUME Init
  PROVE  ServiceInv
<1>1. CallInv
  BY CallsStart DEF Init
<1>2. /\ NewService \in Service /\ NewService.pc = "new" /\ NewService.handle = 0
      /\ NewService.open = 0 /\ ~NewService.workers
  BY DEF NewService, Service
<1>3. svc = [s \in Services |-> NewService] /\ faults = 0 /\ MaxSwaps \in Nat /\ MaxFaults \in Nat
  BY BoundAssumption DEF Init
<1>4. path \in [{"database", "lock"} -> Inode] /\ path["lock"] = 1
  BY <1>3 DEF Init, Inode
<1>5. ServiceType
  BY <1>2, <1>3, <1>4 DEF ServiceType
<1>6. \A s \in Services : Holds(svc[s], path["lock"]) /\ ~CleanEnd(svc[s]) /\ svc[s].handle = 0
  BY <1>2, <1>3, <1>4 DEF Holds, CleanEnd
<1>7. \A s \in Services : \A c \in CallsOf[s] : call[c].pc # "lost"
  BY CallsOfAssumption DEF Init, CallInit
<1> QED
  BY <1>1, <1>5, <1>6, <1>7 DEF ServiceInv, EachHolds, Exclusive, Drained, LostByCrash

LEMMA ServiceStep ==
  ASSUME ServiceInv, [Next]_vars
  PROVE  ServiceInv'
<1>1. ASSUME NEW s \in Services PROVE svc[s] \in Service /\ faults \in 0..MaxFaults /\ MaxFaults \in Nat
  BY BoundAssumption DEF ServiceInv, ServiceType
<1>2. ASSUME NEW s \in Services, StartFails(s) PROVE ServiceInv'
  <2>1. /\ svc[s].pc \notin {"new", "attested", "down"} /\ Set(s, Unwinding(svc[s], "failed"))
        /\ UNCHANGED <<path, call, child>>
    BY <1>2 DEF StartFails
  <2>2. faults' \in 0..MaxFaults
    BY <1>1, <1>2 DEF StartFails
  <2>3. /\ Unwinding(svc[s], "failed") \in Service
        /\ Unwinding(svc[s], "failed").pc = "stopping"
        /\ Unwinding(svc[s], "failed").handle = svc[s].handle
    BY <1>1, UnwindingGood
  <2> QED
    BY <2>1, <2>2, <2>3, KeepsLock
<1>3. ASSUME NEW s \in Services, Stop(s) PROVE ServiceInv'
  <2>1. /\ svc[s].pc \notin {"new", "attested", "down"} /\ Set(s, Unwinding(svc[s], "stopped"))
        /\ UNCHANGED <<path, faults, call, child>>
    BY <1>3 DEF Stop
  <2>2. /\ Unwinding(svc[s], "stopped") \in Service
        /\ Unwinding(svc[s], "stopped").pc = "stopping"
        /\ Unwinding(svc[s], "stopped").handle = svc[s].handle
    BY <1>1, UnwindingGood
  <2> QED
    BY <1>1, <2>1, <2>2, KeepsLock
<1>4. ASSUME NEW s \in Services, RetentionEnds(s) PROVE ServiceInv'
  <2> DEFINE r == [svc[s] EXCEPT !.retention = "dead", !.ready = svc[s].ready /\ ~Ready(s)]
  <2>1. Set(s, r) /\ UNCHANGED <<path, faults, call, child>>
    BY <1>4 DEF RetentionEnds
  <2>2. (svc[s].ready /\ ~Ready(s)) \in BOOLEAN
    BY <1>1 DEF Ready
  <2>3. /\ r \in Service /\ r.pc = svc[s].pc /\ r.handle = svc[s].handle /\ r.open = svc[s].open
        /\ r.workers = svc[s].workers /\ r.unclean = svc[s].unclean /\ r.outcome = svc[s].outcome
    BY <1>1, <2>2 DEF Service
  <2> HIDE DEF r
  <2>4. Holds(r, path["lock"])
    BY <2>3 DEF ServiceInv, EachHolds, Holds
  <2>5. CleanEnd(r) => \A c \in CallsOf[s] : call[c].pc \in {"idle", "ended"}
    BY <2>3 DEF ServiceInv, Drained, CleanEnd
  <2> QED
    BY <1>1, <2>1, <2>3, <2>4, <2>5, ServiceMoves
<1>5. ASSUME NEW s \in Services, Unwind(s) PROVE ServiceInv'
  BY <1>5, StopEngineInv, UnwindInv DEF Unwind
<1>6. ASSUME UNCHANGED vars PROVE ServiceInv'
  BY <1>6 DEF vars, ServiceInv, CallInv, CallTypeOK, ServiceType, EachHolds, Exclusive, Drained,
                  LostByCrash
<1> QED
  BY <1>2, <1>3, <1>4, <1>5, <1>6, StartInv, ProvideInv, CrashInv, CallStepInv, SwapInv DEF Next

\* Whatever the services, the calls and their processes do, the invariant holds.
THEOREM ServiceInvariant == Spec => []ServiceInv
<1>1. Init => ServiceInv
  BY ServiceInit
<1>2. ServiceInv /\ [Next]_vars => ServiceInv'
  BY ServiceStep
<1> QED
  BY <1>1, <1>2, PTL DEF Spec

\* No two services are connected to the database while the lock file stays where it is.
THEOREM DatabaseHasOneOwner == Spec => []OneOwner
<1>1. ServiceInv => OneOwner
  <2> SUFFICES ASSUME ServiceInv, path["lock"] = 1, NEW s \in Services, NEW t \in Services, s # t,
                      svc[s].open # 0, svc[t].open # 0
               PROVE  FALSE
    BY DEF OneOwner
  <2>1. svc[s] \in Service /\ svc[t] \in Service
    BY DEF ServiceInv, ServiceType
  <2>2. svc[s].handle \in 0..1 /\ svc[t].handle \in 0..1 /\ svc[s].handle # 0 /\ svc[t].handle # 0
    BY <2>1 DEF ServiceInv, EachHolds, Holds
  <2>3. svc[s].handle = svc[t].handle
    BY <2>2
  <2> QED
    BY <2>2, <2>3 DEF ServiceInv, Exclusive
<1> QED
  BY <1>1, ServiceInvariant, PTL

\* A service that is down holds nothing, and one that reports a clean end left no leader and no
\* helper of a provider call, except of a call that could not be stopped or, for helpers, one whose
\* progress was refused when its leader was dead.
THEOREM DownIsQuiet == Spec => []QuietWhenDown
<1>1. ServiceInv => QuietWhenDown
  <2> SUFFICES ASSUME ServiceInv, NEW s \in Services, svc[s].pc = "down"
               PROVE  /\ svc[s].handle = 0 /\ svc[s].open = 0 /\ ~svc[s].workers
                      /\ svc[s].outcome \in {"failed", "stopped"} =>
                           \A c \in CallsOf[s] : call[c].pc # "idle" =>
                             call[c].pc = "ended" /\ NothingSurvives(c)
    BY DEF QuietWhenDown
  <2>1. svc[s].handle = 0 /\ svc[s].open = 0 /\ ~svc[s].workers
    BY DEF ServiceInv, EachHolds, Holds
  <2>2. ASSUME svc[s].outcome \in {"failed", "stopped"}, NEW c \in CallsOf[s],
               call[c].pc # "idle"
        PROVE  call[c].pc = "ended" /\ NothingSurvives(c)
    <3>1. call[c].pc = "ended"
      BY <2>2 DEF ServiceInv, Drained, CleanEnd
    <3>2. CallGood(call[c], child[c])
      BY CallsOfAssumption DEF ServiceInv, CallInv
    <3> QED
      BY <3>1, <3>2 DEF CallGood, LeaderAlive, NothingSurvives
  <2> QED
    BY <2>1, <2>2
<1> QED
  BY <1>1, ServiceInvariant, PTL

\* What invoke returns or raises is true of the processes it leaves behind.
THEOREM AnswersAfterCleanup == Spec => []GroupGoneBeforeAnswer
<1>1. ServiceInv => GroupGoneBeforeAnswer
  BY DEF ServiceInv, CallInv, CallGood, GroupGoneBeforeAnswer, LeaderAlive
<1> QED
  BY <1>1, ServiceInvariant, PTL

\* A cancellation is never turned into an answer of the provider.
THEOREM CancellationWins == Spec => []CancelIsNeverAnswered
<1>1. ServiceInv => CancelIsNeverAnswered
  BY DEF ServiceInv, CallInv, CallGood, CancelIsNeverAnswered
<1> QED
  BY <1>1, ServiceInvariant, PTL

-----------------------------------------------------------------------------
(* The calls of a service are invocations *)

\* One call of the service, seen by itself.
Alone(c) == INSTANCE ProcessIsolation WITH
  Calls <- {c}, call <- [d \in {c} |-> call[d]], child <- [d \in {c} |-> child[d]]

\* The state of the call and of its processes before and after a step.
LEMMA AloneState ==
  ASSUME NEW c
  PROVE  /\ [d \in {c} |-> call[d]][c] = call[c] /\ [d \in {c} |-> child[d]][c] = child[c]
         /\ ([d \in {c} |-> call[d]])'[c] = call'[c] /\ ([d \in {c} |-> child[d]])'[c] = child'[c]
         /\ Alone(c)!LeaderAlive(c) <=> LeaderAlive(c)
         /\ Alone(c)!InProgress(c) <=> InProgress(c)
  BY DEF LeaderAlive, Alone!LeaderAlive, InProgress, Alone!InProgress

\* The call changes as the service changes it.
LEMMA AloneUpdate ==
  ASSUME CallTypeOK, NEW c \in Calls, NEW r, call' = [call EXCEPT ![c] = r]
  PROVE  ([d \in {c} |-> call[d]])' = [[d \in {c} |-> call[d]] EXCEPT ![c] = r]
  BY DEF CallTypeOK

LEMMA AloneChildStep ==
  ASSUME CallTypeOK, NEW c \in Calls, ChildStep(c)
  PROVE  Alone(c)!ChildStep(c)
<1> USE AloneState
<1>1. ASSUME NEW m \in Messages, Say(c, m)
      PROVE  Alone(c)!Say(c, m)
  <2>1. Alone(c)!Update(c, [call[c] EXCEPT !.mail = m])
    BY <1>1, AloneUpdate DEF Update, Alone!Update, Say
  <2> QED
    BY <1>1, <2>1 DEF Alone!Update, Say, Alone!Say
<1>2. ASSUME Spawn(c)
      PROVE  Alone(c)!Spawn(c)
  BY <1>2 DEF Spawn, Alone!Spawn, CallTypeOK, Child
<1>3. ASSUME LeaderEnds(c)
      PROVE  Alone(c)!LeaderEnds(c)
  BY <1>3 DEF LeaderEnds, Alone!LeaderEnds, CallTypeOK, Child
<1>4. ASSUME HelpersEnd(c)
      PROVE  Alone(c)!HelpersEnd(c)
  BY <1>4 DEF HelpersEnd, Alone!HelpersEnd, CallTypeOK, Child
<1>5. Alone(c)!Messages = Messages
  BY DEF Messages, Alone!Messages, Final, Alone!Final
<1> QED
  BY <1>1, <1>2, <1>3, <1>4, <1>5 DEF ChildStep, Alone!ChildStep

LEMMA AloneInvoke ==
  ASSUME CallTypeOK, NEW c \in Calls, Invoke(c)
  PROVE  Alone(c)!Invoke(c)
<1>1. CASE /\ Update(c, [call[c] EXCEPT !.pc = "ended", !.outcome = "PROVIDER_ERROR"])
           /\ UNCHANGED child
  <2> DEFINE r == [call[c] EXCEPT !.pc = "ended", !.outcome = "PROVIDER_ERROR"]
  <2>1. Alone(c)!Update(c, r)
    BY <1>1, AloneUpdate DEF Update, Alone!Update
  <2>2. UNCHANGED [d \in {c} |-> child[d]]
    BY <1>1
  <2>3. call[c].pc = "idle"
    BY DEF Invoke
  <2> QED
    BY <2>1, <2>2, <2>3, AloneState DEF Alone!Update, Alone!Invoke
<1>2. CASE /\ Update(c, [call[c] EXCEPT !.pc = "receiving", !.owned = TRUE])
           /\ child' = [child EXCEPT ![c].leader = "alive"]
  <2> DEFINE r == [call[c] EXCEPT !.pc = "receiving", !.owned = TRUE]
  <2>1. Alone(c)!Update(c, r)
    BY <1>2, AloneUpdate DEF Update, Alone!Update
  <2>2. ([d \in {c} |-> child[d]])' = [[d \in {c} |-> child[d]] EXCEPT ![c].leader = "alive"]
    BY <1>2 DEF CallTypeOK, Child
  <2>3. call[c].pc = "idle"
    BY DEF Invoke
  <2> QED
    BY <2>1, <2>2, <2>3, AloneState DEF Alone!Update, Alone!Invoke
<1> QED
  BY <1>1, <1>2 DEF Invoke

LEMMA AloneReceive ==
  ASSUME CallTypeOK, NEW c \in Calls, Receive(c)
  PROVE  Alone(c)!Receive(c)
<1> DEFINE r == [call[c] EXCEPT !.mail = "none"]
           m == call[c].mail
           q == CASE m = "progress" -> r
                  [] m = "bad" -> Finally(r, LeaderAlive(c), "badProgress")
                  [] m = "broken" -> Stopping(r, "eof", "PROVIDER_ERROR")
                  [] OTHER -> Stopping(r, "answer", Answer(m))
           p == CASE m = "progress" -> r
                  [] m = "bad" -> Alone(c)!Finally(r, Alone(c)!LeaderAlive(c), "badProgress")
                  [] m = "broken" -> Alone(c)!Stopping(r, "eof", "PROVIDER_ERROR")
                  [] OTHER -> Alone(c)!Stopping(r, "answer", Alone(c)!Answer(m))
<1>1. r.pc = "receiving" /\ m # "none" /\ Update(c, q) /\ UNCHANGED child
  BY DEF Receive
<1>2. p = q
  <2>1. Alone(c)!Finally(r, LeaderAlive(c), "badProgress")
          = Finally(r, LeaderAlive(c), "badProgress")
    BY DEF Finally, Alone!Finally, Stopping, Alone!Stopping
  <2>2. /\ Alone(c)!Stopping(r, "answer", Answer(m)) = Stopping(r, "answer", Answer(m))
        /\ Alone(c)!Stopping(r, "eof", "PROVIDER_ERROR") = Stopping(r, "eof", "PROVIDER_ERROR")
    BY DEF Stopping, Alone!Stopping
  <2>3. Alone(c)!Answer(m) = Answer(m)
    BY DEF Answer, Alone!Answer
  <2>4. Alone(c)!LeaderAlive(c) = LeaderAlive(c)
    BY AloneState DEF LeaderAlive, Alone!LeaderAlive
  <2> QED
    BY <2>1, <2>2, <2>3, <2>4
<1>3. Alone(c)!Update(c, p)
  BY <1>1, <1>2, AloneUpdate DEF Update, Alone!Update
<1>4. UNCHANGED [d \in {c} |-> child[d]]
  BY <1>1
<1> QED
  BY <1>1, <1>3, <1>4, AloneState DEF Alone!Update, Alone!Receive

LEMMA AloneReceiveEof ==
  ASSUME CallTypeOK, NEW c \in Calls, ReceiveEof(c)
  PROVE  Alone(c)!ReceiveEof(c)
<1>1. Alone(c)!Update(c, Stopping(call[c], "eof", "PROVIDER_ERROR"))
  BY AloneUpdate DEF Update, Alone!Update, ReceiveEof
<1>2. Alone(c)!Stopping(call[c], "eof", "PROVIDER_ERROR")
        = Stopping(call[c], "eof", "PROVIDER_ERROR")
  BY DEF Stopping, Alone!Stopping
<1>3. UNCHANGED [d \in {c} |-> child[d]]
  BY DEF ReceiveEof
<1> QED
  BY <1>1, <1>2, <1>3, AloneState DEF Alone!Update, ReceiveEof, Alone!ReceiveEof

LEMMA AloneAt ==
  ASSUME NEW c, NEW stage
  PROVE  Alone(c)!At(c, stage) <=> At(c, stage)
  BY AloneState DEF At, Alone!At

LEMMA AloneAdvance ==
  ASSUME CallTypeOK, NEW c \in Calls, NEW stage, Advance(c, stage)
  PROVE  Alone(c)!Advance(c, stage)
<1>1. Alone(c)!Update(c, [call[c] EXCEPT !.stage = stage])
  BY AloneUpdate DEF Update, Alone!Update, Advance
<1> QED
  BY <1>1, AloneState DEF Alone!Update, Alone!Advance

LEMMA AloneStopped ==
  ASSUME CallTypeOK, NEW c \in Calls, Stopped(c)
  PROVE  Alone(c)!Stopped(c)
<1>1. Alone(c)!Update(c, Finally(call[c], FALSE, AfterStop(call[c])))
  BY AloneUpdate DEF Update, Alone!Update, Stopped
<1>2. Alone(c)!Finally(call[c], FALSE, AfterStop(call[c]))
        = Finally(call[c], FALSE, AfterStop(call[c]))
  BY DEF Finally, Alone!Finally, Stopping, Alone!Stopping
<1>3. Alone(c)!AfterStop(call[c]) = AfterStop(call[c])
  BY DEF AfterStop, Alone!AfterStop
<1> QED
  BY <1>1, <1>2, <1>3, AloneState DEF Alone!Update, Alone!Stopped

LEMMA AloneStopFailed ==
  ASSUME CallTypeOK, NEW c \in Calls, StopFailed(c)
  PROVE  Alone(c)!StopFailed(c)
<1> DEFINE q == IF call[c].why = "finally"
                THEN [Finally(call[c], FALSE, "RuntimeError") EXCEPT !.owned = TRUE]
                ELSE Finally(call[c], LeaderAlive(c), "RuntimeError")
           p == IF call[c].why = "finally"
                THEN [Alone(c)!Finally(call[c], FALSE, "RuntimeError") EXCEPT !.owned = TRUE]
                ELSE Alone(c)!Finally(call[c], Alone(c)!LeaderAlive(c), "RuntimeError")
<1>1. Alone(c)!Update(c, q)
  BY AloneUpdate DEF Update, Alone!Update, StopFailed
<1>2. p = q
  <2>1. \A b : Alone(c)!Finally(call[c], b, "RuntimeError") = Finally(call[c], b, "RuntimeError")
    BY DEF Finally, Alone!Finally, Stopping, Alone!Stopping
  <2>2. Alone(c)!LeaderAlive(c) = LeaderAlive(c)
    BY AloneState DEF LeaderAlive, Alone!LeaderAlive
  <2> QED
    BY <2>1, <2>2
<1>3. Alone(c)!Update(c, p)
    BY <1>1, <1>2 DEF Update, Alone!Update
<1> QED
  BY <1>3, AloneState DEF Alone!Update, Alone!StopFailed

LEMMA AloneStopLeader ==
  ASSUME CallTypeOK, NEW c \in Calls, StopLeader(c)
  PROVE  Alone(c)!StopLeader(c)
<1> USE AloneState, AloneAt
<1>0. UNCHANGED child => UNCHANGED [d \in {c} |-> child[d]]
  OBVIOUS
<1>1. CASE /\ \E stage \in {"check", "asked", "termed", "killed"} : At(c, stage)
           /\ ~LeaderAlive(c) /\ LeaderGone(c) /\ UNCHANGED child
  <2>1. Alone(c)!LeaderGone(c)
    BY <1>1, AloneAdvance DEF LeaderGone, Alone!LeaderGone
  <2> QED
    BY <1>0, <1>1, <2>1 DEF Alone!StopLeader
<1>2. CASE At(c, "check") /\ LeaderAlive(c) /\ Advance(c, "asked") /\ UNCHANGED child
  BY <1>0, <1>2, AloneAdvance DEF Alone!StopLeader
<1>3. CASE At(c, "asked") /\ LeaderAlive(c) /\ Advance(c, "termed") /\ UNCHANGED child
  BY <1>0, <1>3, AloneAdvance DEF Alone!StopLeader
<1>4. ASSUME At(c, "termed"), LeaderAlive(c), Advance(c, "killed"), NEW survives \in Survives,
             child' = [child EXCEPT ![c].leader = IF survives THEN @ ELSE "dead",
                                    ![c].helpers = @ /\ survives]
      PROVE  Alone(c)!StopLeader(c)
  <2>1. Alone(c)!Advance(c, "killed")
    BY <1>4, AloneAdvance
  <2>2. Alone(c)!Survives = Survives
    BY DEF Survives, Alone!Survives
  <2>3. ([d \in {c} |-> child[d]])' =
          [[d \in {c} |-> child[d]] EXCEPT ![c].leader = IF survives THEN @ ELSE "dead",
                                           ![c].helpers = @ /\ survives]
    BY <1>4 DEF CallTypeOK, Child
  <2> QED
    BY <1>4, <2>1, <2>2, <2>3 DEF Alone!StopLeader
<1>5. CASE At(c, "killed") /\ LeaderAlive(c) /\ StopFailed(c) /\ UNCHANGED child
  BY <1>0, <1>5, AloneStopFailed DEF Alone!StopLeader
<1> QED
  BY <1>1, <1>2, <1>3, <1>4, <1>5 DEF StopLeader

LEMMA AloneStopGroup ==
  ASSUME CallTypeOK, NEW c \in Calls, StopGroup(c)
  PROVE  Alone(c)!StopGroup(c)
<1> USE AloneState, AloneAt
<1>0. UNCHANGED child => UNCHANGED [d \in {c} |-> child[d]]
  OBVIOUS
<1>1. CASE /\ \E stage \in {"group", "groupTermed", "groupKilled"} : At(c, stage)
           /\ ~child[c].helpers /\ Stopped(c) /\ UNCHANGED child
  BY <1>0, <1>1, AloneStopped DEF Alone!StopGroup
<1>2. CASE At(c, "group") /\ child[c].helpers /\ Advance(c, "groupTermed") /\ UNCHANGED child
  BY <1>0, <1>2, AloneAdvance DEF Alone!StopGroup
<1>3. ASSUME At(c, "groupTermed"), child[c].helpers, Advance(c, "groupKilled"),
             NEW survives \in Survives, child' = [child EXCEPT ![c].helpers = survives]
      PROVE  Alone(c)!StopGroup(c)
  <2>1. Alone(c)!Advance(c, "groupKilled")
    BY <1>3, AloneAdvance
  <2>2. Alone(c)!Survives = Survives
    BY DEF Survives, Alone!Survives
  <2>3. ([d \in {c} |-> child[d]])' = [[d \in {c} |-> child[d]] EXCEPT ![c].helpers = survives]
    BY <1>3 DEF CallTypeOK, Child
  <2> QED
    BY <1>3, <2>1, <2>2, <2>3 DEF Alone!StopGroup
<1>4. CASE At(c, "groupKilled") /\ child[c].helpers /\ StopFailed(c) /\ UNCHANGED child
  BY <1>0, <1>4, AloneStopFailed DEF Alone!StopGroup
<1> QED
  BY <1>1, <1>2, <1>3, <1>4 DEF StopGroup

LEMMA AloneCancel ==
  ASSUME CallTypeOK, NEW c \in Calls, InProgress(c), call'[c] = Cancelled(call[c]),
         child'[c] = child[c]
  PROVE  Alone(c)!Cancel(c)
<1>1. Alone(c)!Cancelled(call[c]) = Cancelled(call[c])
  BY DEF Stopping, Alone!Stopping, Cancelled, Alone!Cancelled
<1>2. ([d \in {c} |-> call[d]])' = [[d \in {c} |-> call[d]] EXCEPT ![c] = Cancelled(call[c])]
  OBVIOUS
<1>3. UNCHANGED [d \in {c} |-> child[d]]
  OBVIOUS
<1> QED
  BY <1>1, <1>2, <1>3, AloneState DEF Alone!Cancel, Alone!Update

LEMMA AloneLose ==
  ASSUME CallTypeOK, NEW c \in Calls, InProgress(c), call'[c] = Lose(call[c]),
         child'[c] = child[c]
  PROVE  Alone(c)!LoseCall(c)
<1>1. Alone(c)!Lose(call[c]) = Lose(call[c])
  BY DEF Lose, Alone!Lose
<1>2. ([d \in {c} |-> call[d]])' = [[d \in {c} |-> call[d]] EXCEPT ![c] = Lose(call[c])]
  OBVIOUS
<1>3. UNCHANGED [d \in {c} |-> child[d]]
  OBVIOUS
<1> QED
  BY <1>1, <1>2, <1>3, AloneState DEF Alone!LoseCall, Alone!Update

LEMMA AloneRests ==
  ASSUME NEW c, call'[c] = call[c], child'[c] = child[c]
  PROVE  UNCHANGED Alone(c)!callVars
  BY DEF Alone!callVars

\* A step of one call leaves the others alone.
LEMMA OthersRest ==
  ASSUME CallTypeOK, NEW d \in Calls, ChildStep(d) \/ Invoke(d) \/ Progress(d) \/ Cancel(d),
         NEW c \in Calls, c # d
  PROVE  call'[c] = call[c] /\ child'[c] = child[c]
<1> USE DEF CallTypeOK
<1>1. ASSUME NEW r, Update(d, r) PROVE call'[c] = call[c]
  BY <1>1 DEF Update
<1>2. CASE ChildStep(d)
  BY <1>2 DEF ChildStep, Say, Spawn, LeaderEnds, HelpersEnd, Update
<1>3. CASE Invoke(d)
  BY <1>3 DEF Invoke, Update
<1>4. CASE Cancel(d)
  BY <1>4 DEF Cancel, Update
<1>5. CASE Receive(d) \/ ReceiveEof(d)
  BY <1>5 DEF Receive, ReceiveEof, Update
<1>6. CASE StopLeader(d)
  BY <1>6 DEF StopLeader, LeaderGone, StopFailed, Advance, Update
<1>7. CASE StopGroup(d)
  BY <1>7 DEF StopGroup, Stopped, StopFailed, Advance, Update
<1> QED
  BY <1>2, <1>3, <1>4, <1>5, <1>6, <1>7 DEF Progress

LEMMA AloneStep ==
  ASSUME CallTypeOK, NEW c \in Calls, [Next]_vars
  PROVE  [Alone(c)!CallNext]_(Alone(c)!callVars)
<1>1. ASSUME NEW d \in Calls, ChildStep(d) \/ Invoke(d) \/ Progress(d) \/ Cancel(d)
      PROVE  [Alone(c)!CallNext]_(Alone(c)!callVars)
  <2>1. CASE d # c
    BY <1>1, <2>1, OthersRest, AloneRests
  <2>2. ASSUME ChildStep(c) PROVE Alone(c)!ChildStep(c)
    BY <2>2, AloneChildStep
  <2>3. ASSUME Invoke(c) PROVE Alone(c)!Invoke(c)
    BY <2>3, AloneInvoke
  <2>4. ASSUME Progress(c) PROVE Alone(c)!Progress(c)
    BY <2>4, AloneReceive, AloneReceiveEof, AloneStopLeader, AloneStopGroup
       DEF Progress, Alone!Progress
  <2>5. ASSUME Cancel(c) PROVE Alone(c)!Cancel(c)
    <3>1. InProgress(c) /\ call'[c] = Cancelled(call[c]) /\ child'[c] = child[c]
      BY <2>5 DEF Cancel, Update, CallTypeOK
    <3> QED
      BY <3>1, AloneCancel
  <2> QED
    BY <1>1, <2>1, <2>2, <2>3, <2>4, <2>5 DEF Alone!CallNext
<1>2. ASSUME NEW s \in Services, StopEngine(s)
      PROVE  [Alone(c)!CallNext]_(Alone(c)!callVars)
  <2>1. child'[c] = child[c] /\ call'[c] \in {call[c], Cancelled(call[c])}
    BY <1>2 DEF StopEngine
  <2>2. CASE InProgress(c) /\ call'[c] = Cancelled(call[c])
    BY <2>1, <2>2, AloneCancel DEF Alone!CallNext
  <2>3. ~InProgress(c) => Cancelled(call[c]) = call[c]
    BY DEF InProgress, Cancelled
  <2> QED
    BY <2>1, <2>2, <2>3, AloneRests
<1>3. ASSUME NEW s \in Services, Crash(s)
      PROVE  [Alone(c)!CallNext]_(Alone(c)!callVars)
  <2>1. child'[c] = child[c] /\ call'[c] \in {call[c], Lose(call[c])}
    BY <1>3 DEF Crash
  <2>2. CASE InProgress(c) /\ call'[c] = Lose(call[c])
    BY <2>1, <2>2, AloneLose DEF Alone!CallNext
  <2>3. ~InProgress(c) => Lose(call[c]) = call[c]
    BY DEF InProgress, Lose
  <2> QED
    BY <2>1, <2>2, <2>3, AloneRests
<1>4. CASE UNCHANGED <<call, child>>
  BY <1>4, AloneRests
<1>5. ASSUME NEW s \in Services, Provide(s)
      PROVE  \E d \in Calls : Invoke(d) \/ Cancel(d)
  BY <1>5, CallsOfAssumption DEF Provide
<1>6. ASSUME NEW s \in Services,
             Start(s) \/ StartFails(s) \/ RetentionEnds(s) \/ Stop(s) \/ Reap(s)
             \/ CloseRepository(s) \/ Release(s)
      PROVE  UNCHANGED <<call, child>>
  BY <1>6 DEF Start, Validate, Acquire, Reserve, Open, Migrate, Recover, StartWorkers, Attested,
              StartFails, RetentionEnds, Stop, Reap, CloseRepository, Release
<1> QED
  BY <1>1, <1>2, <1>3, <1>4, <1>5, <1>6 DEF Next, Unwind, CallStep, Swap, vars

\* Whatever a service does with its provider calls, and however many it cancels or loses at once,
\* each of them is an invocation of process_backend.py as it is by itself: what holds of every
\* invocation there holds of the calls of a service.
THEOREM ServiceRunsInvocations == ASSUME NEW c \in Calls PROVE Spec => Alone(c)!CallSpec
<1>1. Init => Alone(c)!CallInit
  BY DEF Init, CallInit, Alone!CallInit
<1>2. ServiceInv => CallTypeOK
  BY DEF ServiceInv, CallInv
<1>3. CallTypeOK /\ [Next]_vars => [Alone(c)!CallNext]_(Alone(c)!callVars)
  BY AloneStep
<1> QED
  BY <1>1, <1>2, <1>3, ServiceInvariant, PTL DEF Spec, Alone!CallSpec

-----------------------------------------------------------------------------
(* The drain of a call is bounded *)

\* How many stages _stop_process has before it, of one attempt and of the one the finally clause
\* may still make.
Place == [check |-> 7, asked |-> 6, termed |-> 5, killed |-> 4, group |-> 3, groupTermed |-> 2,
          groupKilled |-> 1, none |-> 0]

StepsLeft(r) == Place[r.stage] + (IF r.why = "finally" THEN 0 ELSE 7)

\* A call that is being stopped only gets nearer to its end, at most fourteen times, or notes that
\* its caller has cancelled it.
DrainAdvances ==
  [][\A c \in Calls : call[c].pc = "stopping" =>
       /\ StepsLeft(call[c]) \in 1..14
       /\ \/ call'[c].pc # "stopping"
          \/ StepsLeft(call'[c]) < StepsLeft(call[c])
          \/ call'[c] \in {call[c], Cancelled(call[c])}]_vars


Staged(r) == r.pc = "stopping" => r.stage \in Stages \ {"none"}

\* A call goes from r to q.
Drains(r, q) ==
  /\ Staged(q)
  /\ r.pc = "stopping" => \/ q.pc # "stopping"
                          \/ StepsLeft(q) < StepsLeft(r)
                          \/ q \in {r, Cancelled(r)}

LEMMA StepsCount ==
  ASSUME NEW r \in Call, r.stage # "none"
  PROVE  StepsLeft(r) \in 1..14 /\ (r.why # "finally" => StepsLeft(r) > 7)
  BY DEF StepsLeft, Place, Call, Stages

LEMMA StoppingStages ==
  ASSUME NEW r \in Call, NEW why, NEW o
  PROVE  /\ Stopping(r, why, o).stage = "check" /\ Stopping(r, why, o).why = why
         /\ Staged(Stopping(r, why, o))
  BY DEF Stopping, Call, Stages, Staged

LEMMA FinallyStages ==
  ASSUME NEW r \in Call, NEW alive \in BOOLEAN, NEW o
  PROVE  /\ Staged(Finally(r, alive, o))
         /\ r.pc = "stopping" /\ r.why # "finally" /\ Staged(r) => Drains(r, Finally(r, alive, o))
         /\ ~alive => Finally(r, alive, o).pc = "ended"
<1> DEFINE f == Stopping(r, "finally", o)
<1>1. CASE alive
  <2>1. Finally(r, alive, o) = f
    BY <1>1 DEF Finally
  <2>2. f.stage = "check" /\ f.why = "finally" /\ Staged(f)
    BY StoppingStages
  <2> HIDE DEF f
  <2>3. StepsLeft(f) = 7
    BY <2>2 DEF StepsLeft, Place
  <2>4. r.pc = "stopping" /\ r.why # "finally" /\ Staged(r) => StepsLeft(r) > 7
    BY StepsCount DEF Staged
  <2>5. ASSUME r.pc = "stopping", r.why # "finally", Staged(r) PROVE StepsLeft(r) \in Nat
    BY <2>5, StepsCount DEF Staged
  <2> QED
    BY <1>1, <2>1, <2>2, <2>3, <2>4, <2>5 DEF Drains
<1>2. CASE ~alive
  <2>1. Finally(r, alive, o).pc = "ended"
    BY <1>2 DEF Finally, Call
  <2> QED
    BY <1>2, <2>1 DEF Staged, Drains
<1> QED
  BY <1>1, <1>2

LEMMA AdvanceStages ==
  ASSUME CallTypeOK, NEW c \in Calls, call[c].pc = "stopping", NEW stage \in Stages \ {"none"},
         Advance(c, stage), Place[stage] < Place[call[c].stage]
  PROVE  Drains(call[c], call'[c])
<1> DEFINE r == [call[c] EXCEPT !.stage = stage]
<1>1. call[c] \in Call /\ call'[c] = r
  BY DEF CallTypeOK, Advance, Update
<1>2. r.stage = stage /\ r.why = call[c].why
  BY <1>1 DEF Call
<1> HIDE DEF r
<1>3. Place[stage] \in Nat /\ Place[call[c].stage] \in Nat
  BY <1>1 DEF Place, Call, Stages
<1>4. StepsLeft(r) < StepsLeft(call[c])
  BY <1>2, <1>3 DEF StepsLeft
<1> QED
  BY <1>1, <1>2, <1>4 DEF Drains, Staged

LEMMA StopFailedStages ==
  ASSUME CallTypeOK, NEW c \in Calls, call[c].pc = "stopping", Staged(call[c]), StopFailed(c)
  PROVE  Drains(call[c], call'[c])
<1>1. call[c] \in Call /\ call \in [Calls -> Call] /\ LeaderAlive(c) \in BOOLEAN
  BY DEF CallTypeOK, LeaderAlive
<1>2. CASE call[c].why = "finally"
  <2> DEFINE f == Finally(call[c], FALSE, "RuntimeError")
             q == [f EXCEPT !.owned = TRUE]
  <2>1. call'[c] = q
    BY <1>1, <1>2 DEF StopFailed, Update
  <2>2. f.pc = "ended" /\ f \in Call
    BY <1>1 DEF Finally, Call, Stages, Outcomes
  <2> HIDE DEF f
  <2>3. q.pc = "ended"
    BY <2>2 DEF Call
  <2> QED
    BY <2>1, <2>3 DEF Drains, Staged
<1>3. CASE call[c].why # "finally"
  <2>1. call'[c] = Finally(call[c], LeaderAlive(c), "RuntimeError")
    BY <1>1, <1>3 DEF StopFailed, Update
  <2> QED
    BY <1>1, <1>3, <2>1, FinallyStages
<1> QED
  BY <1>2, <1>3

LEMMA CancelledStages ==
  ASSUME NEW r \in Call, Staged(r)
  PROVE  Drains(r, Cancelled(r))
<1>1. CASE r.pc = "receiving"
  <2> DEFINE q == Stopping(r, "cancel", "cancelled")
  <2>1. q \in Call /\ q.stage = "check"
    BY DEF Stopping, Call, Stages, Outcomes
  <2> HIDE DEF q
  <2>2. [q EXCEPT !.asked = TRUE].stage = "check"
    BY <2>1 DEF Call
  <2>3. Cancelled(r) = [q EXCEPT !.asked = TRUE]
    BY <1>1 DEF Cancelled, q
  <2> QED
    BY <1>1, <2>2, <2>3 DEF Drains, Staged, Stages
<1>2. CASE r.pc = "stopping"
  <2>1. Cancelled(r) = [r EXCEPT !.asked = TRUE, !.callerCancelled = TRUE]
    BY <1>2 DEF Cancelled
  <2>2. [r EXCEPT !.asked = TRUE, !.callerCancelled = TRUE].stage = r.stage
    BY DEF Call
  <2> QED
    BY <1>2, <2>1, <2>2 DEF Drains, Staged
<1>3. CASE r.pc \notin {"receiving", "stopping"}
  <2>1. Cancelled(r) = r
    BY <1>3 DEF Cancelled
  <2> QED
    BY <1>3, <2>1 DEF Drains, Staged
<1> QED
  BY <1>1, <1>2, <1>3

LEMMA LoseStages ==
  ASSUME NEW r \in Call, Staged(r)
  PROVE  Drains(r, Lose(r))
<1>1. CASE r.pc \in {"receiving", "stopping"}
  <2>1. Lose(r).pc = "lost"
    BY <1>1 DEF Lose, Call
  <2> QED
    BY <2>1 DEF Drains, Staged
<1>2. CASE r.pc \notin {"receiving", "stopping"}
  <2>1. Lose(r) = r
    BY <1>2 DEF Lose
  <2> QED
    BY <2>1 DEF Drains
<1> QED
  BY <1>1, <1>2

\* A step of one call.
LEMMA OwnDrain ==
  ASSUME CallTypeOK, NEW c \in Calls, Staged(call[c]),
         ChildStep(c) \/ Invoke(c) \/ Progress(c) \/ Cancel(c)
  PROVE  Drains(call[c], call'[c])
<1>1. call[c] \in Call /\ call \in [Calls -> Call] /\ LeaderAlive(c) \in BOOLEAN
  BY DEF CallTypeOK, LeaderAlive
<1>2. ASSUME call'[c] = call[c] PROVE Drains(call[c], call'[c])
  BY <1>2 DEF Drains
<1>3. ASSUME NEW r, Update(c, r), call[c].pc # "stopping", Staged(r)
      PROVE  Drains(call[c], call'[c])
  BY <1>1, <1>3 DEF Update, Drains
<1>4. CASE ChildStep(c)
  <2>1. ASSUME NEW m \in Messages, Say(c, m) PROVE Drains(call[c], call'[c])
    <3>1. [call[c] EXCEPT !.mail = m].pc = "receiving" /\ call[c].pc = "receiving"
      BY <1>1, <2>1 DEF Say, Call
    <3> QED
      BY <1>3, <2>1, <3>1 DEF Say, Staged
  <2> QED
    BY <1>2, <1>4, <2>1 DEF ChildStep, Spawn, LeaderEnds, HelpersEnd
<1>5. CASE Invoke(c)
  <2> DEFINE e == [call[c] EXCEPT !.pc = "ended", !.outcome = "PROVIDER_ERROR"]
             f == [call[c] EXCEPT !.pc = "receiving", !.owned = TRUE]
  <2>1. e.pc = "ended" /\ f.pc = "receiving"
    BY <1>1 DEF Call
  <2>2. (Update(c, e) \/ Update(c, f)) /\ call[c].pc = "idle"
    BY <1>5 DEF Invoke
  <2> HIDE DEF e, f
  <2> QED
    BY <1>3, <2>1, <2>2 DEF Staged
<1>6. CASE Cancel(c)
  <2>1. call'[c] = Cancelled(call[c])
    BY <1>1, <1>6 DEF Cancel, Update
  <2> QED
    BY <1>1, <2>1, CancelledStages
<1>7. CASE Receive(c)
  <2> DEFINE r == [call[c] EXCEPT !.mail = "none"]
             m == call[c].mail
  <2>1. r \in Call /\ r.pc = "receiving" /\ call[c].pc = "receiving"
    BY <1>1, <1>7 DEF Receive, Call
  <2>2. Update(c, CASE m = "progress" -> r
                    [] m = "bad" -> Finally(r, LeaderAlive(c), "badProgress")
                    [] m = "broken" -> Stopping(r, "eof", "PROVIDER_ERROR")
                    [] OTHER -> Stopping(r, "answer", Answer(m)))
    BY <1>7 DEF Receive
  <2>3. /\ Staged(r) /\ Staged(Finally(r, LeaderAlive(c), "badProgress"))
        /\ Staged(Stopping(r, "answer", Answer(m)))
        /\ Staged(Stopping(r, "eof", "PROVIDER_ERROR"))
    BY <1>1, <2>1, FinallyStages, StoppingStages DEF Staged
  <2> HIDE DEF r
  <2>4. CASE m = "progress"
    BY <1>3, <2>1, <2>2, <2>3, <2>4
  <2>5. CASE m = "bad"
    BY <1>3, <2>1, <2>2, <2>3, <2>5
  <2>6. CASE m \notin {"progress", "bad", "broken"}
    BY <1>3, <2>1, <2>2, <2>3, <2>6
  <2>7. CASE m = "broken"
    BY <1>3, <2>1, <2>2, <2>3, <2>7
  <2> QED
    BY <2>4, <2>5, <2>6, <2>7
<1>8. CASE ReceiveEof(c)
  <2>1. Staged(Stopping(call[c], "eof", "PROVIDER_ERROR"))
    BY <1>1, StoppingStages
  <2> QED
    BY <1>3, <1>8, <2>1 DEF ReceiveEof
<1>9. CASE StopLeader(c)
  <2>1. call[c].pc = "stopping"
    BY <1>9 DEF StopLeader, At
  <2>2. ASSUME NEW from \in Stages, call[c].stage = from, NEW to \in Stages \ {"none"},
               Place[to] < Place[from], Advance(c, to)
        PROVE  Drains(call[c], call'[c])
    BY <2>1, <2>2, AdvanceStages
  <2>3. CASE At(c, "check") /\ LeaderGone(c)
    BY <2>2, <2>3 DEF At, LeaderGone, Place, Stages
  <2>4. CASE At(c, "asked") /\ LeaderGone(c)
    BY <2>2, <2>4 DEF At, LeaderGone, Place, Stages
  <2>5. CASE At(c, "termed") /\ LeaderGone(c)
    BY <2>2, <2>5 DEF At, LeaderGone, Place, Stages
  <2>6. CASE At(c, "killed") /\ LeaderGone(c)
    BY <2>2, <2>6 DEF At, LeaderGone, Place, Stages
  <2>7. CASE At(c, "check") /\ Advance(c, "asked")
    BY <2>2, <2>7 DEF At, Place, Stages
  <2>8. CASE At(c, "asked") /\ Advance(c, "termed")
    BY <2>2, <2>8 DEF At, Place, Stages
  <2>9. CASE At(c, "termed") /\ Advance(c, "killed")
    BY <2>2, <2>9 DEF At, Place, Stages
  <2>10. CASE StopFailed(c)
    BY <2>1, <2>10, StopFailedStages
  <2> QED
    BY <1>9, <2>3, <2>4, <2>5, <2>6, <2>7, <2>8, <2>9, <2>10 DEF StopLeader
<1>10. CASE StopGroup(c)
  <2>1. call[c].pc = "stopping"
    BY <1>10 DEF StopGroup, At
  <2>2. ASSUME Stopped(c) PROVE Drains(call[c], call'[c])
    <3>1. call'[c] = Finally(call[c], FALSE, AfterStop(call[c]))
      BY <1>1, <2>2 DEF Stopped, Update
    <3>2. call'[c].pc = "ended"
      BY <1>1, <3>1, FinallyStages
    <3> QED
      BY <3>2 DEF Drains, Staged
  <2>3. CASE At(c, "group") /\ Advance(c, "groupTermed")
    BY <2>1, <2>3, AdvanceStages DEF At, Place, Stages
  <2>4. CASE At(c, "groupTermed") /\ Advance(c, "groupKilled")
    BY <2>1, <2>4, AdvanceStages DEF At, Place, Stages
  <2>5. CASE StopFailed(c)
    BY <2>1, <2>5, StopFailedStages
  <2> QED
    BY <1>10, <2>2, <2>3, <2>4, <2>5 DEF StopGroup
<1> QED
  BY <1>4, <1>5, <1>6, <1>7, <1>8, <1>9, <1>10 DEF Progress

LEMMA ServiceDrains ==
  ASSUME CallTypeOK, NEW c \in Calls, Staged(call[c]), [Next]_vars
  PROVE  Drains(call[c], call'[c])
<1>1. call[c] \in Call
  BY DEF CallTypeOK
<1>2. ASSUME call'[c] = call[c] PROVE Drains(call[c], call'[c])
  BY <1>2 DEF Drains
<1>3. ASSUME NEW d \in Calls, ChildStep(d) \/ Invoke(d) \/ Progress(d) \/ Cancel(d)
      PROVE  Drains(call[c], call'[c])
  <2>1. CASE d = c
    BY <1>3, <2>1, OwnDrain
  <2>2. CASE d # c
    BY <1>2, <1>3, <2>2, OthersRest
  <2> QED
    BY <2>1, <2>2
<1>4. ASSUME NEW s \in Services, StopEngine(s) PROVE Drains(call[c], call'[c])
  <2>1. call'[c] \in {call[c], Cancelled(call[c])}
    BY <1>4 DEF StopEngine
  <2> QED
    BY <1>1, <1>2, <2>1, CancelledStages
<1>5. ASSUME NEW s \in Services, Crash(s) PROVE Drains(call[c], call'[c])
  <2>1. call'[c] \in {call[c], Lose(call[c])}
    BY <1>5 DEF Crash
  <2> QED
    BY <1>1, <1>2, <2>1, LoseStages
<1>6. ASSUME NEW s \in Services, Provide(s)
      PROVE  \E d \in Calls : Invoke(d) \/ Cancel(d)
  BY <1>6, CallsOfAssumption DEF Provide
<1>7. ASSUME NEW s \in Services,
             Start(s) \/ StartFails(s) \/ RetentionEnds(s) \/ Stop(s) \/ Reap(s)
             \/ CloseRepository(s) \/ Release(s)
      PROVE  UNCHANGED call
  BY <1>7 DEF Start, Validate, Acquire, Reserve, Open, Migrate, Recover, StartWorkers, Attested,
              StartFails, RetentionEnds, Stop, Reap, CloseRepository, Release
<1> QED
  BY <1>2, <1>3, <1>4, <1>5, <1>6, <1>7 DEF Next, Unwind, CallStep, Swap, vars

\* The drain of a call ends after at most fourteen stages of its own, whatever its processes do and
\* however often its caller cancels it: the except clause and the finally clause make one attempt
\* each, and neither is ever set back.
THEOREM DrainsAreBounded == Spec => DrainAdvances
<1> DEFINE Inv == ServiceInv /\ \A c \in Calls : Staged(call[c])
           Step(c) == call[c].pc = "stopping" =>
                        /\ StepsLeft(call[c]) \in 1..14
                        /\ \/ call'[c].pc # "stopping"
                           \/ StepsLeft(call'[c]) < StepsLeft(call[c])
                           \/ call'[c] \in {call[c], Cancelled(call[c])}
<1>1. Init => Inv
  <2> SUFFICES ASSUME Init PROVE Inv
    OBVIOUS
  <2>1. \A c \in Calls : call[c].pc = "idle"
    BY DEF Init, CallInit
  <2>2. \A c \in Calls : Staged(call[c])
    BY <2>1 DEF Staged
  <2> QED
    BY <2>2, ServiceInit
<1>2. Inv /\ [Next]_vars => Inv' /\ \A c \in Calls : Step(c)
  <2> SUFFICES ASSUME Inv, [Next]_vars
               PROVE  Inv' /\ \A c \in Calls : Step(c)
    OBVIOUS
  <2>1. CallTypeOK
    BY DEF ServiceInv, CallInv
  <2>2. ASSUME NEW c \in Calls PROVE Drains(call[c], call'[c])
    BY <2>1, <2>2, ServiceDrains
  <2>3. ASSUME NEW c \in Calls PROVE Step(c)
    <3>1. call[c] \in Call
      BY <2>1 DEF CallTypeOK
    <3> QED
      BY <2>2, <3>1, StepsCount DEF Drains, Staged
  <2>4. ServiceInv'
    BY ServiceStep
  <2>5. \A c \in Calls : Staged(call'[c])
    BY <2>2 DEF Drains
  <2>6. (\A c \in Calls : Staged(call[c]))'
    BY <2>5 DEF Staged
  <2> QED
    BY <2>3, <2>4, <2>6
<1> QED
  BY <1>1, <1>2, PTL DEF Spec, DrainAdvances

=============================================================================
