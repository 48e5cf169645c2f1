-------------------------- MODULE ProcessIsolation --------------------------
(***************************************************************************)
(* process_backend.py: one provider invocation is one child process, the   *)
(* leader of a process group, that sends progress and one final message    *)
(* over a pipe.  However the invocation ends, its coroutine first has to   *)
(* stop the leader and then the rest of the group, escalating from a       *)
(* request to SIGTERM to SIGKILL, while its caller may cancel it at any    *)
(* await.  A step is what the coroutine does between two awaits; that a    *)
(* grace period has passed is never excluded.                              *)
(***************************************************************************)
CONSTANTS
  Calls,      \* invocations
  MaySurvive  \* whether a process may outlive SIGKILL for longer than the grace period

ASSUME SurviveAssumption == MaySurvive \in BOOLEAN

\* What the receiver tells apart: progress, progress it refuses, a final envelope with a result
\* or a backend error, bytes that are no such envelope, and a pipe that a leader has closed or sent
\* more than recv_bytes takes.
Final == {"result", "error", "junk"}
Messages == Final \union {"progress", "bad", "broken"}

VARIABLES
  call,   \* the coroutine of each invocation
  child   \* the processes of each invocation

callVars == <<call, child>>

Stages == {"none", "check", "asked", "termed", "killed", "group", "groupTermed", "groupKilled"}

Outcomes == {"none", "result", "error", "malformed", "badProgress", "PROVIDER_ERROR",
             "cancelled", "RuntimeError"}

Call == [pc : {"idle", "receiving", "stopping", "ended", "lost"},
         why : {"none", "answer", "cancel", "eof", "finally"},  \* which clause stops the process
         stage : Stages,              \* where _stop_process is
         asked : BOOLEAN,             \* the caller has cancelled the invocation
         callerCancelled : BOOLEAN,   \* as _stop_process_reliably will report it
         owned : BOOLEAN,             \* the process is in _processes
         mail : Messages \union {"none"},  \* the next message in the pipe
         outcome : Outcomes]          \* what invoke raises or returns once nothing overrides it

Child == [leader : {"none", "alive", "dead"},
          helpers : BOOLEAN]           \* other members of the group are alive

CallTypeOK == call \in [Calls -> Call] /\ child \in [Calls -> Child]

CallInit ==
  /\ call = [c \in Calls |->
       [pc |-> "idle", why |-> "none", stage |-> "none", asked |-> FALSE,
        callerCancelled |-> FALSE, owned |-> FALSE, mail |-> "none", outcome |-> "none"]]
  /\ child = [c \in Calls |-> [leader |-> "none", helpers |-> FALSE]]

InProgress(c) == call[c].pc \in {"receiving", "stopping"}

LeaderAlive(c) == child[c].leader = "alive"

Update(c, r) == call' = [call EXCEPT ![c] = r]

-----------------------------------------------------------------------------
\* The child.  A gentle one ends on request, a crashed one ends by itself; the parent cannot
\* tell, and no property may depend on either.

\* _run_child and _child_main: progress while the invocation runs, then one final envelope.  A
\* message is sent when the one before it has been read, and while somebody still reads.
Say(c, m) ==
  /\ LeaderAlive(c) /\ call[c].pc = "receiving" /\ call[c].mail = "none"
  /\ Update(c, [call[c] EXCEPT !.mail = m])
  /\ UNCHANGED child

\* The provider starts a process of its own in the group.
Spawn(c) ==
  /\ LeaderAlive(c) /\ ~child[c].helpers
  /\ child' = [child EXCEPT ![c].helpers = TRUE]
  /\ UNCHANGED call

LeaderEnds(c) ==
  /\ LeaderAlive(c)
  /\ child' = [child EXCEPT ![c].leader = "dead"]
  /\ UNCHANGED call

HelpersEnd(c) ==
  /\ child[c].helpers
  /\ child' = [child EXCEPT ![c].helpers = FALSE]
  /\ UNCHANGED call

-----------------------------------------------------------------------------
\* The coroutine.

\* process.start(), which may fail, and the receiver thread.
Invoke(c) ==
  /\ call[c].pc = "idle"
  /\ \/ /\ Update(c, [call[c] EXCEPT !.pc = "ended", !.outcome = "PROVIDER_ERROR"])
        /\ UNCHANGED child
     \/ /\ Update(c, [call[c] EXCEPT !.pc = "receiving", !.owned = TRUE])
        /\ child' = [child EXCEPT ![c].leader = "alive"]

\* Enter _stop_process_reliably: the cleanup runs in a task of its own that no cancellation of
\* the caller reaches.
Stopping(r, why, outcome) ==
  [r EXCEPT !.pc = "stopping", !.why = why, !.stage = "check", !.callerCancelled = FALSE,
            !.mail = "none", !.outcome = outcome]

\* The finally clause with an outcome in hand: a leader that is alive is stopped, a dead one is
\* forgotten.
Finally(r, alive, outcome) ==
  IF alive THEN Stopping(r, "finally", outcome)
  ELSE [r EXCEPT !.pc = "ended", !.why = "none", !.stage = "none", !.callerCancelled = FALSE,
                 !.mail = "none", !.owned = FALSE, !.outcome = outcome]

Answer(m) == IF m = "junk" THEN "malformed" ELSE m

\* _receive_terminal takes the next message, and recv_bytes may raise EOFError or OSError although
\* the leader lives.
Receive(c) ==
  LET r == [call[c] EXCEPT !.mail = "none"]
      m == call[c].mail
  IN
  /\ r.pc = "receiving" /\ m # "none"
  /\ Update(c, CASE m = "progress" -> r
                 [] m = "bad" -> Finally(r, LeaderAlive(c), "badProgress")
                 [] m = "broken" -> Stopping(r, "eof", "PROVIDER_ERROR")
                 [] OTHER -> Stopping(r, "answer", Answer(m)))
  /\ UNCHANGED child

\* EOFError of a leader that is dead: the pipe is empty and nobody holds its other end.
ReceiveEof(c) ==
  /\ call[c].pc = "receiving" /\ call[c].mail = "none" /\ ~LeaderAlive(c)
  /\ Update(c, Stopping(call[c], "eof", "PROVIDER_ERROR"))
  /\ UNCHANGED child

\* What a cancellation by the caller makes of an invocation: while it waits for the receiver
\* the except clause stops the process; while it stops one already, the cancellation is noted.
Cancelled(r) ==
  CASE r.pc = "receiving" -> [Stopping(r, "cancel", "cancelled") EXCEPT !.asked = TRUE]
    [] r.pc = "stopping" -> [r EXCEPT !.asked = TRUE, !.callerCancelled = TRUE]
    [] OTHER -> r

Cancel(c) ==
  /\ InProgress(c)
  /\ Update(c, Cancelled(call[c]))
  /\ UNCHANGED child

\* Mutant: the cancellation noted during the drain is not raised again.
CancelForgotten(r) == r.outcome

\* What the invocation ends with once the group is gone.
AfterStop(r) == IF r.callerCancelled THEN "cancelled" ELSE r.outcome

\* _stop_process has returned.
Stopped(c) == Update(c, Finally(call[c], FALSE, AfterStop(call[c])))

At(c, stage) == call[c].pc = "stopping" /\ call[c].stage = stage

Advance(c, stage) == Update(c, [call[c] EXCEPT !.stage = stage])

\* Mutant: a process that does not stop is stopped once more.
StopAgain(c) == Advance(c, "check")

\* _stop_process has raised RuntimeError, which the finally clause meets with a second attempt
\* unless it made this one; there the process stays in _processes.
StopFailed(c) ==
  Update(c, IF call[c].why = "finally"
            THEN [Finally(call[c], FALSE, "RuntimeError") EXCEPT !.owned = TRUE]
            ELSE Finally(call[c], LeaderAlive(c), "RuntimeError"))

\* Mutant: a dead leader is all there was.
GroupForgotten(c) == Stopped(c)

\* The leader is dead: the rest of its group is next.
LeaderGone(c) == Advance(c, "group")

\* SIGKILL, and whether its target is gone when the grace period ends.
Survives == {FALSE} \union {MaySurvive}

\* The leader is asked over the pipe, then terminated, then killed, with a join after each.
StopLeader(c) ==
  \/ /\ \E stage \in {"check", "asked", "termed", "killed"} : At(c, stage)
     /\ ~LeaderAlive(c) /\ LeaderGone(c) /\ UNCHANGED child
  \/ At(c, "check") /\ LeaderAlive(c) /\ Advance(c, "asked") /\ UNCHANGED child
  \/ At(c, "asked") /\ LeaderAlive(c) /\ Advance(c, "termed") /\ UNCHANGED child
  \/ /\ At(c, "termed") /\ LeaderAlive(c) /\ Advance(c, "killed")
     /\ \E survives \in Survives :
          child' = [child EXCEPT ![c].leader = IF survives THEN @ ELSE "dead",
                                 ![c].helpers = @ /\ survives]
  \/ At(c, "killed") /\ LeaderAlive(c) /\ StopFailed(c) /\ UNCHANGED child

\* _cleanup_process_group: SIGTERM, SIGKILL, and a bounded wait after each.
StopGroup(c) ==
  \/ /\ \E stage \in {"group", "groupTermed", "groupKilled"} : At(c, stage)
     /\ ~child[c].helpers /\ Stopped(c) /\ UNCHANGED child
  \/ At(c, "group") /\ child[c].helpers /\ Advance(c, "groupTermed") /\ UNCHANGED child
  \/ /\ At(c, "groupTermed") /\ child[c].helpers /\ Advance(c, "groupKilled")
     /\ \E survives \in Survives : child' = [child EXCEPT ![c].helpers = survives]
  \/ At(c, "groupKilled") /\ child[c].helpers /\ StopFailed(c) /\ UNCHANGED child

\* The process that made the call is gone; its children find out by themselves.
Lose(r) ==
  IF r.pc \in {"receiving", "stopping"}
  THEN [r EXCEPT !.pc = "lost", !.why = "none", !.stage = "none", !.callerCancelled = FALSE,
                 !.mail = "none"]
  ELSE r

ChildStep(c) ==
  (\E m \in Messages : Say(c, m)) \/ Spawn(c) \/ LeaderEnds(c) \/ HelpersEnd(c)

Progress(c) == Receive(c) \/ ReceiveEof(c) \/ StopLeader(c) \/ StopGroup(c)

LoseCall(c) == InProgress(c) /\ Update(c, Lose(call[c])) /\ UNCHANGED child

CallNext ==
  \E c \in Calls : ChildStep(c) \/ Invoke(c) \/ Progress(c) \/ Cancel(c) \/ LoseCall(c)

CallSpec == CallInit /\ [][CallNext]_callVars

-----------------------------------------------------------------------------
\* Correctness.

\* Whatever invoke ends with other than RuntimeError, no leader is alive behind it; and behind
\* a result, a backend error, unreadable bytes, an end of file or a cancellation no other member
\* of the group is either.
GroupGoneBeforeAnswer ==
  \A c \in Calls : call[c].pc = "ended" /\ call[c].outcome # "RuntimeError" =>
    /\ ~LeaderAlive(c)
    /\ call[c].outcome # "badProgress" => ~child[c].helpers

\* A cancellation that arrives before the invocation has ended, during the answer, the end of
\* file or the drain itself, is never turned into a result or an error of the provider.
CancelIsNeverAnswered ==
  \A c \in Calls : call[c].pc = "ended" /\ call[c].asked =>
    call[c].outcome \in {"cancelled", "RuntimeError"}

=============================================================================
