------------------------------ MODULE PrimeRpc ------------------------------
(***************************************************************************)
(* backends.py: PrimeAgentBackend.invoke.  One call starts Prime Agent in  *)
(* RPC mode, sends it the prompt and reads its events until one ends the   *)
(* session.  An answer counts only if the events before it prove where it  *)
(* came from: the prompt was accepted, the child that was asked for        *)
(* replied, it was then cleaned up by the exact recipe, and one final      *)
(* text followed, which the transcript repeats.  An event is what the      *)
(* adapter reads off it; the agent may send any event at any time.         *)
(***************************************************************************)
EXTENDS Naturals, FiniteSets, Sequences, Functions

CONSTANTS
  Ids,         \* identities of children
  CallIds,     \* identities of tool calls
  Updates,     \* a bound: the updates of a child that are sent, as its status and its reply
  Texts,       \* texts that are one JSON object
  LongTexts,   \* those above max_response_bytes
  None,
  Bytes,       \* the length of a line, by kind of event
  Snapshot,    \* the part of it that is progress snapshots, which are not charged
  Floor,       \* what an event is charged at least
  RawLimit, AccountedLimit, SemanticLimit, TelemetryLimit, ControlLimit,
  MaxOfKind,   \* a bound: how many events of a kind the log holds
  MaxIdle,     \* a bound: how many events the log leaves out
  MaxCancels   \* a bound: how often the caller cancels

Statuses == {"queued", "running", "done", "error", "cancelled"}

\* stray: a child update that is malformed or names another session, or a message of another
\* child.  message: a message of the child, as custom_message or in a message_end.  assistant: a
\* message_end of the parent; its text may be prose, and its turn may have failed.  agentEnd:
\* which child messages the transcript has, and the parent's texts behind them.  otherResponse:
\* the response to another command.  junk: a line that is no JSON object, or nests too deep.
Plain == {"stray", "message", "update", "toolUpdate", "otherResponse", "other", "junk"}

Kinds == Plain \union {"response", "child", "assistant", "toolStart", "toolEnd", "agentEnd"}

Events ==
  [kind : {"response"}, ok : BOOLEAN]
    \union {[kind |-> "child", id |-> i, status |-> u[1], replied |-> u[2]] :
              i \in Ids, u \in Updates}
    \union [kind : Plain]
    \union [kind : {"assistant"}, text : Texts \union {"prose", "failed"}]
    \union [kind : {"toolStart"}, recipe : {FALSE}, call : {None}]
    \union [kind : {"toolStart"}, recipe : {TRUE}, call : CallIds \union {None}]
    \union [kind : {"toolEnd"}, call : CallIds, marker : {FALSE}, child : {None}]
    \union [kind : {"toolEnd"}, call : CallIds, marker : {TRUE}, child : Ids \union {None}]
    \union [kind : {"agentEnd"}, children : {"none", "one", "other"},
            texts : {<<>>, <<"failed">>} \union {<<t>> : t \in Texts}
                      \union {<<t, t>> : t \in Texts}]

ASSUME UpdatesAssumption == Updates \subseteq Statuses \X {"yes", "no", "absent"}
ASSUME LengthsAssumption ==
  /\ \A k \in Kinds : Bytes[k] \in Nat /\ Snapshot[k] \in Nat
  /\ Floor \in Nat /\ MaxCancels \in Nat
ASSUME NoneAssumption == None \notin Ids \union CallIds \union Texts \union Statuses

VARIABLES
  s,       \* the locals of invoke and of run_rpc
  agent,   \* the process: none, alive or dead
  dir,     \* the session directory exists
  log      \* the events that may be evidence, in the order they were read

vars == <<s, agent, dir, log>>

\* OUTPUT_LIMIT_EXCEEDED, by its audit status.
Limits == {"RPC_EVENT_BYTES", "RAW_TRANSPORT", "ACCOUNTED_TRANSPORT", "SEMANTIC_EVENTS",
           "TELEMETRY_EVENTS", "CONTROL_BYTES", "FINAL_TEXT"}

Codes == {"MALFORMED_PROVIDER_OUTPUT", "PROVIDER_ERROR", "CONTEXT_LIMIT_EXCEEDED", "OSError",
          "BACKEND_TIMEOUT", "cancelled"} \union Limits

Session ==
  [pc : {"new", "starting", "prompting", "streaming", "settling", "unwinding", "ended"},
   outcome : {"none", "result"} \union Codes,
   stage : 0..6,                                 \* runtime_stage
   prompt : BOOLEAN,                             \* prompt_accepted
   message : BOOLEAN,                            \* child_message_received
   id : Ids \union {None},                       \* child_snapshot_id
   status : Statuses \union {None},              \* child_snapshot_status
   replied : BOOLEAN,                            \* child_snapshot_replied
   completed : BOOLEAN,                          \* child_snapshot_completed
   cleanup : CallIds \union {None},              \* cleanup_tool_call_id
   cleaned : BOOLEAN,                            \* cleanup_observed
   text : Texts \union {None},                   \* post_cleanup_terminal_text
   raw : Nat, accounted : Nat, semantic : Nat, telemetry : Nat, control : Nat,
   cancels : 0..MaxCancels, abandoned : BOOLEAN]

TypeOK ==
  /\ s \in Session
  /\ agent \in {"none", "alive", "dead"}
  /\ dir \in BOOLEAN

New == [pc |-> "new", outcome |-> "none", stage |-> 0, prompt |-> FALSE, message |-> FALSE,
        id |-> None, status |-> None, replied |-> FALSE, completed |-> FALSE,
        cleanup |-> None, cleaned |-> FALSE, text |-> None,
        raw |-> 0, accounted |-> 0, semantic |-> 0, telemetry |-> 0, control |-> 0,
        cancels |-> 0, abandoned |-> FALSE]

Larger(a, b) == IF a < b THEN b ELSE a

-----------------------------------------------------------------------------
\* run_rpc.

\* run_rpc is left: of what it has read only the stage is reported.
Leave(r, pc, outcome) ==
  [New EXCEPT !.pc = pc, !.outcome = outcome, !.stage = r.stage, !.cancels = r.cancels]

Fail(r, code) == Leave(r, "unwinding", code)

Malformed(r) == Fail(r, "MALFORMED_PROVIDER_OUTPUT")

\* _prime_rpc_accounted_event_bytes
Discounted == {"update", "child", "toolUpdate"}

Accounted(kind) ==
  Larger(Floor, IF kind \in Discounted THEN Bytes[kind] - Snapshot[kind] ELSE Bytes[kind])

\* The transport counters, which every line passes before it is looked at.
Counted(r, kind) ==
  [r EXCEPT !.raw = @ + Bytes[kind],
            !.accounted = @ + Accounted(kind),
            !.telemetry = IF kind = "update" THEN @ + 1 ELSE @,
            !.semantic = IF kind = "update" THEN @ ELSE @ + 1,
            !.control = IF kind \in {"response", "otherResponse"} THEN @ + Bytes[kind] ELSE @]

\* The limits on what was read, in the order of the checks.
Exceeded(r) ==
  IF r.accounted > AccountedLimit THEN "ACCOUNTED_TRANSPORT"
  ELSE IF r.telemetry > TelemetryLimit THEN "TELEMETRY_EVENTS"
  ELSE IF r.semantic > SemanticLimit THEN "SEMANTIC_EVENTS"
  ELSE IF r.control > ControlLimit THEN "CONTROL_BYTES"
  ELSE "none"

\* Mutant: the stage is that of the last event.
AtLast(r, stage) == [r EXCEPT !.stage = stage]

AtLeast(r, stage) == [r EXCEPT !.stage = Larger(@, stage)]

Custody(r) == r.message \/ r.replied

OnResponse(r, e) ==
  IF e.ok THEN AtLeast([r EXCEPT !.prompt = TRUE], 2) ELSE Fail(r, "PROVIDER_ERROR")

Rank == [queued |-> 0, running |-> 1, done |-> 2]

\* The reply is taken back, or the status falls back; after cancelled it may be anything.
Regressed(r, e) ==
  \/ r.replied /\ e.replied = "no"
  \/ {r.status, e.status} \subseteq DOMAIN Rank /\ Rank[e.status] < Rank[r.status]
  \/ r.status = "done" /\ e.status \notin {"done", "cancelled"}

\* The child is lost before its cleanup has begun.
LostChild(r, e) == e.status = "error" \/ (e.status = "cancelled" /\ r.cleanup = None)

\* Behind the cleanup only the cancellation of a child that had completed may follow.
CancelledLate(r, e) == e.status = "cancelled" /\ r.replied /\ r.completed

OnChild(r, e) ==
  LET seen == AtLeast([r EXCEPT !.id = e.id], 3)
      replied == r.replied \/ e.replied = "yes"
      next == [seen EXCEPT !.replied = replied, !.completed = @ \/ e.status = "done",
                           !.status = e.status]
  IN IF r.id \notin {None, e.id} THEN Malformed(r)
     ELSE IF r.cleaned THEN IF CancelledLate(r, e) THEN seen ELSE Malformed(seen)
     ELSE IF Regressed(r, e) THEN Malformed(seen)
     ELSE IF LostChild(r, e) THEN Fail(seen, "PROVIDER_ERROR")
     ELSE IF replied THEN AtLeast(next, 4) ELSE next

OnMessage(r) == IF r.cleaned THEN Malformed(r) ELSE AtLeast([r EXCEPT !.message = TRUE], 4)

\* Before the cleanup a JSON text is premature, behind it anything else is wrong.
OnAssistant(r, e) ==
  IF e.text = "failed" THEN Fail(r, "PROVIDER_ERROR")
  ELSE IF ~r.cleaned THEN IF e.text = "prose" THEN r ELSE Malformed(r)
  ELSE IF e.text = "prose" \/ r.text # None THEN Malformed(r)
  ELSE [r EXCEPT !.text = e.text]

\* The recipe may start once, behind the reply.
MayCleanUp(r, e) == r.prompt /\ Custody(r) /\ r.cleanup = None /\ e.call # None

OnToolStart(r, e) ==
  IF r.cleaned THEN Malformed(r)
  ELSE IF ~e.recipe THEN r
  ELSE IF MayCleanUp(r, e) THEN [r EXCEPT !.cleanup = e.call] ELSE Malformed(r)

\* The child's part is complete: it sent its message, or was seen to complete.
Complete(r) == r.message \/ r.completed

\* Mutant: the marker is looked for, the identity is not.
CleanedSomeone(r, e) == e.marker /\ Complete(r)

\* The result of the recipe proves that this child was removed.
CleanedUp(r, e) == e.marker /\ r.id \in {None, e.child} /\ Complete(r)

OnToolEnd(r, e) ==
  IF r.cleaned THEN Malformed(r)
  ELSE IF e.call # r.cleanup THEN r
  ELSE IF CleanedUp(r, e) THEN [r EXCEPT !.cleaned = TRUE, !.stage = 5] ELSE Malformed(r)

\* An agent_end before the child's part is complete ends a turn, not the session.
OnAgentEnd(r, e) ==
  IF e.children # (IF r.message THEN "one" ELSE "none") THEN Malformed(r)
  ELSE IF ~(r.prompt /\ Custody(r) /\ Complete(r)) THEN r
  ELSE IF ~r.cleaned THEN Malformed(r)
  ELSE IF e.texts = <<"failed">> THEN Fail(r, "PROVIDER_ERROR")
  ELSE IF r.text = None \/ e.texts # <<r.text>> THEN Malformed(r)
  ELSE IF r.text \in LongTexts THEN Fail(r, "FINAL_TEXT")
  ELSE [Leave(r, "settling", "result") EXCEPT !.stage = 6]

Handled(r, e) ==
  CASE e.kind = "response" -> OnResponse(r, e)
    [] e.kind = "child" -> OnChild(r, e)
    [] e.kind = "message" -> OnMessage(r)
    [] e.kind = "assistant" -> OnAssistant(r, e)
    [] e.kind = "toolStart" -> OnToolStart(r, e)
    [] e.kind = "toolEnd" -> OnToolEnd(r, e)
    [] e.kind = "agentEnd" -> OnAgentEnd(r, e)
    [] e.kind = "stray" -> Malformed(r)
    [] OTHER -> r

\* One event, as run_rpc takes it.  A line over the raw limit is not even parsed.
After(r, e) ==
  IF r.raw > RawLimit THEN Fail(r, "RAW_TRANSPORT")
  ELSE IF e.kind = "junk" THEN Malformed(r)
  ELSE IF Exceeded(r) # "none" THEN Fail(r, Exceeded(r))
  ELSE Handled(r, e)

OfKind(kind) == {i \in 1..Len(log) : log[i].kind = kind}

\* Events that say nothing: snapshots, prose, the end of an early turn, and tools other than the
\* recipe as long as it has not printed its marker.
Idle(r, e) ==
  \/ e.kind \in {"update", "toolUpdate", "otherResponse", "other"}
  \/ e.kind = "assistant" /\ e.text = "prose"
  \/ e.kind = "agentEnd" /\ r.pc = "streaming"
  \/ /\ \A i \in OfKind("toolEnd") : ~log[i].marker
     /\ (e.kind = "toolStart" /\ ~e.recipe) \/ (e.kind = "toolEnd" /\ ~e.marker)

Read(e) ==
  /\ s.pc = "streaming"
  /\ s' = After(Counted(s, e.kind), e)
  /\ log' = IF s'.pc # "streaming" /\ e.kind # "agentEnd" THEN <<>>
            ELSE IF Idle(s', e) THEN log ELSE Append(log, e)
  /\ s'.pc = "streaming" => /\ s'.semantic + s'.telemetry <= Len(log') + MaxIdle
                            /\ Cardinality(OfKind(e.kind)') <= MaxOfKind[e.kind]
  /\ UNCHANGED <<agent, dir>>

-----------------------------------------------------------------------------
\* invoke around it.

\* The prompt fits into one command, and a directory is made for the session.
Invoke ==
  /\ s.pc = "new"
  /\ \/ s' = Leave(s, "ended", "CONTEXT_LIMIT_EXCEEDED") /\ UNCHANGED dir
     \/ s' = [s EXCEPT !.pc = "starting"] /\ dir' = TRUE
  /\ UNCHANGED <<agent, log>>

\* The arguments fit, and the process starts.
Start ==
  /\ s.pc = "starting"
  /\ \/ /\ \E code \in {"CONTEXT_LIMIT_EXCEEDED", "OSError"} : s' = Fail(s, code)
        /\ UNCHANGED agent
     \/ s' = [s EXCEPT !.pc = "prompting"] /\ agent' = "alive"
  /\ UNCHANGED <<dir, log>>

Prompt ==
  /\ s.pc = "prompting"
  /\ s' \in {[s EXCEPT !.pc = "streaming", !.stage = 1], Fail(s, "OSError")}
  /\ UNCHANGED <<agent, dir, log>>

\* The session ends without an answer.
Interrupted(code) == s' = Fail(s, code) /\ log' = <<>> /\ UNCHANGED dir

LineTooLong == s.pc = "streaming" /\ Interrupted("RPC_EVENT_BYTES") /\ UNCHANGED agent

\* An empty line: when the process has exited, its status tells a failure from an end too early.
EndOfStream ==
  /\ s.pc = "streaming"
  /\ \E code \in {"PROVIDER_ERROR", "MALFORMED_PROVIDER_OUTPUT"} : Interrupted(code)
  /\ agent' = "dead"

\* wait_for covers reading and settling.
Timeout ==
  /\ s.pc \in {"streaming", "settling"}
  /\ Interrupted("BACKEND_TIMEOUT") /\ UNCHANGED agent

\* A cancellation ends the session too; one that arrives while the finally clause waits for the
\* process or for stderr ends that clause.
Cancel ==
  /\ s.cancels < MaxCancels
  /\ LET r == [s EXCEPT !.cancels = @ + 1] IN
     \/ /\ s.pc \in {"starting", "prompting", "streaming", "settling"}
        /\ s' = Fail(r, "cancelled")
     \/ /\ s.pc = "unwinding" /\ agent # "none"
        /\ s' = [r EXCEPT !.pc = "ended", !.outcome = "cancelled", !.abandoned = TRUE]
  /\ log' = <<>>
  /\ UNCHANGED <<agent, dir>>

\* _terminate_process: SIGTERM, a grace period, SIGKILL.  (A process that ends by itself is met
\* here too.)
Terminate ==
  /\ s.pc \in {"settling", "unwinding"} /\ agent = "alive"
  /\ agent' = "dead"
  /\ UNCHANGED <<s, dir, log>>

\* run_rpc_and_settle returns once the process is gone.
Settle ==
  /\ s.pc = "settling" /\ agent = "dead"
  /\ s' = [s EXCEPT !.pc = "unwinding"]
  /\ UNCHANGED <<agent, dir, log>>

\* Mutant: the end does not wait for the process.
FinishAtOnce ==
  /\ s.pc = "unwinding"
  /\ s' = [s EXCEPT !.pc = "ended"]
  /\ dir' = FALSE
  /\ UNCHANGED <<agent, log>>

\* The end of the finally clause.
Finish ==
  /\ s.pc = "unwinding" /\ agent # "alive"
  /\ s' = [s EXCEPT !.pc = "ended"]
  /\ dir' = FALSE
  /\ UNCHANGED <<agent, log>>

-----------------------------------------------------------------------------

Init == s = New /\ agent = "none" /\ dir = FALSE /\ log = <<>>

Next ==
  \/ Invoke \/ Start \/ Prompt
  \/ \E e \in Events : Read(e)
  \/ LineTooLong \/ EndOfStream \/ Timeout \/ Cancel
  \/ Terminate \/ Settle \/ Finish

Spec == Init /\ [][Next]_vars

-----------------------------------------------------------------------------
\* Correctness.

Accepted(e) == e.kind = "response" /\ e.ok

Replies(e) == e.kind = "message" \/ (e.kind = "child" /\ e.replied = "yes")

Done(e) == e.kind = "child" /\ e.status = "done"

\* What docs/specification.md:150-167 asks of a session: in this order an accepted prompt and a
\* reply of the child, the one start of the recipe, its result, which names the child that was
\* seen, and one text; nothing of the child but its cancellation and no tool behind the result;
\* and, unless the child sent a message, one that was seen to complete.
ProvenBy(t, start, end, final) ==
  /\ start < end /\ end < final /\ final < Len(log)
  /\ start \in OfKind("toolStart") /\ log[start].recipe
  /\ \A i \in OfKind("toolStart") : log[i].recipe => i = start
  /\ \E k \in 1..(start - 1) : Accepted(log[k])
  /\ \E k \in 1..(start - 1) : Replies(log[k])
  /\ end \in OfKind("toolEnd") /\ log[end].marker /\ log[end].call = log[start].call
  /\ \A i \in OfKind("child") :
       /\ \A k \in OfKind("child") : log[k].id = log[i].id
       /\ log[i].status # "error"
       /\ i < end => log[i].id = log[end].child
       /\ log[i].status = "cancelled" => i > start
  /\ \A i \in (end + 1)..Len(log) :
       /\ log[i].kind \notin {"message", "toolStart", "toolEnd"}
       /\ log[i].kind = "child" => log[i].status = "cancelled"
       /\ log[i].kind = "assistant" => i = final
  /\ final \in OfKind("assistant") /\ log[final].text = t
  /\ OfKind("message") # {} \/ \E k \in 1..(end - 1) : Done(log[k])
  /\ log[Len(log)].children = IF OfKind("message") = {} THEN "none" ELSE "one"
  /\ log[Len(log)].texts = <<t>>

Proves(t) == \E start, end, final \in 1..Len(log) : ProvenBy(t, start, end, final)

\* A call that an agent_end has ended, within the limits, has an answer exactly if the events it
\* has read prove the text.
AnswerIsProven ==
  log # <<>> /\ log[Len(log)].kind = "agentEnd" /\ s.pc # "streaming" =>
    /\ s.outcome = "result" => \E t \in Texts : Proves(t)
    /\ (\E t \in Texts : Proves(t)) => s.outcome \in {"result"} \union Limits

\* docs/runtime-robustness.md:38-46: the stage a call is reported in is that of the strongest
\* evidence it has read, in whatever order it came.
StageIsEarned ==
  s.pc = "streaming" =>
    /\ s.stage = 5 <=> s.cleaned
    /\ s.stage >= 4 <=> \E i \in DOMAIN log : Replies(log[i])
    /\ s.stage >= 3 <=> OfKind("child") \union OfKind("message") # {}
    /\ s.stage >= 2 <=> s.stage >= 3 \/ \E i \in OfKind("response") : log[i].ok

\* However the call ends, the process is gone and its directory removed, unless the caller
\* cancelled the cleanup itself.
NothingLeftBehind == s.pc = "ended" /\ ~s.abandoned => agent # "alive" /\ ~dir

=============================================================================
