--------------------------- MODULE PrimeRpcProofs ---------------------------
(***************************************************************************)
(* Proofs about PrimeRpc for any children, tool calls, texts, lengths and  *)
(* limits, and for sessions of any number of events.                       *)
(***************************************************************************)
EXTENDS PrimeRpc, TLAPS

-----------------------------------------------------------------------------
(* Types *)

\* What an event carries, by its kind.
LEMMA EventFields ==
  ASSUME NEW e \in Events
  PROVE  /\ e.kind \in Kinds
         /\ e.kind = "response" => e.ok \in BOOLEAN
         /\ e.kind = "child" => /\ e.id \in Ids /\ e.status \in Statuses
                                /\ e.replied \in {"yes", "no", "absent"}
         /\ e.kind = "assistant" => e.text \in Texts \union {"prose", "failed"}
         /\ e.kind = "toolStart" => e.call \in CallIds \union {None}
         /\ e.kind = "toolEnd" => e.call \in CallIds
<1> DEFINE A == [kind : {"response"}, ok : BOOLEAN]
           B == {[kind |-> "child", id |-> i, status |-> u[1], replied |-> u[2]] :
                   i \in Ids, u \in Updates}
           C == [kind : Plain]
           D == [kind : {"assistant"}, text : Texts \union {"prose", "failed"}]
           E == [kind : {"toolStart"}, recipe : {FALSE}, call : {None}]
           F == [kind : {"toolStart"}, recipe : {TRUE}, call : CallIds \union {None}]
           G == [kind : {"toolEnd"}, call : CallIds, marker : {FALSE}, child : {None}]
           H == [kind : {"toolEnd"}, call : CallIds, marker : {TRUE}, child : Ids \union {None}]
           I == [kind : {"agentEnd"}, children : {"none", "one", "other"},
                 texts : {<<>>, <<"failed">>} \union {<<t>> : t \in Texts}
                           \union {<<t, t>> : t \in Texts}]
           Fields ==
             /\ e.kind \in Kinds
             /\ e.kind = "response" => e.ok \in BOOLEAN
             /\ e.kind = "child" => /\ e.id \in Ids /\ e.status \in Statuses
                                    /\ e.replied \in {"yes", "no", "absent"}
             /\ e.kind = "assistant" => e.text \in Texts \union {"prose", "failed"}
             /\ e.kind = "toolStart" => e.call \in CallIds \union {None}
             /\ e.kind = "toolEnd" => e.call \in CallIds
<1>1. e \in A => Fields
  BY DEF Kinds
<1>2. ASSUME e \in B PROVE Fields
  <2>1. PICK i \in Ids, u \in Updates :
          e = [kind |-> "child", id |-> i, status |-> u[1], replied |-> u[2]]
    BY <1>2
  <2>2. u[1] \in Statuses /\ u[2] \in {"yes", "no", "absent"}
    BY UpdatesAssumption
  <2> QED
    BY <2>1, <2>2 DEF Kinds
<1>3. e \in C => Fields
  BY DEF Kinds, Plain
<1>4. e \in D => Fields
  BY DEF Kinds
<1>5. e \in E \/ e \in F => Fields
  BY DEF Kinds
<1>6. e \in G \/ e \in H => Fields
  BY DEF Kinds
<1>7. e \in I => Fields
  BY DEF Kinds
<1>8. Events = A \union B \union C \union D \union E \union F \union G \union H \union I
  BY DEF Events
<1> HIDE DEF A, B, C, D, E, F, G, H, I, Fields
<1>9. Fields
  BY <1>1, <1>2, <1>3, <1>4, <1>5, <1>6, <1>7, <1>8
<1> QED
  BY <1>9 DEF Fields

LEMMA NewTyped == New \in Session
  BY LengthsAssumption DEF New, Session

\* Leaving run_rpc keeps the stage and the cancellations and forgets the rest.
LEMMA LeaveTyped ==
  ASSUME NEW r \in Session,
         NEW pc \in {"settling", "unwinding", "ended"}, NEW o \in {"result"} \union Codes
  PROVE  /\ Leave(r, pc, o) \in Session
         /\ Leave(r, pc, o).pc = pc /\ Leave(r, pc, o).outcome = o
         /\ Leave(r, pc, o).stage = r.stage /\ ~Leave(r, pc, o).abandoned
<1>1. r.stage \in 0..6 /\ r.cancels \in 0..MaxCancels
  BY DEF Session
<1>2. /\ Leave(r, pc, o).pc = pc /\ Leave(r, pc, o).outcome = o
      /\ Leave(r, pc, o).stage = r.stage /\ ~Leave(r, pc, o).abandoned
  BY DEF Leave, New
<1>3. pc \in {"new", "starting", "prompting", "streaming", "settling", "unwinding", "ended"}
  OBVIOUS
<1>4. Leave(r, pc, o) \in Session
  BY <1>1, <1>3 DEF Leave, New, Session
<1> QED
  BY <1>2, <1>4

LEMMA FailTyped ==
  ASSUME NEW r \in Session, NEW o \in Codes
  PROVE  Fail(r, o) \in Session /\ Fail(r, o).pc = "unwinding" /\ ~Fail(r, o).abandoned
<1>1. "unwinding" \in {"settling", "unwinding", "ended"} /\ o \in {"result"} \union Codes
  OBVIOUS
<1> QED
  BY <1>1, LeaveTyped DEF Fail

LEMMA MalformedTyped ==
  ASSUME NEW r \in Session
  PROVE  Malformed(r) \in Session /\ Malformed(r).pc = "unwinding" /\ ~Malformed(r).abandoned
  BY FailTyped DEF Malformed, Codes

\* q has what r has of everything that was read, but the stage.
SameEvidence(r, q) ==
  /\ q.pc = r.pc /\ q.prompt = r.prompt /\ q.message = r.message /\ q.id = r.id
  /\ q.replied = r.replied /\ q.cleanup = r.cleanup /\ q.cleaned = r.cleaned
  /\ q.abandoned = r.abandoned

\* The transport counters move, the evidence does not.
LEMMA CountedTyped ==
  ASSUME NEW r \in Session, NEW k \in Kinds
  PROVE  /\ Counted(r, k) \in Session
         /\ SameEvidence(r, Counted(r, k)) /\ Counted(r, k).stage = r.stage
<1>1. Bytes[k] \in Nat /\ Snapshot[k] \in Nat /\ Floor \in Nat
  BY LengthsAssumption
<1>2. Accounted(k) \in Nat
  BY <1>1 DEF Accounted, Larger
<1>3. r.raw \in Nat /\ r.accounted \in Nat /\ r.semantic \in Nat /\ r.telemetry \in Nat
      /\ r.control \in Nat
  BY DEF Session
<1> DEFINE raw == r.raw + Bytes[k]
           accounted == r.accounted + Accounted(k)
           telemetry == IF k = "update" THEN r.telemetry + 1 ELSE r.telemetry
           semantic == IF k = "update" THEN r.semantic ELSE r.semantic + 1
           control == IF k \in {"response", "otherResponse"} THEN r.control + Bytes[k]
                      ELSE r.control
           q == [r EXCEPT !.raw = raw, !.accounted = accounted, !.telemetry = telemetry,
                          !.semantic = semantic, !.control = control]
<1>4. Counted(r, k) = q
  BY DEF Counted
<1>5. /\ raw \in Nat /\ accounted \in Nat /\ telemetry \in Nat /\ semantic \in Nat
      /\ control \in Nat
  BY <1>1, <1>2, <1>3
<1> HIDE DEF raw, accounted, telemetry, semantic, control
<1>6. q \in Session
  BY <1>5 DEF Session
<1>7. SameEvidence(r, q) /\ q.stage = r.stage
  BY DEF Session, SameEvidence
<1> QED
  BY <1>4, <1>6, <1>7

LEMMA AtLeastTyped ==
  ASSUME NEW r \in Session, NEW n \in 0..6
  PROVE  /\ AtLeast(r, n) \in Session
         /\ AtLeast(r, n).stage = IF r.stage < n THEN n ELSE r.stage
         /\ SameEvidence(r, AtLeast(r, n))
  BY DEF AtLeast, Larger, Session, SameEvidence

-----------------------------------------------------------------------------
(* One event *)

\* The stage of a session that is being read follows from what it has read.
StageOK(r) ==
  /\ r.stage \in 0..5
  /\ r.stage = 5 <=> r.cleaned
  /\ r.stage >= 4 <=> r.message \/ r.replied
  /\ r.stage >= 3 <=> r.message \/ r.id # None
  /\ r.stage >= 2 <=> r.message \/ r.id # None \/ r.prompt
  /\ r.replied => r.id # None
  /\ r.cleanup # None => r.prompt /\ (r.message \/ r.replied)

\* q is r with the evidence of event e.
Grown(r, q, e) ==
  /\ q.message <=> r.message \/ e.kind = "message"
  /\ q.replied <=> r.replied \/ (e.kind = "child" /\ e.replied = "yes")
  /\ q.id # None <=> r.id # None \/ e.kind = "child"
  /\ q.prompt <=> r.prompt \/ (e.kind = "response" /\ e.ok)
  /\ StageOK(q)

\* What becomes of a session with event e: it goes on with more evidence, or it is left.
Outcome(r, q, e) ==
  /\ q \in Session
  /\ q.pc \in {"streaming", "settling", "unwinding"}
  /\ q.pc = "streaming" => Grown(r, q, e)

LEMMA FailOutcome ==
  ASSUME NEW r, NEW q \in Session, NEW e, NEW o \in Codes
  PROVE  Outcome(r, Fail(q, o), e) /\ Outcome(r, Malformed(q), e)
<1>1. Fail(q, o) \in Session /\ Fail(q, o).pc = "unwinding"
  BY FailTyped
<1>2. Malformed(q) \in Session /\ Malformed(q).pc = "unwinding"
  BY MalformedTyped
<1> QED
  BY <1>1, <1>2 DEF Outcome

LEMMA CodeNames ==
  /\ "PROVIDER_ERROR" \in Codes /\ "FINAL_TEXT" \in Codes /\ "RAW_TRANSPORT" \in Codes
  /\ "MALFORMED_PROVIDER_OUTPUT" \in Codes /\ "OSError" \in Codes /\ "cancelled" \in Codes
  /\ "CONTEXT_LIMIT_EXCEEDED" \in Codes /\ "BACKEND_TIMEOUT" \in Codes /\ "RPC_EVENT_BYTES" \in Codes
  /\ \A r : Exceeded(r) # "none" => Exceeded(r) \in Codes
  BY DEF Codes, Limits, Exceeded

\* A session that keeps its evidence on an event that carries none.
LEMMA SameOutcome ==
  ASSUME NEW r \in Session, r.pc = "streaming", StageOK(r), NEW e,
         e.kind \notin {"message", "child", "response"}
  PROVE  Outcome(r, r, e)
  BY DEF Outcome, Grown

LEMMA ResponseOutcome ==
  ASSUME NEW r \in Session, r.pc = "streaming", StageOK(r), NEW e \in Events, e.kind = "response"
  PROVE  Outcome(r, OnResponse(r, e), e)
<1>1. CASE e.ok
  <2> DEFINE p == [r EXCEPT !.prompt = TRUE]
             q == AtLeast(p, 2)
  <2>1. /\ p \in Session /\ p.prompt /\ p.stage = r.stage /\ p.pc = "streaming"
        /\ p.message = r.message /\ p.id = r.id /\ p.replied = r.replied
        /\ p.cleanup = r.cleanup /\ p.cleaned = r.cleaned
    BY DEF Session
  <2> HIDE DEF p
  <2>2. /\ q \in Session /\ q.stage = (IF r.stage < 2 THEN 2 ELSE r.stage)
        /\ SameEvidence(p, q)
    BY <2>1, AtLeastTyped
  <2>3. OnResponse(r, e) = q
    BY <1>1 DEF OnResponse, p
  <2> HIDE DEF q
  <2>4. /\ q.prompt /\ q.pc = "streaming" /\ q.message = r.message /\ q.id = r.id
        /\ q.replied = r.replied /\ q.cleanup = r.cleanup /\ q.cleaned = r.cleaned
    BY <2>1, <2>2 DEF SameEvidence
  <2>5. StageOK(q)
    BY <2>2, <2>4 DEF StageOK
  <2>6. Grown(r, q, e)
    BY <1>1, <2>4, <2>5 DEF Grown
  <2> QED
    BY <2>2, <2>3, <2>4, <2>6 DEF Outcome
<1>2. CASE ~e.ok
  BY <1>2, FailOutcome, CodeNames DEF OnResponse
<1> QED
  BY <1>1, <1>2

LEMMA MessageOutcome ==
  ASSUME NEW r \in Session, r.pc = "streaming", StageOK(r), NEW e \in Events, e.kind = "message"
  PROVE  Outcome(r, OnMessage(r), e)
<1>1. CASE ~r.cleaned
  <2> DEFINE p == [r EXCEPT !.message = TRUE]
             q == AtLeast(p, 4)
  <2>1. /\ p \in Session /\ p.message /\ p.stage = r.stage /\ p.pc = "streaming"
        /\ p.prompt = r.prompt /\ p.id = r.id /\ p.replied = r.replied
        /\ p.cleanup = r.cleanup /\ p.cleaned = r.cleaned
    BY DEF Session
  <2> HIDE DEF p
  <2>2. /\ q \in Session /\ q.stage = (IF r.stage < 4 THEN 4 ELSE r.stage)
        /\ SameEvidence(p, q)
    BY <2>1, AtLeastTyped
  <2>3. OnMessage(r) = q
    BY <1>1 DEF OnMessage, p
  <2> HIDE DEF q
  <2>4. /\ q.message /\ q.pc = "streaming" /\ q.prompt = r.prompt /\ q.id = r.id
        /\ q.replied = r.replied /\ q.cleanup = r.cleanup /\ q.cleaned = r.cleaned
    BY <2>1, <2>2 DEF SameEvidence
  <2>5. StageOK(q)
    BY <2>2, <2>4 DEF StageOK
  <2>6. Grown(r, q, e)
    BY <2>4, <2>5 DEF Grown
  <2> QED
    BY <2>2, <2>3, <2>4, <2>6 DEF Outcome
<1>2. CASE r.cleaned
  BY <1>2, FailOutcome, CodeNames DEF OnMessage
<1> QED
  BY <1>1, <1>2

LEMMA ChildOutcome ==
  ASSUME NEW r \in Session, r.pc = "streaming", StageOK(r), NEW e \in Events, e.kind = "child"
  PROVE  Outcome(r, OnChild(r, e), e)
<1> DEFINE p == [r EXCEPT !.id = e.id]
           seen == AtLeast(p, 3)
           replied == r.replied \/ e.replied = "yes"
           completed == seen.completed \/ e.status = "done"
           next == [seen EXCEPT !.replied = replied, !.completed = completed,
                                !.status = e.status]
           last == AtLeast(next, 4)
<1>1. e.id \in Ids /\ e.id # None /\ e.status \in Statuses
  BY EventFields, NoneAssumption
<1>2. /\ p \in Session /\ p.id = e.id /\ p.stage = r.stage /\ p.pc = "streaming"
      /\ p.message = r.message /\ p.prompt = r.prompt /\ p.replied = r.replied
      /\ p.cleanup = r.cleanup /\ p.cleaned = r.cleaned
  BY <1>1 DEF Session
<1> HIDE DEF p
<1>3. /\ seen \in Session /\ seen.stage = (IF r.stage < 3 THEN 3 ELSE r.stage)
      /\ SameEvidence(p, seen)
  BY <1>2, AtLeastTyped
<1>4. replied \in BOOLEAN /\ completed \in BOOLEAN
  BY <1>3 DEF Session
<1> HIDE DEF seen, replied, completed
<1>5. /\ seen.id = e.id /\ seen.pc = "streaming" /\ seen.message = r.message
      /\ seen.prompt = r.prompt /\ seen.replied = r.replied /\ seen.cleanup = r.cleanup
      /\ seen.cleaned = r.cleaned
  BY <1>2, <1>3 DEF SameEvidence
<1>a. next \in Session
  BY <1>1, <1>3, <1>4 DEF Session
<1>b. /\ next.replied = replied /\ next.stage = seen.stage /\ next.id = seen.id
      /\ next.pc = seen.pc /\ next.message = seen.message /\ next.prompt = seen.prompt
      /\ next.cleanup = seen.cleanup /\ next.cleaned = seen.cleaned
  BY <1>3 DEF Session
<1> HIDE DEF next
<1>6. /\ next \in Session /\ next.replied = replied /\ next.stage = seen.stage /\ next.id = e.id
      /\ next.pc = "streaming" /\ next.message = r.message /\ next.prompt = r.prompt
      /\ next.cleanup = r.cleanup /\ next.cleaned = r.cleaned
  BY <1>5, <1>a, <1>b
<1>7. /\ last \in Session /\ last.stage = (IF next.stage < 4 THEN 4 ELSE next.stage)
      /\ SameEvidence(next, last)
  BY <1>6, AtLeastTyped
<1> HIDE DEF last
<1>8. /\ last.replied = replied /\ last.id = e.id
      /\ last.pc = "streaming" /\ last.message = r.message /\ last.prompt = r.prompt
      /\ last.cleanup = r.cleanup /\ last.cleaned = r.cleaned
  BY <1>6, <1>7 DEF SameEvidence
<1>9. OnChild(r, e) =
        IF r.id \notin {None, e.id} THEN Malformed(r)
        ELSE IF r.cleaned THEN IF CancelledLate(r, e) THEN seen ELSE Malformed(seen)
        ELSE IF Regressed(r, e) THEN Malformed(seen)
        ELSE IF LostChild(r, e) THEN Fail(seen, "PROVIDER_ERROR")
        ELSE IF replied THEN last ELSE next
  BY DEF OnChild, p, seen, replied, completed, next, last
<1>10. \A q \in Session : Outcome(r, Malformed(q), e) /\ Outcome(r, Fail(q, "PROVIDER_ERROR"), e)
  BY FailOutcome, CodeNames
<1>11. CASE r.cleaned /\ CancelledLate(r, e)
  <2>1. StageOK(seen)
    BY <1>1, <1>3, <1>5, <1>11 DEF StageOK, CancelledLate
  <2>2. Grown(r, seen, e)
    BY <1>1, <1>5, <1>11, <2>1 DEF Grown, CancelledLate
  <2>3. Outcome(r, seen, e)
    BY <1>3, <1>5, <2>2 DEF Outcome
  <2> QED
    BY <1>9, <1>10, <1>11, <2>3
<1>12. CASE ~r.cleaned /\ replied
  <2>1. StageOK(last)
    BY <1>1, <1>3, <1>6, <1>7, <1>8, <1>12 DEF StageOK
  <2>2. last.replied <=> r.replied \/ e.replied = "yes"
    BY <1>4, <1>8 DEF replied
  <2>3. Grown(r, last, e)
    BY <1>1, <1>8, <2>1, <2>2 DEF Grown
  <2>4. Outcome(r, last, e)
    BY <1>7, <1>8, <2>3 DEF Outcome
  <2> QED
    BY <1>3, <1>9, <1>10, <1>12, <2>4
<1>13. CASE ~r.cleaned /\ ~replied
  <2>1. ~r.replied /\ e.replied # "yes"
    BY <1>13 DEF replied
  <2>2. StageOK(next)
    BY <1>1, <1>3, <1>6, <1>13, <2>1 DEF StageOK
  <2>3. Grown(r, next, e)
    BY <1>1, <1>6, <1>13, <2>1, <2>2 DEF Grown
  <2>4. Outcome(r, next, e)
    BY <1>6, <2>3 DEF Outcome
  <2> QED
    BY <1>3, <1>9, <1>10, <1>13, <2>4
<1>14. CASE r.cleaned /\ ~CancelledLate(r, e)
  BY <1>3, <1>9, <1>10, <1>14
<1> QED
  BY <1>11, <1>12, <1>13, <1>14

LEMMA ToolOutcome ==
  ASSUME NEW r \in Session, r.pc = "streaming", StageOK(r), NEW e \in Events,
         e.kind \in {"toolStart", "toolEnd"}
  PROVE  /\ e.kind = "toolStart" => Outcome(r, OnToolStart(r, e), e)
         /\ e.kind = "toolEnd" => Outcome(r, OnToolEnd(r, e), e)
<1>1. Outcome(r, r, e) /\ Outcome(r, Malformed(r), e)
  BY SameOutcome, FailOutcome, CodeNames
<1>2. ASSUME e.kind = "toolStart", MayCleanUp(r, e)
      PROVE  Outcome(r, [r EXCEPT !.cleanup = e.call], e)
  <2> DEFINE q == [r EXCEPT !.cleanup = e.call]
  <2>1. e.call \in CallIds \union {None}
    BY <1>2, EventFields
  <2>2. /\ q \in Session /\ q.cleanup = e.call /\ q.pc = "streaming" /\ q.stage = r.stage
        /\ q.message = r.message /\ q.prompt = r.prompt /\ q.replied = r.replied /\ q.id = r.id
        /\ q.cleaned = r.cleaned
    BY <2>1 DEF Session
  <2> HIDE DEF q
  <2>3. StageOK(q)
    BY <1>2, <2>2 DEF StageOK, MayCleanUp, Custody
  <2>4. Grown(r, q, e)
    BY <2>2, <2>3, <1>2 DEF Grown
  <2>5. Outcome(r, q, e)
    BY <2>2, <2>4 DEF Outcome
  <2> QED
    BY <2>5 DEF q
<1>3. ASSUME e.kind = "toolEnd", e.call = r.cleanup
      PROVE  Outcome(r, [r EXCEPT !.cleaned = TRUE, !.stage = 5], e)
  <2> DEFINE q == [r EXCEPT !.cleaned = TRUE, !.stage = 5]
  <2>1. r.cleanup # None
    BY <1>3, EventFields, NoneAssumption
  <2>a. q \in Session
    <3> DEFINE p == [r EXCEPT !.cleaned = TRUE]
    <3>1. p \in Session
      BY DEF Session
    <3>2. q = [p EXCEPT !.stage = 5]
      OBVIOUS
    <3> HIDE DEF p, q
    <3>3. 5 \in 0..6
      OBVIOUS
    <3>4. [p EXCEPT !.stage = 5] \in Session
      BY <3>1, <3>3 DEF Session
    <3> QED
      BY <3>2, <3>4
  <2>b. /\ q.cleaned /\ q.pc = "streaming" /\ q.stage = 5
        /\ q.message = r.message /\ q.prompt = r.prompt /\ q.replied = r.replied /\ q.id = r.id
        /\ q.cleanup = r.cleanup
    BY DEF Session
  <2> HIDE DEF q
  <2>2. /\ q \in Session /\ q.cleaned /\ q.pc = "streaming" /\ q.stage = 5
        /\ q.message = r.message /\ q.prompt = r.prompt /\ q.replied = r.replied /\ q.id = r.id
        /\ q.cleanup = r.cleanup
    BY <2>a, <2>b
  <2>3. StageOK(q)
    BY <2>1, <2>2 DEF StageOK
  <2>4. Grown(r, q, e)
    BY <1>3, <2>2, <2>3 DEF Grown
  <2>5. Outcome(r, q, e)
    BY <2>2, <2>4 DEF Outcome
  <2> QED
    BY <2>5 DEF q
<1> QED
  BY <1>1, <1>2, <1>3 DEF OnToolStart, OnToolEnd

LEMMA AssistantOutcome ==
  ASSUME NEW r \in Session, r.pc = "streaming", StageOK(r), NEW e \in Events,
         e.kind = "assistant"
  PROVE  Outcome(r, OnAssistant(r, e), e)
<1>1. /\ Outcome(r, r, e) /\ Outcome(r, Malformed(r), e)
      /\ Outcome(r, Fail(r, "PROVIDER_ERROR"), e)
  BY SameOutcome, FailOutcome, CodeNames
<1>2. ASSUME e.text \in Texts
      PROVE  Outcome(r, [r EXCEPT !.text = e.text], e)
  <2> DEFINE q == [r EXCEPT !.text = e.text]
  <2>1. q \in Session /\ q.pc = "streaming" /\ q.stage = r.stage /\ SameEvidence(r, q)
    BY <1>2 DEF Session, SameEvidence
  <2> HIDE DEF q
  <2>2. StageOK(q)
    BY <2>1 DEF StageOK, SameEvidence
  <2>3. Grown(r, q, e)
    BY <2>1, <2>2 DEF Grown, SameEvidence
  <2>4. Outcome(r, q, e)
    BY <2>1, <2>3 DEF Outcome
  <2> QED
    BY <2>4 DEF q
<1>3. e.text \in Texts \union {"prose", "failed"}
  BY EventFields
<1> QED
  BY <1>1, <1>2, <1>3 DEF OnAssistant

LEMMA AgentEndOutcome ==
  ASSUME NEW r \in Session, r.pc = "streaming", StageOK(r), NEW e \in Events,
         e.kind = "agentEnd"
  PROVE  Outcome(r, OnAgentEnd(r, e), e)
<1>1. /\ Outcome(r, r, e) /\ Outcome(r, Malformed(r), e)
      /\ Outcome(r, Fail(r, "PROVIDER_ERROR"), e) /\ Outcome(r, Fail(r, "FINAL_TEXT"), e)
  BY SameOutcome, FailOutcome, CodeNames
<1> DEFINE q == Leave(r, "settling", "result")
<1>2. q \in Session /\ q.pc = "settling"
  BY LeaveTyped
<1> HIDE DEF q
<1>3. [q EXCEPT !.stage = 6] \in Session /\ [q EXCEPT !.stage = 6].pc = "settling"
  BY <1>2 DEF Session
<1>4. Outcome(r, [q EXCEPT !.stage = 6], e)
  BY <1>3 DEF Outcome
<1> QED
  BY <1>1, <1>4 DEF OnAgentEnd, q

\* The whole of run_rpc's treatment of one event.
LEMMA EventOutcome ==
  ASSUME NEW r \in Session, r.pc = "streaming", StageOK(r), NEW e \in Events
  PROVE  Outcome(r, After(Counted(r, e.kind), e), e)
<1> DEFINE c == Counted(r, e.kind)
<1>1. e.kind \in Kinds
  BY EventFields
<1>2. c \in Session /\ SameEvidence(r, c) /\ c.stage = r.stage
  BY <1>1, CountedTyped
<1> HIDE DEF c
<1>3. c.pc = "streaming" /\ StageOK(c)
  BY <1>2 DEF StageOK, SameEvidence
<1>4. \A q : Outcome(c, q, e) => Outcome(r, q, e)
  BY <1>2 DEF Outcome, Grown, SameEvidence
<1>5. Outcome(c, Handled(c, e), e)
  <2>1. e.kind \in Plain \union {"response", "child", "assistant", "toolStart", "toolEnd", "agentEnd"}
    BY <1>1 DEF Kinds
  <2>2. CASE e.kind \in {"update", "toolUpdate", "otherResponse", "other", "junk"}
    <3>1. Handled(c, e) = c
      BY <2>2 DEF Handled
    <3> QED
      BY <1>2, <1>3, <2>2, <3>1, SameOutcome
  <2>3. CASE e.kind = "stray"
    <3>1. Handled(c, e) = Malformed(c)
      BY <2>3 DEF Handled
    <3> QED
      BY <1>2, <3>1, FailOutcome, CodeNames
  <2>4. CASE e.kind = "response"
    BY <1>2, <1>3, <2>4, ResponseOutcome DEF Handled
  <2>5. CASE e.kind = "child"
    BY <1>2, <1>3, <2>5, ChildOutcome DEF Handled
  <2>6. CASE e.kind = "message"
    BY <1>2, <1>3, <2>6, MessageOutcome DEF Handled
  <2>7. CASE e.kind = "assistant"
    BY <1>2, <1>3, <2>7, AssistantOutcome DEF Handled
  <2>8. CASE e.kind = "toolStart"
    BY <1>2, <1>3, <2>8, ToolOutcome DEF Handled
  <2>9. CASE e.kind = "toolEnd"
    BY <1>2, <1>3, <2>9, ToolOutcome DEF Handled
  <2>10. CASE e.kind = "agentEnd"
    BY <1>2, <1>3, <2>10, AgentEndOutcome DEF Handled
  <2> QED
    BY <2>1, <2>2, <2>3, <2>4, <2>5, <2>6, <2>7, <2>8, <2>9, <2>10 DEF Plain
<1>6. \A o \in Codes : Outcome(c, Fail(c, o), e) /\ Outcome(c, Malformed(c), e)
  BY <1>2, FailOutcome
<1>7. Outcome(c, After(c, e), e)
  BY <1>5, <1>6, CodeNames DEF After
<1> QED
  BY <1>4, <1>7 DEF c

-----------------------------------------------------------------------------
(* Sessions *)

\* The log holds the evidence that the session has on record.
Recorded(r) ==
  /\ r.message <=> OfKind("message") # {}
  /\ r.replied <=> \E i \in OfKind("child") : log[i].replied = "yes"
  /\ r.id # None <=> OfKind("child") # {}
  /\ r.prompt <=> \E i \in OfKind("response") : log[i].ok

\* Nothing has been read.
Blank(r) ==
  /\ ~r.message /\ ~r.replied /\ r.id = None /\ ~r.prompt
  /\ r.cleanup = None /\ ~r.cleaned

RpcInv ==
  /\ TypeOK
  /\ log \in Seq(Events)
  /\ s.pc \in {"new", "starting", "prompting"} => Blank(s) /\ log = <<>>
  /\ s.pc = "streaming" => StageOK(s) /\ Recorded(s)
  /\ s.pc = "new" => agent = "none" /\ ~dir
  /\ NothingLeftBehind

\* Reading one event, as the session and the log see it.
LEMMA ReadInv ==
  ASSUME RpcInv, NEW e \in Events, Read(e)
  PROVE  RpcInv'
<1>1. /\ s \in Session /\ s.pc = "streaming" /\ StageOK(s) /\ Recorded(s)
      /\ log \in Seq(Events) /\ UNCHANGED <<agent, dir>> /\ s' = After(Counted(s, e.kind), e)
  BY DEF RpcInv, TypeOK, Read
<1>2. Outcome(s, s', e)
  BY <1>1, EventOutcome
<1>3. TypeOK' /\ NothingLeftBehind'
  BY <1>1, <1>2 DEF RpcInv, TypeOK, Outcome, NothingLeftBehind
<1>4. s'.pc \in {"streaming", "settling", "unwinding"}
  BY <1>2 DEF Outcome
<1>5. /\ log' = IF s'.pc # "streaming" /\ e.kind # "agentEnd" THEN <<>>
                ELSE IF Idle(s', e) THEN log ELSE Append(log, e)
  BY DEF Read
<1>6. log' \in Seq(Events)
  <2>1. <<>> \in Seq(Events) /\ Append(log, e) \in Seq(Events)
    BY <1>1
  <2> QED
    BY <1>1, <1>5, <2>1
<1>7. ASSUME s'.pc = "streaming" PROVE Recorded(s)' /\ StageOK(s')
  <2>1. Grown(s, s', e)
    BY <1>2, <1>7 DEF Outcome
  <2>2. CASE Idle(s', e)
    <3>1. e.kind \notin {"message", "child", "response"} /\ log' = log
      BY <1>5, <1>7, <2>2 DEF Idle
    <3>2. \A k : OfKind(k)' = OfKind(k)
      BY <3>1 DEF OfKind
    <3> QED
      BY <1>1, <2>1, <3>1, <3>2 DEF Grown, Recorded
  <2>3. CASE ~Idle(s', e)
    <3> DEFINE n == Len(log) + 1
    <3>1. log' = Append(log, e)
      BY <1>5, <1>7, <2>3
    <3>2. /\ Len(log') = n /\ n \in Nat /\ Len(log) \in Nat /\ log'[n] = e
          /\ \A i \in 1..Len(log) : log'[i] = log[i]
      BY <1>1, <3>1
    <3>3. 1..Len(log') = (1..Len(log)) \union {n} /\ n \notin 1..Len(log)
      BY <3>2
    <3> HIDE DEF n
    <3>4. \A k : OfKind(k)' = OfKind(k) \union (IF e.kind = k THEN {n} ELSE {})
      BY <3>2, <3>3 DEF OfKind
    <3>5. \A k : \A i \in OfKind(k) : i \in 1..Len(log) /\ log'[i] = log[i]
      BY <3>2 DEF OfKind
    <3>6. Recorded(s)'
      <4>1. s'.message <=> OfKind("message")' # {}
        BY <1>1, <2>1, <3>4 DEF Grown, Recorded
      <4>2. s'.id # None <=> OfKind("child")' # {}
        BY <1>1, <2>1, <3>4 DEF Grown, Recorded
      <4>3. s'.replied <=> \E i \in OfKind("child")' : log'[i].replied = "yes"
        BY <1>1, <2>1, <3>2, <3>4, <3>5 DEF Grown, Recorded
      <4>4. s'.prompt <=> \E i \in OfKind("response")' : log'[i].ok
        BY <1>1, <2>1, <3>2, <3>4, <3>5 DEF Grown, Recorded
      <4> QED
        BY <4>1, <4>2, <4>3, <4>4 DEF Recorded
    <3> QED
      BY <2>1, <3>6 DEF Grown
  <2> QED
    BY <2>2, <2>3
<1> QED
  BY <1>3, <1>4, <1>6, <1>7 DEF RpcInv

\* The session is left: whatever was on record is forgotten, and the finally clause is next.
LEMMA LeftInv ==
  ASSUME RpcInv, s' \in Session, s'.pc \in {"settling", "unwinding"},
         log' \in {log, <<>>}, agent' \in {"none", "alive", "dead"}, dir' \in BOOLEAN
  PROVE  RpcInv'
<1>1. log' \in Seq(Events)
  <2>1. log \in Seq(Events) /\ <<>> \in Seq(Events)
    BY DEF RpcInv
  <2> QED
    BY <2>1
<1>2. TypeOK'
  BY DEF TypeOK
<1>3. s'.pc \notin {"new", "starting", "prompting", "streaming", "ended"}
  OBVIOUS
<1> QED
  BY <1>1, <1>2, <1>3 DEF RpcInv, NothingLeftBehind

LEMMA InvokeInv ==
  ASSUME RpcInv, Invoke
  PROVE  RpcInv'
<1>1. /\ s \in Session /\ s.pc = "new" /\ agent = "none" /\ ~dir /\ Blank(s) /\ log = <<>>
      /\ UNCHANGED <<agent, log>>
  BY DEF RpcInv, TypeOK, Invoke
<1>2. CASE s' = Leave(s, "ended", "CONTEXT_LIMIT_EXCEEDED") /\ UNCHANGED dir
  <2>1. "CONTEXT_LIMIT_EXCEEDED" \in {"result"} \union Codes
    BY CodeNames
  <2>2. s' \in Session /\ s'.pc = "ended"
    BY <1>1, <1>2, <2>1, LeaveTyped
  <2> QED
    BY <1>1, <1>2, <2>2 DEF RpcInv, TypeOK, NothingLeftBehind
<1>3. CASE s' = [s EXCEPT !.pc = "starting"] /\ dir' = TRUE
  <2>1. s' \in Session /\ s'.pc = "starting"
    BY <1>1, <1>3 DEF Session
  <2>2. Blank(s')
    BY <1>1, <1>3 DEF Session, Blank
  <2> QED
    BY <1>1, <1>3, <2>1, <2>2 DEF RpcInv, TypeOK, NothingLeftBehind
<1> QED
  BY <1>2, <1>3 DEF Invoke

LEMMA StartInv ==
  ASSUME RpcInv, Start
  PROVE  RpcInv'
<1>1. /\ s \in Session /\ s.pc = "starting" /\ Blank(s) /\ log = <<>> /\ dir \in BOOLEAN
      /\ agent \in {"none", "alive", "dead"} /\ UNCHANGED <<dir, log>>
  BY DEF RpcInv, TypeOK, Start
<1>2. ASSUME NEW code \in {"CONTEXT_LIMIT_EXCEEDED", "OSError"}, s' = Fail(s, code),
             UNCHANGED agent
      PROVE  RpcInv'
  <2>1. s' \in Session /\ s'.pc = "unwinding"
    BY <1>1, <1>2, FailTyped, CodeNames
  <2> QED
    BY <1>1, <1>2, <2>1, LeftInv
<1>3. CASE s' = [s EXCEPT !.pc = "prompting"] /\ agent' = "alive"
  <2>1. s' \in Session /\ s'.pc = "prompting"
    BY <1>1, <1>3 DEF Session
  <2>2. Blank(s')
    BY <1>1, <1>3 DEF Session, Blank
  <2> QED
    BY <1>1, <1>3, <2>1, <2>2 DEF RpcInv, TypeOK, NothingLeftBehind
<1> QED
  BY <1>2, <1>3 DEF Start

LEMMA PromptInv ==
  ASSUME RpcInv, Prompt
  PROVE  RpcInv'
<1>1. /\ s \in Session /\ s.pc = "prompting" /\ Blank(s) /\ log = <<>> /\ dir \in BOOLEAN
      /\ agent \in {"none", "alive", "dead"} /\ UNCHANGED <<agent, dir, log>>
  BY DEF RpcInv, TypeOK, Prompt
<1>2. CASE s' = Fail(s, "OSError")
  <2>1. s' \in Session /\ s'.pc = "unwinding"
    BY <1>1, <1>2, FailTyped, CodeNames
  <2> QED
    BY <1>1, <2>1, LeftInv
<1>3. CASE s' = [s EXCEPT !.pc = "streaming", !.stage = 1]
  <2> DEFINE p == [s EXCEPT !.pc = "streaming"]
  <2>1. p \in Session
    BY <1>1 DEF Session
  <2>2. s' = [p EXCEPT !.stage = 1]
    BY <1>3
  <2> HIDE DEF p
  <2>3. s' \in Session
    BY <2>1, <2>2 DEF Session
  <2>4. s'.pc = "streaming" /\ s'.stage = 1 /\ Blank(s')
    BY <1>1, <1>3 DEF Session, Blank
  <2>5. StageOK(s')
    BY <2>4 DEF StageOK, Blank
  <2>6. \A k : OfKind(k)' = {}
    BY <1>1 DEF OfKind
  <2>7. Recorded(s)'
    BY <2>4, <2>6 DEF Recorded, Blank
  <2> QED
    BY <1>1, <2>3, <2>4, <2>5, <2>7 DEF RpcInv, TypeOK, NothingLeftBehind
<1> QED
  BY <1>2, <1>3 DEF Prompt

\* The ways a session is broken off, and the cancellation of the cleanup.
LEMMA BreakOffInv ==
  ASSUME RpcInv, LineTooLong \/ EndOfStream \/ Timeout \/ Cancel
  PROVE  RpcInv'
<1>1. s \in Session /\ dir \in BOOLEAN /\ agent \in {"none", "alive", "dead"}
  BY DEF RpcInv, TypeOK
<1>2. ASSUME NEW code \in Codes, Interrupted(code), agent' \in {"none", "alive", "dead"}
      PROVE  RpcInv'
  <2>1. s' \in Session /\ s'.pc = "unwinding"
    BY <1>1, <1>2, FailTyped DEF Interrupted
  <2> QED
    BY <1>1, <1>2, <2>1, LeftInv DEF Interrupted
<1>3. CASE Cancel
  <2> DEFINE r == [s EXCEPT !.cancels = @ + 1]
             q == [r EXCEPT !.pc = "ended", !.outcome = "cancelled", !.abandoned = TRUE]
  <2>1. s.cancels + 1 \in 0..MaxCancels
    BY <1>1, <1>3, LengthsAssumption DEF Cancel, Session
  <2>2. r \in Session
    BY <1>1, <2>1 DEF Session
  <2>3. /\ log' = <<>> /\ UNCHANGED <<agent, dir>>
        /\ s' = Fail(r, "cancelled") \/ s' = q
    BY <1>3 DEF Cancel
  <2> HIDE DEF r
  <2>4. CASE s' = Fail(r, "cancelled")
    <3>1. s' \in Session /\ s'.pc = "unwinding"
      BY <2>2, <2>4, FailTyped, CodeNames
    <3> QED
      BY <1>1, <2>3, <3>1, LeftInv
  <2>5. CASE s' = q
    <3>1. q \in Session
      BY <2>2, CodeNames DEF Session
    <3>2. q.pc = "ended" /\ q.abandoned
      BY <2>2 DEF Session
    <3>3. log' \in Seq(Events)
      BY <2>3
    <3> QED
      BY <1>1, <2>3, <2>5, <3>1, <3>2, <3>3 DEF RpcInv, TypeOK, NothingLeftBehind
  <2> QED
    BY <2>3, <2>4, <2>5
<1>4. CASE LineTooLong
  BY <1>1, <1>2, <1>4, CodeNames DEF LineTooLong
<1>5. CASE EndOfStream
  BY <1>2, <1>5, CodeNames DEF EndOfStream
<1>6. CASE Timeout
  BY <1>1, <1>2, <1>6, CodeNames DEF Timeout
<1> QED
  BY <1>3, <1>4, <1>5, <1>6

LEMMA UnwindInv ==
  ASSUME RpcInv, Terminate \/ Settle \/ Finish
  PROVE  RpcInv'
<1>1. s \in Session /\ dir \in BOOLEAN /\ agent \in {"none", "alive", "dead"} /\ log \in Seq(Events)
  BY DEF RpcInv, TypeOK
<1>2. CASE Terminate
  BY <1>1, <1>2, LeftInv DEF Terminate
<1>3. CASE Settle
  <2>1. s' \in Session /\ s'.pc = "unwinding"
    BY <1>1, <1>3 DEF Settle, Session
  <2> QED
    BY <1>1, <1>3, <2>1, LeftInv DEF Settle
<1>4. CASE Finish
  <2>1. s' \in Session /\ s'.pc = "ended"
    BY <1>1, <1>4 DEF Finish, Session
  <2> QED
    BY <1>1, <1>4, <2>1 DEF Finish, RpcInv, TypeOK, NothingLeftBehind
<1> QED
  BY <1>2, <1>3, <1>4

\* Types, what is on record, and the cleanup, for sessions of any length.
THEOREM SessionInvariant == Spec => []RpcInv
<1>1. Init => RpcInv
  <2> SUFFICES ASSUME Init PROVE RpcInv
    OBVIOUS
  <2>1. s \in Session /\ s.pc = "new" /\ Blank(s)
    BY NewTyped DEF Init, New, Blank
  <2>2. <<>> \in Seq(Events)
    OBVIOUS
  <2> QED
    BY <2>1, <2>2 DEF Init, RpcInv, TypeOK, NothingLeftBehind
<1>2. RpcInv /\ Next => RpcInv'
  BY InvokeInv, StartInv, PromptInv, ReadInv, BreakOffInv, UnwindInv DEF Next
<1>3. RpcInv /\ UNCHANGED vars => RpcInv'
  BY DEF vars, RpcInv, TypeOK, Recorded, OfKind, NothingLeftBehind
<1>4. RpcInv /\ [Next]_vars => RpcInv'
  BY <1>2, <1>3
<1> QED
  BY <1>1, <1>4, PTL DEF Spec

\* The stage that a call is reported in is that of the strongest evidence it has read.
THEOREM StageFollowsEvidence == Spec => []StageIsEarned
<1>1. RpcInv => StageIsEarned
  <2> SUFFICES ASSUME RpcInv, s.pc = "streaming"
               PROVE  /\ s.stage = 5 <=> s.cleaned
                      /\ s.stage >= 4 <=> \E i \in DOMAIN log : Replies(log[i])
                      /\ s.stage >= 3 <=> OfKind("child") \union OfKind("message") # {}
                      /\ s.stage >= 2 <=> s.stage >= 3 \/ \E i \in OfKind("response") : log[i].ok
    BY DEF StageIsEarned
  <2>1. StageOK(s) /\ Recorded(s) /\ DOMAIN log = 1..Len(log)
    BY DEF RpcInv
  <2>2. s.message \/ s.replied <=> \E i \in DOMAIN log : Replies(log[i])
    BY <2>1 DEF Recorded, OfKind, Replies
  <2>3. s.message \/ s.id # None <=> OfKind("child") \union OfKind("message") # {}
    BY <2>1 DEF Recorded
  <2>4. s.stage = 5 <=> s.cleaned
    BY <2>1 DEF StageOK
  <2>5. s.stage >= 4 <=> s.message \/ s.replied
    BY <2>1 DEF StageOK
  <2>6. s.stage >= 3 <=> s.message \/ s.id # None
    BY <2>1 DEF StageOK
  <2>7. s.stage >= 2 <=> s.message \/ s.id # None \/ s.prompt
    BY <2>1 DEF StageOK
  <2>8. s.prompt <=> \E i \in OfKind("response") : log[i].ok
    BY <2>1 DEF Recorded
  <2> QED
    BY <2>2, <2>3, <2>4, <2>5, <2>6, <2>7, <2>8
<1> QED
  BY <1>1, SessionInvariant, PTL

\* However a call ends, its process is gone and its directory removed.
THEOREM CallCleansUp == Spec => []NothingLeftBehind
<1>1. RpcInv => NothingLeftBehind
  BY DEF RpcInv
<1> QED
  BY <1>1, SessionInvariant, PTL

-----------------------------------------------------------------------------
(* Answers *)

\* The starts of the recipe among the events es, and the results that go with one.
Starts(es) == {i \in 1..Len(es) : es[i].kind = "toolStart" /\ es[i].recipe}

Results(es) ==
  {j \in 1..Len(es) : es[j].kind = "toolEnd" /\ \E i \in Starts(es) : i < j /\ es[j].call = es[i].call}

\* What is on record of the prompt and of the child.
ChildKept(r, es) ==
  /\ r.prompt <=> \E i \in 1..Len(es) : Accepted(es[i])
  /\ r.message <=> \E i \in 1..Len(es) : es[i].kind = "message"
  /\ r.replied <=> \E i \in 1..Len(es) : es[i].kind = "child" /\ es[i].replied = "yes"
  /\ r.completed <=> \E i \in 1..Len(es) : Done(es[i])
  /\ \A i \in 1..Len(es) : es[i].kind = "child" =>
       /\ es[i].id = r.id
       /\ es[i].status # "error"
       /\ es[i].status = "cancelled" => \E k \in Starts(es) : k < i

\* The recipe starts once, behind the prompt and a reply.
StartKept(r, es) ==
  /\ r.cleanup = None <=> Starts(es) = {}
  /\ \A i \in Starts(es) :
       /\ es[i].call = r.cleanup
       /\ \A j \in Starts(es) : j = i
       /\ \E k \in 1..(i - 1) : Accepted(es[k])
       /\ \E k \in 1..(i - 1) : Replies(es[k])

\* The event j is the result that proves the cleanup, and what follows it does not undo that.
Closes(r, es, j) ==
  /\ es[j].marker
  /\ r.message \/ \E k \in 1..(j - 1) : Done(es[k])
  /\ \A k \in 1..(j - 1) : /\ es[k].kind = "child" => es[k].id = es[j].child
                           /\ es[k].kind # "assistant"
  /\ \A k \in (j + 1)..Len(es) : /\ es[k].kind \notin {"message", "toolStart", "toolEnd"}
                                 /\ es[k].kind = "child" => es[k].status = "cancelled"

\* A result is on record exactly if the session counts as cleaned up.
EndKept(r, es) ==
  /\ ~r.cleaned => Results(es) = {}
  /\ r.cleaned => \E j \in Results(es) : Closes(r, es, j)

\* The one text is behind the cleanup, and is the one on record.
TextKept(r, es) ==
  /\ r.text # None <=> \E i \in 1..Len(es) : es[i].kind = "assistant"
  /\ r.text # None => r.cleaned /\ r.text # "failed"
  /\ \A i \in 1..Len(es) : es[i].kind = "assistant" =>
       /\ es[i].text = r.text
       /\ \A k \in 1..Len(es) : es[k].kind = "assistant" => k = i

Ledger(r, es) == ChildKept(r, es) /\ StartKept(r, es) /\ EndKept(r, es) /\ TextKept(r, es)

-----------------------------------------------------------------------------

\* q has on record what r has.
SameRecord(r, q) ==
  /\ q.pc = r.pc /\ q.prompt = r.prompt /\ q.message = r.message /\ q.id = r.id
  /\ q.replied = r.replied /\ q.completed = r.completed /\ q.cleanup = r.cleanup
  /\ q.cleaned = r.cleaned /\ q.text = r.text

\* What event e had to be for a session r that goes on as q, and what it put on record.
ChildMoves(r, q, e) ==
  /\ e.kind = "response" => e.ok /\ q.prompt
  /\ e.kind # "response" => q.prompt = r.prompt
  /\ e.kind = "message" => ~r.cleaned /\ q.message
  /\ e.kind # "message" => q.message = r.message
  /\ e.kind = "child" =>
       /\ r.id \in {None, e.id} /\ q.id = e.id /\ e.status # "error"
       /\ ~r.cleaned /\ e.status = "cancelled" => r.cleanup # None
       /\ r.cleaned => e.status = "cancelled"
       /\ q.replied <=> r.replied \/ e.replied = "yes"
       /\ q.completed <=> r.completed \/ e.status = "done"
  /\ e.kind # "child" => q.id = r.id /\ q.replied = r.replied /\ q.completed = r.completed

RecipeMoves(r, q, e) ==
  /\ e.kind \in {"toolStart", "toolEnd"} => ~r.cleaned
  /\ e.kind = "toolStart" /\ e.recipe => MayCleanUp(r, e) /\ q.cleanup = e.call
  /\ ~(e.kind = "toolStart" /\ e.recipe) => q.cleanup = r.cleanup
  /\ e.kind = "toolEnd" /\ e.call = r.cleanup => CleanedUp(r, e) /\ q.cleaned
  /\ ~(e.kind = "toolEnd" /\ e.call = r.cleanup) => q.cleaned = r.cleaned

TextMoves(r, q, e) ==
  /\ e.kind = "assistant" =>
       \/ e.text = "prose" /\ q.text = r.text
       \/ /\ e.text \in Texts \ {"prose", "failed"}
          /\ r.cleaned /\ r.text = None /\ q.text = e.text
  /\ e.kind # "assistant" => q.text = r.text

Moves(r, q, e) ==
  /\ q.pc = r.pc
  /\ ChildMoves(r, q, e)
  /\ RecipeMoves(r, q, e)
  /\ TextMoves(r, q, e)

LEMMA CountedRecord ==
  ASSUME NEW r \in Session, NEW k
  PROVE  SameRecord(r, Counted(r, k))
<1> DEFINE raw == r.raw + Bytes[k]
           accounted == r.accounted + Accounted(k)
           telemetry == IF k = "update" THEN r.telemetry + 1 ELSE r.telemetry
           semantic == IF k = "update" THEN r.semantic ELSE r.semantic + 1
           control == IF k \in {"response", "otherResponse"} THEN r.control + Bytes[k]
                      ELSE r.control
           q == [r EXCEPT !.raw = raw, !.accounted = accounted, !.telemetry = telemetry,
                          !.semantic = semantic, !.control = control]
<1>1. Counted(r, k) = q
  BY DEF Counted
<1> HIDE DEF raw, accounted, telemetry, semantic, control
<1>2. SameRecord(r, q)
  BY DEF Session, SameRecord
<1> QED
  BY <1>1, <1>2

LEMMA AtLeastRecord ==
  ASSUME NEW r \in Session, NEW n \in 0..6
  PROVE  AtLeast(r, n) \in Session /\ SameRecord(r, AtLeast(r, n))
<1>1. AtLeast(r, n) \in Session
  BY AtLeastTyped
<1>2. SameRecord(r, AtLeast(r, n))
  BY DEF AtLeast, Larger, Session, SameRecord
<1> QED
  BY <1>1, <1>2

LEMMA LeftRecord ==
  ASSUME NEW r \in Session, NEW o \in Codes
  PROVE  Fail(r, o).pc # "streaming" /\ Malformed(r).pc # "streaming"
  BY FailTyped, MalformedTyped

LEMMA SameMoves ==
  ASSUME NEW r, NEW q, SameRecord(r, q), NEW e,
         e.kind \notin {"response", "message", "child", "toolStart", "toolEnd", "assistant"}
  PROVE  Moves(r, q, e)
  BY DEF SameRecord, Moves, ChildMoves, RecipeMoves, TextMoves

LEMMA ResponseMoves ==
  ASSUME NEW r \in Session, r.pc = "streaming", NEW e \in Events, e.kind = "response",
         OnResponse(r, e).pc = "streaming"
  PROVE  Moves(r, OnResponse(r, e), e)
<1>1. e.ok
  BY LeftRecord, CodeNames DEF OnResponse
<1> DEFINE p == [r EXCEPT !.prompt = TRUE]
<1>2. /\ p \in Session /\ p.prompt
      /\ p.pc = r.pc /\ p.message = r.message /\ p.id = r.id
      /\ p.replied = r.replied /\ p.completed = r.completed /\ p.cleanup = r.cleanup
      /\ p.cleaned = r.cleaned /\ p.text = r.text
  BY DEF Session
<1>3. OnResponse(r, e) = AtLeast(p, 2)
  BY <1>1 DEF OnResponse
<1> HIDE DEF p
<1>4. SameRecord(p, AtLeast(p, 2))
  BY <1>2, AtLeastRecord
<1> QED
  BY <1>1, <1>2, <1>3, <1>4 DEF SameRecord, Moves, ChildMoves, RecipeMoves, TextMoves

LEMMA MessageMoves ==
  ASSUME NEW r \in Session, r.pc = "streaming", NEW e \in Events, e.kind = "message",
         OnMessage(r).pc = "streaming"
  PROVE  Moves(r, OnMessage(r), e)
<1>1. ~r.cleaned
  BY LeftRecord, CodeNames DEF OnMessage
<1> DEFINE p == [r EXCEPT !.message = TRUE]
<1>2. /\ p \in Session /\ p.message
      /\ p.pc = r.pc /\ p.prompt = r.prompt /\ p.id = r.id
      /\ p.replied = r.replied /\ p.completed = r.completed /\ p.cleanup = r.cleanup
      /\ p.cleaned = r.cleaned /\ p.text = r.text
  BY DEF Session
<1>3. OnMessage(r) = AtLeast(p, 4)
  BY <1>1 DEF OnMessage
<1> HIDE DEF p
<1>4. SameRecord(p, AtLeast(p, 4))
  BY <1>2, AtLeastRecord
<1> QED
  BY <1>1, <1>2, <1>3, <1>4 DEF SameRecord, Moves, ChildMoves, RecipeMoves, TextMoves

LEMMA ChildEventMoves ==
  ASSUME NEW r \in Session, r.pc = "streaming", NEW e \in Events, e.kind = "child",
         OnChild(r, e).pc = "streaming"
  PROVE  Moves(r, OnChild(r, e), e)
<1> DEFINE p == [r EXCEPT !.id = e.id]
           seen == AtLeast(p, 3)
           replied == r.replied \/ e.replied = "yes"
           completed == seen.completed \/ e.status = "done"
           next == [seen EXCEPT !.replied = replied, !.completed = completed,
                                !.status = e.status]
           last == AtLeast(next, 4)
<1>1. e.id \in Ids /\ e.status \in Statuses
  BY EventFields
<1>2. /\ p \in Session /\ p.id = e.id
      /\ p.pc = r.pc /\ p.prompt = r.prompt /\ p.message = r.message
      /\ p.replied = r.replied /\ p.completed = r.completed /\ p.cleanup = r.cleanup
      /\ p.cleaned = r.cleaned /\ p.text = r.text
  BY <1>1 DEF Session
<1> HIDE DEF p
<1>3. seen \in Session /\ SameRecord(p, seen)
  BY <1>2, AtLeastRecord
<1> HIDE DEF seen
<1>4. replied \in BOOLEAN /\ completed \in BOOLEAN /\ (completed <=> r.completed \/ e.status = "done")
  BY <1>2, <1>3 DEF Session, SameRecord
<1> HIDE DEF replied, completed
<1>5. /\ next \in Session /\ next.replied = replied /\ next.completed = completed
      /\ next.pc = seen.pc /\ next.prompt = seen.prompt /\ next.message = seen.message
      /\ next.id = seen.id /\ next.cleanup = seen.cleanup /\ next.cleaned = seen.cleaned
      /\ next.text = seen.text
  <2>1. next \in Session
    BY <1>1, <1>3, <1>4 DEF Session
  <2>2. /\ next.replied = replied /\ next.completed = completed
        /\ next.pc = seen.pc /\ next.prompt = seen.prompt /\ next.message = seen.message
        /\ next.id = seen.id /\ next.cleanup = seen.cleanup /\ next.cleaned = seen.cleaned
        /\ next.text = seen.text
    BY <1>3 DEF Session
  <2> QED
    BY <2>1, <2>2
<1> HIDE DEF next
<1>6. SameRecord(next, last)
  BY <1>5, AtLeastRecord
<1> HIDE DEF last
<1>7. OnChild(r, e) =
        IF r.id \notin {None, e.id} THEN Malformed(r)
        ELSE IF r.cleaned THEN IF CancelledLate(r, e) THEN seen ELSE Malformed(seen)
        ELSE IF Regressed(r, e) THEN Malformed(seen)
        ELSE IF LostChild(r, e) THEN Fail(seen, "PROVIDER_ERROR")
        ELSE IF replied THEN last ELSE next
  BY DEF OnChild, p, seen, replied, completed, next, last
<1>8. /\ Malformed(r).pc # "streaming" /\ Malformed(seen).pc # "streaming"
      /\ Fail(seen, "PROVIDER_ERROR").pc # "streaming"
  BY <1>3, LeftRecord, CodeNames
<1>9. r.id \in {None, e.id}
  BY <1>7, <1>8
<1>10. CASE r.cleaned
  <2>1. CancelledLate(r, e) /\ OnChild(r, e) = seen
    BY <1>7, <1>8, <1>9, <1>10
  <2>2. e.status = "cancelled" /\ r.replied /\ r.completed
    BY <2>1 DEF CancelledLate
  <2> QED
    BY <1>2, <1>3, <1>9, <1>10, <2>1, <2>2
       DEF SameRecord, Moves, ChildMoves, RecipeMoves, TextMoves
<1>11. CASE ~r.cleaned
  <2>1. ~LostChild(r, e) /\ OnChild(r, e) \in {last, next}
    BY <1>7, <1>8, <1>9, <1>11
  <2>2. e.status # "error" /\ (e.status = "cancelled" => r.cleanup # None)
    BY <2>1 DEF LostChild
  <2>3. SameRecord(next, OnChild(r, e))
    BY <1>6, <2>1 DEF SameRecord
  <2>4. replied <=> r.replied \/ e.replied = "yes"
    BY DEF replied
  <2> QED
    BY <1>2, <1>3, <1>4, <1>5, <1>9, <1>11, <2>2, <2>3, <2>4
       DEF SameRecord, Moves, ChildMoves, RecipeMoves, TextMoves
<1> QED
  BY <1>10, <1>11

LEMMA ToolStartMoves ==
  ASSUME NEW r \in Session, r.pc = "streaming", NEW e \in Events, e.kind = "toolStart",
         OnToolStart(r, e).pc = "streaming"
  PROVE  Moves(r, OnToolStart(r, e), e)
<1>1. Malformed(r).pc # "streaming"
  BY LeftRecord, CodeNames
<1>2. ~r.cleaned
  BY <1>1 DEF OnToolStart
<1>3. CASE ~e.recipe
  <2>1. OnToolStart(r, e) = r
    BY <1>2, <1>3 DEF OnToolStart
  <2> QED
    BY <1>2, <1>3, <2>1 DEF Moves, ChildMoves, RecipeMoves, TextMoves
<1>4. CASE e.recipe
  <2> DEFINE q == [r EXCEPT !.cleanup = e.call]
  <2>1. MayCleanUp(r, e) /\ OnToolStart(r, e) = q
    BY <1>1, <1>2, <1>4 DEF OnToolStart
  <2>2. /\ q.cleanup = e.call
        /\ q.pc = r.pc /\ q.prompt = r.prompt /\ q.message = r.message /\ q.id = r.id
        /\ q.replied = r.replied /\ q.completed = r.completed
        /\ q.cleaned = r.cleaned /\ q.text = r.text
    BY DEF Session
  <2> HIDE DEF q
  <2> QED
    BY <1>2, <1>4, <2>1, <2>2 DEF Moves, ChildMoves, RecipeMoves, TextMoves
<1> QED
  BY <1>3, <1>4

LEMMA ToolEndMoves ==
  ASSUME NEW r \in Session, r.pc = "streaming", NEW e \in Events, e.kind = "toolEnd",
         OnToolEnd(r, e).pc = "streaming"
  PROVE  Moves(r, OnToolEnd(r, e), e)
<1>1. Malformed(r).pc # "streaming"
  BY LeftRecord, CodeNames
<1>2. ~r.cleaned
  BY <1>1 DEF OnToolEnd
<1>3. CASE e.call # r.cleanup
  <2>1. OnToolEnd(r, e) = r
    BY <1>2, <1>3 DEF OnToolEnd
  <2> QED
    BY <1>2, <1>3, <2>1 DEF Moves, ChildMoves, RecipeMoves, TextMoves
<1>4. CASE e.call = r.cleanup
  <2> DEFINE q == [r EXCEPT !.cleaned = TRUE, !.stage = 5]
  <2>1. CleanedUp(r, e) /\ OnToolEnd(r, e) = q
    BY <1>1, <1>2, <1>4 DEF OnToolEnd
  <2>2. /\ q.cleaned
        /\ q.pc = r.pc /\ q.prompt = r.prompt /\ q.message = r.message /\ q.id = r.id
        /\ q.replied = r.replied /\ q.completed = r.completed
        /\ q.cleanup = r.cleanup /\ q.text = r.text
    BY DEF Session
  <2> HIDE DEF q
  <2> QED
    BY <1>2, <1>4, <2>1, <2>2 DEF Moves, ChildMoves, RecipeMoves, TextMoves
<1> QED
  BY <1>3, <1>4

LEMMA AssistantMoves ==
  ASSUME NEW r \in Session, r.pc = "streaming", NEW e \in Events, e.kind = "assistant",
         OnAssistant(r, e).pc = "streaming"
  PROVE  Moves(r, OnAssistant(r, e), e)
<1>1. Malformed(r).pc # "streaming" /\ Fail(r, "PROVIDER_ERROR").pc # "streaming"
  BY LeftRecord, CodeNames
<1>2. e.text # "failed" /\ e.text \in Texts \union {"prose", "failed"}
  BY <1>1, EventFields DEF OnAssistant
<1>3. CASE ~r.cleaned
  <2>1. e.text = "prose" /\ OnAssistant(r, e) = r
    BY <1>1, <1>2, <1>3 DEF OnAssistant
  <2> QED
    BY <1>2, <2>1 DEF Moves, ChildMoves, RecipeMoves, TextMoves
<1>4. CASE r.cleaned
  <2> DEFINE q == [r EXCEPT !.text = e.text]
  <2>1. e.text # "prose" /\ r.text = None /\ OnAssistant(r, e) = q
    BY <1>1, <1>2, <1>4 DEF OnAssistant
  <2>2. /\ q.text = e.text
        /\ q.pc = r.pc /\ q.prompt = r.prompt /\ q.message = r.message /\ q.id = r.id
        /\ q.replied = r.replied /\ q.completed = r.completed
        /\ q.cleanup = r.cleanup /\ q.cleaned = r.cleaned
    BY DEF Session
  <2> HIDE DEF q
  <2> QED
    BY <1>2, <1>4, <2>1, <2>2 DEF Moves, ChildMoves, RecipeMoves, TextMoves
<1> QED
  BY <1>3, <1>4

\* A session that is not left by an event: what the event was, and what it changed.
LEMMA EventMoves ==
  ASSUME NEW r \in Session, r.pc = "streaming", NEW e \in Events,
         After(Counted(r, e.kind), e).pc = "streaming"
  PROVE  Moves(r, After(Counted(r, e.kind), e), e)
<1> DEFINE c == Counted(r, e.kind)
<1>1. e.kind \in Plain \union {"response", "child", "assistant", "toolStart", "toolEnd", "agentEnd"}
  BY EventFields DEF Kinds
<1>2. c \in Session /\ SameRecord(r, c)
  BY EventFields, CountedTyped, CountedRecord
<1> HIDE DEF c
<1>3. c.pc = "streaming"
  BY <1>2 DEF SameRecord
<1>4. \A o \in Codes : Fail(c, o).pc # "streaming" /\ Malformed(c).pc # "streaming"
  BY <1>2, LeftRecord
<1>5. After(c, e) = Handled(c, e) /\ Handled(c, e).pc = "streaming"
  BY <1>4, CodeNames DEF After, c
<1>6. Moves(c, Handled(c, e), e)
  <2>1. CASE e.kind \in {"update", "toolUpdate", "otherResponse", "other", "junk"}
    <3>1. Handled(c, e) = c
      BY <2>1 DEF Handled
    <3>2. SameRecord(c, c)
      BY DEF SameRecord
    <3> QED
      BY <2>1, <3>1, <3>2, SameMoves
  <2>2. CASE e.kind = "stray"
    <3>1. Handled(c, e) = Malformed(c)
      BY <2>2 DEF Handled
    <3> QED
      BY <1>4, <1>5, <3>1, CodeNames
  <2>3. CASE e.kind = "response"
    BY <1>2, <1>3, <1>5, <2>3, ResponseMoves DEF Handled
  <2>4. CASE e.kind = "child"
    BY <1>2, <1>3, <1>5, <2>4, ChildEventMoves DEF Handled
  <2>5. CASE e.kind = "message"
    BY <1>2, <1>3, <1>5, <2>5, MessageMoves DEF Handled
  <2>6. CASE e.kind = "assistant"
    BY <1>2, <1>3, <1>5, <2>6, AssistantMoves DEF Handled
  <2>7. CASE e.kind = "toolStart"
    BY <1>2, <1>3, <1>5, <2>7, ToolStartMoves DEF Handled
  <2>8. CASE e.kind = "toolEnd"
    BY <1>2, <1>3, <1>5, <2>8, ToolEndMoves DEF Handled
  <2>9. CASE e.kind = "agentEnd"
    <3>1. Handled(c, e) = OnAgentEnd(c, e)
      BY <2>9 DEF Handled
    <3>2. [Leave(c, "settling", "result") EXCEPT !.stage = 6].pc # "streaming"
      <4>1. Leave(c, "settling", "result").pc = "settling"
        BY <1>2, LeaveTyped
      <4>2. Leave(c, "settling", "result") \in Session
        BY <1>2, LeaveTyped
      <4> HIDE DEF Leave
      <4> QED
        BY <4>1, <4>2 DEF Session
    <3>3. OnAgentEnd(c, e) = c
      BY <1>4, <1>5, <3>1, <3>2, CodeNames DEF OnAgentEnd
    <3>4. SameRecord(c, c)
      BY DEF SameRecord
    <3> QED
      BY <2>9, <3>1, <3>3, <3>4, SameMoves
  <2> QED
    BY <1>1, <2>1, <2>2, <2>3, <2>4, <2>5, <2>6, <2>7, <2>8, <2>9 DEF Plain
<1>7. \A q : Moves(c, q, e) => Moves(r, q, e)
  BY <1>2 DEF SameRecord, Moves, ChildMoves, RecipeMoves, TextMoves, MayCleanUp, CleanedUp,
              Complete, Custody
<1> QED
  BY <1>5, <1>6, <1>7 DEF c

-----------------------------------------------------------------------------

\* What a record that has grown by nothing keeps.
LEMMA IdleLedger ==
  ASSUME NEW r, NEW q, NEW es, Ledger(r, es), SameRecord(r, q)
  PROVE  Ledger(q, es)
  BY DEF Ledger, ChildKept, StartKept, EndKept, Closes, TextKept, SameRecord

\* One event more.
More(es, e, more) ==
  /\ es \in Seq(Events) /\ e \in Events
  /\ Len(es) \in Nat /\ Len(more) = Len(es) + 1
  /\ more[Len(es) + 1] = e
  /\ \A i \in 1..Len(es) : more[i] = es[i] /\ es[i] \in Events
  /\ 1..Len(more) = (1..Len(es)) \union {Len(es) + 1}

LEMMA AppendMore ==
  ASSUME NEW es \in Seq(Events), NEW e \in Events
  PROVE  More(es, e, Append(es, e))
<1>1. Len(es) \in Nat /\ Len(Append(es, e)) = Len(es) + 1
  OBVIOUS
<1>2. /\ Append(es, e)[Len(es) + 1] = e
      /\ \A i \in 1..Len(es) : Append(es, e)[i] = es[i] /\ es[i] \in Events
  OBVIOUS
<1>3. 1..(Len(es) + 1) = (1..Len(es)) \union {Len(es) + 1}
  BY <1>1
<1> QED
  BY <1>1, <1>2, <1>3 DEF More

LEMMA MoreStarts ==
  ASSUME NEW es, NEW e, NEW more, More(es, e, more)
  PROVE  /\ Starts(es) \subseteq 1..Len(es)
         /\ Starts(more) = Starts(es) \union
                             (IF e.kind = "toolStart" /\ e.recipe THEN {Len(es) + 1} ELSE {})
         /\ \A i \in Starts(es) : more[i] = es[i] /\ i < Len(es) + 1
<1>1. \A i \in 1..Len(es) : i \in Starts(more) <=> i \in Starts(es)
  BY DEF More, Starts
<1>2. Len(es) + 1 \in Starts(more) <=> e.kind = "toolStart" /\ e.recipe
  BY DEF More, Starts
<1>3. Starts(more) \subseteq (1..Len(es)) \union {Len(es) + 1} /\ Starts(es) \subseteq 1..Len(es)
  BY DEF More, Starts
<1>4. Len(es) + 1 \notin 1..Len(es) /\ \A i \in 1..Len(es) : i < Len(es) + 1
  BY DEF More
<1>5. \A i \in Starts(es) : more[i] = es[i] /\ i < Len(es) + 1
  BY <1>3, <1>4 DEF More
<1> QED
  BY <1>1, <1>2, <1>3, <1>4, <1>5

LEMMA MoreResults ==
  ASSUME NEW r, NEW es, NEW e, NEW more, More(es, e, more), StartKept(r, es)
  PROVE  /\ Results(es) \subseteq 1..Len(es)
         /\ Results(more) = Results(es) \union
                              (IF e.kind = "toolEnd" /\ e.call = r.cleanup THEN {Len(es) + 1} ELSE {})
<1> DEFINE n == Len(es) + 1
<1>1. /\ Starts(es) \subseteq 1..Len(es)
      /\ Starts(more) \subseteq Starts(es) \union {n} /\ Starts(es) \subseteq Starts(more)
      /\ \A i \in Starts(es) : more[i] = es[i] /\ i < n
      /\ n \in Starts(more) => e.kind = "toolStart"
  BY MoreStarts
<1>2. n \notin 1..Len(es) /\ (\A i \in 1..Len(es) : ~(n < i)) /\ ~(n < n)
  BY DEF More
<1>3. ASSUME NEW j \in 1..Len(es)
      PROVE  j \in Results(more) <=> j \in Results(es)
  <2>1. more[j] = es[j] /\ j \in 1..Len(more)
    BY DEF More
  <2>2. (\E i \in Starts(more) : i < j /\ more[j].call = more[i].call) <=>
          \E i \in Starts(es) : i < j /\ es[j].call = es[i].call
    BY <1>1, <1>2, <2>1
  <2> QED
    BY <2>1, <2>2 DEF Results
<1>4. n \in Results(more) <=> e.kind = "toolEnd" /\ e.call = r.cleanup
  <2>1. more[n] = e /\ n \in 1..Len(more)
    BY DEF More
  <2>2. ASSUME e.kind = "toolEnd"
        PROVE  (\E i \in Starts(more) : i < n /\ e.call = more[i].call) <=> e.call = r.cleanup
    <3>1. n \notin Starts(more)
      BY <1>1, <2>2
    <3>2. (\E i \in Starts(more) : i < n /\ e.call = more[i].call) <=>
            \E i \in Starts(es) : e.call = es[i].call
      BY <1>1, <3>1
    <3>3. e.call # None
      BY <2>2, EventFields, NoneAssumption DEF More
    <3> QED
      BY <3>2, <3>3 DEF StartKept
  <2> QED
    BY <2>1, <2>2 DEF Results
<1>5. Results(more) \subseteq (1..Len(es)) \union {n} /\ Results(es) \subseteq 1..Len(es)
  BY DEF More, Results
<1> HIDE DEF n
<1>6. Results(more) = Results(es) \union (IF e.kind = "toolEnd" /\ e.call = r.cleanup THEN {n} ELSE {})
  BY <1>2, <1>3, <1>4, <1>5
<1> QED
  BY <1>5, <1>6 DEF n

LEMMA MoreChild ==
  ASSUME NEW r, NEW q, NEW es, NEW e, NEW more, More(es, e, more), Ledger(r, es),
         ChildMoves(r, q, e)
  PROVE  ChildKept(q, more)
<1> DEFINE n == Len(es) + 1
<1>1. ChildKept(r, es) /\ StartKept(r, es) /\ EndKept(r, es)
  BY DEF Ledger
<1>2. /\ 1..Len(more) = (1..Len(es)) \union {n} /\ more[n] = e
      /\ \A i \in 1..Len(es) : more[i] = es[i]
  BY DEF More
<1>3. Starts(es) \subseteq Starts(more) /\ \A k \in Starts(es) : k < n
  BY MoreStarts
<1>4. Starts(es) # {} <=> r.cleanup # None
  BY <1>1 DEF StartKept
<1>5. r.cleaned => Starts(es) # {}
  BY <1>1 DEF EndKept, Results
<1>6. \A i \in 1..Len(es) : es[i].kind = "child" => es[i].id # None
  BY EventFields, NoneAssumption DEF More
<1>7. e.kind = "response" => e.ok \in BOOLEAN
  BY EventFields DEF More
<1> HIDE DEF n
<1>8. q.prompt <=> \E i \in 1..Len(more) : Accepted(more[i])
  <2>1. (\E i \in 1..Len(more) : Accepted(more[i])) <=>
          Accepted(e) \/ \E i \in 1..Len(es) : Accepted(es[i])
    BY <1>2
  <2> QED
    BY <1>1, <2>1 DEF ChildMoves, ChildKept, Accepted
<1>9. q.message <=> \E i \in 1..Len(more) : more[i].kind = "message"
  <2>1. (\E i \in 1..Len(more) : more[i].kind = "message") <=>
          e.kind = "message" \/ \E i \in 1..Len(es) : es[i].kind = "message"
    BY <1>2
  <2> QED
    BY <1>1, <2>1 DEF ChildMoves, ChildKept
<1>10. q.replied <=> \E i \in 1..Len(more) : more[i].kind = "child" /\ more[i].replied = "yes"
  <2>1. (\E i \in 1..Len(more) : more[i].kind = "child" /\ more[i].replied = "yes") <=>
          \/ e.kind = "child" /\ e.replied = "yes"
          \/ \E i \in 1..Len(es) : es[i].kind = "child" /\ es[i].replied = "yes"
    BY <1>2
  <2> QED
    BY <1>1, <2>1 DEF ChildMoves, ChildKept
<1>11. q.completed <=> \E i \in 1..Len(more) : Done(more[i])
  <2>1. (\E i \in 1..Len(more) : Done(more[i])) <=> Done(e) \/ \E i \in 1..Len(es) : Done(es[i])
    BY <1>2
  <2> QED
    BY <1>1, <2>1 DEF ChildMoves, ChildKept, Done
<1>12. ASSUME NEW i \in 1..Len(more), more[i].kind = "child"
       PROVE  /\ more[i].id = q.id
              /\ more[i].status # "error"
              /\ more[i].status = "cancelled" => \E k \in Starts(more) : k < i
  <2>1. CASE i = n
    BY <1>2, <1>3, <1>4, <1>5, <1>12, <2>1 DEF ChildMoves
  <2>2. CASE i # n
    <3>1. i \in 1..Len(es) /\ more[i] = es[i]
      BY <1>2, <2>2
    <3>2. /\ es[i].id = r.id /\ es[i].status # "error"
          /\ es[i].status = "cancelled" => \E k \in Starts(es) : k < i
      BY <1>1, <1>12, <3>1 DEF ChildKept
    <3>3. r.id # None
      BY <1>6, <1>12, <3>1, <3>2
    <3>4. q.id = r.id
      BY <3>3 DEF ChildMoves
    <3> QED
      BY <1>3, <3>1, <3>2, <3>4
  <2> QED
    BY <2>1, <2>2
<1> QED
  BY <1>8, <1>9, <1>10, <1>11, <1>12 DEF ChildKept

LEMMA MoreStart ==
  ASSUME NEW r, NEW q, NEW es, NEW e, NEW more, More(es, e, more), Ledger(r, es),
         RecipeMoves(r, q, e)
  PROVE  StartKept(q, more)
<1> DEFINE n == Len(es) + 1
<1>1. ChildKept(r, es) /\ StartKept(r, es)
  BY DEF Ledger
<1>2. /\ Len(es) \in Nat /\ 1..(n - 1) = 1..Len(es) /\ more[n] = e
      /\ \A i \in 1..Len(es) : more[i] = es[i]
      /\ \A i \in 1..Len(es) : 1..(i - 1) \subseteq 1..Len(es)
  BY DEF More
<1>3. /\ Starts(es) \subseteq 1..Len(es)
      /\ Starts(more) = Starts(es) \union (IF e.kind = "toolStart" /\ e.recipe THEN {n} ELSE {})
      /\ \A i \in Starts(es) : more[i] = es[i]
  BY MoreStarts
<1> HIDE DEF n
<1>4. CASE e.kind = "toolStart" /\ e.recipe
  <2>1. /\ r.prompt /\ (r.message \/ r.replied) /\ r.cleanup = None /\ e.call # None
        /\ q.cleanup = e.call
    BY <1>4 DEF RecipeMoves, MayCleanUp, Custody
  <2>2. Starts(more) = {n}
    BY <1>1, <1>3, <1>4, <2>1 DEF StartKept
  <2>3. \E k \in 1..(n - 1) : Accepted(more[k])
    BY <1>1, <1>2, <2>1 DEF ChildKept
  <2>4. \E k \in 1..(n - 1) : Replies(more[k])
    BY <1>1, <1>2, <2>1 DEF ChildKept, Replies
  <2> QED
    BY <1>2, <2>1, <2>2, <2>3, <2>4 DEF StartKept
<1>5. CASE ~(e.kind = "toolStart" /\ e.recipe)
  <2>1. q.cleanup = r.cleanup /\ Starts(more) = Starts(es)
    BY <1>3, <1>5 DEF RecipeMoves
  <2>2. ASSUME NEW i \in Starts(es)
        PROVE  /\ more[i].call = q.cleanup
               /\ \A j \in Starts(es) : j = i
               /\ \E k \in 1..(i - 1) : Accepted(more[k])
               /\ \E k \in 1..(i - 1) : Replies(more[k])
    <3>1. /\ es[i].call = r.cleanup
          /\ \A j \in Starts(es) : j = i
          /\ \E k \in 1..(i - 1) : Accepted(es[k])
          /\ \E k \in 1..(i - 1) : Replies(es[k])
      BY <1>1 DEF StartKept
    <3>2. \A k \in 1..(i - 1) : more[k] = es[k]
      BY <1>2, <1>3
    <3> QED
      BY <1>3, <2>1, <3>1, <3>2
  <2> QED
    BY <1>1, <2>1, <2>2 DEF StartKept
<1> QED
  BY <1>4, <1>5

LEMMA MoreEnd ==
  ASSUME NEW r, NEW q, NEW es, NEW e, NEW more, More(es, e, more), Ledger(r, es),
         ChildMoves(r, q, e), RecipeMoves(r, q, e)
  PROVE  EndKept(q, more)
<1> DEFINE n == Len(es) + 1
<1>1. ChildKept(r, es) /\ StartKept(r, es) /\ EndKept(r, es) /\ TextKept(r, es)
  BY DEF Ledger
<1>2. /\ Len(es) \in Nat /\ 1..(n - 1) = 1..Len(es) /\ more[n] = e /\ Len(more) = n
      /\ \A i \in 1..Len(es) : more[i] = es[i]
      /\ \A i \in 1..Len(es) : 1..(i - 1) \subseteq 1..Len(es)
      /\ \A i \in 1..Len(es) : (i + 1)..n = ((i + 1)..Len(es)) \union {n}
      /\ \A i \in 1..Len(es) : (i + 1)..Len(es) \subseteq 1..Len(es)
      /\ (n + 1)..n = {}
  BY DEF More
<1>3. /\ Results(es) \subseteq 1..Len(es)
      /\ Results(more) =
           Results(es) \union (IF e.kind = "toolEnd" /\ e.call = r.cleanup THEN {n} ELSE {})
  BY <1>1, MoreResults
<1> HIDE DEF n
<1>4. CASE e.kind = "toolEnd" /\ e.call = r.cleanup
  <2>1. /\ ~r.cleaned /\ q.cleaned /\ e.marker /\ r.id \in {None, e.child}
        /\ r.message \/ r.completed
    BY <1>4 DEF RecipeMoves, CleanedUp, Complete
  <2>2. q.message = r.message
    BY <1>4 DEF ChildMoves
  <2>3. r.message \/ \E k \in 1..(n - 1) : Done(more[k])
    BY <1>1, <1>2, <2>1 DEF ChildKept
  <2>4. ASSUME NEW k \in 1..(n - 1)
        PROVE  /\ more[k].kind = "child" => more[k].id = e.child
               /\ more[k].kind # "assistant"
    <3>1. k \in 1..Len(es) /\ more[k] = es[k]
      BY <1>2
    <3>2. es[k].kind = "child" => es[k].id = r.id /\ es[k].id # None
      BY <1>1, <3>1, EventFields, NoneAssumption DEF ChildKept, More
    <3>3. es[k].kind # "assistant"
      BY <1>1, <2>1, <3>1 DEF TextKept
    <3> QED
      BY <2>1, <3>1, <3>2, <3>3
  <2>5. Closes(q, more, n)
    BY <1>2, <2>1, <2>2, <2>3, <2>4 DEF Closes
  <2> QED
    BY <1>3, <1>4, <2>1, <2>5 DEF EndKept
<1>5. CASE ~(e.kind = "toolEnd" /\ e.call = r.cleanup)
  <2>1. q.cleaned = r.cleaned /\ Results(more) = Results(es)
    BY <1>3, <1>5 DEF RecipeMoves
  <2>2. ASSUME r.cleaned
        PROVE  \E j \in Results(more) : Closes(q, more, j)
    <3>1. PICK j \in Results(es) : Closes(r, es, j)
      BY <1>1, <2>2 DEF EndKept
    <3>2. j \in 1..Len(es) /\ more[j] = es[j]
      BY <1>2, <1>3
    <3>3. /\ e.kind \notin {"message", "toolStart", "toolEnd"}
          /\ e.kind = "child" => e.status = "cancelled"
      BY <2>2 DEF ChildMoves, RecipeMoves
    <3>4. q.message = r.message
      BY <3>3 DEF ChildMoves
    <3>5. \A k \in 1..(j - 1) : more[k] = es[k]
      BY <1>2, <3>2
    <3>6. ASSUME NEW k \in (j + 1)..Len(more)
          PROVE  /\ more[k].kind \notin {"message", "toolStart", "toolEnd"}
                 /\ more[k].kind = "child" => more[k].status = "cancelled"
      <4>1. CASE k = n
        BY <1>2, <3>3, <4>1
      <4>2. CASE k # n
        <5>1. k \in (j + 1)..Len(es) /\ k \in 1..Len(es)
          BY <1>2, <3>2, <4>2
        <5>2. more[k] = es[k]
          BY <1>2, <5>1
        <5> QED
          BY <3>1, <5>1, <5>2 DEF Closes
      <4> QED
        BY <4>1, <4>2
    <3>7. Closes(q, more, j)
      BY <3>1, <3>2, <3>4, <3>5, <3>6 DEF Closes
    <3> QED
      BY <2>1, <3>7
  <2> QED
    BY <1>1, <2>1, <2>2 DEF EndKept
<1> QED
  BY <1>4, <1>5

LEMMA MoreText ==
  ASSUME NEW r, NEW q, NEW es, NEW e, NEW more, More(es, e, more), Ledger(r, es),
         RecipeMoves(r, q, e), TextMoves(r, q, e), ~(e.kind = "assistant" /\ e.text = "prose")
  PROVE  TextKept(q, more)
<1> DEFINE n == Len(es) + 1
<1>1. TextKept(r, es)
  BY DEF Ledger
<1>2. /\ 1..Len(more) = (1..Len(es)) \union {n} /\ more[n] = e
      /\ \A i \in 1..Len(es) : more[i] = es[i]
  BY DEF More
<1> HIDE DEF n
<1>3. r.cleaned => q.cleaned
  BY DEF RecipeMoves
<1>4. CASE e.kind = "assistant"
  <2>1. /\ e.text \in Texts /\ e.text # "failed" /\ r.cleaned /\ r.text = None
        /\ q.text = e.text
    BY <1>4 DEF TextMoves
  <2>2. q.text # None
    BY <2>1, NoneAssumption
  <2>3. \A i \in 1..Len(es) : es[i].kind # "assistant"
    BY <1>1, <2>1 DEF TextKept
  <2>4. \A i \in 1..Len(more) : more[i].kind = "assistant" => i = n
    BY <1>2, <2>3
  <2> QED
    BY <1>2, <1>3, <1>4, <2>1, <2>2, <2>4 DEF TextKept
<1>5. CASE e.kind # "assistant"
  <2>1. q.text = r.text
    BY <1>5 DEF TextMoves
  <2>2. \A i \in 1..Len(more) : more[i].kind = "assistant" => i \in 1..Len(es) /\ more[i] = es[i]
    BY <1>2, <1>5
  <2> QED
    BY <1>1, <1>2, <1>3, <2>1, <2>2 DEF TextKept
<1> QED
  BY <1>4, <1>5

\* The events that Idle may leave out of the log of a session that goes on.
SaysNothing(e) ==
  \/ e.kind \in {"update", "toolUpdate", "otherResponse", "other", "agentEnd"}
  \/ e.kind = "assistant" /\ e.text = "prose"
  \/ e.kind = "toolStart" /\ ~e.recipe
  \/ e.kind = "toolEnd" /\ ~e.marker

\* The record and the log grow together.
LEMMA ReadLedger ==
  ASSUME NEW r \in Session, r.pc = "streaming", NEW es \in Seq(Events), Ledger(r, es),
         NEW e \in Events, NEW q, q = After(Counted(r, e.kind), e), q.pc = "streaming"
  PROVE  /\ ~(e.kind = "assistant" /\ e.text = "prose") => Ledger(q, Append(es, e))
         /\ SaysNothing(e) => Ledger(q, es)
<1>1. Moves(r, q, e)
  BY EventMoves
<1>2. ASSUME ~(e.kind = "assistant" /\ e.text = "prose")
      PROVE  Ledger(q, Append(es, e))
  <2>1. More(es, e, Append(es, e))
    BY AppendMore
  <2> QED
    BY <1>1, <1>2, <2>1, MoreChild, MoreStart, MoreEnd, MoreText DEF Ledger, Moves
<1>3. ASSUME SaysNothing(e)
      PROVE  Ledger(q, es)
  <2>1. ~(e.kind = "toolEnd" /\ e.call = r.cleanup)
    BY <1>1, <1>3 DEF Moves, RecipeMoves, CleanedUp, SaysNothing
  <2>2. SameRecord(r, q)
    BY <1>1, <1>3, <2>1 DEF Moves, ChildMoves, RecipeMoves, TextMoves, SameRecord, SaysNothing
  <2> QED
    BY <2>2, IdleLedger
<1> QED
  BY <1>2, <1>3

-----------------------------------------------------------------------------

\* With this event, which ends the session, the record and the events agree on what is proven.
LEMMA AnswerOfRecord ==
  ASSUME NEW r \in Session, Ledger(r, log), NEW e \in Events, e.kind = "agentEnd",
         More(log, e, log'),
         e.children = (IF r.message THEN "one" ELSE "none"),
         r.prompt, Custody(r), Complete(r), r.cleaned, r.text # None, e.texts = <<r.text>>
  PROVE  \E t \in Texts : Proves(t)'
<1> DEFINE n == Len(log) + 1
<1>1. ChildKept(r, log) /\ StartKept(r, log) /\ EndKept(r, log) /\ TextKept(r, log)
  BY DEF Ledger
<1>2. /\ n \in Nat /\ Len(log') = n /\ log'[n] = e /\ n \in 1..n
      /\ \A i \in 1..Len(log) : log'[i] = log[i] /\ i < n /\ i \in 1..n
      /\ \A i \in 1..n : i = n \/ i \in 1..Len(log)
  BY DEF More
<1>3. PICK end \in Results(log) : Closes(r, log, end)
  BY <1>1 DEF EndKept
<1>4. PICK start \in Starts(log) : start < end /\ log[end].call = log[start].call
  BY DEF Results
<1>5. PICK final \in 1..Len(log) : log[final].kind = "assistant"
  BY <1>1 DEF TextKept
<1>6. /\ start \in 1..Len(log) /\ end \in 1..Len(log) /\ log[end].kind = "toolEnd"
      /\ log[start].kind = "toolStart" /\ log[start].recipe
  BY DEF Starts, Results
<1> HIDE DEF n
<1>7. end < final
  <2>1. final # end
    BY <1>5, <1>6
  <2>2. final \notin 1..(end - 1)
    BY <1>3, <1>5 DEF Closes
  <2> QED
    BY <1>6, <2>1, <2>2
<1>8. \A i \in OfKind("toolStart")' : log'[i].recipe => i = start
  <2>1. ASSUME NEW i \in 1..n, log'[i].kind = "toolStart", log'[i].recipe
        PROVE  i = start
    <3>1. i \in 1..Len(log) /\ log'[i] = log[i]
      BY <1>2, <2>1
    <3>2. i \in Starts(log)
      BY <2>1, <3>1 DEF Starts
    <3> QED
      BY <1>1, <3>2 DEF StartKept
  <2> QED
    BY <1>2, <2>1 DEF OfKind
<1>9. /\ \E k \in 1..(start - 1) : Accepted(log'[k])
      /\ \E k \in 1..(start - 1) : Replies(log'[k])
  <2>1. \A k \in 1..(start - 1) : log'[k] = log[k]
    BY <1>2, <1>6
  <2> QED
    BY <1>1, <2>1 DEF StartKept
<1>10. /\ log'[start] = log[start] /\ log'[end] = log[end] /\ log'[final] = log[final]
       /\ log[end].marker /\ log[final].text = r.text
  BY <1>1, <1>2, <1>3, <1>5, <1>6 DEF Closes, TextKept
<1>11. ASSUME NEW i \in OfKind("child")'
       PROVE  /\ i \in 1..Len(log) /\ log'[i] = log[i] /\ log[i].kind = "child"
              /\ log[i].id = r.id
  BY <1>1, <1>2 DEF OfKind, ChildKept
<1>12. ASSUME NEW i \in OfKind("child")'
       PROVE  /\ \A k \in OfKind("child")' : log'[k].id = log'[i].id
              /\ log'[i].status # "error"
              /\ i < end => log'[i].id = log'[end].child
              /\ log'[i].status = "cancelled" => i > start
  <2>1. \A k \in OfKind("child")' : log'[k].id = log'[i].id
    BY <1>11
  <2>2. log'[i].status # "error"
    BY <1>1, <1>11 DEF ChildKept
  <2>3. i < end => log'[i].id = log'[end].child
    <3>1. i < end => i \in 1..(end - 1)
      BY <1>6, <1>11
    <3> QED
      BY <1>3, <1>10, <1>11, <3>1 DEF Closes
  <2>4. log'[i].status = "cancelled" => i > start
    <3>1. log'[i].status = "cancelled" => \E k \in Starts(log) : k < i
      BY <1>1, <1>11 DEF ChildKept
    <3>2. \A k \in Starts(log) : k = start
      BY <1>1 DEF StartKept
    <3> QED
      BY <1>6, <1>11, <3>1, <3>2
  <2> QED
    BY <2>1, <2>2, <2>3, <2>4
<1>13. ASSUME NEW i \in (end + 1)..n
       PROVE  /\ log'[i].kind \notin {"message", "toolStart", "toolEnd"}
              /\ log'[i].kind = "child" => log'[i].status = "cancelled"
              /\ log'[i].kind = "assistant" => i = final
  <2>1. CASE i = n
    BY <1>2, <2>1
  <2>2. CASE i # n
    <3>1. i \in (end + 1)..Len(log) /\ i \in 1..Len(log) /\ log'[i] = log[i]
      BY <1>2, <1>6, <2>2
    <3> QED
      BY <1>1, <1>3, <1>5, <3>1 DEF Closes, TextKept
  <2> QED
    BY <2>1, <2>2
<1>14. OfKind("message")' # {} <=> r.message
  <2>1. OfKind("message")' # {} <=> \E i \in 1..Len(log) : log[i].kind = "message"
    BY <1>2 DEF OfKind
  <2> QED
    BY <1>1, <2>1 DEF ChildKept
<1>15. OfKind("message")' # {} \/ \E k \in 1..(end - 1) : Done(log'[k])
  <2>1. \A k \in 1..(end - 1) : log'[k] = log[k]
    BY <1>2, <1>6
  <2> QED
    BY <1>3, <1>14, <2>1 DEF Closes
<1>16. log'[n].children = (IF OfKind("message")' = {} THEN "none" ELSE "one")
  BY <1>2, <1>14
<1>17. /\ start \in OfKind("toolStart")' /\ end \in OfKind("toolEnd")'
       /\ final \in OfKind("assistant")'
  BY <1>2, <1>5, <1>6, <1>10 DEF OfKind
<1>18. ProvenBy(r.text, start, end, final)'
  BY <1>2, <1>4, <1>5, <1>6, <1>7, <1>8, <1>9, <1>10, <1>12, <1>13, <1>15, <1>16, <1>17
     DEF ProvenBy
<1>19. r.text \in Texts
  BY DEF Session
<1> QED
  BY <1>2, <1>5, <1>6, <1>18, <1>19 DEF Proves

LEMMA RecordOfAnswer ==
  ASSUME NEW r \in Session, Ledger(r, log), NEW e \in Events, e.kind = "agentEnd",
         More(log, e, log'), NEW t \in Texts, Proves(t)'
  PROVE  /\ e.children = (IF r.message THEN "one" ELSE "none")
         /\ r.prompt /\ Custody(r) /\ Complete(r) /\ r.cleaned
         /\ r.text # None /\ e.texts = <<r.text>> /\ r.text # "failed"
<1> DEFINE n == Len(log) + 1
<1>1. ChildKept(r, log) /\ StartKept(r, log) /\ EndKept(r, log) /\ TextKept(r, log)
  BY DEF Ledger
<1>2. /\ n \in Nat /\ Len(log') = n /\ log'[n] = e
      /\ \A i \in 1..Len(log) : log'[i] = log[i]
      /\ 1..Len(log) \subseteq 1..n /\ \A i \in 1..n : i = n \/ i \in 1..Len(log)
      /\ \A i \in 1..n : 1..(i - 1) \subseteq 1..Len(log)
  BY DEF More
<1>3. PICK start, end, final \in 1..n : ProvenBy(t, start, end, final)'
  BY <1>2 DEF Proves
<1> HIDE DEF n
<1>4. /\ start < end /\ end < final /\ final < n
      /\ log'[start].kind = "toolStart" /\ log'[start].recipe
      /\ \E k \in 1..(start - 1) : Accepted(log'[k])
      /\ \E k \in 1..(start - 1) : Replies(log'[k])
      /\ log'[end].kind = "toolEnd" /\ log'[end].call = log'[start].call
      /\ log'[final].kind = "assistant" /\ log'[final].text = t
      /\ OfKind("message")' # {} \/ \E k \in 1..(end - 1) : Done(log'[k])
      /\ e.children = (IF OfKind("message")' = {} THEN "none" ELSE "one")
      /\ e.texts = <<t>>
  BY <1>2, <1>3 DEF ProvenBy, OfKind
<1>5. \A k : k \in 1..(start - 1) \/ k \in 1..(end - 1) => k \in 1..Len(log) /\ log'[k] = log[k]
  BY <1>2
<1>6. /\ start \in 1..Len(log) /\ end \in 1..Len(log) /\ final \in 1..Len(log)
      /\ log'[start] = log[start] /\ log'[end] = log[end] /\ log'[final] = log[final]
  BY <1>2, <1>4
<1>7. r.prompt /\ Custody(r)
  BY <1>1, <1>4, <1>5 DEF ChildKept, Custody, Replies
<1>8. OfKind("message")' # {} <=> r.message
  <2>1. OfKind("message")' # {} <=> \E i \in 1..Len(log) : log[i].kind = "message"
    <3>1. \A i \in 1..n : log'[i].kind = "message" => i \in 1..Len(log) /\ log'[i] = log[i]
      BY <1>2
    <3> QED
      BY <1>2, <3>1 DEF OfKind
  <2> QED
    BY <1>1, <2>1 DEF ChildKept
<1>9. Complete(r)
  BY <1>1, <1>4, <1>5, <1>8 DEF ChildKept, Complete
<1>10. r.cleaned
  <2>1. start \in Starts(log)
    BY <1>4, <1>6 DEF Starts
  <2>2. end \in Results(log)
    BY <1>4, <1>6, <2>1 DEF Results
  <2> QED
    BY <1>1, <2>2 DEF EndKept
<1>11. r.text = t /\ r.text # None /\ r.text # "failed"
  BY <1>1, <1>4, <1>6 DEF TextKept
<1> QED
  BY <1>4, <1>7, <1>8, <1>9, <1>10, <1>11

\* The session is left on an agent_end: for an answer, or for a limit, or without a proof.
LEMMA AgentEndAnswers ==
  ASSUME s \in Session, s.pc = "streaming", Ledger(s, log), log \in Seq(Events),
         NEW e \in Events, e.kind = "agentEnd", s' = After(Counted(s, e.kind), e),
         s'.pc # "streaming", log' = Append(log, e)
  PROVE  /\ s'.outcome = "result" => \E t \in Texts : Proves(t)'
         /\ (\E t \in Texts : Proves(t)') => s'.outcome \in {"result"} \union Limits
<1> DEFINE r == Counted(s, e.kind)
<1>1. r \in Session /\ SameRecord(s, r) /\ Ledger(r, log) /\ r.pc = "streaming"
  <2>1. r \in Session /\ SameRecord(s, r)
    BY EventFields, CountedTyped, CountedRecord
  <2> HIDE DEF r
  <2> QED
    BY <2>1, IdleLedger DEF SameRecord
<1> HIDE DEF r
<1>2. More(log, e, log')
  BY AppendMore
<1>3. \A o \in Codes : Fail(r, o).outcome = o
  BY DEF Fail, Leave, New
<1>4. CASE s' # OnAgentEnd(r, e)
  <2>1. s' = Fail(r, "RAW_TRANSPORT") \/ (Exceeded(r) # "none" /\ s' = Fail(r, Exceeded(r)))
    BY <1>4 DEF After, Handled, r
  <2>2. "RAW_TRANSPORT" \in Limits /\ (Exceeded(r) # "none" => Exceeded(r) \in Limits)
    BY DEF Limits, Exceeded
  <2>3. s'.outcome \in Limits /\ "result" \notin Limits
    BY <1>3, <2>1, <2>2 DEF Codes, Limits
  <2> QED
    BY <2>3
<1>5. CASE s' = OnAgentEnd(r, e)
  <2> DEFINE a == [Leave(r, "settling", "result") EXCEPT !.stage = 6]
  <2>1. a.outcome = "result"
    BY DEF Leave, New
  <2> HIDE DEF a
  <2>2. "PROVIDER_ERROR" \in Codes /\ "FINAL_TEXT" \in Codes /\ "FINAL_TEXT" \in Limits
        /\ Malformed(r).outcome = "MALFORMED_PROVIDER_OUTPUT"
    BY <1>3, CodeNames DEF Malformed, Limits
  <2>3. Malformed(r).outcome # "result" /\ Fail(r, "PROVIDER_ERROR").outcome # "result"
        /\ Fail(r, "FINAL_TEXT").outcome = "FINAL_TEXT"
    BY <1>3, <2>2
  <2>4. s' # r
    BY <1>1
  <2>5. s' = IF e.children # (IF r.message THEN "one" ELSE "none") THEN Malformed(r)
             ELSE IF ~(r.prompt /\ Custody(r) /\ Complete(r)) THEN r
             ELSE IF ~r.cleaned THEN Malformed(r)
             ELSE IF e.texts = <<"failed">> THEN Fail(r, "PROVIDER_ERROR")
             ELSE IF r.text = None \/ e.texts # <<r.text>> THEN Malformed(r)
             ELSE IF r.text \in LongTexts THEN Fail(r, "FINAL_TEXT")
             ELSE a
    BY <1>5 DEF OnAgentEnd, a
  <2>6. ASSUME s'.outcome = "result"
        PROVE  \E t \in Texts : Proves(t)'
    <3>1. /\ e.children = (IF r.message THEN "one" ELSE "none")
          /\ r.prompt /\ Custody(r) /\ Complete(r) /\ r.cleaned
          /\ r.text # None /\ e.texts = <<r.text>>
      BY <2>3, <2>4, <2>5, <2>6
    <3> QED
      BY <1>1, <1>2, <3>1, AnswerOfRecord
  <2>7. ASSUME NEW t \in Texts, Proves(t)'
        PROVE  s'.outcome \in {"result"} \union Limits
    <3>1. /\ e.children = (IF r.message THEN "one" ELSE "none")
          /\ r.prompt /\ Custody(r) /\ Complete(r) /\ r.cleaned
          /\ r.text # None /\ e.texts = <<r.text>> /\ r.text # "failed"
      BY <1>1, <1>2, <2>7, RecordOfAnswer
    <3>2. e.texts # <<"failed">>
      BY <3>1
    <3> QED
      BY <2>1, <2>2, <2>3, <2>5, <3>1, <3>2
  <2> QED
    BY <2>6, <2>7
<1> QED
  BY <1>4, <1>5

\* What is on record of a session agrees with its events as long as it is read, and its outcome
\* agrees with them once an agent_end has ended it.
AnswerInv ==
  /\ RpcInv
  /\ s.pc \in {"new", "starting", "prompting"} => ~s.completed /\ s.text = None
  /\ s.pc = "streaming" => Ledger(s, log)
  /\ AnswerIsProven

LEMMA BlankLedger ==
  ASSUME NEW r, Blank(r), ~r.completed, r.text = None
  PROVE  Ledger(r, <<>>)
<1>1. Len(<<>>) = 0 /\ 1..0 = {}
  OBVIOUS
<1>2. Starts(<<>>) = {} /\ Results(<<>>) = {}
  BY <1>1 DEF Starts, Results
<1> QED
  BY <1>1, <1>2 DEF Blank, Ledger, ChildKept, StartKept, EndKept, TextKept

LEMMA ReadAnswers ==
  ASSUME AnswerInv, NEW e \in Events, Read(e)
  PROVE  AnswerInv'
<1>1. /\ s \in Session /\ s.pc = "streaming" /\ Ledger(s, log) /\ log \in Seq(Events)
      /\ s' = After(Counted(s, e.kind), e)
      /\ log' = IF s'.pc # "streaming" /\ e.kind # "agentEnd" THEN <<>>
                ELSE IF Idle(s', e) THEN log ELSE Append(log, e)
  BY DEF AnswerInv, RpcInv, TypeOK, Read
<1>2. RpcInv' /\ s'.pc \in {"streaming", "settling", "unwinding"}
  <2>1. Outcome(s, s', e)
    BY <1>1, EventOutcome DEF AnswerInv, RpcInv
  <2> QED
    BY <2>1, ReadInv DEF AnswerInv, Outcome
<1>3. ASSUME s'.pc = "streaming"
      PROVE  Ledger(s', log')
  <2>1. Idle(s', e) => SaysNothing(e)
    BY <1>3 DEF Idle, SaysNothing
  <2>2. e.kind = "assistant" /\ e.text = "prose" => Idle(s', e)
    BY DEF Idle
  <2>3. /\ ~(e.kind = "assistant" /\ e.text = "prose") => Ledger(s', Append(log, e))
        /\ SaysNothing(e) => Ledger(s', log)
    BY <1>1, <1>3, ReadLedger
  <2> QED
    BY <1>1, <1>3, <2>1, <2>2, <2>3
<1>4. AnswerIsProven'
  <2>1. SUFFICES ASSUME log' # <<>>, s'.pc # "streaming"
                 PROVE  /\ s'.outcome = "result" => \E t \in Texts : Proves(t)'
                        /\ (\E t \in Texts : Proves(t)') =>
                             s'.outcome \in {"result"} \union Limits
    BY DEF AnswerIsProven
  <2>2. e.kind = "agentEnd" /\ log' = Append(log, e)
    BY <1>1, <2>1 DEF Idle
  <2> QED
    BY <1>1, <2>1, <2>2, AgentEndAnswers
<1> QED
  BY <1>2, <1>3, <1>4 DEF AnswerInv

\* The steps around the reading: they leave the events and the outcome, or forget the events.
LEMMA AroundAnswers ==
  ASSUME AnswerInv, Invoke \/ Start \/ Prompt \/ LineTooLong \/ EndOfStream \/ Timeout \/ Cancel
                    \/ Terminate \/ Settle \/ Finish
  PROVE  AnswerInv'
<1>1. RpcInv'
  BY InvokeInv, StartInv, PromptInv, BreakOffInv, UnwindInv DEF AnswerInv
<1>2. s \in Session
  BY DEF AnswerInv, RpcInv, TypeOK
<1>3. CASE Invoke \/ Start \/ Prompt
  <2>1. /\ s.pc \in {"new", "starting", "prompting"} /\ log' = <<>>
        /\ Blank(s) /\ ~s.completed /\ s.text = None
    BY <1>3 DEF Invoke, Start, Prompt, AnswerInv, RpcInv
  <2>2. AnswerIsProven'
    BY <2>1 DEF AnswerIsProven
  <2>3. \/ s'.pc \notin {"new", "starting", "prompting", "streaming"}
        \/ /\ Blank(s') /\ ~s'.completed /\ s'.text = None
    <3>1. "CONTEXT_LIMIT_EXCEEDED" \in {"result"} \union Codes
      BY CodeNames
    <3>2. CASE s' = Leave(s, "ended", "CONTEXT_LIMIT_EXCEEDED")
      BY <1>2, <3>1, <3>2, LeaveTyped
    <3>3. CASE \E code \in {"CONTEXT_LIMIT_EXCEEDED", "OSError"} : s' = Fail(s, code)
      BY <1>2, <3>3, FailTyped, CodeNames
    <3>4. CASE s' \in {[s EXCEPT !.pc = "starting"], [s EXCEPT !.pc = "prompting"],
                       [s EXCEPT !.pc = "streaming", !.stage = 1]}
      BY <1>2, <2>1, <3>4 DEF Blank, Session
    <3> QED
      BY <1>3, <3>2, <3>3, <3>4 DEF Invoke, Start, Prompt
  <2> QED
    BY <1>1, <2>1, <2>2, <2>3, BlankLedger DEF AnswerInv
<1>4. CASE LineTooLong \/ EndOfStream \/ Timeout \/ Cancel
  <2>1. log' = <<>>
    BY <1>4 DEF LineTooLong, EndOfStream, Timeout, Cancel, Interrupted
  <2>2. s'.pc \in {"unwinding", "ended"}
    <3>1. CASE \E code \in Codes : s' = Fail(s, code)
      BY <1>2, <3>1, FailTyped
    <3>2. CASE Cancel
      <4> DEFINE r == [s EXCEPT !.cancels = @ + 1]
                 q == [r EXCEPT !.pc = "ended", !.outcome = "cancelled", !.abandoned = TRUE]
      <4>1. s' = Fail(r, "cancelled") \/ s' = q
        BY <3>2 DEF Cancel
      <4>2. r \in Session
        BY <1>2, <3>2, LengthsAssumption DEF Cancel, Session
      <4>3. q.pc = "ended"
        BY <4>2 DEF Session
      <4> HIDE DEF r, q
      <4>4. Fail(r, "cancelled").pc = "unwinding"
        BY <4>2, FailTyped, CodeNames
      <4> QED
        BY <4>1, <4>3, <4>4
    <3> QED
      BY <1>4, <3>1, <3>2, CodeNames DEF LineTooLong, EndOfStream, Timeout, Interrupted
  <2> QED
    BY <1>1, <2>1, <2>2 DEF AnswerInv, AnswerIsProven
<1>5. CASE Terminate \/ Settle \/ Finish
  <2>1. /\ log' = log /\ s.pc \in {"settling", "unwinding"}
        /\ s'.pc \in {"settling", "unwinding", "ended"} /\ s'.outcome = s.outcome
    BY <1>2, <1>5 DEF Terminate, Settle, Finish, Session
  <2>2. \A t : Proves(t)' <=> Proves(t)
    BY <2>1 DEF Proves, ProvenBy, OfKind
  <2>3. AnswerIsProven'
    BY <2>1, <2>2 DEF AnswerInv, AnswerIsProven
  <2> QED
    BY <1>1, <2>1, <2>3 DEF AnswerInv
<1> QED
  BY <1>3, <1>4, <1>5

\* For sessions of any length: a call that an agent_end ended has an answer exactly if the events
\* it read prove the text, whatever the agent sent and in whatever order.
THEOREM AnswersAreProven == Spec => []AnswerIsProven
<1>1. Init => AnswerInv
  <2> SUFFICES ASSUME Init PROVE AnswerInv
    OBVIOUS
  <2>1. s \in Session /\ s.pc = "new" /\ Blank(s) /\ ~s.completed /\ s.text = None
    BY NewTyped DEF Init, New, Blank
  <2>2. <<>> \in Seq(Events)
    OBVIOUS
  <2>3. RpcInv
    BY <2>1, <2>2 DEF Init, RpcInv, TypeOK, NothingLeftBehind
  <2> QED
    BY <2>1, <2>3 DEF Init, AnswerInv, AnswerIsProven
<1>2. AnswerInv /\ Next => AnswerInv'
  BY ReadAnswers, AroundAnswers DEF Next
<1>3. AnswerInv /\ UNCHANGED vars => AnswerInv'
  <2> SUFFICES ASSUME AnswerInv, UNCHANGED vars PROVE AnswerInv'
    OBVIOUS
  <2>1. s' = s /\ agent' = agent /\ dir' = dir /\ log' = log
    BY DEF vars
  <2>2. \A t : Proves(t)' <=> Proves(t)
    BY <2>1 DEF Proves, ProvenBy, OfKind
  <2>3. RpcInv'
    BY <2>1 DEF AnswerInv, RpcInv, TypeOK, Recorded, OfKind, NothingLeftBehind
  <2> QED
    BY <2>1, <2>2, <2>3 DEF AnswerInv, AnswerIsProven
<1>4. AnswerInv => AnswerIsProven
  BY DEF AnswerInv
<1> QED
  BY <1>1, <1>2, <1>3, <1>4, PTL DEF Spec

=============================================================================
