--------------------------- MODULE JobStoreProofs ---------------------------
(***************************************************************************)
(* Proofs about JobStore, for every set of jobs, keys, policies and        *)
(* configurations and every retry ceiling.                                 *)
(***************************************************************************)
EXTENDS JobStore, TLAPS

-----------------------------------------------------------------------------
(* Types *)

LEMMA Words ==
  /\ \A s \in NonTerminal \union Terminal \union {"absent"} : s \in JobStates
  /\ \A s \in Active : s \in NonTerminal
  /\ {"none", "settled", "CANCELLED", "DEADLINE_EXCEEDED", "RETRY_EXHAUSTED",
      "PROVIDER_POLICY_DRIFT", "PROVIDER_ATTEMPT_INTERRUPTED"} \subseteq Errors
  /\ {"none", "open", "ended", "uncertain", "cancelled"} \subseteq CallStatuses
  /\ {"queued", "framing"} \subseteq NonTerminal
  /\ {"succeeded", "failed", "cancelled"} \subseteq Terminal
  /\ "absent" \notin NonTerminal /\ "absent" \notin Terminal
  /\ NonTerminal \cap Terminal = {}
  /\ "queued" \notin Active
  BY DEF JobStates, NonTerminal, Terminal, Active, Errors, CallStatuses

LEMMA EmptyRows ==
  /\ NoJob \in JobRow
  /\ NoAttempts \in [AttemptNumbers -> AttemptRow]
  /\ NoCalls \in [AttemptNumbers -> [CallSlots -> CallStatuses]]
  /\ NoKeyRow \in KeyRow
<1>1. NoJob \in JobRow
  <2>1. 0 \in 0..MaxAttempts
    BY StoreAssumption
  <2>2. QED
    BY <2>1, Words DEF NoJob, JobRow
<1>2. QED
  BY <1>1, Words DEF NoAttempts, NoAttemptRow, AttemptRow, NoCalls, NoKeyRow, KeyRow

LEMMA MovedTyped ==
  ASSUME TypeOK, NEW j \in JobIds, NEW to \in JobStates, NEW e \in Errors
  PROVE  /\ Moved(j, to) \in [JobIds -> JobRow]
         /\ MovedWith(j, to, e) \in [JobIds -> JobRow]
  BY DEF Moved, MovedWith, TypeOK, JobRow

LEMMA AttemptEndedTyped ==
  ASSUME TypeOK, NEW j \in JobIds, NEW a \in AttemptNumbers, NEW s \in {"terminal", "abandoned"}
  PROVE  AttemptEnded(j, a, s) \in [JobIds -> [AttemptNumbers -> AttemptRow]]
<1>1. attempts[j] \in [AttemptNumbers -> AttemptRow] /\ attempts[j][a] \in AttemptRow
  BY DEF TypeOK
<1>2. [attempts[j][a] EXCEPT !.state = s] \in AttemptRow
  BY <1>1 DEF AttemptRow
<1>3. [attempts[j] EXCEPT ![a] = [attempts[j][a] EXCEPT !.state = s]]
        \in [AttemptNumbers -> AttemptRow]
  BY <1>1, <1>2
<1>4. AttemptEnded(j, a, s) =
        [attempts EXCEPT ![j] =
           [attempts[j] EXCEPT ![a] = [attempts[j][a] EXCEPT !.state = s]]]
  BY DEF AttemptEnded, TypeOK
<1>5. QED
  BY <1>3, <1>4 DEF TypeOK

LEMMA CallsTyped ==
  ASSUME TypeOK, NEW j \in JobIds, NEW a \in AttemptNumbers, NEW c \in CallSlots,
         NEW s \in CallStatuses
  PROVE  [calls EXCEPT ![j][a][c] = s]
           \in [JobIds -> [AttemptNumbers -> [CallSlots -> CallStatuses]]]
  BY DEF TypeOK

LEMMA InitTyped == Init => TypeOK
  BY EmptyRows DEF Init, TypeOK

LEMMA RecoveryTyped ==
  ASSUME TypeOK, NEW g \in Configs, RecoverStartup(g)
  PROVE  TypeOK'
<1>1. job' \in [JobIds -> JobRow]
  <2>1. 0 \in 0..MaxAttempts
    BY StoreAssumption
  <2>2. ASSUME NEW j \in JobIds
        PROVE  InterruptedJob(j, g) \in JobRow
    <3>1. job[j] \in JobRow
      BY DEF TypeOK
    <3>2. /\ \A e \in Errors : [job[j] EXCEPT !.state = "failed", !.error = e] \in JobRow
          /\ [job[j] EXCEPT !.state = "queued", !.attempt = 0, !.error = "none"] \in JobRow
      BY <2>1, <3>1, Words DEF JobRow
    <3>3. (job[j].attempt < g.ceiling) \/ (job[j].attempt >= g.ceiling)
      <4>1. job[j].attempt \in Nat /\ g.ceiling \in Nat
        BY <3>1, StoreAssumption DEF JobRow
      <4>2. QED
        BY <4>1
    <3>4. QED
      BY <3>2, <3>3, Words DEF InterruptedJob
  <2>3. ASSUME NEW j \in JobIds
        PROVE  RecoveredJob(j, g) \in JobRow
    BY <2>2, Words DEF RecoveredJob, TypeOK, JobRow
  <2>4. QED
    BY <2>3 DEF RecoverStartup
<1>2. attempts' \in [JobIds -> [AttemptNumbers -> AttemptRow]]
  <2>1. ASSUME NEW j \in JobIds, NEW a \in AttemptNumbers
        PROVE  RecoveredAttempt(j, a) \in AttemptRow
    <3>1. attempts[j][a] \in AttemptRow
      BY DEF TypeOK
    <3>2. QED
      BY <3>1 DEF RecoveredAttempt, AttemptRow
  <2>2. QED
    BY <2>1 DEF RecoverStartup
<1>3. calls' \in [JobIds -> [AttemptNumbers -> [CallSlots -> CallStatuses]]]
  <2>1. ASSUME NEW j \in JobIds, NEW A, NEW s \in CallStatuses
        PROVE  Closed(j, A, s) \in [AttemptNumbers -> [CallSlots -> CallStatuses]]
    BY DEF Closed, TypeOK
  <2>2. \A j \in JobIds : RecoveredCalls(j) \in [AttemptNumbers -> [CallSlots -> CallStatuses]]
    BY <2>1, Words DEF RecoveredCalls
  <2>3. QED
    BY <2>2 DEF RecoverStartup
<1>4. QED
  BY <1>1, <1>2, <1>3 DEF RecoverStartup, TypeOK

LEMMA ClaimTyped ==
  ASSUME TypeOK, NEW j \in JobIds, ClaimNextJob(j)
  PROVE  TypeOK'
<1>1. CASE ClaimExpired(j) \/ ClaimDrifted(j) \/ ClaimExhausted(j)
  BY <1>1, MovedTyped, Words DEF ClaimExpired, ClaimDrifted, ClaimExhausted, TypeOK
<1>2. CASE ClaimAttempt(j)
  <2>1. PICK n \in 1..(MaxAttempts + 1) :
          /\ WithinCeiling(n)
          /\ attempts' = [attempts EXCEPT ![j][n] = [state |-> "active", policy |-> config.policy]]
          /\ job' = [job EXCEPT ![j].attempt = n, ![j].state = "framing"]
    BY <1>2 DEF ClaimAttempt
  <2>2. config.policy \in Policies /\ config.ceiling \in 1..MaxAttempts
    BY StoreAssumption DEF TypeOK
  <2>3. n \in AttemptNumbers /\ n \in 0..MaxAttempts
    BY <2>1, <2>2, StoreAssumption DEF WithinCeiling, AttemptNumbers
  <2>4. [state |-> "active", policy |-> config.policy] \in AttemptRow
    BY <2>2 DEF AttemptRow
  <2>5. attempts' \in [JobIds -> [AttemptNumbers -> AttemptRow]]
    BY <2>1, <2>3, <2>4 DEF TypeOK
  <2>6. job' \in [JobIds -> JobRow]
    BY <2>1, <2>3, Words DEF TypeOK, JobRow
  <2>7. QED
    BY <1>2, <2>5, <2>6 DEF ClaimAttempt, TypeOK
<1>3. QED
  BY <1>1, <1>2 DEF ClaimNextJob

\* One step keeps every table within its columns' types.
LEMMA NextTyped ==
  ASSUME TypeOK, [Next]_vars
  PROVE  TypeOK'
<1>1. ASSUME NEW j \in JobIds, NEW h \in Hashes, NEW k \in Keys \union {NoKey}, CreateJob(j, h, k)
      PROVE  TypeOK'
  <2>1. [NoJob EXCEPT !.state = "queued", !.hash = h] \in JobRow
    BY EmptyRows, Words DEF JobRow
  <2>2. job' \in [JobIds -> JobRow]
    BY <1>1, <2>1 DEF CreateJob, TypeOK
  <2>3. keyRow' \in [Keys -> KeyRow]
    <3>1. [hash |-> h, job |-> j] \in KeyRow
      BY DEF KeyRow
    <3>2. QED
      BY <1>1, <3>1 DEF CreateJob, TypeOK
  <2>4. QED
    BY <1>1, <2>2, <2>3 DEF CreateJob, TypeOK
<1>2. ASSUME NEW j \in JobIds, RequestCancel(j)
      PROVE  TypeOK'
  <2>1. CASE CancelQueued(j)
    BY <2>1, MovedTyped, Words DEF CancelQueued, TypeOK
  <2>2. CASE CancelActive(j)
    BY <2>2 DEF CancelActive, TypeOK, JobRow
  <2>3. QED
    BY <1>2, <2>1, <2>2 DEF RequestCancel
<1>3. ASSUME NEW j \in JobIds, DeadlinePasses(j)
      PROVE  TypeOK'
  BY <1>3 DEF DeadlinePasses, TypeOK, JobRow
<1>4. ASSUME NEW j \in JobIds, ClaimNextJob(j)
      PROVE  TypeOK'
  BY <1>4, ClaimTyped
<1>5. ASSUME NEW j \in JobIds, NEW a \in AttemptNumbers, AttemptStep(j, a)
      PROVE  TypeOK'
  <2>1. ASSUME NEW to \in Active, Transition(j, a, to)
        PROVE  TypeOK'
    BY <2>1, MovedTyped, Words DEF Transition, TypeOK
  <2>2. ASSUME NEW to \in Terminal, NEW e \in Errors, SettleTerminal(j, a, to, e)
        PROVE  TypeOK'
    BY <2>2, MovedTyped, AttemptEndedTyped, Words DEF SettleTerminal, TypeOK
  <2>3. ASSUME NEW c \in CallSlots,
               AddProviderCall(j, a, c) \/ FinishProviderCall(j, a, c) \/ SettleCancelledCall(j, a, c)
        PROVE  TypeOK'
    <3>1. PICK s \in CallStatuses : calls' = [calls EXCEPT ![j][a][c] = s]
      BY <2>3, Words DEF AddProviderCall, FinishProviderCall, SettleCancelledCall
    <3>2. calls' \in [JobIds -> [AttemptNumbers -> [CallSlots -> CallStatuses]]]
      BY <3>1, CallsTyped
    <3>3. UNCHANGED <<job, attempts, keyRow, older, config>>
      BY <2>3 DEF AddProviderCall, FinishProviderCall, SettleCancelledCall
    <3>4. QED
      BY <3>2, <3>3 DEF TypeOK
  <2>4. QED
    BY <1>5, <2>1, <2>2, <2>3, Words
       DEF AttemptStep, SettleSucceeded, SettleFailed, SettleCancelled
<1>6. ASSUME NEW S \in SUBSET JobIds, CleanupRetention(S)
      PROVE  TypeOK'
  BY <1>6, EmptyRows DEF CleanupRetention, KeysWithout, TypeOK
<1>7. ASSUME NEW g \in Configs, RecoverStartup(g)
      PROVE  TypeOK'
  BY <1>7, RecoveryTyped
<1>8. CASE UNCHANGED vars
  BY <1>8 DEF vars, TypeOK
<1>9. QED
  BY <1>1, <1>2, <1>3, <1>4, <1>5, <1>6, <1>7, <1>8 DEF Next, JobStep

-----------------------------------------------------------------------------
(* The inductive invariant: JobInv(j) reads only the rows of j, so a step is *)
(* checked against the one job whose rows it writes.                         *)

RowsKept(j) == job'[j] = job[j] /\ attempts'[j] = attempts[j] /\ calls'[j] = calls[j]

LEMMA Frame ==
  ASSUME NEW j \in JobIds, JobInv(j), RowsKept(j)
  PROVE  JobInv(j)'
<1>1. AttemptHistory(j)'
  BY DEF JobInv, RowsKept, AttemptHistory, HasAttempt
<1>2. CurrentAttempt(j)'
  BY DEF JobInv, RowsKept, CurrentAttempt, HasAttempt
<1>3. JobColumns(j)'
  BY DEF JobInv, RowsKept, JobColumns
<1>4. PoliciesOf(j)'
  BY DEF JobInv, RowsKept, PoliciesOf, MustNotReplay, HasAttempt
<1>5. QED
  BY <1>1, <1>2, <1>3, <1>4 DEF JobInv

\* A job that leaves the queue without a run keeps its history.
LEMMA DropInv ==
  ASSUME TypeOK, NEW j \in JobIds, JobInv(j), job[j].state = "queued",
         NEW s \in {"failed", "cancelled"}, NEW e \in Errors \ {"none"},
         job' = MovedWith(j, s, e), UNCHANGED <<attempts, calls>>
  PROVE  JobInv(j)'
<1>1. /\ job'[j].state = s /\ job'[j].error = e
      /\ job'[j].cancel = job[j].cancel /\ job'[j].attempt = job[j].attempt
  BY DEF MovedWith, TypeOK, JobRow
<1>2. AttemptHistory(j)'
  BY <1>1 DEF JobInv, AttemptHistory, HasAttempt
<1>3. CurrentAttempt(j)'
  BY <1>1 DEF JobInv, CurrentAttempt, Active
<1>4. JobColumns(j)'
  BY <1>1 DEF JobInv, JobColumns, Active
<1>5. PoliciesOf(j)'
  BY <1>1 DEF JobInv, PoliciesOf, MustNotReplay, HasAttempt
<1>6. QED
  BY <1>2, <1>3, <1>4, <1>5 DEF JobInv

\* A running job that stays among the running stages keeps its attempt and its history.
LEMMA RunningInv ==
  ASSUME NEW j \in JobIds, JobInv(j), job[j].state \in Active, job'[j].state \in Active,
         job'[j].attempt = job[j].attempt, job'[j].error = job[j].error,
         attempts'[j] = attempts[j], calls'[j] = calls[j]
  PROVE  JobInv(j)'
<1>1. AttemptHistory(j)'
  BY DEF JobInv, AttemptHistory, HasAttempt, Active
<1>2. CurrentAttempt(j)'
  BY DEF JobInv, CurrentAttempt, HasAttempt
<1>3. JobColumns(j)'
  BY DEF JobInv, JobColumns, Active
<1>4. PoliciesOf(j)'
  BY DEF JobInv, PoliciesOf, MustNotReplay, HasAttempt, Active
<1>5. QED
  BY <1>1, <1>2, <1>3, <1>4 DEF JobInv

LEMMA CreateInv ==
  ASSUME TypeOK, NEW j \in JobIds, JobInv(j),
         NEW h \in Hashes, NEW k \in Keys \union {NoKey}, CreateJob(j, h, k)
  PROVE  JobInv(j)'
<1>1. job[j] = NoJob /\ attempts'[j] = NoAttempts /\ calls'[j] = NoCalls
  BY DEF CreateJob, JobInv, JobColumns, Exists
<1>2. /\ job'[j].state = "queued" /\ job'[j].error = "none"
      /\ job'[j].cancel = FALSE /\ job'[j].attempt = 0
  BY DEF CreateJob, TypeOK, JobRow, NoJob
<1>3. \A a \in AttemptNumbers : attempts'[j][a] = NoAttemptRow /\ ~HasAttempt(j, a)'
  BY <1>1 DEF NoAttempts, HasAttempt, NoAttemptRow
<1>4. AttemptHistory(j)'
  <2>1. 0 \in 0..MaxAttempts /\ \A a \in AttemptNumbers : ~(a <= 0)
    BY StoreAssumption DEF AttemptNumbers
  <2>2. QED
    BY <1>3, <2>1 DEF AttemptHistory
<1>5. CurrentAttempt(j)'
  BY <1>2, <1>3 DEF CurrentAttempt, Active, NoAttemptRow
<1>6. JobColumns(j)'
  BY <1>2 DEF JobColumns
<1>7. PoliciesOf(j)'
  BY <1>1, <1>3 DEF PoliciesOf, MustNotReplay, NoCalls
<1>8. QED
  BY <1>4, <1>5, <1>6, <1>7 DEF JobInv

\* The claim starts the attempt after the last one, which no recovery forbade to replay.
LEMMA ClaimAttemptInv ==
  ASSUME TypeOK, NEW j \in JobIds, JobInv(j), ClaimAttempt(j)
  PROVE  JobInv(j)'
<1>1. PICK n \in 1..(MaxAttempts + 1) :
        /\ IsNextAttempt(j, n)
        /\ WithinCeiling(n)
        /\ attempts' = [attempts EXCEPT ![j][n] = [state |-> "active", policy |-> config.policy]]
        /\ job' = [job EXCEPT ![j].attempt = n, ![j].state = "framing"]
  BY DEF ClaimAttempt
<1>2. config.policy \in Policies /\ config.ceiling \in 1..MaxAttempts
  BY StoreAssumption DEF TypeOK
<1>3. n \in AttemptNumbers /\ n \in Nat /\ n \in 0..MaxAttempts
  BY <1>1, <1>2, StoreAssumption DEF WithinCeiling, AttemptNumbers
<1>4. job[j].state = "queued" /\ ~job[j].cancel /\ ~Drifted(j) /\ calls'[j] = calls[j]
  BY DEF ClaimAttempt, Head
<1>5. /\ job'[j].state = "framing" /\ job'[j].attempt = n
      /\ job'[j].cancel = job[j].cancel /\ job'[j].error = job[j].error
  BY <1>1 DEF TypeOK, JobRow
<1>6. attempts'[j][n] = [state |-> "active", policy |-> config.policy]
  BY <1>1, <1>3 DEF TypeOK
<1>7. \A a \in AttemptNumbers \ {n} : attempts'[j][a] = attempts[j][a]
  BY <1>1 DEF TypeOK
<1>8. \A a \in AttemptNumbers : a \in Nat
  BY StoreAssumption DEF AttemptNumbers
<1>9. \A a \in AttemptNumbers : HasAttempt(j, a) <=> a < n
  <2>1. PICK m \in 0..MaxAttempts : \A a \in AttemptNumbers : HasAttempt(j, a) <=> a <= m
    BY DEF JobInv, AttemptHistory
  <2>2. \A a \in AttemptNumbers : HasAttempt(j, a) => a < n
    BY <1>1 DEF IsNextAttempt
  <2>3. n > 1 => HasAttempt(j, n - 1)
    BY <1>1 DEF IsNextAttempt
  <2>4. n > 1 => n - 1 \in AttemptNumbers
    BY <1>3, StoreAssumption DEF AttemptNumbers
  <2>5. n > 1 => n - 1 <= m
    BY <2>1, <2>3, <2>4
  <2>6. \A a \in AttemptNumbers : a < n => a <= m
    BY <1>3, <1>8, <2>5, StoreAssumption DEF AttemptNumbers
  <2>7. QED
    BY <2>1, <2>2, <2>6
<1>10. \A a \in AttemptNumbers : HasAttempt(j, a)' <=> a <= n
  BY <1>3, <1>6, <1>7, <1>8, <1>9 DEF HasAttempt
<1>11. \A a \in AttemptNumbers : a < n => attempts[j][a].state = "abandoned"
  BY <1>4, <1>9 DEF JobInv, AttemptHistory
<1>12. AttemptHistory(j)'
  <2>1. \E m \in 0..MaxAttempts : \A a \in AttemptNumbers : HasAttempt(j, a)' <=> a <= m
    BY <1>3, <1>10
  <2>2. \A a \in AttemptNumbers : HasAttempt(j, a)' \/ attempts'[j][a] = NoAttemptRow
    BY <1>6, <1>7 DEF JobInv, AttemptHistory, HasAttempt
  <2>3. ASSUME NEW a \in AttemptNumbers \ {1}, HasAttempt(j, a)'
        PROVE  attempts'[j][a - 1].state = "abandoned"
    <3>1. a - 1 \in AttemptNumbers /\ a - 1 < n /\ a - 1 # n
      BY <1>3, <1>8, <1>10, <2>3, StoreAssumption DEF AttemptNumbers
    <3>2. QED
      BY <1>7, <1>11, <3>1
  <2>4. QED
    BY <1>5, <2>1, <2>2, <2>3 DEF AttemptHistory
<1>13. CurrentAttempt(j)'
  <2>1. job'[j].state \in Active
    BY <1>5 DEF Active
  <2>2. \A a \in AttemptNumbers : attempts'[j][a].state = "active" => a = n
    BY <1>4, <1>7 DEF JobInv, CurrentAttempt, Active
  <2>3. QED
    BY <1>3, <1>5, <1>6, <1>10, <2>1, <2>2 DEF CurrentAttempt
<1>14. JobColumns(j)'
  BY <1>4, <1>5 DEF JobInv, JobColumns, Active
<1>15. PoliciesOf(j)'
  <2>1. ASSUME NEW a \in AttemptNumbers, MustNotReplay(j, a)'
        PROVE  a = n
    BY <1>4, <1>7, <2>1 DEF JobInv, PoliciesOf, MustNotReplay
  <2>2. \A a \in AttemptNumbers : MustNotReplay(j, a)' =>
          \A b \in AttemptNumbers : HasAttempt(j, b)' => b <= a
    BY <1>10, <2>1
  <2>3. ASSUME NEW a \in AttemptNumbers, a < n,
               attempts[j][a].policy \in FailoverPolicies \/ config.policy \in FailoverPolicies
        PROVE  attempts[j][a].policy = config.policy
    <3>1. 1 \in AttemptNumbers /\ 1 < n
      BY <1>3, <1>8, <2>3, StoreAssumption DEF AttemptNumbers
    <3>2. HasAttempt(j, 1) /\ HasAttempt(j, a)
      BY <1>9, <2>3, <3>1
    <3>3. /\ attempts[j][a].policy \in FailoverPolicies => attempts[j][1].policy = attempts[j][a].policy
          /\ attempts[j][1].policy \in FailoverPolicies => attempts[j][a].policy = attempts[j][1].policy
      BY <3>1, <3>2 DEF JobInv, PoliciesOf
    <3>4. QED
      BY <1>4, <2>3, <3>2, <3>3 DEF Drifted
  <2>4. ASSUME NEW a \in AttemptNumbers, NEW b \in AttemptNumbers,
               HasAttempt(j, a)', HasAttempt(j, b)', attempts'[j][a].policy \in FailoverPolicies
        PROVE  attempts'[j][b].policy = attempts'[j][a].policy
    <3>1. (a = n \/ a < n) /\ (b = n \/ b < n)
      <4>1. a <= n /\ b <= n
        BY <1>10, <2>4
      <4>2. n \in Nat /\ a \in Nat /\ b \in Nat
        BY <1>3, <1>8
      <4>3. QED
        BY <4>1, <4>2
    <3>2. CASE a = n /\ b < n
      BY <1>6, <1>7, <2>3, <2>4, <3>2, <1>3, <1>8
    <3>3. CASE a < n /\ b = n
      BY <1>6, <1>7, <2>3, <2>4, <3>3, <1>3, <1>8
    <3>4. CASE a < n /\ b < n
      <4>1. a # n /\ b # n
        BY <1>3, <1>8, <3>4
      <4>2. HasAttempt(j, a) /\ HasAttempt(j, b) /\ attempts[j][a].policy \in FailoverPolicies
        BY <1>7, <1>9, <2>4, <3>4, <4>1
      <4>3. QED
        BY <1>7, <4>1, <4>2 DEF JobInv, PoliciesOf
    <3>5. CASE a = n /\ b = n
      BY <3>5
    <3>6. QED
      BY <3>1, <3>2, <3>3, <3>4, <3>5
  <2>5. QED
    BY <1>5, <2>2, <2>4 DEF PoliciesOf
<1>16. QED
  BY <1>12, <1>13, <1>14, <1>15 DEF JobInv

\* The current attempt ends in state s: its job is settled, or abandoned by a recovery that
\* fails the job, cancels it or, where a replay is allowed, puts it back into the queue.
LEMMA EndInv ==
  ASSUME TypeOK, NEW j \in JobIds, JobInv(j), job[j].state \in Active,
         NEW s \in {"terminal", "abandoned"},
         attempts'[j] = [attempts[j] EXCEPT
                           ![job[j].attempt] = [attempts[j][job[j].attempt] EXCEPT !.state = s]],
         \A b \in AttemptNumbers : \A c \in CallSlots :
           calls'[j][b][c] # "none" <=> calls[j][b][c] # "none",
         job'[j].state \in Terminal \union {"queued"},
         job'[j].error # "none" <=> job'[j].state \in {"failed", "cancelled"},
         job'[j].cancel => job'[j].state \in {"failed", "cancelled"},
         job'[j].state = "queued" =>
           s = "abandoned" /\ job'[j].attempt = 0 /\ ~MustNotReplay(j, job[j].attempt)
  PROVE  JobInv(j)'
<1> DEFINE a == job[j].attempt
<1>1. /\ a \in AttemptNumbers /\ attempts[j][a].state = "active"
      /\ \A b \in AttemptNumbers : HasAttempt(j, b) => b <= a
      /\ \A b \in AttemptNumbers \ {a} : attempts[j][b].state # "active"
  BY DEF JobInv, CurrentAttempt
<1>2. attempts[j] \in [AttemptNumbers -> AttemptRow] /\ attempts[j][a] \in AttemptRow
  BY <1>1 DEF TypeOK
<1>3. /\ attempts'[j][a].state = s /\ attempts'[j][a].policy = attempts[j][a].policy
      /\ \A b \in AttemptNumbers \ {a} : attempts'[j][b] = attempts[j][b]
  BY <1>1, <1>2 DEF AttemptRow
<1>4. \A b \in AttemptNumbers : HasAttempt(j, b)' <=> HasAttempt(j, b)
  BY <1>1, <1>3 DEF HasAttempt
<1>5. \A b \in AttemptNumbers : attempts'[j][b].policy = attempts[j][b].policy
  BY <1>3
<1>6. \A b \in AttemptNumbers : MustNotReplay(j, b)' <=> MustNotReplay(j, b)
  BY <1>5 DEF MustNotReplay
<1>7. \A b \in AttemptNumbers \ {1} : b - 1 \in AttemptNumbers
  BY StoreAssumption DEF AttemptNumbers
<1>8. \A b \in AttemptNumbers \ {a} : HasAttempt(j, b) => attempts[j][b].state = "abandoned"
  <2>1. ASSUME NEW b \in AttemptNumbers \ {a}, HasAttempt(j, b)
        PROVE  b + 1 \in AttemptNumbers /\ b + 1 # 1 /\ b + 1 <= a /\ (b + 1) - 1 = b
    <3>1. b <= a
      BY <1>1, <2>1
    <3>2. QED
      BY <1>1, <2>1, <3>1, StoreAssumption DEF AttemptNumbers
  <2>2. PICK n \in 0..MaxAttempts : \A b \in AttemptNumbers : HasAttempt(j, b) <=> b <= n
    BY DEF JobInv, AttemptHistory
  <2>3. a <= n
    BY <1>1, <2>2 DEF HasAttempt
  <2>4. ASSUME NEW b \in AttemptNumbers \ {a}, HasAttempt(j, b)
        PROVE  HasAttempt(j, b + 1)
    <3>1. b + 1 <= n
      BY <1>1, <2>1, <2>3, <2>4, StoreAssumption DEF AttemptNumbers
    <3>2. QED
      BY <2>1, <2>2, <2>4, <3>1
  <2>5. ASSUME NEW b \in AttemptNumbers \ {a}, HasAttempt(j, b)
        PROVE  attempts[j][b].state = "abandoned"
    <3>1. attempts[j][(b + 1) - 1].state = "abandoned"
      BY <2>1, <2>4, <2>5 DEF JobInv, AttemptHistory
    <3>2. QED
      BY <2>1, <2>5, <3>1
  <2>6. QED
    BY <2>5
<1>9. AttemptHistory(j)'
  <2>1. \E n \in 0..MaxAttempts : \A b \in AttemptNumbers : HasAttempt(j, b)' <=> b <= n
    BY <1>4 DEF JobInv, AttemptHistory
  <2>2. \A b \in AttemptNumbers : HasAttempt(j, b)' \/ attempts'[j][b] = NoAttemptRow
    BY <1>1, <1>3, <1>4 DEF JobInv, AttemptHistory, HasAttempt
  <2>3. ASSUME NEW b \in AttemptNumbers \ {1}, HasAttempt(j, b)'
        PROVE  attempts'[j][b - 1].state = "abandoned"
    <3>1. b - 1 \in AttemptNumbers /\ attempts[j][b - 1].state = "abandoned"
      BY <1>4, <1>7, <2>3 DEF JobInv, AttemptHistory
    <3>2. QED
      BY <1>1, <1>3, <3>1
  <2>4. job'[j].state = "queued" =>
          \A b \in AttemptNumbers : HasAttempt(j, b)' => attempts'[j][b].state = "abandoned"
    BY <1>3, <1>4, <1>8
  <2>5. QED
    BY <2>1, <2>2, <2>3, <2>4 DEF AttemptHistory
<1>10. CurrentAttempt(j)'
  BY <1>1, <1>3 DEF CurrentAttempt, Active, Terminal
<1>11. JobColumns(j)'
  BY DEF JobColumns, Active, Terminal
<1>12. PoliciesOf(j)'
  <2>1. ASSUME NEW b \in AttemptNumbers, MustNotReplay(j, b)'
        PROVE  job'[j].state # "queued" /\ \A d \in AttemptNumbers : HasAttempt(j, d)' => d <= b
    <3>1. MustNotReplay(j, b) /\ \A d \in AttemptNumbers : HasAttempt(j, d) => d <= b
      BY <1>6, <2>1 DEF JobInv, PoliciesOf
    <3>2. a <= b
      BY <1>1, <3>1 DEF HasAttempt
    <3>3. b <= a
      <4>1. attempts[j][b].policy # NoPolicy
        BY <3>1, StoreAssumption DEF MustNotReplay
      <4>2. HasAttempt(j, b)
        BY <4>1 DEF JobInv, AttemptHistory, NoAttemptRow
      <4>3. QED
        BY <1>1, <4>2
    <3>4. a = b
      BY <1>1, <3>2, <3>3, StoreAssumption DEF AttemptNumbers
    <3>5. QED
      BY <1>4, <3>1, <3>4
  <2>2. QED
    BY <1>4, <1>5, <2>1 DEF JobInv, PoliciesOf
<1>13. QED
  BY <1>9, <1>10, <1>11, <1>12 DEF JobInv

\* Calls are recorded only for the current attempt of a running job.
LEMMA CallsInv ==
  ASSUME TypeOK, NEW j \in JobIds, JobInv(j), job[j].state # "absent",
         job'[j] = job[j], attempts'[j] = attempts[j],
         \A a \in AttemptNumbers : \A c \in CallSlots :
           calls'[j][a][c] # "none" =>
             calls[j][a][c] # "none" \/ (job[j].state \in Active /\ job[j].attempt = a)
  PROVE  JobInv(j)'
<1>1. AttemptHistory(j)'
  BY DEF JobInv, AttemptHistory, HasAttempt
<1>2. CurrentAttempt(j)'
  BY DEF JobInv, CurrentAttempt, HasAttempt
<1>3. JobColumns(j)'
  BY DEF JobInv, JobColumns
<1>4. PoliciesOf(j)'
  <2>1. ASSUME NEW a \in AttemptNumbers, MustNotReplay(j, a)'
        PROVE  job'[j].state # "queued" /\ \A b \in AttemptNumbers : HasAttempt(j, b)' => b <= a
    <3>1. CASE MustNotReplay(j, a)
      BY <3>1 DEF JobInv, PoliciesOf, HasAttempt
    <3>2. CASE job[j].state \in Active /\ job[j].attempt = a
      BY <3>2, Words DEF JobInv, CurrentAttempt, HasAttempt
    <3>3. QED
      BY <2>1, <3>1, <3>2 DEF MustNotReplay
  <2>2. QED
    BY <2>1 DEF JobInv, PoliciesOf, HasAttempt
<1>5. QED
  BY <1>1, <1>2, <1>3, <1>4 DEF JobInv

\* A job that accepts writes of attempt a is running, and a is its current attempt.
LEMMA WriterRuns ==
  ASSUME NEW j \in JobIds, JobInv(j), NEW a \in AttemptNumbers,
         job[j].attempt = a, job[j].state \in NonTerminal
  PROVE  job[j].state \in Active
<1>1. a # 0
  BY StoreAssumption DEF AttemptNumbers
<1>2. QED
  BY <1>1 DEF JobInv, JobColumns, NonTerminal

LEMMA SettleInv ==
  ASSUME TypeOK, NEW j \in JobIds, JobInv(j), NEW a \in AttemptNumbers,
         SettleSucceeded(j, a) \/ SettleFailed(j, a) \/ SettleCancelled(j, a)
  PROVE  JobInv(j)'
<1>1. PICK to \in Terminal, e \in Errors :
        /\ SettleTerminal(j, a, to, e)
        /\ e # "none" <=> to \in {"failed", "cancelled"}
  BY Words DEF SettleSucceeded, SettleFailed, SettleCancelled
<1>2. a # 0
  BY StoreAssumption DEF AttemptNumbers
<1>3. job[j].attempt = a /\ job[j].state \in Active
  BY <1>1, <1>2, WriterRuns DEF SettleTerminal, CanTransition
<1>4. /\ job'[j].state = to /\ job'[j].error = e /\ job'[j].cancel = job[j].cancel
  BY <1>1 DEF SettleTerminal, MovedWith, TypeOK, JobRow
<1>5. job[j].cancel => to \in {"failed", "cancelled"}
  BY <1>1 DEF SettleTerminal, AcceptsOutput, Terminal
<1>6. attempts'[j] = [attempts[j] EXCEPT ![a] = [attempts[j][a] EXCEPT !.state = "terminal"]]
  BY <1>1 DEF SettleTerminal, AttemptEnded, TypeOK
<1>7. calls' = calls
  BY <1>1 DEF SettleTerminal
<1>8. to # "queued"
  BY Words
<1>9. QED
  BY <1>1, <1>3, <1>4, <1>5, <1>6, <1>7, <1>8, EndInv

LEMMA RecordCallInv ==
  ASSUME TypeOK, NEW j \in JobIds, JobInv(j), NEW a \in AttemptNumbers, NEW c \in CallSlots,
         AddProviderCall(j, a, c) \/ FinishProviderCall(j, a, c) \/ SettleCancelledCall(j, a, c)
  PROVE  JobInv(j)'
<1>1. PICK s \in CallStatuses : calls' = [calls EXCEPT ![j][a][c] = s]
  BY Words DEF AddProviderCall, FinishProviderCall, SettleCancelledCall
<1>2. UNCHANGED <<job, attempts>>
  BY DEF AddProviderCall, FinishProviderCall, SettleCancelledCall
<1>3. calls[j][a][c] # "none" \/ (job[j].state \in Active /\ job[j].attempt = a)
  BY WriterRuns DEF AddProviderCall, FinishProviderCall, SettleCancelledCall, AcceptsOutput
<1>4. \A b \in AttemptNumbers : \A d \in CallSlots :
        calls'[j][b][d] = calls[j][b][d] \/ (b = a /\ d = c)
  BY <1>1 DEF TypeOK
<1>5. job[j].state # "absent"
  <2>1. CASE job[j].state \in Active
    BY <2>1, Words
  <2>2. CASE calls[j][a][c] # "none"
    BY <2>2 DEF JobInv, JobColumns, NoCalls
  <2>3. QED
    BY <1>3, <2>1, <2>2
<1>6. QED
  BY <1>2, <1>3, <1>4, <1>5, CallsInv

LEMMA CleanupInv ==
  ASSUME NEW j \in JobIds, job'[j] = NoJob, attempts'[j] = NoAttempts, calls'[j] = NoCalls
  PROVE  JobInv(j)'
<1>1. \A a \in AttemptNumbers : attempts'[j][a] = NoAttemptRow /\ ~HasAttempt(j, a)'
  BY DEF NoAttempts, HasAttempt, NoAttemptRow
<1>2. AttemptHistory(j)'
  <2>1. 0 \in 0..MaxAttempts /\ \A a \in AttemptNumbers : ~(a <= 0)
    BY StoreAssumption DEF AttemptNumbers
  <2>2. QED
    BY <1>1, <2>1 DEF AttemptHistory
<1>3. CurrentAttempt(j)'
  BY <1>1 DEF CurrentAttempt, Active, NoAttemptRow, NoJob
<1>4. JobColumns(j)'
  BY DEF JobColumns, NoJob
<1>5. PoliciesOf(j)'
  BY <1>1 DEF PoliciesOf, MustNotReplay, NoCalls
<1>6. QED
  BY <1>2, <1>3, <1>4, <1>5 DEF JobInv

\* Recovery leaves finished and waiting jobs alone, cancels those that were asked to stop,
\* and abandons the interrupted attempt of every other one.
LEMMA RecoverInv ==
  ASSUME TypeOK, NEW j \in JobIds, JobInv(j), NEW g \in Configs, RecoverStartup(g)
  PROVE  JobInv(j)'
<1> DEFINE a == job[j].attempt
<1>1. /\ job'[j] = RecoveredJob(j, g)
      /\ attempts'[j] = [b \in AttemptNumbers |-> RecoveredAttempt(j, b)]
      /\ calls'[j] = RecoveredCalls(j)
  BY DEF RecoverStartup
<1>2. /\ attempts[j] \in [AttemptNumbers -> AttemptRow]
      /\ calls[j] \in [AttemptNumbers -> [CallSlots -> CallStatuses]]
      /\ job[j] \in JobRow
  BY DEF TypeOK
<1>3. \A b \in AttemptNumbers : \A c \in CallSlots :
        calls'[j][b][c] # "none" <=> calls[j][b][c] # "none"
  BY <1>1 DEF RecoveredCalls, Closed
<1>4. CASE job[j].state \notin Active
  <2>1. \A b \in AttemptNumbers : attempts[j][b].state # "active"
    BY <1>4 DEF JobInv, CurrentAttempt
  <2>2. ~Cancelling(j)
    BY <1>4, Words DEF Cancelling, JobInv, JobColumns, NonTerminal
  <2>3. \A b \in AttemptNumbers : ~Interrupted(j, b)
    BY <1>4 DEF Interrupted
  <2>4. job'[j] = job[j]
    BY <1>1, <2>2, <2>3 DEF RecoveredJob
  <2>5. attempts'[j] = attempts[j]
    <3>1. \A b \in AttemptNumbers : RecoveredAttempt(j, b) = attempts[j][b]
      BY <2>1, <2>2, <2>3 DEF RecoveredAttempt
    <3>2. QED
      BY <1>1, <1>2, <3>1
  <2>6. CASE job[j].state # "absent"
    BY <1>3, <2>4, <2>5, <2>6, CallsInv
  <2>7. CASE job[j].state = "absent"
    <3>1. calls[j] = NoCalls
      BY <2>7 DEF JobInv, JobColumns
    <3>2. calls'[j] = NoCalls
      <4>1. ~Finished(j)
        BY <2>7, Words DEF Finished
      <4>2. calls'[j] = Closed(j, {b \in AttemptNumbers : Interrupted(j, b) /\ MustNotReplay(j, b)},
                               "uncertain")
        BY <1>1, <4>1 DEF RecoveredCalls
      <4>3. QED
        BY <3>1, <4>2 DEF Closed, NoCalls
    <3>3. QED
      BY <2>4, <2>5, <3>1, <3>2, Frame DEF RowsKept
  <2>8. QED
    BY <2>6, <2>7
<1>5. CASE job[j].state \in Active
  <2>1. /\ a \in AttemptNumbers /\ attempts[j][a].state = "active"
        /\ \A b \in AttemptNumbers \ {a} : attempts[j][b].state # "active"
    BY <1>5 DEF JobInv, CurrentAttempt
  <2>2. ~Finished(j) /\ job[j].state \in NonTerminal
    BY <1>5, Words DEF Finished, Active, Terminal
  <2>3. attempts'[j] = [attempts[j] EXCEPT ![a] = [attempts[j][a] EXCEPT !.state = "abandoned"]]
    <3>1. RecoveredAttempt(j, a) = [attempts[j][a] EXCEPT !.state = "abandoned"]
      BY <1>5, <2>1, <2>2 DEF RecoveredAttempt, Cancelling, Interrupted
    <3>2. \A b \in AttemptNumbers \ {a} : RecoveredAttempt(j, b) = attempts[j][b]
      BY <2>1, <2>2 DEF RecoveredAttempt, Interrupted
    <3>3. QED
      BY <1>1, <1>2, <2>1, <3>1, <3>2
  <2>4. CASE job[j].cancel
    <3>1. job'[j] = [job[j] EXCEPT !.state = "cancelled", !.error = "CANCELLED"]
      <4>1. Cancelling(j) /\ ~\E b \in AttemptNumbers : Interrupted(j, b)
        BY <2>2, <2>4 DEF Cancelling, Interrupted
      <4>2. QED
        BY <1>1, <4>1 DEF RecoveredJob
    <3>2. job'[j].state = "cancelled" /\ job'[j].error = "CANCELLED"
      BY <1>2, <3>1 DEF JobRow
    <3>3. QED
      BY <1>3, <1>5, <2>3, <3>2, EndInv, Words
  <2>5. CASE ~job[j].cancel
    <3>1. job'[j] = InterruptedJob(j, g)
      <4>1. Interrupted(j, a) /\ ~Cancelling(j)
        BY <1>5, <2>1, <2>5 DEF Interrupted, Cancelling
      <4>2. QED
        BY <1>1, <2>1, <4>1 DEF RecoveredJob
    <3>2. CASE MustNotReplay(j, a)
      <4>1. job'[j] = [job[j] EXCEPT !.state = "failed", !.error = "PROVIDER_ATTEMPT_INTERRUPTED"]
        BY <3>1, <3>2 DEF InterruptedJob
      <4>2. job'[j].state = "failed" /\ job'[j].error = "PROVIDER_ATTEMPT_INTERRUPTED"
        BY <1>2, <4>1 DEF JobRow
      <4>3. QED
        BY <1>3, <1>5, <2>3, <4>2, EndInv, Words
    <3>3. CASE ~MustNotReplay(j, a) /\ a < g.ceiling
      <4>0. ~(a >= g.ceiling)
        <5>1. a \in Nat /\ g.ceiling \in Nat
          BY <1>2, StoreAssumption DEF JobRow
        <5>2. QED
          BY <3>3, <5>1
      <4>1. job'[j] = [job[j] EXCEPT !.state = "queued", !.attempt = 0, !.error = "none"]
        BY <3>1, <3>3, <4>0 DEF InterruptedJob
      <4>2. /\ job'[j].state = "queued" /\ job'[j].error = "none" /\ job'[j].attempt = 0
            /\ job'[j].cancel = job[j].cancel
        BY <1>2, <4>1 DEF JobRow
      <4>3. QED
        BY <1>3, <1>5, <2>3, <2>5, <3>3, <4>2, EndInv
    <3>4. CASE ~MustNotReplay(j, a) /\ a >= g.ceiling
      <4>1. ~(a < g.ceiling)
        <5>1. a \in Nat /\ g.ceiling \in Nat
          BY <1>2, StoreAssumption DEF JobRow
        <5>2. QED
          BY <3>4, <5>1
      <4>2. job'[j] = [job[j] EXCEPT !.state = "failed", !.error = "RETRY_EXHAUSTED"]
        BY <3>1, <3>4, <4>1 DEF InterruptedJob
      <4>3. job'[j].state = "failed" /\ job'[j].error = "RETRY_EXHAUSTED"
        BY <1>2, <4>2 DEF JobRow
      <4>4. QED
        BY <1>3, <1>5, <2>3, <4>3, EndInv, Words
    <3>5. a < g.ceiling \/ a >= g.ceiling
      <4>1. a \in Nat /\ g.ceiling \in Nat
        BY <1>2, StoreAssumption DEF JobRow
      <4>2. QED
        BY <4>1
    <3>6. QED
      BY <3>2, <3>3, <3>4, <3>5
  <2>6. QED
    BY <2>4, <2>5
<1>6. QED
  BY <1>4, <1>5

\* Every step of one job leaves the rows of the others alone.
LEMMA OthersKept ==
  ASSUME TypeOK, NEW j \in JobIds, JobStep(j), NEW i \in JobIds \ {j}
  PROVE  RowsKept(i)
<1>1. ASSUME NEW h \in Hashes, NEW k \in Keys \union {NoKey}, CreateJob(j, h, k)
      PROVE  RowsKept(i)
  BY <1>1 DEF CreateJob, RowsKept, TypeOK
<1>2. CASE RequestCancel(j) \/ DeadlinePasses(j)
  BY <1>2 DEF RequestCancel, CancelQueued, CancelActive, DeadlinePasses, MovedWith, RowsKept, TypeOK
<1>3. CASE ClaimExpired(j) \/ ClaimDrifted(j) \/ ClaimExhausted(j)
  BY <1>3 DEF ClaimExpired, ClaimDrifted, ClaimExhausted, MovedWith, RowsKept, TypeOK
<1>4. CASE ClaimAttempt(j)
  BY <1>4 DEF ClaimAttempt, RowsKept, TypeOK
<1>5. ASSUME NEW a \in AttemptNumbers, AttemptStep(j, a)
      PROVE  RowsKept(i)
  <2>1. ASSUME NEW to \in Active, Transition(j, a, to)
        PROVE  RowsKept(i)
    BY <2>1 DEF Transition, Moved, RowsKept, TypeOK
  <2>2. CASE SettleSucceeded(j, a) \/ SettleFailed(j, a) \/ SettleCancelled(j, a)
    <3>1. PICK to, e : SettleTerminal(j, a, to, e)
      BY <2>2 DEF SettleSucceeded, SettleFailed, SettleCancelled
    <3>2. job' = MovedWith(j, to, e) /\ attempts' = AttemptEnded(j, a, "terminal") /\ calls' = calls
      BY <3>1 DEF SettleTerminal
    <3>3. job'[i] = job[i]
      BY <3>2 DEF MovedWith, TypeOK
    <3>4. attempts'[i] = attempts[i]
      BY <3>2 DEF AttemptEnded, TypeOK
    <3>5. QED
      BY <3>2, <3>3, <3>4 DEF RowsKept
  <2>3. ASSUME NEW c \in CallSlots,
               AddProviderCall(j, a, c) \/ FinishProviderCall(j, a, c) \/ SettleCancelledCall(j, a, c)
        PROVE  RowsKept(i)
    BY <2>3 DEF AddProviderCall, FinishProviderCall, SettleCancelledCall, RowsKept, TypeOK
  <2>4. QED
    BY <1>5, <2>1, <2>2, <2>3 DEF AttemptStep
<1>6. QED
  BY <1>1, <1>2, <1>3, <1>4, <1>5 DEF JobStep, ClaimNextJob

LEMMA JobStepInv ==
  ASSUME TypeOK, NEW j \in JobIds, JobInv(j), JobStep(j)
  PROVE  JobInv(j)'
<1>1. ASSUME NEW h \in Hashes, NEW k \in Keys \union {NoKey}, CreateJob(j, h, k)
      PROVE  JobInv(j)'
  BY <1>1, CreateInv
<1>2. CASE CancelQueued(j) \/ ClaimExpired(j) \/ ClaimDrifted(j) \/ ClaimExhausted(j)
  <2>1. job[j].state = "queued" /\ UNCHANGED <<attempts, calls>>
    BY <1>2 DEF CancelQueued, ClaimExpired, ClaimDrifted, ClaimExhausted, Head
  <2>2. PICK s \in {"failed", "cancelled"}, e \in Errors \ {"none"} : job' = MovedWith(j, s, e)
    BY <1>2 DEF CancelQueued, ClaimExpired, ClaimDrifted, ClaimExhausted, Errors
  <2>3. QED
    BY <2>1, <2>2, DropInv
<1>3. CASE CancelActive(j)
  <2>1. /\ job[j].state \in Active /\ job'[j].state = job[j].state
        /\ job'[j].attempt = job[j].attempt /\ job'[j].error = job[j].error
        /\ UNCHANGED <<attempts, calls>>
    BY <1>3 DEF CancelActive, TypeOK, JobRow
  <2>2. QED
    BY <2>1, RunningInv
<1>4. CASE DeadlinePasses(j)
  <2>1. /\ job[j].state \in NonTerminal /\ job'[j].state = job[j].state
        /\ job'[j].attempt = job[j].attempt /\ job'[j].error = job[j].error
        /\ job'[j].cancel = job[j].cancel /\ UNCHANGED <<attempts, calls>>
    BY <1>4 DEF DeadlinePasses, TypeOK, JobRow
  <2>2. AttemptHistory(j)' /\ CurrentAttempt(j)'
    BY <2>1 DEF JobInv, AttemptHistory, CurrentAttempt, HasAttempt
  <2>3. JobColumns(j)'
    BY <2>1, Words DEF JobInv, JobColumns
  <2>4. PoliciesOf(j)'
    BY <2>1 DEF JobInv, PoliciesOf, MustNotReplay, HasAttempt
  <2>5. QED
    BY <2>2, <2>3, <2>4 DEF JobInv
<1>5. CASE ClaimAttempt(j)
  BY <1>5, ClaimAttemptInv
<1>6. ASSUME NEW a \in AttemptNumbers, AttemptStep(j, a)
      PROVE  JobInv(j)'
  <2>1. ASSUME NEW to \in Active, Transition(j, a, to)
        PROVE  JobInv(j)'
    <3>1. job[j].state \in Active
      BY <2>1, WriterRuns DEF Transition, AcceptsOutput
    <3>2. /\ job'[j].state = to /\ job'[j].attempt = job[j].attempt
          /\ job'[j].error = job[j].error /\ UNCHANGED <<attempts, calls>>
      BY <2>1 DEF Transition, Moved, TypeOK, JobRow
    <3>3. QED
      BY <3>1, <3>2, RunningInv
  <2>2. QED
    BY <1>6, <2>1, SettleInv, RecordCallInv DEF AttemptStep
<1>7. QED
  BY <1>1, <1>2, <1>3, <1>4, <1>5, <1>6 DEF JobStep, RequestCancel, ClaimNextJob

LEMMA JobsInv ==
  ASSUME TypeOK, \A j \in JobIds : JobInv(j), [Next]_vars
  PROVE  \A j \in JobIds : JobInv(j)'
<1>1. ASSUME NEW i \in JobIds, JobStep(i), NEW j \in JobIds
      PROVE  JobInv(j)'
  <2>1. CASE i = j
    BY <1>1, <2>1, JobStepInv
  <2>2. CASE i # j
    BY <1>1, <2>2, OthersKept, Frame
  <2>3. QED
    BY <2>1, <2>2
<1>2. ASSUME NEW S \in SUBSET JobIds, CleanupRetention(S), NEW j \in JobIds
      PROVE  JobInv(j)'
  <2>1. CASE j \in S
    BY <1>2, <2>1, CleanupInv DEF CleanupRetention
  <2>2. CASE j \notin S
    BY <1>2, <2>2, Frame DEF CleanupRetention, RowsKept
  <2>3. QED
    BY <2>1, <2>2
<1>3. ASSUME NEW g \in Configs, RecoverStartup(g), NEW j \in JobIds
      PROVE  JobInv(j)'
  BY <1>3, RecoverInv
<1>4. ASSUME UNCHANGED vars, NEW j \in JobIds
      PROVE  JobInv(j)'
  BY <1>4, Frame DEF vars, RowsKept
<1>5. QED
  BY <1>1, <1>2, <1>3, <1>4 DEF Next

\* No step but the sweep deletes a job, and none changes its request.
LEMMA RequestsKept ==
  ASSUME TypeOK, NEW i \in JobIds, Exists(i), [Next]_vars,
         \A S \in SUBSET JobIds : ~CleanupRetention(S)
  PROVE  Exists(i)' /\ job'[i].hash = job[i].hash
<1>1. ASSUME NEW j \in JobIds, JobStep(j)
      PROVE  Exists(i)' /\ job'[i].hash = job[i].hash
  <2>1. CASE i # j
    BY <1>1, <2>1, OthersKept DEF RowsKept, Exists
  <2>2. ASSUME i = j, NEW s \in JobStates \ {"absent"}, NEW e \in Errors,
               job' = MovedWith(j, s, e) \/ job' = Moved(j, s)
        PROVE  Exists(i)' /\ job'[i].hash = job[i].hash
    BY <2>2 DEF MovedWith, Moved, Exists, TypeOK, JobRow
  <2>3. CASE i = j /\ (CancelQueued(j) \/ ClaimExpired(j) \/ ClaimDrifted(j) \/ ClaimExhausted(j))
    <3>1. PICK s \in {"failed", "cancelled"}, e \in Errors : job' = MovedWith(j, s, e)
      BY <2>3 DEF CancelQueued, ClaimExpired, ClaimDrifted, ClaimExhausted, Errors
    <3>2. QED
      BY <2>2, <2>3, <3>1, Words
  <2>4. CASE i = j /\ (CancelActive(j) \/ DeadlinePasses(j))
    BY <2>4 DEF CancelActive, DeadlinePasses, Exists, TypeOK, JobRow
  <2>5. CASE i = j /\ ClaimAttempt(j)
    <3>1. PICK n \in 1..(MaxAttempts + 1) : job' = [job EXCEPT ![j].attempt = n, ![j].state = "framing"]
      BY <2>5 DEF ClaimAttempt
    <3>2. QED
      BY <2>5, <3>1 DEF Exists, TypeOK, JobRow
  <2>6. ASSUME i = j, NEW a \in AttemptNumbers, AttemptStep(j, a)
        PROVE  Exists(i)' /\ job'[i].hash = job[i].hash
    <3>1. ASSUME NEW to \in Active, Transition(j, a, to)
          PROVE  Exists(i)' /\ job'[i].hash = job[i].hash
      BY <2>2, <2>6, <3>1, Words DEF Transition
    <3>2. ASSUME NEW to \in Terminal, NEW e \in Errors, SettleTerminal(j, a, to, e)
          PROVE  Exists(i)' /\ job'[i].hash = job[i].hash
      BY <2>2, <2>6, <3>2, Words DEF SettleTerminal
    <3>3. CASE UNCHANGED job
      BY <3>3 DEF Exists
    <3>4. QED
      BY <2>6, <3>1, <3>2, <3>3, Words
         DEF AttemptStep, SettleSucceeded, SettleFailed, SettleCancelled,
             AddProviderCall, FinishProviderCall, SettleCancelledCall
  <2>7. ~\E h \in Hashes, k \in Keys \union {NoKey} : i = j /\ CreateJob(j, h, k)
    BY DEF CreateJob
  <2>8. QED
    BY <1>1, <2>1, <2>3, <2>4, <2>5, <2>6, <2>7 DEF JobStep, RequestCancel, ClaimNextJob
<1>2. ASSUME NEW g \in Configs, RecoverStartup(g)
      PROVE  Exists(i)' /\ job'[i].hash = job[i].hash
  <2>1. job[i] \in JobRow /\ g.ceiling \in Nat
    BY StoreAssumption DEF TypeOK
  <2>2. InterruptedJob(i, g).state # "absent" /\ InterruptedJob(i, g).hash = job[i].hash
    <3>1. job[i].attempt < g.ceiling \/ job[i].attempt >= g.ceiling
      <4>1. job[i].attempt \in Nat
        BY <2>1, StoreAssumption DEF JobRow
      <4>2. QED
        BY <2>1, <4>1
    <3>2. \A s, e, n :
            /\ [job[i] EXCEPT !.state = s, !.error = e].state = s
            /\ [job[i] EXCEPT !.state = s, !.error = e].hash = job[i].hash
            /\ [job[i] EXCEPT !.state = s, !.attempt = n, !.error = e].state = s
            /\ [job[i] EXCEPT !.state = s, !.attempt = n, !.error = e].hash = job[i].hash
      BY <2>1 DEF JobRow
    <3>3. QED
      BY <3>1, <3>2 DEF InterruptedJob
  <2>3. RecoveredJob(i, g).state # "absent" /\ RecoveredJob(i, g).hash = job[i].hash
    BY <2>1, <2>2 DEF RecoveredJob, Exists, JobRow
  <2>4. QED
    BY <1>2, <2>3 DEF RecoverStartup, Exists
<1>3. CASE UNCHANGED vars
  BY <1>3 DEF vars, Exists
<1>4. QED
  BY <1>1, <1>2, <1>3 DEF Next

LEMMA KeysInv ==
  ASSUME TypeOK, KeyNamesItsJob, [Next]_vars
  PROVE  KeyNamesItsJob'
<1>1. CASE \A S \in SUBSET JobIds : ~CleanupRetention(S)
  <2>1. ASSUME NEW x \in Keys, keyRow'[x] = keyRow[x], keyRow'[x] # NoKeyRow
        PROVE  /\ keyRow'[x].job \in JobIds
               /\ job'[keyRow'[x].job].state # "absent"
               /\ job'[keyRow'[x].job].hash = keyRow'[x].hash
    BY <1>1, <2>1, RequestsKept DEF KeyNamesItsJob, Exists
  <2>2. ASSUME NEW j \in JobIds, NEW h \in Hashes, NEW k \in Keys \union {NoKey},
               CreateJob(j, h, k), NEW x \in Keys, keyRow'[x] # keyRow[x]
        PROVE  x = k /\ keyRow'[x] = [hash |-> h, job |-> j]
               /\ job'[j].state = "queued" /\ job'[j].hash = h
    <3>1. NoJob \in JobRow
      BY EmptyRows
    <3>2. QED
      BY <2>2, <3>1 DEF CreateJob, TypeOK, JobRow
  <2>3. ASSUME NEW x \in Keys, keyRow'[x] # keyRow[x]
        PROVE  \E j \in JobIds, h \in Hashes, k \in Keys \union {NoKey} : CreateJob(j, h, k)
    <3>1. ASSUME NEW j \in JobIds, JobStep(j),
                 ~\E h \in Hashes, k \in Keys \union {NoKey} : CreateJob(j, h, k)
          PROVE  keyRow' = keyRow
      <4>1. ASSUME NEW a \in AttemptNumbers, AttemptStep(j, a)
            PROVE  keyRow' = keyRow
        BY <4>1 DEF AttemptStep, Transition, SettleSucceeded, SettleFailed, SettleCancelled,
                    SettleTerminal, AddProviderCall, FinishProviderCall, SettleCancelledCall
      <4>2. QED
        BY <3>1, <4>1 DEF JobStep, RequestCancel, CancelQueued, CancelActive, DeadlinePasses,
             ClaimNextJob, ClaimExpired, ClaimDrifted, ClaimExhausted, ClaimAttempt
    <3>2. QED
      BY <1>1, <2>3, <3>1 DEF Next, RecoverStartup, vars
  <2>4. ASSUME NEW x \in Keys, keyRow'[x] # NoKeyRow
        PROVE  /\ keyRow'[x].job \in JobIds
               /\ job'[keyRow'[x].job].state # "absent"
               /\ job'[keyRow'[x].job].hash = keyRow'[x].hash
    <3>1. CASE keyRow'[x] = keyRow[x]
      BY <2>1, <2>4, <3>1
    <3>2. CASE keyRow'[x] # keyRow[x]
      <4>1. PICK j \in JobIds, h \in Hashes, k \in Keys \union {NoKey} : CreateJob(j, h, k)
        BY <2>3, <3>2
      <4>2. keyRow'[x] = [hash |-> h, job |-> j]
            /\ job'[j].state = "queued" /\ job'[j].hash = h
        BY <2>2, <3>2, <4>1
      <4>3. QED
        BY <4>2
    <3>3. QED
      BY <3>1, <3>2
  <2>5. QED
    BY <2>4 DEF KeyNamesItsJob, Exists
<1>2. ASSUME NEW S \in SUBSET JobIds, CleanupRetention(S)
      PROVE  KeyNamesItsJob'
  BY <1>2 DEF CleanupRetention, KeysWithout, KeyNamesItsJob, Exists
<1>3. QED
  BY <1>1, <1>2

-----------------------------------------------------------------------------
(* Verdicts on provider calls: finish_provider_call overwrites whatever it finds, so it must *)
(* not be reached for a call that a cancellation or a recovery has closed.                   *)

\* Attempt a of j may still record what its provider calls returned.
Records(j, a) == job[j].state \in Active /\ job[j].attempt = a /\ ~job[j].cancel

VerdictsOf(j) ==
  \A a \in AttemptNumbers : \A c \in CallSlots :
    /\ ~HasAttempt(j, a) => calls[j][a][c] = "none"
    /\ calls[j][a][c] \in {"uncertain", "cancelled"} => ~Records(j, a)

VerdictsKept(j) ==
  \A a \in AttemptNumbers : \A c \in CallSlots :
    calls[j][a][c] \in {"uncertain", "cancelled"} =>
      calls'[j][a][c] = calls[j][a][c] \/ job'[j].state = "absent"

\* The calls stay, and no attempt that has calls begins to record.
LEMMA CallsStayInv ==
  ASSUME NEW j \in JobIds, VerdictsOf(j), calls'[j] = calls[j],
         \A a \in AttemptNumbers : HasAttempt(j, a) => HasAttempt(j, a)',
         \A a \in AttemptNumbers : Records(j, a)' => Records(j, a) \/ ~HasAttempt(j, a)
  PROVE  VerdictsOf(j)' /\ VerdictsKept(j)
<1>1. ASSUME NEW a \in AttemptNumbers, NEW c \in CallSlots
      PROVE  /\ ~HasAttempt(j, a)' => calls'[j][a][c] = "none"
             /\ calls'[j][a][c] \in {"uncertain", "cancelled"} => ~Records(j, a)'
  BY <1>1 DEF VerdictsOf
<1>2. VerdictsOf(j)'
  BY <1>1 DEF VerdictsOf
<1>3. QED
  BY <1>2 DEF VerdictsKept

LEMMA RecordingInv ==
  ASSUME TypeOK, NEW j \in JobIds, JobInv(j), VerdictsOf(j),
         NEW a \in AttemptNumbers, NEW c \in CallSlots,
         AddProviderCall(j, a, c) \/ FinishProviderCall(j, a, c) \/ SettleCancelledCall(j, a, c)
  PROVE  VerdictsOf(j)' /\ VerdictsKept(j)
<1>1. /\ UNCHANGED <<job, attempts>>
      /\ \E t \in {"open", "ended", "cancelled"} : calls' = [calls EXCEPT ![j][a][c] = t]
  BY DEF AddProviderCall, FinishProviderCall, SettleCancelledCall
<1>2. PICK t \in {"open", "ended", "cancelled"} : calls' = [calls EXCEPT ![j][a][c] = t]
  BY <1>1
<1>3. calls'[j][a][c] = t /\ \A b \in AttemptNumbers : \A d \in CallSlots :
        calls'[j][b][d] = calls[j][b][d] \/ (b = a /\ d = c)
  BY <1>2 DEF TypeOK
<1>4. HasAttempt(j, a)
  <2>1. CASE AddProviderCall(j, a, c) \/ FinishProviderCall(j, a, c)
    <3>1. job[j].state \in Active /\ job[j].attempt = a
      BY <2>1, WriterRuns DEF AddProviderCall, FinishProviderCall, AcceptsOutput
    <3>2. QED
      BY <3>1 DEF JobInv, CurrentAttempt, HasAttempt
  <2>2. CASE SettleCancelledCall(j, a, c)
    BY <2>2 DEF SettleCancelledCall, VerdictsOf
  <2>3. QED
    BY <2>1, <2>2
<1>5. calls[j][a][c] \notin {"uncertain", "cancelled"}
  <2>1. CASE AddProviderCall(j, a, c)
    <3>1. calls[j][a][c] = "none" <=> c >= c
      BY <2>1 DEF AddProviderCall
    <3>2. c >= c
      BY DEF CallSlots
    <3>3. QED
      BY <3>1, <3>2
  <2>2. CASE FinishProviderCall(j, a, c)
    <3>1. Records(j, a)
      BY <2>2, WriterRuns DEF FinishProviderCall, AcceptsOutput, Records
    <3>2. QED
      BY <3>1 DEF VerdictsOf
  <2>3. CASE SettleCancelledCall(j, a, c)
    BY <2>3 DEF SettleCancelledCall
  <2>4. QED
    BY <2>1, <2>2, <2>3
<1>6. t = "cancelled" => ~Records(j, a)
  BY <1>2, <1>3 DEF AddProviderCall, FinishProviderCall, SettleCancelledCall, Records, TypeOK
<1>7. ASSUME NEW b \in AttemptNumbers, NEW d \in CallSlots
      PROVE  /\ ~HasAttempt(j, b)' => calls'[j][b][d] = "none"
             /\ calls'[j][b][d] \in {"uncertain", "cancelled"} => ~Records(j, b)'
  <2>1. (HasAttempt(j, b)' <=> HasAttempt(j, b)) /\ (Records(j, b)' <=> Records(j, b))
    BY <1>1 DEF HasAttempt, Records
  <2>2. CASE b = a /\ d = c
    BY <1>3, <1>4, <1>6, <2>1, <2>2
  <2>3. CASE ~(b = a /\ d = c)
    BY <1>3, <2>1, <2>3 DEF VerdictsOf
  <2>4. QED
    BY <2>2, <2>3
<1>8. VerdictsOf(j)'
  BY <1>7 DEF VerdictsOf
<1>9. VerdictsKept(j)
  BY <1>3, <1>5 DEF VerdictsKept
<1>10. QED
  BY <1>8, <1>9

LEMMA VerdictStep ==
  ASSUME TypeOK, NEW j \in JobIds, JobInv(j), VerdictsOf(j), JobStep(j)
  PROVE  VerdictsOf(j)' /\ VerdictsKept(j)
<1>1. ASSUME job'[j].state \notin Active, calls' = calls, attempts' = attempts
      PROVE  VerdictsOf(j)' /\ VerdictsKept(j)
  BY <1>1, CallsStayInv DEF Records, HasAttempt
<1>2. ASSUME NEW h \in Hashes, NEW k \in Keys \union {NoKey}, CreateJob(j, h, k)
      PROVE  VerdictsOf(j)' /\ VerdictsKept(j)
  <2>1. job'[j].state = "queued"
    BY <1>2, EmptyRows DEF CreateJob, TypeOK, JobRow
  <2>2. QED
    BY <1>1, <1>2, <2>1, Words DEF CreateJob
<1>3. CASE CancelQueued(j) \/ ClaimExpired(j) \/ ClaimDrifted(j) \/ ClaimExhausted(j)
  <2>1. PICK s \in {"failed", "cancelled"}, e \in Errors : job' = MovedWith(j, s, e)
    BY <1>3 DEF CancelQueued, ClaimExpired, ClaimDrifted, ClaimExhausted, Errors
  <2>2. job'[j].state = s
    BY <2>1 DEF MovedWith, TypeOK, JobRow
  <2>3. QED
    BY <1>1, <1>3, <2>2 DEF CancelQueued, ClaimExpired, ClaimDrifted, ClaimExhausted, Active
<1>4. CASE CancelActive(j) \/ DeadlinePasses(j)
  <2>1. /\ job'[j].state = job[j].state /\ job'[j].attempt = job[j].attempt
        /\ job'[j].cancel \in {TRUE, job[j].cancel} /\ UNCHANGED <<attempts, calls>>
    BY <1>4 DEF CancelActive, DeadlinePasses, TypeOK, JobRow
  <2>2. QED
    BY <2>1, CallsStayInv DEF Records, HasAttempt
<1>5. CASE ClaimAttempt(j)
  <2>1. PICK n \in 1..(MaxAttempts + 1) :
          /\ IsNextAttempt(j, n) /\ WithinCeiling(n)
          /\ attempts' = [attempts EXCEPT ![j][n] = [state |-> "active", policy |-> config.policy]]
          /\ job' = [job EXCEPT ![j].attempt = n, ![j].state = "framing"]
    BY <1>5 DEF ClaimAttempt
  <2>2. calls' = calls
    BY <1>5 DEF ClaimAttempt
  <2>3. job'[j].attempt = n
    BY <2>1 DEF TypeOK, JobRow
  <2>4. \A a \in AttemptNumbers : HasAttempt(j, a) => a # n
    <3>1. \A a \in AttemptNumbers : HasAttempt(j, a) => a < n
      BY <2>1 DEF IsNextAttempt
    <3>2. \A a \in AttemptNumbers : a < n => a # n
      BY DEF AttemptNumbers
    <3>3. QED
      BY <3>1, <3>2
  <2>5. \A a \in AttemptNumbers : a # n => attempts'[j][a] = attempts[j][a]
    BY <2>1 DEF TypeOK
  <2>6. \A a \in AttemptNumbers : HasAttempt(j, a) => HasAttempt(j, a)'
    BY <2>4, <2>5 DEF HasAttempt
  <2>7. \A a \in AttemptNumbers : Records(j, a)' => ~HasAttempt(j, a)
    BY <2>3, <2>4 DEF Records
  <2>8. QED
    BY <2>2, <2>6, <2>7, CallsStayInv
<1>6. ASSUME NEW a \in AttemptNumbers, AttemptStep(j, a)
      PROVE  VerdictsOf(j)' /\ VerdictsKept(j)
  <2>1. ASSUME NEW to \in Active, Transition(j, a, to)
        PROVE  VerdictsOf(j)' /\ VerdictsKept(j)
    <3>1. job[j].state \in Active
      BY <2>1, WriterRuns DEF Transition, AcceptsOutput
    <3>2. /\ job'[j].attempt = job[j].attempt /\ job'[j].cancel = job[j].cancel
          /\ UNCHANGED <<attempts, calls>>
      BY <2>1 DEF Transition, Moved, TypeOK, JobRow
    <3>3. QED
      BY <3>1, <3>2, CallsStayInv DEF Records, HasAttempt
  <2>2. CASE SettleSucceeded(j, a) \/ SettleFailed(j, a) \/ SettleCancelled(j, a)
    <3>1. PICK to \in Terminal, e \in Errors : SettleTerminal(j, a, to, e)
      BY <2>2, Words DEF SettleSucceeded, SettleFailed, SettleCancelled
    <3>2. job' = MovedWith(j, to, e) /\ attempts' = AttemptEnded(j, a, "terminal") /\ calls' = calls
      BY <3>1 DEF SettleTerminal
    <3>3. job'[j].state = to
      BY <3>2 DEF MovedWith, TypeOK, JobRow
    <3>4. to \notin Active
      BY Words
    <3>5. attempts'[j] = [attempts[j] EXCEPT ![a] = [attempts[j][a] EXCEPT !.state = "terminal"]]
      BY <3>2 DEF AttemptEnded, TypeOK
    <3>6. \A b \in AttemptNumbers : HasAttempt(j, b) => HasAttempt(j, b)'
      BY <3>5 DEF HasAttempt, TypeOK, AttemptRow
    <3>7. QED
      BY <3>2, <3>3, <3>4, <3>6, CallsStayInv DEF Records
  <2>3. QED
    BY <1>6, <2>1, <2>2, RecordingInv DEF AttemptStep
<1>7. QED
  BY <1>2, <1>3, <1>4, <1>5, <1>6 DEF JobStep, RequestCancel, ClaimNextJob

\* A restart closes what is open and leaves the verdicts it finds; no attempt runs behind it.
LEMMA VerdictRecovery ==
  ASSUME TypeOK, NEW j \in JobIds, JobInv(j), VerdictsOf(j), NEW g \in Configs, RecoverStartup(g)
  PROVE  VerdictsOf(j)' /\ VerdictsKept(j)
<1>1. /\ job'[j] = RecoveredJob(j, g)
      /\ attempts'[j] = [b \in AttemptNumbers |-> RecoveredAttempt(j, b)]
      /\ calls'[j] = RecoveredCalls(j)
  BY DEF RecoverStartup
<1>2. \A a \in AttemptNumbers : \A c \in CallSlots :
        /\ calls[j][a][c] # "open" => calls'[j][a][c] = calls[j][a][c]
        /\ calls[j][a][c] = "none" <=> calls'[j][a][c] = "none"
  BY <1>1 DEF RecoveredCalls, Closed
<1>3. \A a \in AttemptNumbers : HasAttempt(j, a) => HasAttempt(j, a)'
  <2>1. \A a \in AttemptNumbers : attempts[j][a] \in AttemptRow
    BY DEF TypeOK
  <2>2. QED
    BY <1>1, <2>1 DEF HasAttempt, RecoveredAttempt, AttemptRow
<1>4. job'[j].state \notin Active
  <2>1. job[j] \in JobRow
    BY DEF TypeOK
  <2>2. CASE Cancelling(j)
    <3>1. \A a \in AttemptNumbers : ~Interrupted(j, a)
      BY <2>2 DEF Cancelling, Interrupted
    <3>2. job'[j] = [job[j] EXCEPT !.state = "cancelled", !.error = "CANCELLED"]
      BY <1>1, <2>2, <3>1 DEF RecoveredJob
    <3>3. job'[j].state = "cancelled"
      BY <2>1, <3>2 DEF JobRow
    <3>4. QED
      BY <3>3, Words
  <2>3. CASE ~Cancelling(j) /\ \E a \in AttemptNumbers : Interrupted(j, a)
    <3>1. job'[j] = InterruptedJob(j, g)
      BY <1>1, <2>3 DEF RecoveredJob
    <3>2. job[j].attempt < g.ceiling \/ job[j].attempt >= g.ceiling
      BY <2>1, StoreAssumption DEF JobRow
    <3>3. InterruptedJob(j, g).state \in {"failed", "queued"}
      BY <2>1, <3>2 DEF InterruptedJob, JobRow
    <3>4. QED
      BY <3>1, <3>3, Words
  <2>4. CASE ~Cancelling(j) /\ ~\E a \in AttemptNumbers : Interrupted(j, a)
    <3>1. job'[j] = job[j]
      BY <1>1, <2>4 DEF RecoveredJob
    <3>2. ASSUME job[j].state \in Active PROVE FALSE
      <4>1. Interrupted(j, job[j].attempt) /\ job[j].attempt \in AttemptNumbers
        BY <2>4, <3>2, Words DEF Cancelling, Interrupted, JobInv, CurrentAttempt
      <4>2. QED
        BY <2>4, <4>1
    <3>3. QED
      BY <3>1, <3>2
  <2>5. QED
    BY <2>2, <2>3, <2>4
<1>5. ASSUME NEW a \in AttemptNumbers, NEW c \in CallSlots
      PROVE  /\ ~HasAttempt(j, a)' => calls'[j][a][c] = "none"
             /\ calls'[j][a][c] \in {"uncertain", "cancelled"} => ~Records(j, a)'
  BY <1>2, <1>3, <1>4 DEF VerdictsOf, Records
<1>6. VerdictsOf(j)'
  BY <1>5 DEF VerdictsOf
<1>7. VerdictsKept(j)
  BY <1>2 DEF VerdictsKept
<1>8. QED
  BY <1>6, <1>7

LEMMA VerdictsInv ==
  ASSUME TypeOK, \A j \in JobIds : JobInv(j), \A j \in JobIds : VerdictsOf(j), [Next]_vars,
         NEW i \in JobIds
  PROVE  VerdictsOf(i)' /\ VerdictsKept(i)
<1>1. ASSUME RowsKept(i) PROVE VerdictsOf(i)' /\ VerdictsKept(i)
  BY <1>1, CallsStayInv DEF RowsKept, Records, HasAttempt
<1>2. ASSUME NEW j \in JobIds, JobStep(j) PROVE VerdictsOf(i)' /\ VerdictsKept(i)
  <2>1. CASE i = j
    BY <1>2, <2>1, VerdictStep
  <2>2. CASE i # j
    BY <1>1, <1>2, <2>2, OthersKept
  <2>3. QED
    BY <2>1, <2>2
<1>3. ASSUME NEW S \in SUBSET JobIds, CleanupRetention(S)
      PROVE  VerdictsOf(i)' /\ VerdictsKept(i)
  <2>1. CASE i \in S
    <3>1. job'[i] = NoJob /\ calls'[i] = NoCalls
      BY <1>3, <2>1 DEF CleanupRetention
    <3>2. QED
      BY <3>1 DEF NoJob, NoCalls, VerdictsOf, VerdictsKept
  <2>2. CASE i \notin S
    BY <1>1, <1>3, <2>2 DEF CleanupRetention, RowsKept
  <2>3. QED
    BY <2>1, <2>2
<1>4. ASSUME UNCHANGED vars PROVE VerdictsOf(i)' /\ VerdictsKept(i)
  BY <1>1, <1>4 DEF vars, RowsKept
<1>5. QED
  BY <1>2, <1>3, <1>4, VerdictRecovery DEF Next

-----------------------------------------------------------------------------
(* Theorems *)

\* The tables always hold rows of their types.
THEOREM StoreTyped == Spec => []TypeOK
<1>1. Init => TypeOK
  BY InitTyped
<1>2. TypeOK /\ [Next]_vars => TypeOK'
  BY NextTyped
<1>3. QED
  BY <1>1, <1>2, PTL DEF Spec

\* The inductive invariant holds in every reachable state of the store.
THEOREM StoreInvariant == Spec => []StoreInv
<1>1. Init => StoreInv
  <2>1. ASSUME Init, NEW j \in JobIds
        PROVE  JobInv(j)
    <3>1. job[j] = NoJob /\ attempts[j] = NoAttempts /\ calls[j] = NoCalls
      BY <2>1 DEF Init
    <3>2. \A a \in AttemptNumbers : attempts[j][a] = NoAttemptRow /\ ~HasAttempt(j, a)
      BY <3>1 DEF NoAttempts, HasAttempt, NoAttemptRow
    <3>3. 0 \in 0..MaxAttempts /\ \A a \in AttemptNumbers : ~(a <= 0)
      BY StoreAssumption DEF AttemptNumbers
    <3>4. AttemptHistory(j)
      BY <3>1, <3>2, <3>3 DEF AttemptHistory
    <3>5. CurrentAttempt(j)
      BY <3>1, <3>2 DEF CurrentAttempt, Active, NoAttemptRow, NoJob
    <3>6. JobColumns(j)
      BY <3>1 DEF JobColumns, NoJob
    <3>7. PoliciesOf(j)
      BY <3>1, <3>2 DEF PoliciesOf, MustNotReplay, NoCalls
    <3>8. QED
      BY <3>4, <3>5, <3>6, <3>7 DEF JobInv
  <2>2. Init => KeyNamesItsJob
    BY DEF Init, KeyNamesItsJob
  <2>3. QED
    BY <2>1, <2>2, InitTyped DEF StoreInv
<1>2. StoreInv /\ [Next]_vars => StoreInv'
  <2>1. SUFFICES ASSUME StoreInv, [Next]_vars
                 PROVE  StoreInv'
    OBVIOUS
  <2>2. TypeOK'
    BY <2>1, NextTyped DEF StoreInv
  <2>3. \A j \in JobIds : JobInv(j)'
    BY <2>1, JobsInv DEF StoreInv
  <2>4. KeyNamesItsJob'
    BY <2>1, KeysInv DEF StoreInv
  <2>5. QED
    BY <2>2, <2>3, <2>4 DEF StoreInv
<1>3. QED
  BY <1>1, <1>2, PTL DEF Spec

\* Claims, settlements and recoveries never leave two runs of one job, nor a run of none.
THEOREM OneRunPerJob == Spec => []AttemptDiscipline
<1>1. StoreInv => AttemptDiscipline
  BY DEF StoreInv, JobInv, CurrentAttempt, AttemptDiscipline
<1>2. QED
  BY <1>1, StoreInvariant, PTL

\* A job is run again only after a recovery abandoned the run before.
THEOREM RerunsFollowAbandons == Spec => []RerunOnlyAfterAbandon
<1>1. StoreInv => RerunOnlyAfterAbandon
  BY DEF StoreInv, JobInv, AttemptHistory, RerunOnlyAfterAbandon
<1>2. QED
  BY <1>1, StoreInvariant, PTL

\* A failover attempt that reached a provider is never replayed, and no job mixes failover
\* policies, whatever configurations the restarts bring.
THEOREM FailoverIsNotReplayed == Spec => [](NoAutomaticReplay /\ OneFailoverPolicy)
<1>1. StoreInv => NoAutomaticReplay /\ OneFailoverPolicy
  BY DEF StoreInv, JobInv, PoliciesOf, MustNotReplay, NoAutomaticReplay, OneFailoverPolicy
<1>2. QED
  BY <1>1, StoreInvariant, PTL

\* No job ever mixes a failover policy with another one.
THEOREM OnePolicyPerJob == Spec => []OneFailoverPolicy
<1>1. NoAutomaticReplay /\ OneFailoverPolicy => OneFailoverPolicy
  OBVIOUS
<1>2. QED
  BY <1>1, FailoverIsNotReplayed, PTL

\* A durable cancellation is never followed by the queue or by success, and the error
\* column agrees with the outcome.
THEOREM CancelIsKept == Spec => [](CancelIsDurable /\ ErrorExplainsOutcome)
<1>1. StoreInv => CancelIsDurable /\ ErrorExplainsOutcome
  BY DEF StoreInv, JobInv, JobColumns, CancelIsDurable, ErrorExplainsOutcome
<1>2. QED
  BY <1>1, StoreInvariant, PTL

\* An idempotency key always names the existing job of its own request.
THEOREM KeysNameJobs == Spec => []KeyNamesItsJob
<1>1. StoreInv => KeyNamesItsJob
  BY DEF StoreInv
<1>2. QED
  BY <1>1, StoreInvariant, PTL

\* A terminal job is frozen until retention deletes it: no later claim, restart or late call
\* of its task changes the row.
THEOREM OutcomeIsFinal == Spec => TerminalIsFinal
<1>1. ASSUME StoreInv, [Next]_vars, NEW i \in JobIds, job[i].state \in Terminal
      PROVE  job'[i] \in {job[i], NoJob}
  <2>1. TypeOK /\ job[i].state \notin NonTerminal /\ job[i].state \notin Active
        /\ job[i].state # "absent" /\ job[i].state # "queued"
    BY <1>1, Words DEF StoreInv
  <2>2. ASSUME NEW j \in JobIds, JobStep(j)
        PROVE  job'[i] = job[i]
    <3>1. CASE i # j
      BY <2>1, <2>2, <3>1, OthersKept DEF RowsKept
    <3>2. CASE i = j
      <4>1. ASSUME NEW a \in AttemptNumbers, AttemptStep(j, a)
            PROVE  job' = job
        BY <2>1, <3>2, <4>1
           DEF AttemptStep, Transition, SettleSucceeded, SettleFailed, SettleCancelled,
               SettleTerminal, CanTransition, AddProviderCall, FinishProviderCall,
               SettleCancelledCall
      <4>2. ~RequestCancel(j) /\ ~DeadlinePasses(j) /\ ~ClaimNextJob(j)
        BY <2>1, <3>2 DEF RequestCancel, CancelQueued, CancelActive, DeadlinePasses, ClaimNextJob,
             ClaimExpired, ClaimDrifted, ClaimExhausted, ClaimAttempt, Head
      <4>3. ~\E h \in Hashes, k \in Keys \union {NoKey} : CreateJob(j, h, k)
        BY <2>1, <3>2 DEF CreateJob, Exists
      <4>4. QED
        BY <2>2, <4>1, <4>2, <4>3 DEF JobStep
    <3>3. QED
      BY <3>1, <3>2
  <2>3. ASSUME NEW S \in SUBSET JobIds, CleanupRetention(S)
        PROVE  job'[i] \in {job[i], NoJob}
    BY <2>3 DEF CleanupRetention
  <2>4. ASSUME NEW g \in Configs, RecoverStartup(g)
        PROVE  job'[i] = job[i]
    BY <2>1, <2>4 DEF RecoverStartup, RecoveredJob, Cancelling, Interrupted
  <2>5. QED
    BY <1>1, <2>2, <2>3, <2>4 DEF Next, vars
<1>2. StoreInv /\ [Next]_vars =>
        [\A j \in JobIds : job[j].state \in Terminal => job'[j] \in {job[j], NoJob}]_vars
  BY <1>1
<1>3. QED
  BY <1>2, StoreInvariant, PTL DEF Spec, TerminalIsFinal

\* Jobs are started in the order in which they were created, also when an older one was put
\* back into the queue by a recovery.
THEOREM QueueIsFair == Spec => ClaimsOldestFirst
<1>1. ASSUME StoreInv, [Next]_vars, NEW i \in JobIds, NEW j \in JobIds, <<i, j>> \in older,
             job[j].state = "queued", job'[j].state = "framing"
      PROVE  job[i].state # "queued"
  <2>1. TypeOK /\ JobInv(j) /\ JobInv(i)
    BY <1>1 DEF StoreInv
  <2>2. ASSUME NEW k \in JobIds, JobStep(k)
        PROVE  ClaimAttempt(j)
    <3>1. k = j
      BY <1>1, <2>1, <2>2, OthersKept DEF RowsKept
    <3>2. ASSUME NEW a \in AttemptNumbers, AttemptStep(j, a)
          PROVE  FALSE
      <4>1. job[j].attempt # a
        BY <1>1, <2>1, StoreAssumption DEF JobInv, JobColumns, AttemptNumbers
      <4>2. a # 0
        BY StoreAssumption DEF AttemptNumbers
      <4>3. UNCHANGED job
        BY <3>2, <4>1, <4>2
           DEF AttemptStep, Transition, AcceptsOutput, SettleSucceeded, SettleFailed,
               SettleCancelled, SettleTerminal, CanTransition, AddProviderCall,
               FinishProviderCall, SettleCancelledCall
      <4>4. QED
        BY <1>1, <4>3
    <3>3. ASSUME CancelQueued(j) \/ ClaimExpired(j) \/ ClaimDrifted(j) \/ ClaimExhausted(j)
          PROVE  FALSE
      <4>1. PICK s \in {"failed", "cancelled"}, e \in Errors : job' = MovedWith(j, s, e)
        BY <3>3 DEF CancelQueued, ClaimExpired, ClaimDrifted, ClaimExhausted, Errors
      <4>2. job'[j].state = s
        BY <2>1, <4>1 DEF MovedWith, TypeOK, JobRow
      <4>3. QED
        BY <1>1, <4>2
    <3>4. ~CancelActive(j) /\ ~DeadlinePasses(j)
      BY <1>1, <2>1 DEF CancelActive, Active, DeadlinePasses, TypeOK, JobRow
    <3>5. ~\E h \in Hashes, x \in Keys \union {NoKey} : CreateJob(j, h, x)
      BY <1>1 DEF CreateJob, Exists
    <3>6. QED
      BY <2>2, <3>1, <3>2, <3>3, <3>4, <3>5 DEF JobStep, RequestCancel, ClaimNextJob
  <2>3. ASSUME NEW S \in SUBSET JobIds, CleanupRetention(S)
        PROVE  FALSE
    BY <1>1, <2>3, Words DEF CleanupRetention, NoJob
  <2>4. ASSUME NEW g \in Configs, RecoverStartup(g)
        PROVE  FALSE
    <3>1. ~job[j].cancel
      BY <1>1, <2>1 DEF JobInv, JobColumns, Active
    <3>2. RecoveredJob(j, g) = job[j]
      BY <1>1, <3>1 DEF RecoveredJob, Cancelling, Interrupted, Active
    <3>3. QED
      BY <1>1, <2>4, <3>2 DEF RecoverStartup
  <2>5. ClaimAttempt(j)
    BY <1>1, <2>2, <2>3, <2>4 DEF Next, vars
  <2>6. job[i].state # "queued" \/ job[i].cancel
    BY <1>1, <2>5 DEF ClaimAttempt, Head
  <2>7. QED
    BY <2>1, <2>6 DEF JobInv, JobColumns, Active
<1>2. StoreInv /\ [Next]_vars =>
        [\A i, j \in JobIds :
           /\ <<i, j>> \in older
           /\ job[j].state = "queued" /\ job'[j].state = "framing"
           => job[i].state # "queued"]_vars
  BY <1>1
<1>3. QED
  BY <1>2, StoreInvariant, PTL DEF Spec, ClaimsOldestFirst

\* The verdict on a call that a cancellation or a recovery has closed is final, although
\* finish_provider_call never asks whether the call is still open.
THEOREM VerdictsAreFinal == Spec => VerdictIsFinal
<1> DEFINE AllVerdicts == \A j \in JobIds : VerdictsOf(j)
<1>1. Init => AllVerdicts
  BY DEF Init, VerdictsOf, NoCalls
<1>2. StoreInv /\ AllVerdicts /\ [Next]_vars => AllVerdicts'
  BY VerdictsInv DEF StoreInv
<1>3. StoreInv /\ AllVerdicts /\ [Next]_vars =>
        [\A j \in JobIds, a \in AttemptNumbers, c \in CallSlots :
           calls[j][a][c] \in {"uncertain", "cancelled"} =>
             calls'[j][a][c] = calls[j][a][c] \/ job'[j].state = "absent"]_vars
  BY VerdictsInv DEF StoreInv, VerdictsKept
<1> HIDE DEF AllVerdicts
<1>4. QED
  BY <1>1, <1>2, <1>3, StoreInvariant, PTL DEF Spec, VerdictIsFinal

\* A key stays with its job as long as the job is there.
THEOREM KeysStay == Spec => KeyIsStable
<1>1. ASSUME StoreInv, [Next]_vars, NEW x \in Keys, keyRow[x] # NoKeyRow, keyRow'[x] # keyRow[x]
      PROVE  job'[keyRow[x].job].state = "absent"
  <2>1. keyRow[x].job \in JobIds
    BY <1>1 DEF StoreInv, KeyNamesItsJob
  <2>2. ASSUME NEW j \in JobIds, JobStep(j) PROVE FALSE
    <3>1. ASSUME NEW a \in AttemptNumbers, AttemptStep(j, a)
          PROVE  keyRow' = keyRow
      BY <3>1 DEF AttemptStep, Transition, SettleSucceeded, SettleFailed, SettleCancelled,
                  SettleTerminal, AddProviderCall, FinishProviderCall, SettleCancelledCall
    <3>2. ASSUME NEW h \in Hashes, NEW k \in Keys \union {NoKey}, CreateJob(j, h, k)
          PROVE  keyRow'[x] = keyRow[x]
      BY <1>1, <3>2 DEF CreateJob, KeyFree
    <3>3. QED
      BY <1>1, <2>2, <3>1, <3>2 DEF JobStep, RequestCancel, CancelQueued, CancelActive,
           DeadlinePasses, ClaimNextJob, ClaimExpired, ClaimDrifted, ClaimExhausted, ClaimAttempt
  <2>3. ASSUME NEW S \in SUBSET JobIds, CleanupRetention(S)
        PROVE  job'[keyRow[x].job].state = "absent"
    BY <1>1, <2>1, <2>3 DEF CleanupRetention, KeysWithout, NoJob
  <2>4. QED
    BY <1>1, <2>2, <2>3 DEF Next, RecoverStartup, vars
<1>2. StoreInv /\ [Next]_vars =>
        [\A k \in Keys : keyRow[k] # NoKeyRow =>
           keyRow'[k] = keyRow[k] \/ job'[keyRow[k].job].state = "absent"]_vars
  BY <1>1
<1>3. QED
  BY <1>2, StoreInvariant, PTL DEF Spec, KeyIsStable

-----------------------------------------------------------------------------
(* The store implements the lifecycle *)

\* Two numbers that count the same attempts are one.
LEMMA CountIsUnique ==
  ASSUME NEW n \in 0..MaxAttempts, NEW m \in 0..MaxAttempts,
         \A a \in AttemptNumbers : a <= n <=> a <= m
  PROVE  n = m
<1>1. MaxAttempts \in Nat /\ n \in Nat /\ m \in Nat
  BY StoreAssumption
<1>2. CASE n = 0 \/ m = 0
  <2>1. n # 0 => n \in AttemptNumbers /\ n <= n
    BY <1>1 DEF AttemptNumbers
  <2>2. m # 0 => m \in AttemptNumbers /\ m <= m
    BY <1>1 DEF AttemptNumbers
  <2>3. QED
    BY <1>1, <1>2, <2>1, <2>2
<1>3. CASE n # 0 /\ m # 0
  <2>1. n \in AttemptNumbers /\ m \in AttemptNumbers
    BY <1>1, <1>3 DEF AttemptNumbers
  <2>2. n <= m /\ m <= n
    BY <1>1, <2>1
  <2>3. QED
    BY <1>1, <2>2
<1>4. QED
  BY <1>2, <1>3

\* RunsOf counts the attempts of a job.
LEMMA RunsCount ==
  ASSUME NEW j \in JobIds, AttemptHistory(j)
  PROVE  /\ RunsOf(j) \in 0..MaxAttempts
         /\ \A a \in AttemptNumbers : HasAttempt(j, a) <=> a <= RunsOf(j)
BY DEF AttemptHistory, RunsOf

LEMMA RunsAre ==
  ASSUME NEW j \in JobIds, AttemptHistory(j), NEW n \in 0..MaxAttempts,
         \A a \in AttemptNumbers : HasAttempt(j, a) <=> a <= n
  PROVE  RunsOf(j) = n
BY RunsCount, CountIsUnique

LEMMA RunsAreNext ==
  ASSUME NEW j \in JobIds, AttemptHistory(j)', NEW n \in 0..MaxAttempts,
         \A a \in AttemptNumbers : HasAttempt(j, a)' <=> a <= n
  PROVE  RunsOf(j)' = n
<1>1. /\ RunsOf(j)' \in 0..MaxAttempts
      /\ \A a \in AttemptNumbers : HasAttempt(j, a)' <=> a <= RunsOf(j)'
  BY DEF AttemptHistory, RunsOf
<1>2. QED
  BY <1>1, CountIsUnique

\* No attempt is added and none removed.
LEMMA RunsStay ==
  ASSUME NEW j \in JobIds, AttemptHistory(j), AttemptHistory(j)',
         \A a \in AttemptNumbers : HasAttempt(j, a)' <=> HasAttempt(j, a)
  PROVE  RunsOf(j)' = RunsOf(j)
BY RunsCount, RunsAreNext

\* The last attempt of a running job is its current one.
LEMMA RunsOfActive ==
  ASSUME TypeOK, NEW j \in JobIds, JobInv(j), job[j].state \in Active
  PROVE  RunsOf(j) = job[j].attempt
<1> DEFINE n == job[j].attempt
<1>1. n \in AttemptNumbers /\ HasAttempt(j, n) /\ \A a \in AttemptNumbers : HasAttempt(j, a) => a <= n
  BY DEF JobInv, CurrentAttempt, HasAttempt
<1>2. /\ RunsOf(j) \in 0..MaxAttempts
      /\ \A a \in AttemptNumbers : HasAttempt(j, a) <=> a <= RunsOf(j)
  BY RunsCount DEF JobInv
<1>3. n <= RunsOf(j) /\ RunsOf(j) # 0 /\ RunsOf(j) \in AttemptNumbers
  BY <1>1, <1>2, StoreAssumption DEF AttemptNumbers
<1>4. RunsOf(j) <= n
  BY <1>1, <1>2, <1>3, StoreAssumption
<1>5. QED
  BY <1>1, <1>3, <1>4, StoreAssumption DEF AttemptNumbers

\* What a step makes of one job, in the words of the lifecycle.
LEMMA BecomesIs ==
  ASSUME NEW j \in JobIds, NEW t, NEW n, NEW r,
         job'[j].state = t, RunsOf(j)' = n, job'[j].cancel = r
  PROVE  LC!Becomes(j, t, n, r)
BY DEF LC!Becomes

JobMoves(j) == LC!Step(j) \/ LC!Becomes(j, job[j].state, RunsOf(j), job[j].cancel)

\* Nothing about the job changes that the lifecycle speaks of.
LEMMA JobRests ==
  ASSUME NEW j \in JobIds, AttemptHistory(j), AttemptHistory(j)',
         job'[j].state = job[j].state, job'[j].cancel = job[j].cancel,
         \A a \in AttemptNumbers : HasAttempt(j, a)' <=> HasAttempt(j, a)
  PROVE  JobMoves(j)
<1>1. RunsOf(j)' = RunsOf(j)
  BY RunsStay
<1>2. LC!Becomes(j, job[j].state, RunsOf(j), job[j].cancel)
  BY <1>1, Zenon DEF LC!Becomes
<1>3. QED
  BY <1>2 DEF JobMoves

LEMMA QueuedUnasked ==
  ASSUME TypeOK, NEW j \in JobIds, JobInv(j), job[j].state = "queued"
  PROVE  job[j].cancel = FALSE
<1>1. ~job[j].cancel /\ job[j].cancel \in BOOLEAN
  BY DEF JobInv, JobColumns, Active, TypeOK, JobRow
<1>2. QED
  BY <1>1

\* A queued job ends without a run.
LEMMA DropMoves ==
  ASSUME TypeOK, NEW j \in JobIds, JobInv(j), AttemptHistory(j)', job[j].state = "queued",
         NEW t \in {"failed", "cancelled"}, NEW e, job' = MovedWith(j, t, e), attempts' = attempts
  PROVE  JobMoves(j)
<1>1. job'[j].state = t /\ job'[j].cancel = job[j].cancel
  BY DEF MovedWith, TypeOK, JobRow
<1>2. RunsOf(j)' = RunsOf(j)
  BY RunsStay DEF JobInv, HasAttempt
<1>3. job'[j].cancel = FALSE
  BY <1>1, QueuedUnasked
<1>4. LC!Drop(j)
  BY <1>1, <1>2, <1>3, BecomesIs DEF LC!Drop
<1>5. QED
  BY <1>4 DEF JobMoves, LC!Step

\* A running job ends.
LEMMA EndMoves ==
  ASSUME NEW j \in JobIds, AttemptHistory(j), AttemptHistory(j)', job[j].state \in Active,
         job'[j].state \in Terminal, job'[j].state = "succeeded" => ~job[j].cancel,
         job'[j].cancel = job[j].cancel,
         \A a \in AttemptNumbers : HasAttempt(j, a)' <=> HasAttempt(j, a)
  PROVE  JobMoves(j)
<1>1. RunsOf(j)' = RunsOf(j)
  BY RunsStay
<1>2. PICK t \in Terminal : t = job'[j].state
  OBVIOUS
<1>3. job[j].state \in LC!Running /\ t \in LC!Done /\ (t = "succeeded" => ~job[j].cancel)
  BY <1>2 DEF LC!Running, LC!Done, Active, Terminal
<1>4. LC!Finish(j)
  BY <1>1, <1>2, <1>3, Zenon DEF LC!Finish, LC!Becomes
<1>5. QED
  BY <1>4 DEF JobMoves, LC!Step

LEMMA CreateMoves ==
  ASSUME TypeOK, NEW j \in JobIds, JobInv(j), AttemptHistory(j)',
         NEW h \in Hashes, NEW k \in Keys \union {NoKey}, CreateJob(j, h, k)
  PROVE  JobMoves(j)
<1>1. job[j].state = "absent" /\ attempts[j] = NoAttempts /\ attempts' = attempts
  BY DEF CreateJob, Exists, JobInv, JobColumns
<1>2. job'[j].state = "queued" /\ job'[j].cancel = FALSE
  BY DEF CreateJob, TypeOK, NoJob
<1>3. \A a \in AttemptNumbers : ~HasAttempt(j, a) /\ ~HasAttempt(j, a)'
  BY <1>1 DEF HasAttempt, NoAttempts, NoAttemptRow
<1>4. RunsOf(j)' = 0
  BY <1>3, RunsAreNext, StoreAssumption DEF AttemptNumbers
<1>5. LC!Becomes(j, "queued", 0, FALSE)
  BY <1>2, <1>4, BecomesIs
<1>6. LC!Submit(j)
  BY <1>1, <1>5 DEF LC!Submit
<1>7. QED
  BY <1>6 DEF JobMoves, LC!Step

LEMMA AskMoves ==
  ASSUME TypeOK, NEW j \in JobIds, JobInv(j), AttemptHistory(j)', CancelActive(j)
  PROVE  JobMoves(j)
<1>1. job'[j].state = job[j].state /\ job'[j].cancel = TRUE
  BY DEF CancelActive, TypeOK, JobRow
<1>2. RunsOf(j)' = RunsOf(j)
  BY RunsStay DEF CancelActive, JobInv, HasAttempt
<1>3. LC!Becomes(j, job[j].state, RunsOf(j), TRUE)
  BY <1>1, <1>2, BecomesIs
<1>4. job[j].state \in LC!Running
  BY DEF CancelActive, Active, LC!Running
<1>5. LC!AskToCancel(j)
  BY <1>3, <1>4 DEF LC!AskToCancel
<1>6. QED
  BY <1>5 DEF JobMoves, LC!Step

\* A claim that starts a run counts it, below every retry ceiling.
LEMMA StartMoves ==
  ASSUME TypeOK, NEW j \in JobIds, JobInv(j), AttemptHistory(j)', ClaimAttempt(j)
  PROVE  JobMoves(j)
<1>1. job[j].state = "queued" /\ job[j].cancel = FALSE
  BY QueuedUnasked DEF ClaimAttempt, Head
<1>2. PICK n \in 1..(MaxAttempts + 1) :
        /\ IsNextAttempt(j, n) /\ WithinCeiling(n)
        /\ attempts' = [attempts EXCEPT ![j][n] = [state |-> "active", policy |-> config.policy]]
        /\ job' = [job EXCEPT ![j].attempt = n, ![j].state = "framing"]
  BY DEF ClaimAttempt
<1>3. n \in AttemptNumbers
  <2>1. config.ceiling \in 1..MaxAttempts
    BY StoreAssumption DEF TypeOK
  <2>2. QED
    BY <1>2, <2>1, StoreAssumption DEF WithinCeiling, AttemptNumbers
<1>4. job'[j].state = "framing" /\ job'[j].cancel = FALSE
  BY <1>1, <1>2 DEF TypeOK, JobRow
<1>5. /\ RunsOf(j) \in 0..MaxAttempts
      /\ \A a \in AttemptNumbers : HasAttempt(j, a) <=> a <= RunsOf(j)
  BY RunsCount DEF JobInv
<1>6. RunsOf(j) = n - 1
  <2>1. RunsOf(j) < n
    <3>1. CASE RunsOf(j) = 0
      BY <1>3, <3>1 DEF AttemptNumbers
    <3>2. CASE RunsOf(j) # 0
      <4>1. RunsOf(j) \in AttemptNumbers /\ RunsOf(j) <= RunsOf(j)
        BY <1>5, <3>2, StoreAssumption DEF AttemptNumbers
      <4>2. QED
        BY <1>2, <1>5, <4>1 DEF IsNextAttempt
    <3>3. QED
      BY <3>1, <3>2
  <2>2. n - 1 <= RunsOf(j)
    <3>1. CASE n = 1
      BY <1>5, <3>1, StoreAssumption
    <3>2. CASE n # 1
      <4>1. n - 1 \in AttemptNumbers /\ HasAttempt(j, n - 1)
        BY <1>2, <1>3, <3>2, StoreAssumption DEF IsNextAttempt, AttemptNumbers
      <4>2. QED
        BY <1>5, <4>1
    <3>3. QED
      BY <3>1, <3>2
  <2>3. QED
    BY <1>3, <1>5, <2>1, <2>2, StoreAssumption DEF AttemptNumbers
<1>7. RunsOf(j)' = n
  <2>1. \A a \in AttemptNumbers : HasAttempt(j, a)' <=> HasAttempt(j, a) \/ a = n
    <3>1. attempts'[j] = [attempts[j] EXCEPT ![n] = [state |-> "active", policy |-> config.policy]]
      BY <1>2 DEF TypeOK
    <3>2. attempts[j] \in [AttemptNumbers -> AttemptRow]
      BY DEF TypeOK
    <3>3. QED
      BY <1>3, <3>1, <3>2 DEF HasAttempt
  <2>2. \A a \in AttemptNumbers : HasAttempt(j, a)' <=> a <= n
    BY <1>3, <1>5, <1>6, <2>1, StoreAssumption DEF AttemptNumbers
  <2>3. n \in 0..MaxAttempts
    BY <1>3, StoreAssumption DEF AttemptNumbers
  <2>4. QED
    BY <2>2, <2>3, RunsAreNext
<1>8. RunsOf(j)' = RunsOf(j) + 1 /\ RunsOf(j) < MaxAttempts
  BY <1>3, <1>6, <1>7, StoreAssumption DEF AttemptNumbers
<1>9. LC!Becomes(j, "framing", RunsOf(j) + 1, FALSE)
  BY <1>4, <1>8, BecomesIs
<1>10. LC!Start(j)
  BY <1>1, <1>8, <1>9 DEF LC!Start
<1>11. QED
  BY <1>10 DEF JobMoves, LC!Step

\* A transition goes to the next stage of a job that was not asked to stop.
LEMMA TransitionMoves ==
  ASSUME TypeOK, NEW j \in JobIds, JobInv(j), AttemptHistory(j)', NEW a \in AttemptNumbers,
         NEW to \in Active, Transition(j, a, to)
  PROVE  JobMoves(j)
<1>1. /\ job[j].attempt = a /\ job[j].state \in NonTerminal /\ ~job[j].cancel
      /\ to \in Allowed[job[j].state] /\ job' = Moved(j, to) /\ attempts' = attempts
  BY DEF Transition, AcceptsOutput, CanTransition
<1>2. job[j].state \in Active
  BY <1>1, WriterRuns
<1>3. job[j].state \in NonTerminal /\ job[j].state # "queued" /\ to \notin Terminal /\ to # "queued"
  BY <1>2 DEF Active, NonTerminal, Terminal
<1>4. to \in NextStage[job[j].state]
  BY <1>1, <1>3 DEF Allowed
<1>5. /\ job[j].state \in DOMAIN LC!Successor
      /\ to = LC!Successor[job[j].state]
  BY <1>2, <1>4 DEF NextStage, LC!Successor, Active
<1>6. job'[j].state = to /\ job'[j].cancel = FALSE
  <2>1. job[j].cancel = FALSE
    BY <1>1 DEF TypeOK, JobRow
  <2>2. QED
    BY <1>1, <2>1 DEF Moved, TypeOK, JobRow
<1>7. RunsOf(j)' = RunsOf(j)
  BY <1>1, RunsStay DEF JobInv, HasAttempt
<1>8. LC!Becomes(j, to, RunsOf(j), FALSE)
  BY <1>6, <1>7, BecomesIs
<1>9. LC!Advance(j)
  BY <1>1, <1>5, <1>8 DEF LC!Advance
<1>10. QED
  BY <1>9 DEF JobMoves, LC!Step

LEMMA SettleMoves ==
  ASSUME TypeOK, NEW j \in JobIds, JobInv(j), AttemptHistory(j)', NEW a \in AttemptNumbers,
         SettleSucceeded(j, a) \/ SettleFailed(j, a) \/ SettleCancelled(j, a)
  PROVE  JobMoves(j)
<1>1. PICK to \in Terminal, e \in Errors : SettleTerminal(j, a, to, e)
  BY DEF SettleSucceeded, SettleFailed, SettleCancelled, Terminal, Errors
<1>2. /\ to = "succeeded" => ~job[j].cancel
      /\ job[j].state \in NonTerminal /\ job[j].attempt = a
      /\ job' = MovedWith(j, to, e) /\ attempts' = AttemptEnded(j, a, "terminal")
  <2>1. a # 0
    BY StoreAssumption DEF AttemptNumbers
  <2>2. QED
    BY <1>1, <2>1 DEF SettleTerminal, AcceptsOutput, CanTransition
<1>3. job[j].state \in Active
  BY <1>2, WriterRuns
<1>4. job'[j].state = to /\ job'[j].cancel = job[j].cancel
  BY <1>2 DEF MovedWith, TypeOK, JobRow
<1>5. \A b \in AttemptNumbers : HasAttempt(j, b)' <=> HasAttempt(j, b)
  <2>1. attempts[j][a].state = "active"
    BY <1>2, <1>3 DEF JobInv, CurrentAttempt
  <2>2. attempts'[j] = [attempts[j] EXCEPT ![a].state = "terminal"]
    BY <1>2 DEF AttemptEnded, TypeOK
  <2>3. attempts[j] \in [AttemptNumbers -> AttemptRow]
    BY DEF TypeOK
  <2>4. QED
    BY <2>1, <2>2, <2>3 DEF HasAttempt, AttemptRow
<1>6. QED
  BY <1>2, <1>3, <1>4, <1>5, EndMoves DEF JobInv

LEMMA JobStepMoves ==
  ASSUME TypeOK, NEW j \in JobIds, JobInv(j), AttemptHistory(j)', JobStep(j)
  PROVE  JobMoves(j)
<1>1. CASE CancelQueued(j) \/ ClaimExpired(j) \/ ClaimDrifted(j) \/ ClaimExhausted(j)
  <2>1. job[j].state = "queued" /\ attempts' = attempts
    BY <1>1 DEF CancelQueued, ClaimExpired, ClaimDrifted, ClaimExhausted, Head
  <2>2. PICK t \in {"failed", "cancelled"}, e \in Errors : job' = MovedWith(j, t, e)
    BY <1>1 DEF CancelQueued, ClaimExpired, ClaimDrifted, ClaimExhausted, Errors
  <2>3. QED
    BY <2>1, <2>2, DropMoves
<1>2. CASE DeadlinePasses(j)
  <2>1. job'[j].state = job[j].state /\ job'[j].cancel = job[j].cancel
    BY <1>2 DEF DeadlinePasses, TypeOK, JobRow
  <2>2. QED
    BY <1>2, <2>1, JobRests DEF DeadlinePasses, JobInv, HasAttempt
<1>3. ASSUME NEW a \in AttemptNumbers, AttemptStep(j, a)
      PROVE  JobMoves(j)
  <2>1. ASSUME NEW c \in CallSlots,
               AddProviderCall(j, a, c) \/ FinishProviderCall(j, a, c) \/ SettleCancelledCall(j, a, c)
        PROVE  JobMoves(j)
    <3>1. job' = job /\ attempts' = attempts
      BY <2>1 DEF AddProviderCall, FinishProviderCall, SettleCancelledCall
    <3>2. QED
      BY <3>1, JobRests DEF JobInv, HasAttempt
  <2>2. QED
    BY <1>3, <2>1, TransitionMoves, SettleMoves DEF AttemptStep
<1>4. QED
  BY <1>1, <1>2, <1>3, CreateMoves, AskMoves, StartMoves DEF JobStep, RequestCancel, ClaimNextJob

\* A job that another one's step leaves alone.
LEMMA KeptMoves ==
  ASSUME NEW j \in JobIds, JobInv(j), AttemptHistory(j)', RowsKept(j)
  PROVE  JobMoves(j)
BY JobRests DEF RowsKept, JobInv, HasAttempt

LEMMA CleanupMoves ==
  ASSUME NEW S \in SUBSET JobIds, CleanupRetention(S), NEW j \in S, JobInv(j), AttemptHistory(j)'
  PROVE  JobMoves(j)
<1>1. job[j].state \in LC!Done
  BY DEF CleanupRetention, Terminal, LC!Done
<1>2. job'[j].state = "absent" /\ job'[j].cancel = FALSE
  BY DEF CleanupRetention, NoJob
<1>3. \A a \in AttemptNumbers : ~HasAttempt(j, a)'
  BY DEF CleanupRetention, HasAttempt, NoAttempts, NoAttemptRow
<1>4. RunsOf(j)' = 0
  BY <1>3, RunsAreNext, StoreAssumption DEF AttemptNumbers
<1>5. LC!Becomes(j, "absent", 0, FALSE)
  BY <1>2, <1>4, BecomesIs
<1>6. LC!Forget(j)
  BY <1>1, <1>5 DEF LC!Forget
<1>7. QED
  BY <1>6 DEF JobMoves, LC!Step

\* A recovery ends a running job, or puts it back into the queue below the retry ceiling.
LEMMA RecoverMoves ==
  ASSUME TypeOK, NEW j \in JobIds, JobInv(j), NEW g \in Configs, RecoverStartup(g),
         AttemptHistory(j)'
  PROVE  JobMoves(j)
<1> DEFINE a == job[j].attempt
<1>1. /\ job'[j] = RecoveredJob(j, g)
      /\ attempts'[j] = [b \in AttemptNumbers |-> RecoveredAttempt(j, b)]
  BY DEF RecoverStartup
<1>2. job[j] \in JobRow /\ attempts[j] \in [AttemptNumbers -> AttemptRow]
  BY DEF TypeOK
<1>3. \A b \in AttemptNumbers : HasAttempt(j, b)' <=> HasAttempt(j, b)
  <2>1. ASSUME NEW b \in AttemptNumbers
        PROVE  RecoveredAttempt(j, b).state # "none" <=> attempts[j][b].state # "none"
    <3>1. CASE attempts[j][b].state = "active"
      BY <1>2, <3>1 DEF RecoveredAttempt, AttemptRow
    <3>2. CASE attempts[j][b].state # "active" /\ Cancelling(j) /\ job[j].attempt = b
      <4>1. job[j].state \in Active
        BY <3>2 DEF Cancelling, JobInv, JobColumns, NonTerminal
      <4>2. QED
        BY <3>2, <4>1 DEF JobInv, CurrentAttempt
    <3>3. CASE attempts[j][b].state # "active" /\ ~(Cancelling(j) /\ job[j].attempt = b)
      BY <3>3 DEF RecoveredAttempt, Interrupted
    <3>4. QED
      BY <3>1, <3>2, <3>3
  <2>2. QED
    BY <1>1, <2>1 DEF HasAttempt
<1>4. CASE Cancelling(j)
  <2>1. job[j].state \in Active
    BY <1>4 DEF Cancelling, JobInv, JobColumns, NonTerminal
  <2>2. job'[j] = [job[j] EXCEPT !.state = "cancelled", !.error = "CANCELLED"]
    <3>1. ~\E b \in AttemptNumbers : Interrupted(j, b)
      BY <1>4 DEF Cancelling, Interrupted
    <3>2. QED
      BY <1>1, <1>4, <3>1 DEF RecoveredJob
  <2>3. job'[j].state = "cancelled" /\ job'[j].cancel = job[j].cancel
    BY <1>2, <2>2 DEF JobRow
  <2>4. QED
    BY <1>3, <2>1, <2>3, EndMoves DEF JobInv, Terminal
<1>5. CASE ~Cancelling(j) /\ \E b \in AttemptNumbers : Interrupted(j, b)
  <2>1. job[j].state \in Active /\ ~job[j].cancel
    BY <1>5 DEF Interrupted
  <2>2. job'[j] = InterruptedJob(j, g)
    BY <1>1, <1>5 DEF RecoveredJob
  <2>3. a \in AttemptNumbers /\ RunsOf(j) = a
    BY <2>1, RunsOfActive DEF JobInv, CurrentAttempt
  <2>4. g.ceiling \in 1..MaxAttempts
    BY StoreAssumption
  <2>5. CASE MustNotReplay(j, a) \/ ~(a < g.ceiling)
    <3>1. job'[j].state = "failed" /\ job'[j].cancel = job[j].cancel
      <4>1. CASE MustNotReplay(j, a)
        BY <1>2, <2>2, <4>1 DEF InterruptedJob, JobRow
      <4>2. CASE ~MustNotReplay(j, a) /\ a >= g.ceiling /\ ~(a < g.ceiling)
        BY <1>2, <2>2, <4>2 DEF InterruptedJob, JobRow
      <4>3. QED
        BY <2>3, <2>4, <2>5, <4>1, <4>2, StoreAssumption DEF AttemptNumbers
    <3>2. QED
      BY <1>3, <2>1, <3>1, EndMoves DEF JobInv, Terminal
  <2>6. CASE ~MustNotReplay(j, a) /\ a < g.ceiling
    <3>1. job'[j].state = "queued" /\ job'[j].cancel = job[j].cancel
      <4>1. job'[j] = [job[j] EXCEPT !.state = "queued", !.attempt = 0, !.error = "none"]
        <5>1. ~(a >= g.ceiling)
          BY <2>3, <2>4, <2>6, StoreAssumption DEF AttemptNumbers
        <5>2. QED
          BY <2>2, <2>6, <5>1 DEF InterruptedJob
      <4>2. QED
        BY <1>2, <4>1 DEF JobRow
    <3>2. job'[j].cancel = FALSE
      BY <1>2, <2>1, <3>1 DEF JobRow
    <3>3. RunsOf(j)' = RunsOf(j)
      BY <1>3, RunsStay DEF JobInv
    <3>4. LC!Becomes(j, "queued", RunsOf(j), FALSE)
      BY <3>1, <3>2, <3>3, BecomesIs
    <3>5. RunsOf(j) < MaxAttempts
      BY <2>3, <2>4, <2>6, StoreAssumption DEF AttemptNumbers
    <3>6. job[j].state \in LC!Running
      BY <2>1 DEF Active, LC!Running
    <3>7. LC!StartOver(j)
      BY <2>1, <3>4, <3>5, <3>6 DEF LC!StartOver
    <3>8. QED
      BY <3>7 DEF JobMoves, LC!Step
  <2>7. QED
    BY <2>5, <2>6
<1>6. CASE ~Cancelling(j) /\ ~\E b \in AttemptNumbers : Interrupted(j, b)
  <2>1. job'[j] = job[j]
    BY <1>1, <1>6 DEF RecoveredJob
  <2>2. QED
    BY <1>3, <2>1, JobRests DEF JobInv
<1>7. QED
  BY <1>4, <1>5, <1>6

LEMMA StoreMoves ==
  ASSUME StoreInv, StoreInv', [Next]_vars, NEW j \in JobIds
  PROVE  JobMoves(j)
<1>1. TypeOK /\ JobInv(j) /\ AttemptHistory(j)'
  BY DEF StoreInv, JobInv
<1>2. ASSUME NEW i \in JobIds, JobStep(i)
      PROVE  JobMoves(j)
  <2>1. CASE i = j
    BY <1>1, <1>2, <2>1, JobStepMoves
  <2>2. CASE i # j
    BY <1>1, <1>2, <2>2, OthersKept, KeptMoves
  <2>3. QED
    BY <2>1, <2>2
<1>3. ASSUME NEW S \in SUBSET JobIds, CleanupRetention(S)
      PROVE  JobMoves(j)
  <2>1. CASE j \in S
    BY <1>1, <1>3, <2>1, CleanupMoves
  <2>2. CASE j \notin S
    <3>1. RowsKept(j)
      BY <1>3, <2>2 DEF CleanupRetention, RowsKept
    <3>2. QED
      BY <1>1, <3>1, KeptMoves
  <2>3. QED
    BY <2>1, <2>2
<1>4. ASSUME NEW g \in Configs, RecoverStartup(g)
      PROVE  JobMoves(j)
  BY <1>1, <1>4, RecoverMoves
<1>5. CASE UNCHANGED vars
  BY <1>1, <1>5, KeptMoves DEF vars, RowsKept
<1>6. QED
  BY <1>2, <1>3, <1>4, <1>5 DEF Next

\* Each transaction, a recovery or sweep of all jobs included, moves every job along its
\* lifecycle or leaves it where it is.
THEOREM StoreImplementsLifecycle == Spec => RefinesLifecycle
<1>1. Init /\ StoreInv => LC!Start0
  <2>1. SUFFICES ASSUME Init, StoreInv
                 PROVE  LC!Start0
    OBVIOUS
  <2>2. ASSUME NEW j \in JobIds
        PROVE  RunsOf(j) = 0
    <3>1. \A a \in AttemptNumbers : ~HasAttempt(j, a) /\ ~(a <= 0)
      BY <2>1, StoreAssumption DEF Init, HasAttempt, NoAttempts, NoAttemptRow, AttemptNumbers
    <3>2. AttemptHistory(j) /\ 0 \in 0..MaxAttempts
      BY <2>1, StoreAssumption DEF StoreInv, JobInv
    <3>3. QED
      BY <3>1, <3>2, RunsAre
  <2>3. \A j \in JobIds : job[j].state = "absent" /\ job[j].cancel = FALSE
    BY <2>1 DEF Init, NoJob
  <2>4. QED
    BY <2>2, <2>3 DEF LC!Start0
<1>2. StoreInv /\ StoreInv' /\ [Next]_vars => [LC!Move]_(LC!lifecycleVars)
  <2>1. SUFFICES ASSUME StoreInv, StoreInv', [Next]_vars
                 PROVE  LC!Move
    OBVIOUS
  <2>2. \A j \in JobIds : JobMoves(j)
    BY <2>1, StoreMoves
  <2>3. \A j \in JobIds :
          /\ [x \in JobIds |-> job[x].state][j] = job[j].state
          /\ [x \in JobIds |-> RunsOf(x)][j] = RunsOf(j)
          /\ [x \in JobIds |-> job[x].cancel][j] = job[j].cancel
    BY Zenon
  <2>4. QED
    BY <2>2, <2>3, Zenon DEF LC!Move, JobMoves, LC!Becomes
<1>3. QED
  BY <1>1, <1>2, StoreInvariant, PTL DEF Spec, RefinesLifecycle, LC!Lifecycle

=============================================================================
