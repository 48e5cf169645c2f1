---------------------------- MODULE EngineProofs ----------------------------
(***************************************************************************)
(* Proofs about the research engine, for any number of jobs, workers,      *)
(* branches and permits.  The invariant has one part that is shared, the   *)
(* permits, and one part for each job: what its task, the lanes of its     *)
(* phases, its provider call rows and its durable row say about each       *)
(* other.  A step moves one lane of one job at most, but for the start of  *)
(* the branches and the end of the process; so one group of lemmas says    *)
(* what moving a lane may do, and each action is then an instance.  The    *)
(* last section ranks the steps of a run: each brings it nearer its end.   *)
(***************************************************************************)
EXTENDS Engine, FiniteSetTheorems, TLAPS

-----------------------------------------------------------------------------
(* The invariant *)

\* Where a lane is while it makes its provider call.
PhaseAts == {"guard", "admit", "waiting", "admitted", "record", "calling", "answered"}

Resting == LaneEnds \union {"idle"}

\* A task that exists runs its job, and the stage of the job keeps up with the task unless
\* the hard deadline held it back.
StageOf(j) ==
  /\ task[j].at = "created" => job[j].state = "framing"
  /\ task[j].at = "frame" =>
       \/ job[j].state = "framing"
       \/ /\ job[j].state = "rolling_out"
          /\ \/ lane[j][Main].at \in {"partial", "settle_partial"}
             \/ lane[j][Main].at = "failed" /\ lane[j][Main].why # "SOFT_DEADLINE_REACHED"
  /\ task[j].at \in {"fork", "rollout"} => job[j].state = "rolling_out"
  /\ task[j].at = "critique" =>
       job[j].state = "critiquing" \/ (job[j].state = "rolling_out" /\ clock[j] = "hard")
  /\ task[j].at = "synthesis" =>
       job[j].state = "synthesizing" \/ (job[j].state \in Running /\ clock[j] = "hard")
  /\ task[j].at = "cancelled" => job[j].state \in Running
  /\ task[j].at = "done" => job[j].state \notin {"absent", "queued"}

\* A task sees a cancellation only after the store has it, or when the service stops; no
\* lane runs on behind it.
AskedOf(j) ==
  /\ job[j].asked => job[j].state \notin {"absent", "queued"}
  /\ job[j].asked /\ Live(j) => task[j].cancel
  /\ task[j].cancel => Live(j) /\ (service = "up" => job[j].asked)
  /\ service = "stopping" /\ Live(j) => task[j].cancel
  /\ \A l \in Lanes : loop = <<j, l>> /\ lane[j][l].at # "cancelled" => ~task[j].cancel

\* Which lanes are in use: those of the branches while the task gathers them, otherwise Main.
LanesOf(j) ==
  /\ ~Live(j) \/ task[j].at = "created" => lane[j][Main].at = "idle"
  /\ task[j].at = "rollout" => lane[j][Main].at \notin PhaseAts
  /\ \A b \in Branches : lane[j][b].at \notin Resting =>
       task[j].at = "rollout" /\ lane[j][Main].at = "idle"

\* What a failure, a partial result or a settlement in preparation says about the deadlines.
ReasonsOf(j) ==
  /\ \A l \in Lanes :
       /\ lane[j][l].at = "answered" => lane[j][l].why \in Answers
       /\ lane[j][l].at = "failed" =>
            /\ lane[j][l].why \in Codes
            /\ lane[j][l].why = "SOFT_DEADLINE_REACHED" =>
                 clock[j] # "early" /\ (l = Main => task[j].at \in {"frame", "fork"})
            /\ lane[j][l].why = "DEADLINE_EXCEEDED" => clock[j] = "hard"
       /\ lane[j][l].at = "skipped" => clock[j] # "early"
  /\ lane[j][Main].at \in {"partial", "settle_partial"} => clock[j] # "early"
  /\ lane[j][Main].at = "settle" =>
       /\ job[j].state = "synthesizing"
       /\ \A b \in Branches : lane[j][b].at # "skipped"

\* An open row belongs to a call in progress, until the hard deadline fences its end, or to a
\* process before this one.
RowsOf(j) ==
  \A l \in Lanes : rows[j][l] = "open" /\ clock[j] # "hard" /\ service = "up" =>
    \/ lane[j][l].at \in {"calling", "answered"}
    \/ task[j].at = "none" /\ job[j].state \notin Running

\* What has been promised about the durable row.
OutcomeOf(j) ==
  /\ job[j].state = "queued" => job[j].runs < MaxRuns
  /\ job[j].state = "absent" => job[j].runs = 0
  /\ job[j].error # "SOFT_DEADLINE_REACHED"
  /\ job[j].error = "DEADLINE_EXCEEDED" => clock[j] = "hard"
  /\ job[j].partial => clock[j] # "early"
  /\ job[j].asked /\ job[j].state \in Done => job[j].state = "cancelled"
  /\ job[j].state = "succeeded" /\ ~job[j].partial =>
       \A b \in Branches : lane[j][b].at # "skipped"
  /\ service = "up" /\ job[j].state \in Running =>
       Live(j) \/ task[j].at = "cancelled" \/ SettlementLost(j)

\* Between two processes nothing is left in memory.
DownOf(j) == service = "down" => task[j] = NoTask /\ \A l \in Lanes : lane[j][l] = IdleLane

JobInv(j) ==
  /\ StageOf(j) /\ AskedOf(j) /\ LanesOf(j) /\ ReasonsOf(j) /\ RowsOf(j) /\ OutcomeOf(j)
  /\ DownOf(j)

Kinds == {"serial", "rollout"}

\* A lane that holds a permit of its kind.
Holding == {"admitted", "record", "calling"}

PermitInv ==
  \A k \in Kinds :
    /\ IsFiniteSet(HoldsPermit(k))
    /\ free[k] + Cardinality(HoldsPermit(k)) + detached[k] = Capacity[k]

EngineInv ==
  /\ TypeOK
  /\ service = "down" => loop = Nobody
  /\ PermitInv
  /\ \A j \in Jobs : JobInv(j)


-----------------------------------------------------------------------------
(* Types *)

Row == [state : Running \union Done \union {"absent", "queued"}, asked : BOOLEAN, error : Errors,
        runs : 0..MaxRuns, partial : BOOLEAN]

Task == [at : {"none", "created", "frame", "fork", "rollout", "critique", "synthesis", "done",
               "cancelled"}, cancel : BOOLEAN]

LaneAts == PhaseAts \union Resting \union
           {"created", "ok", "failed", "store", "stored", "partial", "settle", "settle_partial"}

Lane == [at : LaneAts, why : Codes \union Answers, spent : {"none", "malformed", "invalid"}]

LEMMA Typed ==
  TypeOK <=>
    /\ job \in [Jobs -> Row]
    /\ clock \in [Jobs -> {"early", "soft", "hard"}]
    /\ rows \in [Jobs -> [Lanes -> {"none", "open", "ended", "cancelled"}]]
    /\ task \in [Jobs -> Task]
    /\ lane \in [Jobs -> [Lanes -> Lane]]
    /\ worker \in [Workers -> Jobs \union {Nobody}]
    /\ free \in [Kinds -> Nat]
    /\ detached \in [Kinds -> Nat]
    /\ service \in {"up", "stopping", "down"}
    /\ loop \in (Jobs \X Lanes) \union {Nobody}
<1>1. LaneAts = {"idle", "created", "guard", "admit", "waiting", "admitted", "record", "calling",
                 "answered", "ok", "failed", "store", "stored", "partial", "settle",
                 "settle_partial"} \union LaneEnds
  BY DEF LaneAts, PhaseAts, Resting
<1>2. QED
  BY <1>1 DEF TypeOK, Row, Task, Lane, Kinds

LEMMA TypedNext ==
  /\ job' \in [Jobs -> Row]
  /\ clock' \in [Jobs -> {"early", "soft", "hard"}]
  /\ rows' \in [Jobs -> [Lanes -> {"none", "open", "ended", "cancelled"}]]
  /\ task' \in [Jobs -> Task]
  /\ lane' \in [Jobs -> [Lanes -> Lane]]
  /\ worker' \in [Workers -> Jobs \union {Nobody}]
  /\ free' \in [Kinds -> Nat]
  /\ detached' \in [Kinds -> Nat]
  /\ service' \in {"up", "stopping", "down"}
  /\ loop' \in (Jobs \X Lanes) \union {Nobody}
  => TypeOK'
<1>1. LaneAts = {"idle", "created", "guard", "admit", "waiting", "admitted", "record", "calling",
                 "answered", "ok", "failed", "store", "stored", "partial", "settle",
                 "settle_partial"} \union LaneEnds
  BY DEF LaneAts, PhaseAts, Resting
<1>2. QED
  BY <1>1 DEF TypeOK, Row, Task, Lane, Kinds

LEMMA LanesAre ==
  /\ Main \in Lanes /\ Branches \subseteq Lanes /\ Main \notin Branches
  /\ \A l \in Lanes : l # Main => l \in Branches
  /\ \A l \in Lanes : Kind(l) \in Kinds
BY EngineAssumption DEF Lanes, Kind, Kinds

-----------------------------------------------------------------------------
(* Moving one lane *)

\* Only lane l of job j changes.
OneLane(j, l) ==
  /\ lane' \in [Jobs -> [Lanes -> Lane]]
  /\ \A i \in Jobs, m \in Lanes : i # j \/ m # l => lane'[i][m] = lane[i][m]

LEMMA SetLane ==
  ASSUME lane \in [Jobs -> [Lanes -> Lane]], NEW j \in Jobs, NEW l \in Lanes, NEW s \in Lane,
         lane' = [lane EXCEPT ![j][l] = s]
  PROVE  OneLane(j, l) /\ lane'[j][l] = s
BY DEF OneLane

\* What At, Leaves and Fails make of the lane.
LEMMA LaneAt ==
  ASSUME TypeOK, NEW j \in Jobs, NEW l \in Lanes, NEW at \in LaneAts, At(j, l, at)
  PROVE  /\ OneLane(j, l)
         /\ lane'[j][l].at = at /\ lane'[j][l].why = lane[j][l].why
<1>1. lane[j][l] \in Lane
  BY Typed
<1>2. [lane[j][l] EXCEPT !.at = at] \in Lane
  BY <1>1 DEF Lane
<1>3. lane' = [lane EXCEPT ![j][l] = [lane[j][l] EXCEPT !.at = at]]
  BY Typed DEF At
<1>4. OneLane(j, l) /\ lane'[j][l] = [lane[j][l] EXCEPT !.at = at]
  BY <1>2, <1>3, SetLane, Typed
<1>5. QED
  BY <1>1, <1>4 DEF Lane

LEMMA LaneLeaves ==
  ASSUME TypeOK, NEW j \in Jobs, NEW l \in Lanes, NEW at \in LaneAts, Leaves(j, l, at)
  PROVE  OneLane(j, l) /\ lane'[j][l].at = at /\ lane'[j][l].why = "none"
<1>1. [IdleLane EXCEPT !.at = at] \in Lane
  BY DEF IdleLane, Lane, Codes
<1>2. OneLane(j, l) /\ lane'[j][l] = [IdleLane EXCEPT !.at = at]
  BY <1>1, SetLane, Typed DEF Leaves
<1>3. QED
  BY <1>2 DEF IdleLane

LEMMA LaneFails ==
  ASSUME TypeOK, NEW j \in Jobs, NEW l \in Lanes, NEW code \in Codes, Fails(j, l, code)
  PROVE  OneLane(j, l) /\ lane'[j][l].at = "failed" /\ lane'[j][l].why = code
<1>1. lane[j][l] \in Lane
  BY Typed
<1>2. [lane[j][l] EXCEPT !.at = "failed", !.why = code] \in Lane
  BY <1>1 DEF Lane, LaneAts
<1>3. lane' = [lane EXCEPT ![j][l] = [lane[j][l] EXCEPT !.at = "failed", !.why = code]]
  BY Typed DEF Fails
<1>4. OneLane(j, l) /\ lane'[j][l] = [lane[j][l] EXCEPT !.at = "failed", !.why = code]
  BY <1>2, <1>3, SetLane, Typed
<1>5. QED
  BY <1>1, <1>4 DEF Lane

-----------------------------------------------------------------------------
(* Permits *)

LEMMA HoldersKept ==
  ASSUME NEW j \in Jobs, NEW l \in Lanes, OneLane(j, l),
         lane'[j][l].at \in Holding <=> lane[j][l].at \in Holding,
         NEW k
  PROVE  HoldsPermit(k)' = HoldsPermit(k)
<1>1. \A p \in Jobs \X Lanes : lane'[p[1]][p[2]].at \in Holding <=> lane[p[1]][p[2]].at \in Holding
  BY DEF OneLane
<1>2. QED
  BY <1>1 DEF HoldsPermit, Holding

LEMMA PermitsKept ==
  ASSUME PermitInv, NEW j \in Jobs, NEW l \in Lanes, OneLane(j, l),
         lane'[j][l].at \in Holding <=> lane[j][l].at \in Holding,
         free' = free, detached' = detached
  PROVE  PermitInv'
BY HoldersKept DEF PermitInv, Kinds

LEMMA PermitTaken ==
  ASSUME TypeOK, PermitInv, NEW j \in Jobs, NEW l \in Lanes, OneLane(j, l),
         lane[j][l].at \notin Holding, lane'[j][l].at \in Holding,
         free[Kind(l)] > 0, Take(Kind(l)), detached' = detached
  PROVE  PermitInv' /\ free' \in [Kinds -> Nat]
<1>1. free \in [Kinds -> Nat] /\ detached \in [Kinds -> Nat] /\ Kind(l) \in Kinds
  BY Typed, LanesAre
<1>2. HoldsPermit(Kind(l))' = HoldsPermit(Kind(l)) \union {<<j, l>>}
  <2>1. \A p \in Jobs \X Lanes : lane'[p[1]][p[2]].at \in Holding <=>
                                   lane[p[1]][p[2]].at \in Holding \/ p = <<j, l>>
    BY DEF OneLane
  <2>2. QED
    BY <2>1 DEF HoldsPermit, Holding
<1>3. \A k \in Kinds : k # Kind(l) => HoldsPermit(k)' = HoldsPermit(k)
  <2>1. \A p \in Jobs \X Lanes : p # <<j, l>> => lane'[p[1]][p[2]].at = lane[p[1]][p[2]].at
    BY DEF OneLane
  <2>2. QED
    BY <2>1 DEF HoldsPermit
<1>4. <<j, l>> \notin HoldsPermit(Kind(l))
  BY DEF HoldsPermit, Holding
<1>5. /\ IsFiniteSet(HoldsPermit(Kind(l)))'
      /\ Cardinality(HoldsPermit(Kind(l)))' = Cardinality(HoldsPermit(Kind(l))) + 1
  BY <1>1, <1>2, <1>4, FS_AddElement DEF PermitInv
<1>6. Cardinality(HoldsPermit(Kind(l))) \in Nat
  BY <1>1, FS_CardinalityType DEF PermitInv
<1>7. /\ free' \in [Kinds -> Nat] /\ free'[Kind(l)] = free[Kind(l)] - 1
      /\ \A k \in Kinds : k # Kind(l) => free'[k] = free[k]
  BY <1>1 DEF Take
<1>8. free'[Kind(l)] + Cardinality(HoldsPermit(Kind(l)))' + detached[Kind(l)] = Capacity[Kind(l)]
  <2>1. free[Kind(l)] + Cardinality(HoldsPermit(Kind(l))) + detached[Kind(l)] = Capacity[Kind(l)]
    BY <1>1 DEF PermitInv
  <2>2. free[Kind(l)] \in Nat /\ detached[Kind(l)] \in Nat
    BY <1>1
  <2>3. QED
    BY <2>1, <2>2, <1>5, <1>6, <1>7
<1>9. \A k \in Kinds : /\ IsFiniteSet(HoldsPermit(k))'
                       /\ free'[k] + Cardinality(HoldsPermit(k))' + detached'[k] = Capacity[k]
  <2>1. SUFFICES ASSUME NEW k \in Kinds
                 PROVE  /\ IsFiniteSet(HoldsPermit(k))'
                        /\ free'[k] + Cardinality(HoldsPermit(k))' + detached'[k] = Capacity[k]
    OBVIOUS
  <2>2. CASE k = Kind(l)
    BY <2>2, <1>5, <1>8
  <2>3. CASE k # Kind(l)
    BY <2>1, <2>3, <1>3, <1>7 DEF PermitInv
  <2>4. QED
    BY <2>2, <2>3
<1>10. QED
  BY <1>7, <1>9 DEF PermitInv

LEMMA PermitGivenBack ==
  ASSUME TypeOK, PermitInv, NEW j \in Jobs, NEW l \in Lanes, OneLane(j, l),
         lane[j][l].at \in Holding, lane'[j][l].at \notin Holding,
         (Release(Kind(l)) /\ detached' = detached) \/ Detach(Kind(l))
  PROVE  PermitInv' /\ free' \in [Kinds -> Nat] /\ detached' \in [Kinds -> Nat]
<1>1. free \in [Kinds -> Nat] /\ detached \in [Kinds -> Nat] /\ Kind(l) \in Kinds
  BY Typed, LanesAre
<1>2. HoldsPermit(Kind(l))' = HoldsPermit(Kind(l)) \ {<<j, l>>}
  <2>1. \A p \in Jobs \X Lanes : lane'[p[1]][p[2]].at \in Holding <=>
                                   lane[p[1]][p[2]].at \in Holding /\ p # <<j, l>>
    BY DEF OneLane
  <2>2. QED
    BY <2>1 DEF HoldsPermit, Holding
<1>3. \A k \in Kinds : k # Kind(l) => HoldsPermit(k)' = HoldsPermit(k)
  <2>1. \A p \in Jobs \X Lanes : p # <<j, l>> => lane'[p[1]][p[2]].at = lane[p[1]][p[2]].at
    BY DEF OneLane
  <2>2. QED
    BY <2>1 DEF HoldsPermit
<1>4. <<j, l>> \in HoldsPermit(Kind(l))
  BY DEF HoldsPermit, Holding
<1>5. /\ IsFiniteSet(HoldsPermit(Kind(l)))'
      /\ Cardinality(HoldsPermit(Kind(l)))' = Cardinality(HoldsPermit(Kind(l))) - 1
  BY <1>1, <1>2, <1>4, FS_RemoveElement DEF PermitInv
<1>6. Cardinality(HoldsPermit(Kind(l))) \in Nat
  BY <1>1, FS_CardinalityType DEF PermitInv
<1>7. /\ free' \in [Kinds -> Nat] /\ detached' \in [Kinds -> Nat]
      /\ free'[Kind(l)] + detached'[Kind(l)] = free[Kind(l)] + detached[Kind(l)] + 1
      /\ \A k \in Kinds : k # Kind(l) => free'[k] = free[k] /\ detached'[k] = detached[k]
  <2>1. CASE Release(Kind(l)) /\ detached' = detached
    BY <1>1, <2>1 DEF Release
  <2>2. CASE Detach(Kind(l))
    BY <1>1, <2>2 DEF Detach
  <2>3. QED
    BY <2>1, <2>2
<1>8. free'[Kind(l)] + Cardinality(HoldsPermit(Kind(l)))' + detached'[Kind(l)] = Capacity[Kind(l)]
  <2>1. free[Kind(l)] + Cardinality(HoldsPermit(Kind(l))) + detached[Kind(l)] = Capacity[Kind(l)]
    BY <1>1 DEF PermitInv
  <2>2. /\ free[Kind(l)] \in Nat /\ detached[Kind(l)] \in Nat
        /\ free'[Kind(l)] \in Nat /\ detached'[Kind(l)] \in Nat
    BY <1>1, <1>7
  <2>3. QED
    BY <2>1, <2>2, <1>5, <1>6, <1>7
<1>9. \A k \in Kinds : /\ IsFiniteSet(HoldsPermit(k))'
                       /\ free'[k] + Cardinality(HoldsPermit(k))' + detached'[k] = Capacity[k]
  <2>1. SUFFICES ASSUME NEW k \in Kinds
                 PROVE  /\ IsFiniteSet(HoldsPermit(k))'
                        /\ free'[k] + Cardinality(HoldsPermit(k))' + detached'[k] = Capacity[k]
    OBVIOUS
  <2>2. CASE k = Kind(l)
    BY <2>2, <1>5, <1>8
  <2>3. CASE k # Kind(l)
    BY <2>1, <2>3, <1>3, <1>7 DEF PermitInv
  <2>4. QED
    BY <2>2, <2>3
<1>10. QED
  BY <1>7, <1>9 DEF PermitInv

\* No lane moves.
LEMMA NoLaneMoves ==
  ASSUME PermitInv, UNCHANGED <<lane, free, detached>>
  PROVE  PermitInv'
BY DEF PermitInv, HoldsPermit


-----------------------------------------------------------------------------
(* The other jobs, and the steps of a phase *)

\* The service stays as it is; of the jobs only j changes.
Apart(j) ==
  /\ service' = service
  /\ \A i \in Jobs : i # j =>
       /\ job'[i] = job[i] /\ clock'[i] = clock[i] /\ task'[i] = task[i]
       /\ \A l \in Lanes : rows'[i][l] = rows[i][l] /\ lane'[i][l] = lane[i][l]
  /\ \A i \in Jobs, l \in Lanes : loop' = <<i, l>> => i = j \/ loop = <<i, l>>

LEMMA OthersKeep ==
  ASSUME NEW j \in Jobs, Apart(j), NEW i \in Jobs, i # j, JobInv(i)
  PROVE  JobInv(i)'
<1>1. /\ service' = service /\ job'[i] = job[i] /\ clock'[i] = clock[i] /\ task'[i] = task[i]
      /\ \A l \in Lanes : rows'[i][l] = rows[i][l] /\ lane'[i][l] = lane[i][l]
      /\ \A l \in Lanes : loop' = <<i, l>> => loop = <<i, l>>
  BY DEF Apart
<1>2. /\ StageOf(i) /\ AskedOf(i) /\ LanesOf(i) /\ ReasonsOf(i) /\ RowsOf(i) /\ OutcomeOf(i)
      /\ DownOf(i)
  BY DEF JobInv
<1>3. Main \in Lanes /\ Branches \subseteq Lanes
  BY LanesAre
<1>4. StageOf(i)'
  BY <1>1, <1>2, <1>3 DEF StageOf
<1>5. AskedOf(i)'
  BY <1>1, <1>2, <1>3 DEF AskedOf, Live
<1>6. LanesOf(i)'
  BY <1>1, <1>2, <1>3 DEF LanesOf, Live
<1>7. ReasonsOf(i)'
  BY <1>1, <1>2, <1>3 DEF ReasonsOf
<1>8. RowsOf(i)'
  BY <1>1, <1>2, <1>3 DEF RowsOf
<1>9. OutcomeOf(i)'
  BY <1>1, <1>2, <1>3 DEF OutcomeOf, Live, SettlementLost
<1>10. DownOf(i)'
  BY <1>1, <1>2, <1>3 DEF DownOf
<1>11. QED
  BY <1>4, <1>5, <1>6, <1>7, <1>8, <1>9, <1>10 DEF JobInv

\* What is left to show of a step that moves job j only.
LEMMA OneJobMoves ==
  ASSUME EngineInv, NEW j \in Jobs, Apart(j), TypeOK', PermitInv', JobInv(j)',
         service = "down" => loop' = Nobody
  PROVE  EngineInv'
<1>1. \A i \in Jobs : JobInv(i)'
  <2>1. SUFFICES ASSUME NEW i \in Jobs, i # j PROVE JobInv(i)'
    OBVIOUS
  <2>2. JobInv(i)
    BY DEF EngineInv
  <2>3. QED
    BY <2>1, <2>2, OthersKeep
<1>2. service' = service
  BY DEF Apart
<1>3. QED
  BY <1>1, <1>2 DEF EngineInv

\* A lane that fails says why, and the deadlines agree.
FailsFor(j, l) ==
  /\ lane[j][l].why \in Codes
  /\ lane[j][l].why = "SOFT_DEADLINE_REACHED" =>
       clock[j] # "early" /\ (l = Main => task[j].at \in {"frame", "fork"})
  /\ lane[j][l].why = "DEADLINE_EXCEEDED" => clock[j] = "hard"

\* What a step of lane l does to job j, but for the steps of Main between two phases.
LaneMove(j, l) ==
  /\ UNCHANGED <<job, clock, task, worker, service>>
  /\ service # "down"
  /\ OneLane(j, l)
  /\ lane[j][l].at \notin Resting /\ (l = Main => lane[j][l].at \in PhaseAts)
  /\ lane'[j][l].at \in PhaseAts \union LaneEnds \union {"ok", "failed"}
  /\ lane'[j][l].at = "answered" => lane'[j][l].why \in Answers
  /\ lane'[j][l].at = "failed" => FailsFor(j, l)'
  /\ lane'[j][l].at = "skipped" => clock[j] # "early"
  /\ rows' \in [Jobs -> [Lanes -> {"none", "open", "ended", "cancelled"}]]
  /\ \A i \in Jobs, m \in Lanes : i # j \/ m # l => rows'[i][m] = rows[i][m]
  /\ rows'[j][l] = "open" => rows[j][l] = "open" \/ Accepts(j)
  /\ rows'[j][l] = "open" /\ clock[j] # "hard" /\ service = "up" =>
       lane'[j][l].at \in {"calling", "answered"}
  /\ loop' \in {Nobody, <<j, l>>}
  /\ task[j].cancel => lane'[j][l].at = "cancelled"

LEMMA LaneMoves ==
  ASSUME EngineInv, NEW j \in Jobs, NEW l \in Lanes, LaneMove(j, l), PermitInv',
         free' \in [Kinds -> Nat], detached' \in [Kinds -> Nat]
  PROVE  EngineInv'
<1>1. /\ JobInv(j) /\ TypeOK
      /\ StageOf(j) /\ AskedOf(j) /\ LanesOf(j) /\ ReasonsOf(j) /\ RowsOf(j) /\ OutcomeOf(j)
      /\ DownOf(j)
  BY DEF EngineInv, JobInv
<1>2. Apart(j)
  BY EngineAssumption DEF LaneMove, Apart, OneLane, Lanes
<1>3. TypeOK'
  <2>1. loop' \in (Jobs \X Lanes) \union {Nobody}
    BY DEF LaneMove
  <2>2. QED
    BY <1>1, <2>1, Typed, TypedNext DEF LaneMove, OneLane
<1>4. /\ job' = job /\ clock' = clock /\ task' = task /\ service' = service
      /\ \A m \in Lanes : m # l => lane'[j][m] = lane[j][m] /\ rows'[j][m] = rows[j][m]
  BY DEF LaneMove, OneLane
<1>5. Live(j) /\ (l = Main => task[j].at \notin {"created", "rollout"})
  BY <1>1, LanesAre DEF LaneMove, LanesOf, PhaseAts, Resting, LaneEnds, Live
<1>6. l # Main => task[j].at = "rollout" /\ lane[j][Main].at = "idle"
  BY <1>1, LanesAre DEF LaneMove, LanesOf, PhaseAts, Resting, LaneEnds
<1>7. /\ service # "down" /\ (l = Main => lane[j][l].at \in PhaseAts)
      /\ lane'[j][l].at \in PhaseAts \union LaneEnds \union {"ok", "failed"}
  BY DEF LaneMove
<1>8. StageOf(j)'
  <2>1. CASE l = Main
    BY <1>1, <1>4, <1>7, <2>1 DEF StageOf, PhaseAts, Running
  <2>2. CASE l # Main
    BY <1>1, <1>4, <2>2, LanesAre DEF StageOf
  <2>3. QED
    BY <2>1, <2>2
<1>9. AskedOf(j)'
  <2>1. \A m \in Lanes : loop' = <<j, m>> => m = l
    BY EngineAssumption DEF LaneMove, Lanes
  <2>2. task[j].cancel => lane'[j][l].at = "cancelled"
    BY DEF LaneMove
  <2>3. QED
    BY <1>1, <1>4, <2>1, <2>2 DEF AskedOf, Live
<1>10. LanesOf(j)'
  <2>1. CASE l = Main
    <3>1. \A b \in Branches : lane[j][b].at \in Resting
      BY <1>1, <1>7, <2>1 DEF LanesOf, PhaseAts
    <3>2. \A b \in Branches : lane'[j][b].at \in Resting
      BY <1>4, <2>1, <3>1, LanesAre
    <3>3. QED
      BY <1>4, <1>5, <2>1, <3>2 DEF LanesOf, Live
  <2>2. CASE l # Main
    <3>1. lane'[j][Main] = lane[j][Main]
      BY <1>4, <2>2, LanesAre
    <3>2. QED
      BY <1>1, <1>4, <1>6, <2>2, <3>1, LanesAre DEF LanesOf, Live
  <2>3. QED
    BY <2>1, <2>2
<1>11. ReasonsOf(j)'
  <2>1. \A m \in Lanes : (/\ lane[j][m].at = "answered" => lane[j][m].why \in Answers
                          /\ lane[j][m].at = "failed" => FailsFor(j, m)
                          /\ lane[j][m].at = "skipped" => clock[j] # "early")'
    <3>1. SUFFICES ASSUME NEW m \in Lanes
                   PROVE (/\ lane[j][m].at = "answered" => lane[j][m].why \in Answers
                          /\ lane[j][m].at = "failed" => FailsFor(j, m)
                          /\ lane[j][m].at = "skipped" => clock[j] # "early")'
      OBVIOUS
    <3>2. CASE m = l
      BY <1>7, <3>2 DEF LaneMove, PhaseAts
    <3>3. CASE m # l
      BY <1>1, <1>4, <3>1, <3>3 DEF ReasonsOf, FailsFor
    <3>4. QED
      BY <3>2, <3>3
  <2>2. lane'[j][Main].at \notin {"partial", "settle_partial", "settle"}
           \/ (l # Main /\ lane'[j][Main].at = "idle")
    BY <1>4, <1>6, <1>7, LanesAre DEF PhaseAts, LaneEnds
  <2>3. QED
    BY <2>1, <2>2 DEF ReasonsOf, FailsFor
<1>12. job[j].state \in Running
  <2>1. task[j].at \in {"created", "frame", "fork", "rollout", "critique", "synthesis"}
    BY <1>1, <1>5, Typed DEF Live, Task
  <2>2. QED
    BY <1>1, <2>1 DEF StageOf, Running
<1>13. RowsOf(j)'
  <2>1. SUFFICES ASSUME NEW m \in Lanes, rows'[j][m] = "open"
                 PROVE  clock'[j] # "hard" /\ service' = "up" =>
                          lane'[j][m].at \in {"calling", "answered"}
    BY DEF RowsOf
  <2>2. CASE m = l
    BY <1>4, <2>1, <2>2 DEF LaneMove
  <2>3. CASE m # l
    BY <1>1, <1>4, <1>12, <2>1, <2>3 DEF RowsOf
  <2>4. QED
    BY <2>2, <2>3
<1>14. OutcomeOf(j)'
  <2>1. job[j].state \notin Done
    BY <1>12 DEF Running, Done
  <2>2. QED
    BY <1>1, <1>4, <1>5, <2>1 DEF OutcomeOf, Live, SettlementLost, Done
<1>15. DownOf(j)'
  BY <1>4, <1>7 DEF DownOf
<1>16. JobInv(j)'
  BY <1>8, <1>9, <1>10, <1>11, <1>13, <1>14, <1>15 DEF JobInv
<1>17. QED
  BY <1>2, <1>3, <1>7, <1>16, OneJobMoves


-----------------------------------------------------------------------------
(* The actions of a phase *)

Resumed(j, l) == loop = <<j, l>> \/ (loop = Nobody /\ ~task[j].cancel)

LEMMA InRun ==
  ASSUME EngineInv, NEW j \in Jobs, NEW l \in Lanes, lane[j][l].at \notin Resting, Resumed(j, l)
  PROVE  /\ service = "up" /\ ~task[j].cancel /\ ~job[j].asked
         /\ job[j].state \in Running
         /\ task[j].at \in {"frame", "fork", "rollout", "critique", "synthesis"}
         /\ l # Main => task[j].at = "rollout" /\ lane[j][Main].at = "idle"
<1>1. /\ TypeOK /\ StageOf(j) /\ AskedOf(j) /\ LanesOf(j) /\ DownOf(j)
      /\ service = "down" => loop = Nobody
  BY DEF EngineInv, JobInv
<1>2. lane[j][l].at \notin {"idle", "cancelled"}
  BY DEF Resting, LaneEnds
<1>3. ~task[j].cancel
  BY <1>1, <1>2 DEF AskedOf, Resumed
<1>4. service # "down"
  BY <1>1, <1>2 DEF DownOf, IdleLane
<1>5. l # Main => task[j].at = "rollout" /\ lane[j][Main].at = "idle"
  BY <1>1, LanesAre DEF LanesOf
<1>6. task[j].at \in {"frame", "fork", "rollout", "critique", "synthesis"}
  BY <1>1, <1>2, <1>5, Typed DEF LanesOf, Live, Task
<1>7. Live(j) /\ job[j].state \in Running
  BY <1>1, <1>6 DEF Live, StageOf, Running
<1>8. service = "up"
  BY <1>1, <1>3, <1>4, <1>7, Typed DEF AskedOf
<1>9. QED
  BY <1>1, <1>3, <1>5, <1>6, <1>7, <1>8 DEF AskedOf

LEMMA InPhase ==
  ASSUME EngineInv, NEW j \in Jobs, NEW l \in Lanes, lane[j][l].at \in PhaseAts, Resumed(j, l)
  PROVE  /\ service = "up" /\ ~task[j].cancel /\ ~job[j].asked
         /\ job[j].state \in Running
         /\ l = Main => task[j].at \in {"frame", "fork", "critique", "synthesis"}
<1>1. lane[j][l].at \notin Resting
  BY DEF PhaseAts, Resting, LaneEnds
<1>2. LanesOf(j)
  BY DEF EngineInv, JobInv
<1>3. QED
  BY <1>1, <1>2, InRun DEF LanesOf

\* A step of a lane that has no call in progress.
LEMMA QuietMoves ==
  ASSUME EngineInv, NEW j \in Jobs, NEW l \in Lanes, Resumed(j, l),
         lane[j][l].at \in PhaseAts \ {"calling", "answered"},
         OneLane(j, l), UNCHANGED <<job, clock, rows, task, worker, service>>,
         lane'[j][l].at \in (PhaseAts \ {"answered"}) \union {"ok", "failed"},
         lane'[j][l].at = "failed" => FailsFor(j, l)',
         loop' \in {Nobody, <<j, l>>}
  PROVE  LaneMove(j, l)
<1>1. TypeOK /\ RowsOf(j)
  BY DEF EngineInv, JobInv
<1>2. service = "up" /\ ~task[j].cancel /\ job[j].state \in Running
  BY InPhase
<1>3. rows[j][l] = "open" => clock[j] = "hard"
  BY <1>1, <1>2 DEF RowsOf
<1>4. QED
  BY <1>1, <1>2, <1>3, Typed DEF LaneMove, PhaseAts, Resting, LaneEnds

LEMMA Rejects ==
  ASSUME EngineInv, NEW j \in Jobs, NEW l \in Lanes, Resumed(j, l), lane[j][l].at \in PhaseAts,
         AdmissionOver(j), Reject(j, l), UNCHANGED <<clock, task>>
  PROVE  OneLane(j, l) /\ lane'[j][l].at = "failed" /\ FailsFor(j, l)'
<1>1. TypeOK
  BY DEF EngineInv
<1>2. l = Main => task[j].at # "rollout"
  BY InPhase
<1>3. CASE SoftLimited(j)
  <2>1. "SOFT_DEADLINE_REACHED" \in Codes /\ Fails(j, l, "SOFT_DEADLINE_REACHED")
    BY <1>3 DEF Reject, Codes
  <2>2. OneLane(j, l) /\ lane'[j][l].at = "failed" /\ lane'[j][l].why = "SOFT_DEADLINE_REACHED"
    BY <1>1, <2>1, LaneFails
  <2>3. clock[j] # "early" /\ (l = Main => task[j].at \in {"frame", "fork"})
    BY <1>2, <1>3 DEF AdmissionOver, SoftLimited
  <2>4. QED
    BY <2>1, <2>2, <2>3 DEF FailsFor
<1>4. CASE ~SoftLimited(j)
  <2>1. "DEADLINE_EXCEEDED" \in Codes /\ Fails(j, l, "DEADLINE_EXCEEDED")
    BY <1>4 DEF Reject, Codes
  <2>2. OneLane(j, l) /\ lane'[j][l].at = "failed" /\ lane'[j][l].why = "DEADLINE_EXCEEDED"
    BY <1>1, <2>1, LaneFails
  <2>3. clock[j] = "hard"
    BY <1>4 DEF AdmissionOver
  <2>4. QED
    BY <2>1, <2>2, <2>3 DEF FailsFor
<1>5. QED
  BY <1>3, <1>4

\* A failure for any other reason.
LEMMA OtherFailure ==
  ASSUME TypeOK, NEW j \in Jobs, NEW l \in Lanes,
         NEW code \in Codes \ {"SOFT_DEADLINE_REACHED", "DEADLINE_EXCEEDED"}, Fails(j, l, code)
  PROVE  OneLane(j, l) /\ lane'[j][l].at = "failed" /\ FailsFor(j, l)'
BY LaneFails DEF FailsFor

LEMMA HardFailure ==
  ASSUME TypeOK, NEW j \in Jobs, NEW l \in Lanes, Fails(j, l, "DEADLINE_EXCEEDED"),
         clock[j] = "hard", clock' = clock
  PROVE  OneLane(j, l) /\ lane'[j][l].at = "failed" /\ FailsFor(j, l)'
<1>1. "DEADLINE_EXCEEDED" \in Codes
  BY DEF Codes
<1>2. QED
  BY <1>1, LaneFails DEF FailsFor

LEMMA GuardKeeps ==
  ASSUME EngineInv, NEW j \in Jobs, NEW l \in Lanes, Guard(j, l)
  PROVE  EngineInv'
<1>1. TypeOK /\ PermitInv /\ free \in [Kinds -> Nat] /\ detached \in [Kinds -> Nat]
  BY Typed DEF EngineInv
<1>2. Resumed(j, l) /\ loop = <<j, l>> /\ lane[j][l].at = "guard"
  BY DEF Guard, Runs, Resumed
<1>3. /\ OneLane(j, l) /\ lane'[j][l].at \in {"admit", "failed"}
      /\ lane'[j][l].at = "failed" => FailsFor(j, l)'
  <2>1. CASE clock[j] = "hard" /\ Fails(j, l, "DEADLINE_EXCEEDED")
    BY <1>1, <2>1, HardFailure DEF Guard
  <2>2. CASE At(j, l, "admit")
    BY <1>1, <2>2, LaneAt DEF LaneAts, PhaseAts
  <2>3. QED
    BY <2>1, <2>2 DEF Guard, GuardThen
<1>4. LaneMove(j, l)
  BY <1>2, <1>3, QuietMoves DEF Guard, PhaseAts
<1>5. PermitInv'
  BY <1>1, <1>2, <1>3, PermitsKept DEF Guard, Holding
<1>6. QED
  BY <1>1, <1>4, <1>5, LaneMoves DEF Guard

LEMMA RefusePromptKeeps ==
  ASSUME EngineInv, NEW j \in Jobs, NEW l \in Lanes, RefusePrompt(j, l)
  PROVE  EngineInv'
<1>1. TypeOK /\ PermitInv /\ free \in [Kinds -> Nat] /\ detached \in [Kinds -> Nat]
  BY Typed DEF EngineInv
<1>2. Resumed(j, l) /\ loop = <<j, l>> /\ lane[j][l].at = "admit"
  BY DEF RefusePrompt, Runs, Resumed
<1>3. OneLane(j, l) /\ lane'[j][l].at = "failed" /\ FailsFor(j, l)'
  BY <1>1, OtherFailure DEF RefusePrompt, Codes
<1>4. LaneMove(j, l)
  BY <1>2, <1>3, QuietMoves DEF RefusePrompt, PhaseAts
<1>5. PermitInv'
  BY <1>1, <1>2, <1>3, PermitsKept DEF RefusePrompt, Holding
<1>6. QED
  BY <1>1, <1>4, <1>5, LaneMoves DEF RefusePrompt

LEMMA AdmitKeeps ==
  ASSUME EngineInv, NEW j \in Jobs, NEW l \in Lanes, Admit(j, l)
  PROVE  EngineInv'
<1>1. TypeOK /\ PermitInv /\ free \in [Kinds -> Nat] /\ detached \in [Kinds -> Nat]
  BY Typed DEF EngineInv
<1>2. Resumed(j, l) /\ loop = <<j, l>> /\ lane[j][l].at = "admit"
  BY DEF Admit, Runs, Resumed
<1>3. lane[j][l].at \in PhaseAts \ {"calling", "answered"}
  BY <1>2 DEF PhaseAts
<1>4. /\ UNCHANGED <<job, clock, rows, task, worker, service>> /\ detached' = detached
      /\ UNCHANGED <<clock, task>>
  BY DEF Admit
<1>5. CASE AdmissionOver(j) /\ Reject(j, l) /\ UNCHANGED <<free, loop>>
  <2>1. OneLane(j, l) /\ lane'[j][l].at = "failed" /\ FailsFor(j, l)'
    BY <1>2, <1>3, <1>4, <1>5, Rejects
  <2>2. LaneMove(j, l)
    BY <1>2, <1>3, <1>4, <1>5, <2>1, QuietMoves
  <2>3. PermitInv'
    BY <1>1, <1>2, <1>4, <1>5, <2>1, PermitsKept DEF Holding
  <2>4. QED
    BY <1>1, <1>4, <1>5, <2>2, <2>3, LaneMoves
<1>6. CASE /\ ~AdmissionOver(j) /\ free[Kind(l)] > 0
           /\ At(j, l, "admitted") /\ Take(Kind(l)) /\ UNCHANGED loop
  <2>1. OneLane(j, l) /\ lane'[j][l].at = "admitted"
    BY <1>1, <1>6, LaneAt DEF LaneAts, PhaseAts
  <2>2. LaneMove(j, l)
    BY <1>2, <1>3, <1>4, <1>6, <2>1, QuietMoves DEF PhaseAts
  <2>3. PermitInv' /\ free' \in [Kinds -> Nat]
    BY <1>1, <1>2, <1>4, <1>6, <2>1, PermitTaken DEF Holding
  <2>4. QED
    BY <1>1, <1>4, <2>2, <2>3, LaneMoves
<1>7. CASE /\ ~AdmissionOver(j) /\ free[Kind(l)] = 0
           /\ At(j, l, "waiting") /\ loop' = Nobody /\ UNCHANGED free
  <2>1. OneLane(j, l) /\ lane'[j][l].at = "waiting"
    BY <1>1, <1>7, LaneAt DEF LaneAts, PhaseAts
  <2>2. LaneMove(j, l)
    BY <1>2, <1>3, <1>4, <1>7, <2>1, QuietMoves DEF PhaseAts
  <2>3. PermitInv'
    BY <1>1, <1>2, <1>4, <1>7, <2>1, PermitsKept DEF Holding
  <2>4. QED
    BY <1>1, <1>4, <1>7, <2>2, <2>3, LaneMoves
<1>8. QED
  BY <1>5, <1>6, <1>7 DEF Admit

LEMMA AcquireKeeps ==
  ASSUME EngineInv, NEW j \in Jobs, NEW l \in Lanes, Acquire(j, l)
  PROVE  EngineInv'
<1>1. TypeOK /\ PermitInv /\ free \in [Kinds -> Nat] /\ detached \in [Kinds -> Nat]
  BY Typed DEF EngineInv
<1>2. Resumed(j, l) /\ lane[j][l].at = "waiting"
  BY DEF Acquire, Wakes, Suspended, Resumed
<1>3. OneLane(j, l) /\ lane'[j][l].at = "admitted"
  BY <1>1, LaneAt DEF Acquire, LaneAts, PhaseAts
<1>4. LaneMove(j, l)
  BY <1>2, <1>3, QuietMoves DEF Acquire, PhaseAts
<1>5. PermitInv' /\ free' \in [Kinds -> Nat]
  BY <1>1, <1>2, <1>3, PermitTaken DEF Acquire, Holding
<1>6. QED
  BY <1>1, <1>4, <1>5, LaneMoves DEF Acquire

LEMMA WaitExpiresKeeps ==
  ASSUME EngineInv, NEW j \in Jobs, NEW l \in Lanes, WaitExpires(j, l)
  PROVE  EngineInv'
<1>1. TypeOK /\ PermitInv /\ free \in [Kinds -> Nat] /\ detached \in [Kinds -> Nat]
  BY Typed DEF EngineInv
<1>2. Resumed(j, l) /\ lane[j][l].at = "waiting"
  BY DEF WaitExpires, Wakes, Suspended, Resumed
<1>3. OneLane(j, l) /\ lane'[j][l].at = "failed" /\ FailsFor(j, l)'
  BY <1>2, Rejects DEF WaitExpires, WaitOver, PhaseAts
<1>4. LaneMove(j, l)
  BY <1>2, <1>3, QuietMoves DEF WaitExpires, PhaseAts
<1>5. PermitInv'
  BY <1>1, <1>2, <1>3, PermitsKept DEF WaitExpires, Holding
<1>6. QED
  BY <1>1, <1>4, <1>5, LaneMoves DEF WaitExpires


LEMMA RecheckKeeps ==
  ASSUME EngineInv, NEW j \in Jobs, NEW l \in Lanes, Recheck(j, l)
  PROVE  EngineInv'
<1>1. TypeOK /\ PermitInv /\ free \in [Kinds -> Nat] /\ detached \in [Kinds -> Nat]
  BY Typed DEF EngineInv
<1>2. Resumed(j, l) /\ loop = <<j, l>> /\ lane[j][l].at = "admitted"
  BY DEF Recheck, Runs, Resumed
<1>3. lane[j][l].at \in PhaseAts \ {"calling", "answered"}
  BY <1>2 DEF PhaseAts
<1>4. /\ UNCHANGED <<job, clock, rows, task, worker, service>> /\ detached' = detached
      /\ UNCHANGED <<clock, task>> /\ loop' = loop
  BY DEF Recheck
<1>5. ASSUME Release(Kind(l)), OneLane(j, l) /\ lane'[j][l].at = "failed" /\ FailsFor(j, l)'
      PROVE  EngineInv'
  <2>1. LaneMove(j, l)
    BY <1>2, <1>3, <1>4, <1>5, QuietMoves
  <2>2. PermitInv' /\ free' \in [Kinds -> Nat]
    BY <1>1, <1>2, <1>4, <1>5, PermitGivenBack DEF Holding
  <2>3. QED
    BY <1>1, <1>4, <2>1, <2>2, LaneMoves
<1>6. CASE AdmissionOver(j) /\ Reject(j, l) /\ Release(Kind(l))
  <2>1. OneLane(j, l) /\ lane'[j][l].at = "failed" /\ FailsFor(j, l)'
    BY <1>2, <1>3, <1>4, <1>6, Rejects
  <2>2. QED
    BY <1>5, <1>6, <2>1
<1>7. CASE Fails(j, l, "DEADLINE_INSUFFICIENT") /\ Release(Kind(l))
  <2>1. OneLane(j, l) /\ lane'[j][l].at = "failed" /\ FailsFor(j, l)'
    BY <1>1, <1>7, OtherFailure DEF Codes
  <2>2. QED
    BY <1>5, <1>7, <2>1
<1>8. CASE At(j, l, "record") /\ UNCHANGED free
  <2>1. OneLane(j, l) /\ lane'[j][l].at = "record"
    BY <1>1, <1>8, LaneAt DEF LaneAts, PhaseAts
  <2>2. LaneMove(j, l)
    BY <1>2, <1>3, <1>4, <2>1, QuietMoves DEF PhaseAts
  <2>3. PermitInv'
    BY <1>1, <1>2, <1>4, <1>8, <2>1, PermitsKept DEF Holding
  <2>4. QED
    BY <1>1, <1>4, <1>8, <2>2, <2>3, LaneMoves
<1>9. QED
  BY <1>6, <1>7, <1>8 DEF Recheck

LEMMA RecordKeeps ==
  ASSUME EngineInv, NEW j \in Jobs, NEW l \in Lanes, Record(j, l)
  PROVE  EngineInv'
<1>1. TypeOK /\ PermitInv /\ free \in [Kinds -> Nat] /\ detached \in [Kinds -> Nat]
  BY Typed DEF EngineInv
<1>2. Resumed(j, l) /\ loop = <<j, l>> /\ lane[j][l].at = "record"
  BY DEF Record, Runs, Resumed
<1>3. lane[j][l].at \in PhaseAts \ {"calling", "answered"}
  BY <1>2 DEF PhaseAts
<1>4. /\ UNCHANGED <<job, clock, task, worker, service>> /\ detached' = detached
  BY DEF Record
<1>5. CASE /\ Accepts(j) /\ rows' = [rows EXCEPT ![j][l] = "open"]
           /\ At(j, l, "calling") /\ loop' = Nobody /\ UNCHANGED free
  <2>1. OneLane(j, l) /\ lane'[j][l].at = "calling"
    BY <1>1, <1>5, LaneAt DEF LaneAts, PhaseAts
  <2>2. /\ rows' \in [Jobs -> [Lanes -> {"none", "open", "ended", "cancelled"}]]
        /\ \A i \in Jobs, m \in Lanes : i # j \/ m # l => rows'[i][m] = rows[i][m]
    BY <1>1, <1>5, Typed
  <2>3. service = "up" /\ ~task[j].cancel
    BY <1>2, <1>3, InPhase
  <2>4. LaneMove(j, l)
    BY <1>3, <1>4, <1>5, <2>1, <2>2, <2>3 DEF LaneMove, PhaseAts, Resting, LaneEnds
  <2>5. PermitInv'
    BY <1>1, <1>2, <1>4, <1>5, <2>1, PermitsKept DEF Holding
  <2>6. QED
    BY <1>1, <1>4, <1>5, <2>4, <2>5, LaneMoves
<1>6. CASE /\ ~Accepts(j)
           /\ Fails(j, l, "FENCED") /\ Release(Kind(l)) /\ UNCHANGED <<rows, loop>>
  <2>1. OneLane(j, l) /\ lane'[j][l].at = "failed" /\ FailsFor(j, l)'
    BY <1>1, <1>6, OtherFailure DEF Codes
  <2>2. LaneMove(j, l)
    BY <1>2, <1>3, <1>4, <1>6, <2>1, QuietMoves
  <2>3. PermitInv' /\ free' \in [Kinds -> Nat]
    BY <1>1, <1>2, <1>4, <1>6, <2>1, PermitGivenBack DEF Holding
  <2>4. QED
    BY <1>1, <1>4, <2>2, <2>3, LaneMoves
<1>7. QED
  BY <1>5, <1>6 DEF Record

LEMMA AnswerKeeps ==
  ASSUME EngineInv, NEW j \in Jobs, NEW l \in Lanes, NEW r \in Answers, Answer(j, l, r)
  PROVE  EngineInv'
<1>1. TypeOK /\ PermitInv /\ free \in [Kinds -> Nat] /\ detached \in [Kinds -> Nat]
  BY Typed DEF EngineInv
<1>2. Resumed(j, l) /\ lane[j][l].at = "calling" /\ lane[j][l].at \in PhaseAts
  BY DEF Answer, Wakes, Suspended, Resumed, PhaseAts
<1>3. /\ UNCHANGED <<job, clock, rows, task, worker, service>> /\ detached' = detached
      /\ loop' = <<j, l>> /\ Release(Kind(l))
  BY DEF Answer
<1>4. OneLane(j, l) /\ lane'[j][l].at = "answered" /\ lane'[j][l].why = r
  <2>1. lane[j][l] \in Lane
    BY <1>1, Typed
  <2>2. [lane[j][l] EXCEPT !.at = "answered", !.why = r] \in Lane
    BY <2>1 DEF Lane, LaneAts, PhaseAts
  <2>3. lane' = [lane EXCEPT ![j][l] = [lane[j][l] EXCEPT !.at = "answered", !.why = r]]
    BY <1>1, Typed DEF Answer
  <2>4. OneLane(j, l) /\ lane'[j][l] = [lane[j][l] EXCEPT !.at = "answered", !.why = r]
    BY <1>1, <2>2, <2>3, SetLane, Typed
  <2>5. QED
    BY <2>1, <2>4 DEF Lane
<1>5. LaneMove(j, l)
  <2>1. service = "up" /\ ~task[j].cancel
    BY <1>2, InPhase
  <2>2. QED
    BY <1>1, <1>2, <1>3, <1>4, <2>1, Typed DEF LaneMove, PhaseAts, Resting, LaneEnds
<1>6. PermitInv' /\ free' \in [Kinds -> Nat]
  BY <1>1, <1>2, <1>3, <1>4, PermitGivenBack DEF Holding
<1>7. QED
  BY <1>1, <1>3, <1>5, <1>6, LaneMoves

\* A row is closed unless the hard deadline fences that.
LEMMA RowCloses ==
  ASSUME EngineInv, NEW j \in Jobs, NEW l \in Lanes, lane[j][l].at \in PhaseAts, Resumed(j, l),
         RowEnded(j, l)
  PROVE  /\ rows' \in [Jobs -> [Lanes -> {"none", "open", "ended", "cancelled"}]]
         /\ \A i \in Jobs, m \in Lanes : i # j \/ m # l => rows'[i][m] = rows[i][m]
         /\ rows'[j][l] = "open" => rows[j][l] = "open" /\ clock[j] = "hard"
<1>1. rows \in [Jobs -> [Lanes -> {"none", "open", "ended", "cancelled"}]]
  BY Typed DEF EngineInv
<1>2. Accepts(j) <=> clock[j] # "hard"
  BY InPhase DEF Accepts
<1>3. QED
  BY <1>1, <1>2 DEF RowEnded

LEMMA CallExpiresKeeps ==
  ASSUME EngineInv, NEW j \in Jobs, NEW l \in Lanes, CallExpires(j, l)
  PROVE  EngineInv'
<1>1. TypeOK /\ PermitInv
  BY DEF EngineInv
<1>2. Resumed(j, l) /\ lane[j][l].at = "calling" /\ lane[j][l].at \in PhaseAts
  BY DEF CallExpires, Wakes, Suspended, Resumed, PhaseAts
<1>3. /\ UNCHANGED <<job, clock, task, worker, service>>
      /\ loop' = <<j, l>> /\ Detach(Kind(l)) /\ RowEnded(j, l)
  BY DEF CallExpires
<1>4. OneLane(j, l) /\ lane'[j][l].at = "failed" /\ FailsFor(j, l)'
  <2>1. CASE clock[j] = "hard" /\ Fails(j, l, "DEADLINE_EXCEEDED")
    BY <1>1, <1>3, <2>1, HardFailure
  <2>2. CASE Fails(j, l, "OTHER")
    BY <1>1, <2>2, OtherFailure DEF Codes
  <2>3. QED
    BY <2>1, <2>2 DEF CallExpires
<1>5. LaneMove(j, l)
  <2>1. service = "up" /\ ~task[j].cancel
    BY <1>2, InPhase
  <2>2. /\ rows' \in [Jobs -> [Lanes -> {"none", "open", "ended", "cancelled"}]]
        /\ \A i \in Jobs, m \in Lanes : i # j \/ m # l => rows'[i][m] = rows[i][m]
        /\ rows'[j][l] = "open" => rows[j][l] = "open" /\ clock[j] = "hard"
    BY <1>2, <1>3, RowCloses
  <2>3. QED
    BY <1>2, <1>3, <1>4, <2>1, <2>2 DEF LaneMove, PhaseAts, Resting, LaneEnds
<1>6. PermitInv' /\ free' \in [Kinds -> Nat] /\ detached' \in [Kinds -> Nat]
  BY <1>1, <1>2, <1>3, <1>4, PermitGivenBack DEF Holding
<1>7. QED
  BY <1>5, <1>6, LaneMoves

LEMMA CheckAnswerKeeps ==
  ASSUME EngineInv, NEW j \in Jobs, NEW l \in Lanes, CheckAnswer(j, l)
  PROVE  EngineInv'
<1> DEFINE r == lane[j][l].why
<1>1. /\ TypeOK /\ PermitInv /\ free \in [Kinds -> Nat] /\ detached \in [Kinds -> Nat]
      /\ ReasonsOf(j)
  BY Typed DEF EngineInv, JobInv
<1>2. Resumed(j, l) /\ lane[j][l].at = "answered" /\ lane[j][l].at \in PhaseAts
  BY DEF CheckAnswer, Runs, Resumed, PhaseAts
<1>3. /\ UNCHANGED <<job, clock, task, worker, free, detached, service, loop>>
      /\ loop = <<j, l>> /\ RowEnded(j, l)
  BY DEF CheckAnswer, Runs
<1>4. r \in Answers /\ r \in {"valid", "malformed", "invalid", "oversized", "error"}
  BY <1>1, <1>2, EngineAssumption DEF ReasonsOf
<1>5. /\ OneLane(j, l) /\ lane'[j][l].at \in {"ok", "guard", "failed"}
      /\ lane'[j][l].at = "failed" => FailsFor(j, l)'
  <2>1. CASE clock[j] = "hard" /\ Fails(j, l, "DEADLINE_EXCEEDED")
    BY <1>1, <1>3, <2>1, HardFailure
  <2>2. CASE Leaves(j, l, "ok")
    BY <1>1, <2>2, LaneLeaves DEF LaneAts
  <2>3. CASE /\ r = "malformed" \/ (r = "invalid" /\ clock[j] # "hard")
             /\ lane' = [lane EXCEPT ![j][l] = [at |-> "guard", why |-> "none", spent |-> r]]
    <3>1. [at |-> "guard", why |-> "none", spent |-> r] \in Lane
      BY <2>3 DEF Lane, LaneAts, PhaseAts, Codes
    <3>2. OneLane(j, l) /\ lane'[j][l] = [at |-> "guard", why |-> "none", spent |-> r]
      BY <1>1, <2>3, <3>1, SetLane, Typed
    <3>3. QED
      BY <3>2
  <2>4. CASE r # "valid" /\ Fails(j, l, Failure[r])
    <3>1. Failure[r] \in Codes \ {"SOFT_DEADLINE_REACHED", "DEADLINE_EXCEEDED"}
      BY <1>4, <2>4 DEF Failure, Codes
    <3>2. QED
      BY <1>1, <2>4, <3>1, OtherFailure
  <2>5. QED
    BY <2>1, <2>2, <2>3, <2>4 DEF CheckAnswer
<1>6. LaneMove(j, l)
  <2>1. service = "up" /\ ~task[j].cancel
    BY <1>2, InPhase
  <2>2. /\ rows' \in [Jobs -> [Lanes -> {"none", "open", "ended", "cancelled"}]]
        /\ \A i \in Jobs, m \in Lanes : i # j \/ m # l => rows'[i][m] = rows[i][m]
        /\ rows'[j][l] = "open" => rows[j][l] = "open" /\ clock[j] = "hard"
    BY <1>2, <1>3, RowCloses
  <2>3. QED
    BY <1>2, <1>3, <1>5, <2>1, <2>2 DEF LaneMove, PhaseAts, Resting, LaneEnds
<1>7. PermitInv'
  BY <1>1, <1>2, <1>3, <1>5, PermitsKept DEF Holding
<1>8. QED
  BY <1>1, <1>3, <1>6, <1>7, LaneMoves

LEMMA PhaseKeeps ==
  ASSUME EngineInv, NEW j \in Jobs, NEW l \in Lanes,
         \/ Phase(j, l) \/ Acquire(j, l) \/ WaitExpires(j, l)
         \/ (\E r \in Answers : Answer(j, l, r)) \/ CallExpires(j, l)
  PROVE  EngineInv'
BY GuardKeeps, RefusePromptKeeps, AdmitKeeps, RecheckKeeps, RecordKeeps, CheckAnswerKeeps,
   AcquireKeeps, WaitExpiresKeeps, AnswerKeeps, CallExpiresKeeps DEF Phase


-----------------------------------------------------------------------------
(* The cancellation of a lane, and the branches *)

LEMMA DeliverCancelKeeps ==
  ASSUME EngineInv, NEW j \in Jobs, NEW l \in Lanes, DeliverCancel(j, l)
  PROVE  EngineInv'
<1>1. /\ TypeOK /\ PermitInv /\ free \in [Kinds -> Nat] /\ detached \in [Kinds -> Nat]
      /\ AskedOf(j) /\ DownOf(j)
  BY Typed DEF EngineInv, JobInv
<1>2. /\ lane[j][l].at \in {"waiting", "calling"} /\ task[j].cancel
      /\ Leaves(j, l, "cancelled") /\ rows' = CancelledRow(j, l)
      /\ loop' \in {Nobody, <<j, l>>}
      /\ UNCHANGED <<job, clock, task, worker, service>>
  BY DEF DeliverCancel, Suspended
<1>3. OneLane(j, l) /\ lane'[j][l].at = "cancelled"
  BY <1>1, <1>2, LaneLeaves DEF LaneAts, Resting, LaneEnds
<1>4. service # "down"
  BY <1>1, <1>2 DEF DownOf, IdleLane
<1>5. /\ rows' \in [Jobs -> [Lanes -> {"none", "open", "ended", "cancelled"}]]
      /\ \A i \in Jobs, m \in Lanes : i # j \/ m # l => rows'[i][m] = rows[i][m]
      /\ rows'[j][l] = "open" => rows[j][l] = "open" /\ ~job[j].asked
  BY <1>1, <1>2, Typed DEF CancelledRow
<1>6. service = "up" => job[j].asked
  BY <1>1, <1>2 DEF AskedOf
<1>7. LaneMove(j, l)
  BY <1>2, <1>3, <1>4, <1>5, <1>6 DEF LaneMove, PhaseAts, Resting, LaneEnds
<1>8. PermitInv' /\ free' \in [Kinds -> Nat] /\ detached' \in [Kinds -> Nat]
  <2>1. CASE Suspended(j, l, "waiting") /\ UNCHANGED <<free, detached>>
    BY <1>1, <1>3, <2>1, PermitsKept DEF Suspended, Holding
  <2>2. CASE Suspended(j, l, "calling") /\ Release(Kind(l)) /\ UNCHANGED detached
    BY <1>1, <1>3, <2>2, PermitGivenBack DEF Suspended, Holding
  <2>3. CASE Suspended(j, l, "calling") /\ Detach(Kind(l))
    BY <1>1, <1>3, <2>3, PermitGivenBack DEF Suspended, Holding
  <2>4. QED
    BY <2>1, <2>2, <2>3 DEF DeliverCancel
<1>9. QED
  BY <1>7, <1>8, LaneMoves

LEMMA BranchStartsKeeps ==
  ASSUME EngineInv, NEW j \in Jobs, NEW b \in Branches, BranchStarts(j, b)
  PROVE  EngineInv'
<1>1. /\ TypeOK /\ PermitInv /\ free \in [Kinds -> Nat] /\ detached \in [Kinds -> Nat]
      /\ DownOf(j) /\ RowsOf(j) /\ AskedOf(j) /\ LanesOf(j) /\ b \in Lanes /\ b # Main
  BY Typed, LanesAre DEF EngineInv, JobInv
<1>2. /\ lane[j][b].at = "created" /\ loop' \in {Nobody, <<j, b>>}
      /\ UNCHANGED <<job, clock, rows, task, worker, free, detached, service>>
  BY DEF BranchStarts, Suspended
<1>3. /\ OneLane(j, b) /\ lane'[j][b].at \in {"cancelled", "guard"}
      /\ task[j].cancel => lane'[j][b].at = "cancelled"
  <2>1. CASE task[j].cancel /\ Leaves(j, b, "cancelled")
    BY <1>1, <2>1, LaneLeaves DEF LaneAts, Resting, LaneEnds
  <2>2. CASE ~task[j].cancel /\ At(j, b, "guard")
    BY <1>1, <2>2, LaneAt DEF LaneAts, PhaseAts
  <2>3. QED
    BY <2>1, <2>2 DEF BranchStarts
<1>4. service # "down"
  BY <1>1, <1>2 DEF DownOf, IdleLane
<1>5. rows[j][b] = "open" /\ clock[j] # "hard" => service # "up"
  <2>1. task[j].at = "rollout"
    BY <1>1, <1>2 DEF LanesOf, Resting, LaneEnds
  <2>2. QED
    BY <1>1, <1>2, <2>1 DEF RowsOf
<1>6. LaneMove(j, b)
  BY <1>1, <1>2, <1>3, <1>4, <1>5, Typed DEF LaneMove, PhaseAts, Resting, LaneEnds
<1>7. PermitInv'
  BY <1>1, <1>2, <1>3, PermitsKept DEF Holding
<1>8. QED
  BY <1>1, <1>2, <1>6, <1>7, LaneMoves

LEMMA BranchEndsKeeps ==
  ASSUME EngineInv, NEW j \in Jobs, NEW b \in Branches, BranchEnds(j, b)
  PROVE  EngineInv'
<1>1. /\ TypeOK /\ PermitInv /\ free \in [Kinds -> Nat] /\ detached \in [Kinds -> Nat]
      /\ RowsOf(j) /\ ReasonsOf(j) /\ b \in Lanes /\ b # Main
  BY Typed, LanesAre DEF EngineInv, JobInv
<1>2. /\ lane[j][b].at \in {"ok", "failed"} /\ loop' = Nobody
      /\ UNCHANGED <<job, clock, rows, task, worker, free, detached, service>>
      /\ Resumed(j, b) /\ lane[j][b].at \notin Resting
  BY DEF BranchEnds, Resumed, Resting, LaneEnds
<1>3. service = "up" /\ ~task[j].cancel /\ job[j].state \in Running
  BY <1>1, <1>2, InRun
<1>4. /\ OneLane(j, b) /\ lane'[j][b].at \in {"raised", "succeeded", "skipped", "lost"}
      /\ lane'[j][b].at = "skipped" => clock[j] # "early"
  <2> DEFINE end == CASE ~Accepts(j) -> "raised"
                      [] Accepts(j) /\ lane[j][b].at = "ok" -> "succeeded"
                      [] OTHER -> IF lane[j][b].why = "SOFT_DEADLINE_REACHED" THEN "skipped" ELSE "lost"
  <2>1. /\ end \in {"raised", "succeeded", "skipped", "lost"}
        /\ end = "skipped" => lane[j][b].at = "failed" /\ lane[j][b].why = "SOFT_DEADLINE_REACHED"
    BY <1>2
  <2>2. Leaves(j, b, end)
    BY DEF BranchEnds
  <2>3. end \in LaneAts
    BY <2>1 DEF LaneAts, Resting, LaneEnds
  <2> HIDE DEF end
  <2>4. OneLane(j, b) /\ lane'[j][b].at = end
    BY <1>1, <2>2, <2>3, LaneLeaves
  <2>5. QED
    BY <1>1, <2>1, <2>4 DEF ReasonsOf
<1>5. rows[j][b] = "open" => clock[j] = "hard"
  BY <1>1, <1>2, <1>3 DEF RowsOf
<1>6. LaneMove(j, b)
  BY <1>1, <1>2, <1>3, <1>4, <1>5, Typed DEF LaneMove, LaneEnds, PhaseAts
<1>7. PermitInv'
  BY <1>1, <1>2, <1>4, PermitsKept DEF Holding
<1>8. QED
  BY <1>1, <1>2, <1>6, <1>7, LaneMoves

-----------------------------------------------------------------------------
(* The steps of a task between two phases *)

\* The stage of job j and the phase of its task may change, nothing else of their records.
StageMoves(j) ==
  /\ job' \in [Jobs -> Row] /\ task' \in [Jobs -> Task]
  /\ \A i \in Jobs : i # j => job'[i] = job[i] /\ task'[i] = task[i]
  /\ job'[j].state \in Running
  /\ job'[j].asked = job[j].asked /\ job'[j].error = job[j].error
  /\ job'[j].runs = job[j].runs /\ job'[j].partial = job[j].partial
  /\ task'[j].at \in {"frame", "fork", "rollout", "critique", "synthesis"}
  /\ task'[j].cancel = task[j].cancel

\* What a step of Main may do to its lane.
MainMove(j) ==
  /\ OneLane(j, Main)
  /\ lane'[j][Main].at \in {"guard", "ok", "store", "stored", "failed", "partial", "settle",
                            "settle_partial"}
  /\ lane'[j][Main].at = "guard" => task'[j].at # "rollout"
  /\ lane'[j][Main].at = "failed" => FailsFor(j, Main)'
  /\ lane'[j][Main].at \in {"partial", "settle_partial"} => clock[j] # "early"
  /\ lane'[j][Main].at = "settle" =>
       job'[j].state = "synthesizing" /\ \A b \in Branches : lane[j][b].at # "skipped"

LEMMA MainMoves ==
  ASSUME EngineInv, NEW j \in Jobs, loop = <<j, Main>>,
         lane[j][Main].at \notin PhaseAts \union Resting,
         UNCHANGED <<clock, rows, worker, free, detached, service, loop>>,
         StageMoves(j), MainMove(j), StageOf(j)'
  PROVE  EngineInv'
<1>1. /\ TypeOK /\ PermitInv /\ StageOf(j) /\ AskedOf(j) /\ LanesOf(j) /\ ReasonsOf(j)
      /\ RowsOf(j) /\ OutcomeOf(j) /\ DownOf(j) /\ Main \in Lanes
      /\ service = "down" => loop = Nobody
  BY LanesAre DEF EngineInv, JobInv
<1>2. /\ service = "up" /\ ~task[j].cancel /\ ~job[j].asked /\ job[j].state \in Running
      /\ task[j].at \in {"frame", "fork", "rollout", "critique", "synthesis"}
  BY <1>1, InRun DEF Resumed
<1>3. OneLane(j, Main) /\ lane'[j][Main].at \notin Holding /\ lane[j][Main].at \notin Holding
  BY DEF MainMove, Holding, PhaseAts
<1>4. \A m \in Lanes : m # Main => lane'[j][m] = lane[j][m]
  BY <1>3 DEF OneLane
<1>5. TypeOK'
  BY <1>1, <1>3, Typed, TypedNext DEF StageMoves, OneLane
<1>6. PermitInv'
  BY <1>1, <1>3, PermitsKept
<1>7. Apart(j)
  BY <1>3 DEF Apart, StageMoves, OneLane
<1>8. AskedOf(j)'
  BY <1>1, <1>2 DEF AskedOf, Live, StageMoves, Running
<1>9. \A b \in Branches : lane[j][b].at \in Resting /\ lane'[j][b] = lane[j][b] /\ b \in Lanes
  BY <1>1, <1>4, LanesAre DEF LanesOf, Resting
<1>10. LanesOf(j)'
  <2>1. lane'[j][Main].at \in PhaseAts => task'[j].at # "rollout"
    BY DEF MainMove, PhaseAts
  <2>2. Live(j)' /\ task'[j].at # "created"
    BY DEF Live, StageMoves
  <2>3. QED
    BY <1>9, <2>1, <2>2 DEF LanesOf
<1>11. ReasonsOf(j)'
  <2>1. \A m \in Lanes : (/\ lane[j][m].at = "answered" => lane[j][m].why \in Answers
                          /\ lane[j][m].at = "failed" => FailsFor(j, m)
                          /\ lane[j][m].at = "skipped" => clock[j] # "early")'
    <3>1. SUFFICES ASSUME NEW m \in Lanes
                   PROVE (/\ lane[j][m].at = "answered" => lane[j][m].why \in Answers
                          /\ lane[j][m].at = "failed" => FailsFor(j, m)
                          /\ lane[j][m].at = "skipped" => clock[j] # "early")'
      OBVIOUS
    <3>2. CASE m = Main
      BY <3>2 DEF MainMove
    <3>3. CASE m # Main
      <4>1. lane'[j][m] = lane[j][m] /\ clock'[j] = clock[j] /\ lane[j][m].at \in Resting
        BY <1>4, <1>9, <3>1, <3>3, LanesAre
      <4>2. QED
        BY <1>1, <3>1, <4>1 DEF ReasonsOf, Resting, LaneEnds
    <3>4. QED
      BY <3>2, <3>3
  <2>2. /\ lane'[j][Main].at \in {"partial", "settle_partial"} => clock'[j] # "early"
        /\ lane'[j][Main].at = "settle" =>
             job'[j].state = "synthesizing" /\ \A b \in Branches : lane'[j][b].at # "skipped"
    BY <1>9 DEF MainMove
  <2>3. QED
    BY <2>1, <2>2 DEF ReasonsOf, FailsFor
<1>12. RowsOf(j)'
  <2>1. job'[j].state \notin {"absent", "queued", "cancelled"}
    BY DEF StageMoves, Running
  <2>2. \A m \in Lanes : rows[j][m] = "open" => clock[j] = "hard"
    <3>1. \A m \in Lanes : lane[j][m].at \notin {"calling", "answered"}
      BY <1>9, LanesAre DEF PhaseAts, Resting, LaneEnds
    <3>2. QED
      BY <1>1, <1>2, <3>1 DEF RowsOf
  <2>3. QED
    BY <2>1, <2>2 DEF RowsOf
<1>13. OutcomeOf(j)'
  <2>1. Live(j)' /\ job'[j].state \notin {"queued", "absent", "succeeded"} \union Done
    BY DEF StageMoves, Live, Running, Done
  <2>2. QED
    BY <1>1, <2>1 DEF OutcomeOf, StageMoves
<1>14. DownOf(j)'
  BY <1>2 DEF DownOf
<1>15. JobInv(j)'
  BY <1>8, <1>10, <1>11, <1>12, <1>13, <1>14 DEF JobInv
<1>16. QED
  BY <1>2, <1>5, <1>6, <1>7, <1>15, OneJobMoves

\* Neither the stage nor the phase changes.
LEMMA StageStays ==
  ASSUME EngineInv, NEW j \in Jobs, UNCHANGED <<job, clock, task>>,
         loop = <<j, Main>>, lane[j][Main].at \notin PhaseAts \union Resting,
         task[j].at = "frame" /\ job[j].state = "rolling_out" =>
           \/ lane'[j][Main].at \in {"partial", "settle_partial"}
           \/ lane'[j][Main].at = "failed" /\ lane'[j][Main].why # "SOFT_DEADLINE_REACHED"
  PROVE  StageMoves(j) /\ StageOf(j)'
<1>1. TypeOK /\ StageOf(j) /\ Main \in Lanes
  BY LanesAre DEF EngineInv, JobInv
<1>2. /\ job[j].state \in Running
      /\ task[j].at \in {"frame", "fork", "rollout", "critique", "synthesis"}
  BY <1>1, InRun DEF Resumed
<1>3. StageMoves(j)
  BY <1>1, <1>2, Typed DEF StageMoves
<1>4. StageOf(j)'
  BY <1>1 DEF StageOf
<1>5. QED
  BY <1>3, <1>4


LEMMA CheckpointKeeps ==
  ASSUME EngineInv, NEW j \in Jobs, Checkpoint(j)
  PROVE  EngineInv'
<1>1. TypeOK /\ StageOf(j) /\ Main \in Lanes
  BY LanesAre DEF EngineInv, JobInv
<1>2. /\ loop = <<j, Main>> /\ lane[j][Main].at = "ok"
      /\ lane[j][Main].at \notin PhaseAts \union Resting
      /\ UNCHANGED <<job, clock, rows, task, worker, free, detached, service, loop>>
      /\ UNCHANGED <<clock, rows, worker, free, detached, service, loop>>
      /\ UNCHANGED <<job, clock, task>>
  BY DEF Checkpoint, Runs, PhaseAts, Resting, LaneEnds
<1>3. MainMove(j)
  <2>1. CASE clock[j] = "hard" /\ Fails(j, Main, "DEADLINE_EXCEEDED")
    BY <1>1, <1>2, <2>1, HardFailure DEF MainMove
  <2>2. CASE At(j, Main, "store")
    <3>1. OneLane(j, Main) /\ lane'[j][Main].at = "store"
      BY <1>1, <2>2, LaneAt DEF LaneAts
    <3>2. QED
      BY <3>1 DEF MainMove
  <2>3. QED
    BY <2>1, <2>2 DEF Checkpoint, GuardThen
<1>4. StageMoves(j) /\ StageOf(j)'
  BY <1>1, <1>2, StageStays DEF StageOf
<1>5. QED
  BY <1>2, <1>3, <1>4, MainMoves

LEMMA StoreKeeps ==
  ASSUME EngineInv, NEW j \in Jobs, Store(j)
  PROVE  EngineInv'
<1>1. TypeOK /\ StageOf(j) /\ Main \in Lanes
  BY LanesAre DEF EngineInv, JobInv
<1>2. /\ loop = <<j, Main>> /\ lane[j][Main].at = "store"
      /\ lane[j][Main].at \notin PhaseAts \union Resting
      /\ UNCHANGED <<clock, rows, worker, free, detached, service, loop>>
      /\ UNCHANGED <<job, clock, task>>
  BY DEF Store, Runs, PhaseAts, Resting, LaneEnds
<1>3. MainMove(j)
  <2>1. CASE Fails(j, Main, "FENCED")
    BY <1>1, <1>2, <2>1, OtherFailure DEF MainMove, Codes
  <2>2. CASE At(j, Main, "stored")
    <3>1. OneLane(j, Main) /\ lane'[j][Main].at = "stored"
      BY <1>1, <2>2, LaneAt DEF LaneAts
    <3>2. QED
      BY <3>1 DEF MainMove
  <2>3. QED
    BY <2>1, <2>2 DEF Store
<1>4. StageMoves(j) /\ StageOf(j)'
  BY <1>1, <1>2, StageStays DEF StageOf
<1>5. QED
  BY <1>2, <1>3, <1>4, MainMoves

\* What Moves and Begin do to the records of a job that runs.
LEMMA Advances ==
  ASSUME EngineInv, NEW j \in Jobs, loop = <<j, Main>>,
         lane[j][Main].at \notin PhaseAts \union Resting,
         NEW stage \in Running, Moves(j, stage),
         NEW phase \in {"frame", "fork", "rollout", "critique", "synthesis"},
         task' = [task EXCEPT ![j].at = phase]
  PROVE  /\ StageMoves(j) /\ task'[j].at = phase
         /\ job'[j].state = IF clock[j] = "hard" THEN job[j].state ELSE stage
<1>1. TypeOK /\ Main \in Lanes
  BY LanesAre DEF EngineInv
<1>2. ~job[j].asked /\ job[j].state \in Running
  BY <1>1, InRun DEF Resumed
<1>3. /\ task' \in [Jobs -> Task] /\ task'[j].at = phase /\ task'[j].cancel = task[j].cancel
      /\ \A i \in Jobs : i # j => task'[i] = task[i]
  <2>1. task[j] \in Task /\ [task[j] EXCEPT !.at = phase] \in Task
    BY <1>1, Typed DEF Task
  <2>2. task' = [task EXCEPT ![j] = [task[j] EXCEPT !.at = phase]]
    BY <1>1, Typed
  <2>3. QED
    BY <1>1, <2>1, <2>2, Typed DEF Task
<1>4. /\ job' \in [Jobs -> Row] /\ \A i \in Jobs : i # j => job'[i] = job[i]
      /\ job'[j].state = IF clock[j] = "hard" THEN job[j].state ELSE stage
      /\ job'[j].asked = job[j].asked /\ job'[j].error = job[j].error
      /\ job'[j].runs = job[j].runs /\ job'[j].partial = job[j].partial
  <2>1. job[j] \in Row /\ [job[j] EXCEPT !.state = stage] \in Row
    BY <1>1, Typed DEF Row
  <2>2. job' = IF clock[j] = "hard" THEN job
               ELSE [job EXCEPT ![j] = [job[j] EXCEPT !.state = stage]]
    BY <1>1, <1>2, Typed DEF Moves, Accepts
  <2>3. QED
    BY <1>1, <2>1, <2>2, Typed DEF Row
<1>5. QED
  BY <1>2, <1>3, <1>4 DEF StageMoves

\* The next phase begins.
LEMMA BeginsPhase ==
  ASSUME TypeOK, NEW j \in Jobs, NEW phase \in {"fork", "critique", "synthesis"}, Begin(j, phase)
  PROVE  /\ task' = [task EXCEPT ![j].at = phase]
         /\ lane'[j][Main].at = "guard"
         /\ task'[j].at = phase => MainMove(j)
<1>1. OneLane(j, Main) /\ lane'[j][Main].at = "guard"
  BY LaneLeaves, LanesAre DEF Begin, LaneAts, PhaseAts
<1>2. QED
  BY <1>1 DEF Begin, MainMove

\* A partial result is prepared.
LEMMA TurnsPartial ==
  ASSUME TypeOK, NEW j \in Jobs, clock[j] # "early",
         Leaves(j, Main, "partial") \/ At(j, Main, "partial")
  PROVE  MainMove(j) /\ lane'[j][Main].at = "partial"
<1>1. OneLane(j, Main) /\ lane'[j][Main].at = "partial"
  BY LaneLeaves, LaneAt, LanesAre DEF LaneAts
<1>2. QED
  BY <1>1 DEF MainMove

LEMMA AfterFrameKeeps ==
  ASSUME EngineInv, NEW j \in Jobs, AfterFrame(j)
  PROVE  EngineInv'
<1>1. TypeOK /\ StageOf(j)
  BY DEF EngineInv, JobInv
<1>2. /\ loop = <<j, Main>> /\ lane[j][Main].at = "stored" /\ task[j].at = "frame"
      /\ lane[j][Main].at \notin PhaseAts \union Resting
      /\ UNCHANGED <<clock, rows, worker, free, detached, service, loop>>
      /\ Moves(j, "rolling_out") /\ "rolling_out" \in Running /\ "framing" \in Running
  BY DEF AfterFrame, Stored, Runs, PhaseAts, Resting, LaneEnds, Running
<1>3. job[j].state = "framing"
  BY <1>1, <1>2 DEF StageOf
<1>4. CASE clock[j] # "early" /\ Leaves(j, Main, "partial") /\ UNCHANGED task
  <2>1. task' = [task EXCEPT ![j].at = "frame"]
    BY <1>1, <1>2, <1>4, Typed DEF Task
  <2>2. /\ StageMoves(j) /\ task'[j].at = "frame"
        /\ job'[j].state = IF clock[j] = "hard" THEN job[j].state ELSE "rolling_out"
    BY <1>2, <2>1, Advances
  <2>3. MainMove(j) /\ lane'[j][Main].at = "partial"
    BY <1>1, <1>4, TurnsPartial
  <2>4. StageOf(j)'
    BY <1>3, <2>2, <2>3 DEF StageOf
  <2>5. QED
    BY <1>2, <2>2, <2>3, <2>4, MainMoves
<1>5. CASE clock[j] = "early" /\ Begin(j, "fork")
  <2>1. task' = [task EXCEPT ![j].at = "fork"] /\ (task'[j].at = "fork" => MainMove(j))
    BY <1>1, <1>5, BeginsPhase
  <2>2. /\ StageMoves(j) /\ task'[j].at = "fork" /\ job'[j].state = "rolling_out"
    BY <1>2, <1>5, <2>1, Advances
  <2>3. StageOf(j)'
    BY <2>2 DEF StageOf
  <2>4. QED
    BY <1>2, <2>1, <2>2, <2>3, MainMoves
<1>6. QED
  BY <1>4, <1>5 DEF AfterFrame

LEMMA AfterCritiqueKeeps ==
  ASSUME EngineInv, NEW j \in Jobs, AfterCritique(j)
  PROVE  EngineInv'
<1>1. TypeOK /\ StageOf(j)
  BY DEF EngineInv, JobInv
<1>2. /\ loop = <<j, Main>> /\ lane[j][Main].at = "stored" /\ task[j].at = "critique"
      /\ lane[j][Main].at \notin PhaseAts \union Resting
      /\ UNCHANGED <<clock, rows, worker, free, detached, service, loop>>
      /\ Moves(j, "synthesizing") /\ "synthesizing" \in Running /\ Begin(j, "synthesis")
  BY DEF AfterCritique, Stored, Runs, PhaseAts, Resting, LaneEnds, Running
<1>3. task' = [task EXCEPT ![j].at = "synthesis"] /\ (task'[j].at = "synthesis" => MainMove(j))
  BY <1>1, <1>2, BeginsPhase
<1>4. /\ StageMoves(j) /\ task'[j].at = "synthesis"
      /\ job'[j].state = IF clock[j] = "hard" THEN job[j].state ELSE "synthesizing"
  BY <1>2, <1>3, Advances
<1>5. StageOf(j)'
  BY <1>2, <1>4 DEF StageOf, StageMoves
<1>6. QED
  BY <1>2, <1>3, <1>4, <1>5, MainMoves

LEMMA JudgeRolloutsKeeps ==
  ASSUME EngineInv, NEW j \in Jobs, JudgeRollouts(j)
  PROVE  EngineInv'
<1>1. TypeOK /\ StageOf(j) /\ ReasonsOf(j) /\ Main \in Lanes /\ Branches \subseteq Lanes
  BY LanesAre DEF EngineInv, JobInv
<1>2. /\ loop = <<j, Main>> /\ lane[j][Main].at = "store" /\ task[j].at = "rollout"
      /\ lane[j][Main].at \notin PhaseAts \union Resting
      /\ UNCHANGED <<clock, rows, worker, free, detached, service, loop>>
      /\ UNCHANGED <<clock>> /\ "critiquing" \in Running
  BY DEF JudgeRollouts, Runs, PhaseAts, Resting, LaneEnds, Running
<1>3. ASSUME UNCHANGED <<job, task>>, MainMove(j)
      PROVE  EngineInv'
  <2>1. StageMoves(j) /\ StageOf(j)'
    BY <1>2, <1>3, StageStays
  <2>2. QED
    BY <1>2, <1>3, <2>1, MainMoves
<1>4. CASE BranchesAt(j, "skipped") # {} /\ At(j, Main, "partial") /\ UNCHANGED <<job, task>>
  <2>1. clock[j] # "early"
    BY <1>1, <1>4 DEF BranchesAt, ReasonsOf
  <2>2. QED
    BY <1>1, <1>3, <1>4, <2>1, TurnsPartial
<1>5. CASE Fails(j, Main, "OTHER") /\ UNCHANGED <<job, task>>
  <2>1. MainMove(j)
    BY <1>1, <1>5, OtherFailure DEF MainMove, Codes
  <2>2. QED
    BY <1>3, <1>5, <2>1
<1>6. CASE Moves(j, "critiquing") /\ Begin(j, "critique")
  <2>1. task' = [task EXCEPT ![j].at = "critique"] /\ (task'[j].at = "critique" => MainMove(j))
    BY <1>1, <1>6, BeginsPhase
  <2>2. /\ StageMoves(j) /\ task'[j].at = "critique"
        /\ job'[j].state = IF clock[j] = "hard" THEN job[j].state ELSE "critiquing"
    BY <1>2, <1>6, <2>1, Advances
  <2>3. StageOf(j)'
    BY <1>1, <1>2, <2>2 DEF StageOf
  <2>4. QED
    BY <1>2, <2>1, <2>2, <2>3, MainMoves
<1>7. QED
  BY <1>4, <1>5, <1>6 DEF JudgeRollouts

LEMMA AfterSynthesisKeeps ==
  ASSUME EngineInv, NEW j \in Jobs, AfterSynthesis(j)
  PROVE  EngineInv'
<1>1. TypeOK /\ StageOf(j) /\ ReasonsOf(j) /\ Main \in Lanes /\ Branches \subseteq Lanes
  BY LanesAre DEF EngineInv, JobInv
<1>2. /\ loop = <<j, Main>> /\ lane[j][Main].at = "stored" /\ task[j].at = "synthesis"
      /\ lane[j][Main].at \notin PhaseAts \union Resting
      /\ UNCHANGED <<clock, rows, worker, free, detached, service, loop>>
      /\ UNCHANGED <<job, clock, task>>
  BY DEF AfterSynthesis, Stored, Runs, PhaseAts, Resting, LaneEnds
<1>3. MainMove(j)
  <2>1. CASE clock[j] = "hard" /\ Fails(j, Main, "DEADLINE_EXCEEDED")
    BY <1>1, <1>2, <2>1, HardFailure DEF MainMove
  <2>2. CASE clock[j] # "hard" /\ AllAdmitted(j) /\ At(j, Main, "settle")
    <3>1. OneLane(j, Main) /\ lane'[j][Main].at = "settle"
      BY <1>1, <2>2, LaneAt DEF LaneAts
    <3>2. job'[j].state = "synthesizing"
      BY <1>1, <1>2, <2>2 DEF StageOf
    <3>3. \A b \in Branches : lane[j][b].at # "skipped"
      BY <2>2 DEF AllAdmitted, BranchesAt
    <3>4. QED
      BY <3>1, <3>2, <3>3 DEF MainMove
  <2>3. CASE ~AllAdmitted(j) /\ At(j, Main, "partial")
    <3>1. clock[j] # "early"
      BY <1>1, <2>3 DEF AllAdmitted, BranchesAt, ReasonsOf
    <3>2. QED
      BY <1>1, <2>3, <3>1, TurnsPartial
  <2>4. QED
    BY <2>1, <2>2, <2>3 DEF AfterSynthesis, GuardThen
<1>4. StageMoves(j) /\ StageOf(j)'
  BY <1>2, StageStays
<1>5. QED
  BY <1>2, <1>3, <1>4, MainMoves

LEMMA SalvageKeeps ==
  ASSUME EngineInv, NEW j \in Jobs, Salvage(j)
  PROVE  EngineInv'
<1> DEFINE why == lane[j][Main].why
<1>1. TypeOK /\ StageOf(j) /\ ReasonsOf(j) /\ Main \in Lanes
  BY LanesAre DEF EngineInv, JobInv
<1>2. /\ loop = <<j, Main>> /\ lane[j][Main].at = "failed" /\ Salvaged(j)
      /\ lane[j][Main].at \notin PhaseAts \union Resting
      /\ UNCHANGED <<clock, rows, worker, free, detached, service, loop>>
      /\ UNCHANGED <<job, clock, task>>
  BY DEF Salvage, Runs, PhaseAts, Resting, LaneEnds
<1>3. CASE why \in {"SOFT_DEADLINE_REACHED", "DEADLINE_INSUFFICIENT"}
  <2>1. Leaves(j, Main, "partial")
    BY <1>3 DEF Salvage
  <2>2. clock[j] # "early"
    <3>1. CASE why = "SOFT_DEADLINE_REACHED"
      BY <1>1, <1>2, <3>1 DEF ReasonsOf
    <3>2. CASE why = "DEADLINE_INSUFFICIENT"
      BY <1>2, <3>2 DEF Salvaged
    <3>3. QED
      BY <1>3, <3>1, <3>2
  <2>3. MainMove(j) /\ lane'[j][Main].at = "partial"
    BY <1>1, <2>1, <2>2, TurnsPartial
  <2>4. StageMoves(j) /\ StageOf(j)'
    BY <1>2, <2>3, StageStays
  <2>5. QED
    BY <1>2, <2>3, <2>4, MainMoves
<1>4. CASE why \notin {"SOFT_DEADLINE_REACHED", "DEADLINE_INSUFFICIENT"}
  <2>1. Leaves(j, Main, "ok")
    BY <1>4 DEF Salvage
  <2>2. OneLane(j, Main) /\ lane'[j][Main].at = "ok"
    BY <1>1, <2>1, LaneLeaves DEF LaneAts
  <2>3. MainMove(j)
    BY <2>2 DEF MainMove
  <2>4. task[j].at # "frame"
    BY <1>2, <1>4 DEF Salvaged
  <2>5. StageMoves(j) /\ StageOf(j)'
    BY <1>2, <2>4, StageStays
  <2>6. QED
    BY <1>2, <2>3, <2>5, MainMoves
<1>5. QED
  BY <1>3, <1>4

LEMMA StorePartialKeeps ==
  ASSUME EngineInv, NEW j \in Jobs, StorePartial(j)
  PROVE  EngineInv'
<1>1. TypeOK /\ ReasonsOf(j) /\ Main \in Lanes
  BY LanesAre DEF EngineInv, JobInv
<1>2. /\ loop = <<j, Main>> /\ lane[j][Main].at = "partial"
      /\ lane[j][Main].at \notin PhaseAts \union Resting
      /\ UNCHANGED <<clock, rows, worker, free, detached, service, loop>>
      /\ UNCHANGED <<job, clock, task>>
  BY DEF StorePartial, Runs, PhaseAts, Resting, LaneEnds
<1>3. /\ MainMove(j)
      /\ \/ lane'[j][Main].at = "settle_partial"
         \/ lane'[j][Main].at = "failed" /\ lane'[j][Main].why # "SOFT_DEADLINE_REACHED"
  <2>1. CASE Fails(j, Main, "FENCED")
    <3>1. "FENCED" \in Codes \ {"SOFT_DEADLINE_REACHED", "DEADLINE_EXCEEDED"}
      BY DEF Codes
    <3>2. OneLane(j, Main) /\ lane'[j][Main].at = "failed" /\ lane'[j][Main].why = "FENCED"
      BY <1>1, <2>1, <3>1, LaneFails
    <3>3. QED
      BY <1>2, <3>1, <3>2 DEF MainMove, FailsFor
  <2>2. CASE At(j, Main, "settle_partial")
    <3>1. OneLane(j, Main) /\ lane'[j][Main].at = "settle_partial"
      BY <1>1, <2>2, LaneAt DEF LaneAts
    <3>2. QED
      BY <1>1, <1>2, <3>1 DEF MainMove, ReasonsOf
  <2>3. QED
    BY <2>1, <2>2 DEF StorePartial
<1>4. StageMoves(j) /\ StageOf(j)'
  BY <1>2, <1>3, StageStays
<1>5. QED
  BY <1>2, <1>3, <1>4, MainMoves


-----------------------------------------------------------------------------
(* The end of a task *)

\* What the last write of a task may make of the durable row.
LastWrite(j) ==
  /\ job' \in [Jobs -> Row] /\ \A i \in Jobs : i # j => job'[i] = job[i]
  /\ job'[j].state \in Running \union Done
  /\ job'[j].asked = job[j].asked /\ job'[j].runs = job[j].runs
  /\ job'[j].error # "SOFT_DEADLINE_REACHED"
  /\ job'[j].error = "DEADLINE_EXCEEDED" => clock[j] = "hard"
  /\ job'[j].partial => clock[j] # "early"
  /\ job[j].asked /\ job'[j].state \in Done => job'[j].state = "cancelled"
  /\ job'[j].state = "cancelled" => service = "up"
  /\ job'[j].state = "succeeded" /\ ~job'[j].partial =>
       \A b \in Branches : lane[j][b].at # "skipped"
  /\ service = "up" /\ job'[j].state \in Running =>
       job'[j].state = "synthesizing" /\ clock[j] = "hard"

\* Main is in use: the job runs and no branch does.
LEMMA MainInUse ==
  ASSUME EngineInv, NEW j \in Jobs, lane[j][Main].at # "idle"
  PROVE  /\ Live(j) /\ job[j].state \in Running /\ service # "down"
         /\ \A b \in Branches : lane[j][b].at \in Resting
<1>1. TypeOK /\ StageOf(j) /\ LanesOf(j) /\ DownOf(j) /\ Main \in Lanes
  BY LanesAre DEF EngineInv, JobInv
<1>2. Live(j) /\ task[j].at # "created"
  BY <1>1 DEF LanesOf
<1>3. task[j].at \in {"frame", "fork", "rollout", "critique", "synthesis"}
  BY <1>1, <1>2, Typed DEF Live, Task
<1>4. service # "down"
  BY <1>1 DEF DownOf, IdleLane
<1>5. QED
  BY <1>1, <1>2, <1>3, <1>4 DEF StageOf, LanesOf, Running

LEMMA TaskEnds ==
  ASSUME EngineInv, NEW j \in Jobs,
         lane[j][Main].at \notin PhaseAts \union {"idle"},
         UNCHANGED <<clock, rows, worker, free, detached, service>>,
         LastWrite(j), TaskOver(j)
  PROVE  EngineInv'
<1>1. /\ TypeOK /\ PermitInv /\ LanesOf(j) /\ ReasonsOf(j)
      /\ RowsOf(j) /\ OutcomeOf(j) /\ Main \in Lanes /\ Branches \subseteq Lanes
  BY LanesAre DEF EngineInv, JobInv
<1>2. /\ Live(j) /\ job[j].state \in Running /\ service # "down"
      /\ \A b \in Branches : lane[j][b].at \in Resting
  BY MainInUse
<1>3. OneLane(j, Main) /\ lane'[j][Main].at = "idle"
  <2>1. At(j, Main, "idle") /\ "idle" \in LaneAts
    BY DEF TaskOver, At, LaneAts, Resting
  <2>2. QED
    BY <1>1, <2>1, LaneAt
<1>4. /\ task' \in [Jobs -> Task] /\ task'[j] = [at |-> "done", cancel |-> FALSE]
      /\ \A i \in Jobs : i # j => task'[i] = task[i]
      /\ loop' = Nobody
  BY <1>1, Typed DEF TaskOver, Task
<1>5. \A b \in Branches : lane'[j][b] = lane[j][b] /\ lane[j][b].at \in Resting /\ b # Main
  BY <1>1, <1>2, <1>3, LanesAre DEF OneLane
<1>6. TypeOK'
  BY <1>1, <1>3, <1>4, Typed, TypedNext DEF LastWrite, OneLane
<1>7. PermitInv'
  BY <1>1, <1>3, PermitsKept DEF Holding, PhaseAts
<1>8. \A i \in Jobs, l \in Lanes : loop' # <<i, l>>
  BY <1>4, EngineAssumption DEF Lanes
<1>9. Apart(j)
  BY <1>1, <1>3, <1>4, <1>8 DEF Apart, LastWrite, OneLane
<1>10. StageOf(j)'
  BY <1>4 DEF StageOf, LastWrite, Running, Done
<1>11. AskedOf(j)'
  BY <1>4, <1>8 DEF AskedOf, LastWrite, Live, Running, Done
<1>12. LanesOf(j)'
  BY <1>3, <1>4, <1>5 DEF LanesOf
<1>13. ReasonsOf(j)'
  <2>1. \A m \in Lanes : /\ lane'[j][m].at \in Resting
                         /\ m # Main => lane'[j][m] = lane[j][m]
    BY <1>3, <1>5, LanesAre DEF Resting
  <2>2. lane'[j][Main].at = "idle" /\ clock' = clock
    BY <1>3
  <2>3. QED
    BY <1>1, <2>1, <2>2 DEF ReasonsOf, Resting, LaneEnds
<1>14. \A m \in Lanes : rows[j][m] = "open" /\ clock[j] # "hard" => service # "up"
  <2>1. \A m \in Lanes : lane[j][m].at \notin {"calling", "answered"}
    BY <1>5, LanesAre DEF PhaseAts, Resting, LaneEnds
  <2>2. QED
    BY <1>1, <1>2, <2>1 DEF RowsOf
<1>15. RowsOf(j)'
  BY <1>14 DEF RowsOf, LastWrite, Running, Done
<1>16. OutcomeOf(j)'
  BY <1>1, <1>4, <1>5 DEF OutcomeOf, LastWrite, Live, SettlementLost, Running, Done
<1>17. DownOf(j)'
  BY <1>2 DEF DownOf
<1>18. JobInv(j)'
  BY <1>10, <1>11, <1>12, <1>13, <1>15, <1>16, <1>17 DEF JobInv
<1>19. QED
  BY <1>2, <1>6, <1>7, <1>9, <1>18, OneJobMoves

\* What Settled makes of the records.
LEMMA Settles ==
  ASSUME TypeOK, NEW j \in Jobs, NEW state \in Done, NEW error \in Errors,
         Settled(j, state, error)
  PROVE  /\ job' \in [Jobs -> Row] /\ \A i \in Jobs : i # j => job'[i] = job[i]
         /\ job'[j].state = state /\ job'[j].error = error
         /\ job'[j].asked = job[j].asked /\ job'[j].runs = job[j].runs
         /\ job'[j].partial = job[j].partial
<1>1. job[j] \in Row /\ [job[j] EXCEPT !.state = state, !.error = error] \in Row
  BY Typed DEF Row
<1>2. job' = [job EXCEPT ![j] = [job[j] EXCEPT !.state = state, !.error = error]]
  BY Typed DEF Settled
<1>3. QED
  BY <1>1, <1>2, Typed DEF Row

LEMMA SettlePartialKeeps ==
  ASSUME EngineInv, NEW j \in Jobs, SettlePartial(j)
  PROVE  EngineInv'
<1>1. TypeOK /\ ReasonsOf(j) /\ StageOf(j) /\ OutcomeOf(j) /\ Main \in Lanes
  BY LanesAre DEF EngineInv, JobInv
<1>2. /\ loop = <<j, Main>> /\ lane[j][Main].at = "settle_partial"
      /\ lane[j][Main].at \notin PhaseAts \union Resting
      /\ lane[j][Main].at \notin PhaseAts \union {"idle"}
      /\ UNCHANGED <<clock, rows, worker, free, detached, service>>
  BY DEF SettlePartial, Runs, PhaseAts, Resting, LaneEnds
<1>3. clock[j] # "early"
  BY <1>1, <1>2 DEF ReasonsOf
<1>4. CASE /\ Accepts(j) /\ TaskOver(j)
           /\ job' = [job EXCEPT ![j].state = "succeeded", ![j].partial = TRUE]
  <2>1. /\ job' \in [Jobs -> Row] /\ \A i \in Jobs : i # j => job'[i] = job[i]
        /\ job'[j].state = "succeeded" /\ job'[j].error = job[j].error
        /\ job'[j].asked = job[j].asked /\ job'[j].runs = job[j].runs
        /\ job'[j].partial = TRUE
    <3>1. /\ job[j] \in Row
          /\ [job[j] EXCEPT !.state = "succeeded", !.partial = TRUE] \in Row
      <4>1. job[j] \in Row /\ "succeeded" \in Done /\ TRUE \in BOOLEAN
        BY <1>1, Typed DEF Done
      <4>2. QED
        BY <4>1, Zenon DEF Row
    <3>2. job' = [job EXCEPT ![j] = [job[j] EXCEPT !.state = "succeeded", !.partial = TRUE]]
      BY <1>1, <1>4, Typed
    <3>3. QED
      BY <1>1, <3>1, <3>2, Typed DEF Row
  <2>2. LastWrite(j)
    BY <1>1, <1>3, <1>4, <2>1 DEF LastWrite, OutcomeOf, Accepts, Running, Done
  <2>3. QED
    BY <1>2, <1>4, <2>2, TaskEnds
<1>5. CASE Fails(j, Main, "STALE_ATTEMPT") /\ UNCHANGED <<job, task, loop>>
  <2>1. "STALE_ATTEMPT" \in Codes \ {"SOFT_DEADLINE_REACHED", "DEADLINE_EXCEEDED"}
    BY DEF Codes
  <2>2. OneLane(j, Main) /\ lane'[j][Main].at = "failed" /\ lane'[j][Main].why = "STALE_ATTEMPT"
    BY <1>1, <1>5, <2>1, LaneFails
  <2>3. MainMove(j)
    BY <2>1, <2>2 DEF MainMove, FailsFor
  <2>4. StageMoves(j) /\ StageOf(j)'
    BY <1>2, <1>5, <2>2, StageStays
  <2>5. QED
    BY <1>2, <1>5, <2>3, <2>4, MainMoves
<1>6. QED
  BY <1>4, <1>5 DEF SettlePartial

LEMMA SettleSuccessKeeps ==
  ASSUME EngineInv, NEW j \in Jobs, SettleSuccess(j)
  PROVE  EngineInv'
<1>1. TypeOK /\ ReasonsOf(j) /\ OutcomeOf(j) /\ Main \in Lanes
  BY LanesAre DEF EngineInv, JobInv
<1>2. /\ loop = <<j, Main>> /\ lane[j][Main].at = "settle"
      /\ lane[j][Main].at \notin PhaseAts \union Resting
      /\ lane[j][Main].at \notin PhaseAts \union {"idle"}
      /\ UNCHANGED <<clock, rows, worker, free, detached, service>> /\ TaskOver(j)
  BY DEF SettleSuccess, Runs, PhaseAts, Resting, LaneEnds
<1>3. /\ job[j].state = "synthesizing" /\ \A b \in Branches : lane[j][b].at # "skipped"
  BY <1>1, <1>2 DEF ReasonsOf
<1>4. ~job[j].asked
  BY <1>1, <1>2, InRun DEF Resumed
<1>5. LastWrite(j)
  <2>1. CASE Accepts(j)
    <3>1. job' = [job EXCEPT ![j] = [job[j] EXCEPT !.state = "succeeded"]]
      BY <1>1, <2>1, Typed DEF SettleSuccess, Moves
    <3>2. job[j] \in Row /\ [job[j] EXCEPT !.state = "succeeded"] \in Row
      BY <1>1, Typed DEF Row, Done
    <3>3. /\ job' \in [Jobs -> Row] /\ \A i \in Jobs : i # j => job'[i] = job[i]
          /\ job'[j].state = "succeeded" /\ job'[j].error = job[j].error
          /\ job'[j].asked = job[j].asked /\ job'[j].runs = job[j].runs
          /\ job'[j].partial = job[j].partial
      BY <1>1, <3>1, <3>2, Typed DEF Row
    <3>4. QED
      BY <1>1, <1>3, <1>4, <3>3 DEF LastWrite, OutcomeOf, Running, Done
  <2>2. CASE ~Accepts(j)
    <3>1. job' = job /\ clock[j] = "hard"
      BY <1>3, <1>4, <2>2 DEF SettleSuccess, Moves, Accepts, Running
    <3>2. QED
      BY <1>1, <1>3, <1>4, <3>1, Typed DEF LastWrite, OutcomeOf, Running, Done
  <2>3. QED
    BY <2>1, <2>2
<1>6. QED
  BY <1>2, <1>5, TaskEnds

LEMMA RunFailsKeeps ==
  ASSUME EngineInv, NEW j \in Jobs, RunFails(j)
  PROVE  EngineInv'
<1> DEFINE why == lane[j][Main].why
<1>1. TypeOK /\ ReasonsOf(j) /\ OutcomeOf(j) /\ Main \in Lanes
  BY LanesAre DEF EngineInv, JobInv
<1>2. /\ loop = <<j, Main>> /\ lane[j][Main].at = "failed"
      /\ ~Salvaged(j) \/ (task[j].at = "fork" /\ why = "INVALID")
      /\ lane[j][Main].at \notin PhaseAts \union Resting
      /\ lane[j][Main].at \notin PhaseAts \union {"idle"}
      /\ UNCHANGED <<clock, rows, worker, free, detached, service>> /\ TaskOver(j)
  BY DEF RunFails, Runs, PhaseAts, Resting, LaneEnds
<1>3. ~job[j].asked /\ job[j].state \in Running
  BY <1>1, <1>2, InRun DEF Resumed
<1>4. /\ why \in Codes /\ why # "SOFT_DEADLINE_REACHED"
      /\ why = "DEADLINE_EXCEEDED" => clock[j] = "hard"
  BY <1>1, <1>2 DEF ReasonsOf, Salvaged
<1> DEFINE error == IF why = "FENCED" THEN "INTERNAL_ERROR" ELSE why
<1>5. error \in Errors
  BY <1>4 DEF Errors
<1>6. Settled(j, "failed", error) /\ "failed" \in Done
  BY <1>3 DEF RunFails, Done
<1>7. error # "SOFT_DEADLINE_REACHED" /\ (error = "DEADLINE_EXCEEDED" => clock[j] = "hard")
  BY <1>4
<1> HIDE DEF error
<1>8. /\ job' \in [Jobs -> Row] /\ \A i \in Jobs : i # j => job'[i] = job[i]
      /\ job'[j].state = "failed" /\ job'[j].error = error
      /\ job'[j].asked = job[j].asked /\ job'[j].runs = job[j].runs
      /\ job'[j].partial = job[j].partial
  BY <1>1, <1>5, <1>6, Settles
<1>9. LastWrite(j)
  BY <1>1, <1>3, <1>7, <1>8 DEF LastWrite, OutcomeOf, Running, Done
<1>10. QED
  BY <1>2, <1>9, TaskEnds

LEMMA RunCancelledKeeps ==
  ASSUME EngineInv, NEW j \in Jobs, RunCancelled(j)
  PROVE  EngineInv'
<1>1. /\ TypeOK /\ OutcomeOf(j) /\ Main \in Lanes
      /\ service \in {"up", "stopping", "down"}
  BY LanesAre, Typed DEF EngineInv, JobInv
<1>2. /\ lane[j][Main].at = "cancelled"
      /\ lane[j][Main].at \notin PhaseAts \union {"idle"}
      /\ UNCHANGED <<clock, rows, worker, free, detached, service>> /\ TaskOver(j)
  BY DEF RunCancelled, Runs, PhaseAts
<1>3. job[j].state \in Running /\ service # "down"
  BY <1>2, MainInUse
<1>4. LastWrite(j)
  <2>1. CASE LeftToRecovery /\ UNCHANGED job
    BY <1>1, <1>3, <2>1, Typed DEF LastWrite, OutcomeOf, LeftToRecovery, Running, Done
  <2>2. CASE ~LeftToRecovery /\ job[j].asked /\ Settled(j, "cancelled", "CANCELLED")
    <3>1. "cancelled" \in Done /\ "CANCELLED" \in Errors
      BY DEF Done, Errors
    <3>2. /\ job' \in [Jobs -> Row] /\ \A i \in Jobs : i # j => job'[i] = job[i]
          /\ job'[j].state = "cancelled" /\ job'[j].error = "CANCELLED"
          /\ job'[j].asked = job[j].asked /\ job'[j].runs = job[j].runs
          /\ job'[j].partial = job[j].partial
      BY <1>1, <2>2, <3>1, Settles
    <3>3. service = "up"
      BY <1>1, <1>3, <2>2 DEF LeftToRecovery
    <3>4. QED
      BY <1>1, <3>2, <3>3 DEF LastWrite, OutcomeOf, Running, Done
  <2>3. QED
    BY <2>1, <2>2 DEF RunCancelled
<1>5. QED
  BY <1>2, <1>4, TaskEnds


-----------------------------------------------------------------------------
(* The start of a task and of its branches, and their joining *)

LEMMA StartsKeeps ==
  ASSUME EngineInv, NEW j \in Jobs, Starts(j)
  PROVE  EngineInv'
<1>1. /\ TypeOK /\ PermitInv /\ StageOf(j) /\ AskedOf(j) /\ LanesOf(j) /\ ReasonsOf(j)
      /\ RowsOf(j) /\ OutcomeOf(j) /\ DownOf(j) /\ Main \in Lanes /\ Branches \subseteq Lanes
  BY LanesAre DEF EngineInv, JobInv
<1>2. /\ loop = Nobody /\ task[j].at = "created"
      /\ UNCHANGED <<job, clock, rows, worker, free, detached, service>>
  BY DEF Starts
<1>3. /\ lane[j][Main].at = "idle" /\ \A b \in Branches : lane[j][b].at \in Resting
      /\ service # "down" /\ job[j].state = "framing" /\ task[j] \in Task
  BY <1>1, <1>2, Typed DEF LanesOf, DownOf, NoTask, StageOf
<1>4. \A l \in Lanes : lane[j][l].at \in Resting
  BY <1>3, LanesAre DEF Resting
<1>5. \A l \in Lanes : rows[j][l] = "open" /\ clock[j] # "hard" => service # "up"
  BY <1>1, <1>2, <1>4 DEF RowsOf, Resting, LaneEnds
<1>6. CASE /\ task[j].cancel /\ UNCHANGED <<lane, loop>>
           /\ task' = [task EXCEPT ![j] = [at |-> "cancelled", cancel |-> FALSE]]
  <2>1. /\ task' \in [Jobs -> Task] /\ task'[j] = [at |-> "cancelled", cancel |-> FALSE]
        /\ \A i \in Jobs : i # j => task'[i] = task[i]
    BY <1>1, <1>6, Typed DEF Task
  <2>2. TypeOK' /\ PermitInv' /\ Apart(j)
    BY <1>1, <1>2, <1>6, <2>1, Typed, TypedNext, NoLaneMoves DEF Apart
  <2>3. StageOf(j)' /\ AskedOf(j)' /\ DownOf(j)'
    BY <1>1, <1>2, <1>3, <1>6, <2>1 DEF StageOf, AskedOf, DownOf, Live, Running
  <2>4. LanesOf(j)'
    BY <1>3, <1>6, <2>1 DEF LanesOf
  <2>5. ReasonsOf(j)'
    BY <1>1, <1>2, <1>4, <1>6 DEF ReasonsOf, Resting, LaneEnds
  <2>6. RowsOf(j)'
    BY <1>1, <1>2, <1>6 DEF RowsOf
  <2>7. OutcomeOf(j)'
    BY <1>1, <1>2, <1>6, <2>1 DEF OutcomeOf
  <2>8. QED
    BY <1>2, <1>3, <2>2, <2>3, <2>4, <2>5, <2>6, <2>7, OneJobMoves DEF JobInv
<1>7. CASE /\ ~task[j].cancel /\ task' = [task EXCEPT ![j].at = "frame"]
           /\ At(j, Main, "guard") /\ loop' = <<j, Main>>
  <2>1. OneLane(j, Main) /\ lane'[j][Main].at = "guard"
    BY <1>1, <1>7, LaneAt DEF LaneAts, PhaseAts
  <2>2. /\ task' \in [Jobs -> Task] /\ task'[j].at = "frame" /\ task'[j].cancel = FALSE
        /\ \A i \in Jobs : i # j => task'[i] = task[i]
    <3>1. [task[j] EXCEPT !.at = "frame"] \in Task
      BY <1>3 DEF Task
    <3>2. task' = [task EXCEPT ![j] = [task[j] EXCEPT !.at = "frame"]]
      BY <1>1, <1>7, Typed
    <3>3. QED
      BY <1>1, <1>3, <1>7, <3>1, <3>2, Typed DEF Task
  <2>3. \A l \in Lanes : l # Main => lane'[j][l] = lane[j][l]
    BY <2>1 DEF OneLane
  <2>4. TypeOK'
    <3>1. loop' \in (Jobs \X Lanes) \union {Nobody}
      BY <1>1, <1>7
    <3>2. QED
      BY <1>1, <1>2, <2>1, <2>2, <3>1, Typed, TypedNext DEF OneLane
  <2>5. PermitInv'
    BY <1>1, <1>2, <1>3, <2>1, PermitsKept DEF Holding
  <2>6. Apart(j)
    BY <1>1, <1>2, <1>7, <2>1, <2>2 DEF Apart, OneLane
  <2>7. StageOf(j)' /\ DownOf(j)'
    BY <1>2, <1>3, <2>2 DEF StageOf, DownOf
  <2>8. AskedOf(j)'
    BY <1>1, <1>2, <1>7, <2>2 DEF AskedOf, Live
  <2>9. LanesOf(j)'
    BY <1>3, <2>1, <2>2, <2>3, LanesAre DEF LanesOf, Live
  <2>10. ReasonsOf(j)'
    BY <1>1, <1>2, <1>4, <2>1, <2>3 DEF ReasonsOf, Resting, LaneEnds
  <2>11. RowsOf(j)'
    BY <1>1, <1>2, <1>5 DEF RowsOf
  <2>12. OutcomeOf(j)'
    BY <1>1, <1>2, <1>3, <2>2 DEF OutcomeOf, Live
  <2>13. QED
    BY <1>3, <2>4, <2>5, <2>6, <2>7, <2>8, <2>9, <2>10, <2>11, <2>12, OneJobMoves DEF JobInv
<1>8. QED
  BY <1>6, <1>7 DEF Starts

LEMMA AfterForkKeeps ==
  ASSUME EngineInv, NEW j \in Jobs, AfterFork(j)
  PROVE  EngineInv'
<1>1. /\ TypeOK /\ PermitInv /\ StageOf(j) /\ AskedOf(j) /\ LanesOf(j) /\ ReasonsOf(j)
      /\ RowsOf(j) /\ OutcomeOf(j) /\ DownOf(j) /\ Main \in Lanes /\ Branches \subseteq Lanes
  BY LanesAre DEF EngineInv, JobInv
<1>2. /\ loop = <<j, Main>> /\ lane[j][Main].at = "stored" /\ task[j].at = "fork"
      /\ lane[j][Main].at \notin PhaseAts \union Resting
      /\ UNCHANGED <<job, clock, rows, worker, free, detached, service>>
  BY DEF AfterFork, Stored, Runs, PhaseAts, Resting, LaneEnds
<1>3. CASE clock[j] # "early" /\ Leaves(j, Main, "partial") /\ UNCHANGED <<task, loop>>
  <2>1. MainMove(j)
    BY <1>1, <1>3, TurnsPartial
  <2>2. StageMoves(j) /\ StageOf(j)'
    BY <1>2, <1>3, StageStays
  <2>3. QED
    BY <1>2, <1>3, <2>1, <2>2, MainMoves
<1>4. CASE /\ task' = [task EXCEPT ![j].at = "rollout"]
           /\ lane' = [lane EXCEPT ![j] = [l \in Lanes |->
                         IF l = Main THEN IdleLane ELSE [IdleLane EXCEPT !.at = "created"]]]
           /\ loop' = Nobody
  <2>1. /\ service = "up" /\ ~task[j].cancel /\ ~job[j].asked
        /\ job[j].state = "rolling_out"
    BY <1>1, <1>2, InRun DEF Resumed, StageOf
  <2>2. \A b \in Branches : lane[j][b].at \in Resting
    BY <1>1, <1>2 DEF LanesOf, Resting
  <2>3. \A l \in Lanes : lane[j][l].at \notin Holding \union {"calling", "answered"}
    BY <1>2, <2>2, LanesAre DEF Holding, Resting, LaneEnds
  <2>4. /\ IdleLane \in Lane /\ [IdleLane EXCEPT !.at = "created"] \in Lane
        /\ [IdleLane EXCEPT !.at = "created"].at = "created" /\ IdleLane.at = "idle"
    BY DEF IdleLane, Lane, LaneAts, Resting, Codes
  <2> DEFINE all == [l \in Lanes |->
                       IF l = Main THEN IdleLane ELSE [IdleLane EXCEPT !.at = "created"]]
  <2>5. /\ all \in [Lanes -> Lane] /\ all[Main].at = "idle"
        /\ \A l \in Lanes : l # Main => all[l].at = "created"
    BY <1>1, <2>4
  <2>6. lane' = [lane EXCEPT ![j] = all]
    BY <1>4
  <2> HIDE DEF all
  <2>7. /\ lane' \in [Jobs -> [Lanes -> Lane]] /\ lane'[j] = all
        /\ \A i \in Jobs : i # j => lane'[i] = lane[i]
    BY <1>1, <2>5, <2>6, Typed
  <2>8. \A l \in Lanes : lane'[j][l].at \in {"idle", "created"}
    BY <2>5, <2>7
  <2>9. /\ task' \in [Jobs -> Task] /\ task'[j].at = "rollout" /\ task'[j].cancel = FALSE
        /\ \A i \in Jobs : i # j => task'[i] = task[i]
    <3>1. task[j] \in Task /\ [task[j] EXCEPT !.at = "rollout"] \in Task
      BY <1>1, Typed DEF Task
    <3>2. task' = [task EXCEPT ![j] = [task[j] EXCEPT !.at = "rollout"]]
      BY <1>1, <1>4, Typed
    <3>3. QED
      BY <1>1, <2>1, <3>1, <3>2, Typed DEF Task
  <2>10. TypeOK'
    BY <1>1, <1>2, <1>4, <2>7, <2>9, Typed, TypedNext
  <2>11. PermitInv'
    <3>1. \A i \in Jobs, l \in Lanes : lane'[i][l].at \in Holding <=> lane[i][l].at \in Holding
      BY <2>3, <2>7, <2>8 DEF Holding
    <3>2. \A k \in Kinds : HoldsPermit(k)' = HoldsPermit(k)
      <4>1. \A p \in Jobs \X Lanes :
              lane'[p[1]][p[2]].at \in Holding <=> lane[p[1]][p[2]].at \in Holding
        BY <3>1
      <4>2. QED
        BY <4>1 DEF HoldsPermit, Holding
    <3>3. QED
      BY <1>1, <1>2, <3>2 DEF PermitInv
  <2>12. \A i \in Jobs, l \in Lanes : loop' # <<i, l>>
    BY <1>4, EngineAssumption DEF Lanes
  <2>13. Apart(j)
    BY <1>2, <2>7, <2>9, <2>12 DEF Apart
  <2>14. StageOf(j)' /\ DownOf(j)'
    BY <1>2, <2>1, <2>9 DEF StageOf, DownOf
  <2>15. AskedOf(j)'
    BY <1>1, <1>2, <2>1, <2>9, <2>12 DEF AskedOf, Live
  <2>16. LanesOf(j)'
    <3>1. Live(j)' /\ lane'[j][Main].at = "idle"
      BY <2>5, <2>7, <2>9 DEF Live
    <3>2. QED
      BY <2>9, <3>1 DEF LanesOf, PhaseAts
  <2>17. ReasonsOf(j)'
    BY <1>1, <2>8 DEF ReasonsOf
  <2>18. RowsOf(j)'
    BY <1>1, <1>2, <2>1, <2>3 DEF RowsOf
  <2>19. OutcomeOf(j)'
    BY <1>1, <1>2, <2>1, <2>9 DEF OutcomeOf, Live
  <2>20. QED
    BY <2>1, <2>10, <2>11, <2>13, <2>14, <2>15, <2>16, <2>17, <2>18, <2>19, OneJobMoves DEF JobInv
<1>5. QED
  BY <1>3, <1>4 DEF AfterFork

LEMMA GatherKeeps ==
  ASSUME EngineInv, NEW j \in Jobs, Gather(j)
  PROVE  EngineInv'
<1>1. /\ TypeOK /\ PermitInv /\ StageOf(j) /\ AskedOf(j) /\ LanesOf(j) /\ ReasonsOf(j)
      /\ RowsOf(j) /\ OutcomeOf(j) /\ DownOf(j) /\ Main \in Lanes /\ Branches \subseteq Lanes
  BY LanesAre DEF EngineInv, JobInv
<1>2. /\ loop = Nobody /\ lane[j][Main].at = "idle" /\ task[j].at = "rollout"
      /\ \A b \in Branches : lane[j][b].at \in Resting
      /\ UNCHANGED <<job, clock, rows, task, worker, free, detached, service>>
      /\ loop' = <<j, Main>>
  BY DEF Gather, Suspended, GatherComplete, Ended, Resting
<1>3. /\ OneLane(j, Main) /\ lane'[j][Main].at \in {"cancelled", "failed", "ok"}
      /\ lane'[j][Main].at = "failed" => FailsFor(j, Main)'
      /\ lane'[j][Main].at # "cancelled" => ~task[j].cancel
  <2>1. CASE At(j, Main, "cancelled")
    BY <1>1, <2>1, LaneAt DEF LaneAts, Resting, LaneEnds
  <2>2. CASE ~task[j].cancel /\ Fails(j, Main, "FENCED")
    BY <1>1, <2>2, OtherFailure DEF Codes
  <2>3. CASE ~task[j].cancel /\ At(j, Main, "ok")
    BY <1>1, <2>3, LaneAt DEF LaneAts
  <2>4. QED
    BY <2>1, <2>2, <2>3 DEF Gather
<1>4. \A l \in Lanes : l # Main => lane'[j][l] = lane[j][l]
  BY <1>3 DEF OneLane
<1>5. \A b \in Branches : lane'[j][b] = lane[j][b] /\ lane[j][b].at \in Resting
  BY <1>1, <1>2, <1>4, LanesAre
<1>6. service # "down" /\ Live(j)
  BY <1>1, <1>2 DEF DownOf, NoTask, Live
<1>7. TypeOK'
  <2>1. loop' \in (Jobs \X Lanes) \union {Nobody}
    BY <1>1, <1>2
  <2>2. QED
    BY <1>1, <1>2, <1>3, <2>1, Typed, TypedNext DEF OneLane
<1>8. PermitInv'
  BY <1>1, <1>2, <1>3, PermitsKept DEF Holding
<1>9. Apart(j)
  BY <1>1, <1>2, <1>3 DEF Apart, OneLane
<1>10. StageOf(j)' /\ DownOf(j)'
  BY <1>1, <1>2, <1>6 DEF StageOf, DownOf
<1>11. AskedOf(j)'
  BY <1>1, <1>2, <1>3, <1>6 DEF AskedOf, Live
<1>12. LanesOf(j)'
  <2>1. Live(j)' /\ task'[j].at = "rollout" /\ lane'[j][Main].at \notin PhaseAts
    BY <1>2, <1>3, <1>6 DEF Live, PhaseAts
  <2>2. QED
    BY <1>5, <2>1 DEF LanesOf
<1>13. ReasonsOf(j)'
  <2>1. \A m \in Lanes : (/\ lane[j][m].at = "answered" => lane[j][m].why \in Answers
                          /\ lane[j][m].at = "failed" => FailsFor(j, m)
                          /\ lane[j][m].at = "skipped" => clock[j] # "early")'
    <3>1. SUFFICES ASSUME NEW m \in Lanes
                   PROVE (/\ lane[j][m].at = "answered" => lane[j][m].why \in Answers
                          /\ lane[j][m].at = "failed" => FailsFor(j, m)
                          /\ lane[j][m].at = "skipped" => clock[j] # "early")'
      OBVIOUS
    <3>2. CASE m = Main
      BY <1>3, <3>2
    <3>3. CASE m # Main
      <4>1. lane'[j][m] = lane[j][m] /\ clock'[j] = clock[j] /\ lane[j][m].at \in Resting
        BY <1>2, <1>5, <3>1, <3>3, LanesAre
      <4>2. QED
        BY <1>1, <3>1, <4>1 DEF ReasonsOf, Resting, LaneEnds
    <3>4. QED
      BY <3>2, <3>3
  <2>2. lane'[j][Main].at \notin {"partial", "settle_partial", "settle"}
    BY <1>3
  <2>3. QED
    BY <2>1, <2>2 DEF ReasonsOf, FailsFor
<1>14. RowsOf(j)'
  <2>1. \A m \in Lanes : lane[j][m].at \notin {"calling", "answered"}
    BY <1>2, LanesAre DEF Resting, LaneEnds
  <2>2. QED
    BY <1>1, <1>2, <2>1 DEF RowsOf
<1>15. OutcomeOf(j)'
  <2>1. job'[j].state = "rolling_out"
    BY <1>1, <1>2 DEF StageOf
  <2>2. QED
    BY <1>1, <1>2, <1>6, <2>1 DEF OutcomeOf, Live
<1>16. QED
  BY <1>6, <1>7, <1>8, <1>9, <1>10, <1>11, <1>12, <1>13, <1>14, <1>15, OneJobMoves DEF JobInv

LEMMA TaskKeeps ==
  ASSUME EngineInv, NEW j \in Jobs, TaskStep(j)
  PROVE  EngineInv'
BY StartsKeeps, GatherKeeps, CheckpointKeeps, StoreKeeps, AfterFrameKeeps, AfterForkKeeps,
   JudgeRolloutsKeeps, AfterCritiqueKeeps, AfterSynthesisKeeps, SalvageKeeps, StorePartialKeeps,
   SettlePartialKeeps, SettleSuccessKeeps, RunFailsKeeps, RunCancelledKeeps
   DEF TaskStep, Continue


-----------------------------------------------------------------------------
(* Callers, workers, the clock, and the process *)

\* A step that moves no lane.
LEMMA RecordsMove ==
  ASSUME EngineInv, NEW j \in Jobs,
         UNCHANGED <<lane, free, detached, service, loop>>,
         job' \in [Jobs -> Row], task' \in [Jobs -> Task],
         rows' \in [Jobs -> [Lanes -> {"none", "open", "ended", "cancelled"}]],
         clock' \in [Jobs -> {"early", "soft", "hard"}],
         worker' \in [Workers -> Jobs \union {Nobody}],
         \A i \in Jobs : i # j =>
           /\ job'[i] = job[i] /\ task'[i] = task[i] /\ clock'[i] = clock[i] /\ rows'[i] = rows[i],
         JobInv(j)'
  PROVE  EngineInv'
<1>1. TypeOK /\ PermitInv /\ (service = "down" => loop = Nobody)
  BY DEF EngineInv
<1>2. TypeOK'
  BY <1>1, Typed, TypedNext
<1>3. PermitInv'
  BY <1>1, NoLaneMoves
<1>4. Apart(j)
  BY DEF Apart
<1>5. QED
  BY <1>1, <1>2, <1>3, <1>4, OneJobMoves

\* A job in the queue, or not yet there, has left nothing in memory.
LEMMA Untouched ==
  ASSUME EngineInv, NEW j \in Jobs, job[j].state \in {"absent", "queued"}
  PROVE  /\ task[j] = NoTask /\ ~job[j].asked
         /\ \A l \in Lanes : lane[j][l].at \in Resting
<1>1. TypeOK /\ StageOf(j) /\ AskedOf(j) /\ LanesOf(j)
  BY DEF EngineInv, JobInv
<1>2. task[j] \in Task
  BY <1>1, Typed
<1>3. task[j].at = "none"
  BY <1>1, <1>2 DEF StageOf, Running, Task
<1>4. task[j].cancel = FALSE
  <2>1. task[j].cancel \in BOOLEAN /\ ~task[j].cancel
    BY <1>1, <1>2, <1>3 DEF AskedOf, Live, Task
  <2>2. QED
    BY <2>1
<1>5. task[j] = NoTask
  BY <1>2, <1>3, <1>4 DEF Task, NoTask
<1>6. \A l \in Lanes : lane[j][l].at \in Resting
  BY <1>1, <1>3, LanesAre DEF LanesOf, Live, Resting
<1>7. ~job[j].asked
  BY <1>1 DEF AskedOf
<1>8. QED
  BY <1>5, <1>6, <1>7

LEMMA SubmitKeeps ==
  ASSUME EngineInv, NEW j \in Jobs, Submit(j)
  PROVE  EngineInv'
<1>1. /\ TypeOK /\ StageOf(j) /\ AskedOf(j) /\ LanesOf(j) /\ ReasonsOf(j)
      /\ RowsOf(j) /\ OutcomeOf(j) /\ DownOf(j)
  BY DEF EngineInv, JobInv
<1>2. /\ job[j].state = "absent" /\ task[j] = NoTask /\ ~job[j].asked
      /\ \A l \in Lanes : lane[j][l].at \in Resting
      /\ UNCHANGED <<clock, rows, task, lane, worker, free, detached, service, loop>>
  BY Untouched DEF Submit
<1>3. /\ job' \in [Jobs -> Row] /\ job'[j].state = "queued" /\ job'[j].asked = job[j].asked
      /\ job'[j].error = job[j].error /\ job'[j].runs = job[j].runs
      /\ job'[j].partial = job[j].partial
      /\ \A i \in Jobs : i # j => job'[i] = job[i]
  <2>1. job[j] \in Row /\ [job[j] EXCEPT !.state = "queued"] \in Row
    BY <1>1, Typed DEF Row
  <2>2. job' = [job EXCEPT ![j] = [job[j] EXCEPT !.state = "queued"]]
    BY <1>1, Typed DEF Submit
  <2>3. QED
    BY <1>1, <2>1, <2>2, Typed DEF Row
<1>4. StageOf(j)' /\ AskedOf(j)' /\ LanesOf(j)' /\ DownOf(j)'
  BY <1>1, <1>2, <1>3 DEF StageOf, AskedOf, LanesOf, DownOf, Live, NoTask
<1>5. ReasonsOf(j)' /\ RowsOf(j)'
  BY <1>1, <1>2, <1>3, LanesAre DEF ReasonsOf, RowsOf, Resting, LaneEnds, NoTask, Running
<1>6. OutcomeOf(j)'
  BY <1>1, <1>2, <1>3, EngineAssumption DEF OutcomeOf, Running, Done
<1>7. QED
  BY <1>1, <1>2, <1>3, <1>4, <1>5, <1>6, RecordsMove, Typed DEF JobInv

LEMMA ClaimKeeps ==
  ASSUME EngineInv, NEW w \in Workers, NEW j \in Jobs, Claim(w, j)
  PROVE  EngineInv'
<1>1. /\ TypeOK /\ StageOf(j) /\ AskedOf(j) /\ LanesOf(j) /\ ReasonsOf(j)
      /\ RowsOf(j) /\ OutcomeOf(j) /\ DownOf(j)
  BY DEF EngineInv, JobInv
<1>2. /\ job[j].state = "queued" /\ task[j] = NoTask /\ ~job[j].asked /\ service = "up"
      /\ loop = Nobody
      /\ \A l \in Lanes : lane[j][l].at \in Resting
      /\ UNCHANGED <<clock, lane, free, detached, service, loop>>
  BY Untouched DEF Claim
<1>3. CASE clock[j] = "hard" /\ Settled(j, "failed", "DEADLINE_EXCEEDED")
           /\ UNCHANGED <<rows, task, worker>>
  <2>1. "failed" \in Done /\ "DEADLINE_EXCEEDED" \in Errors
    BY DEF Done, Errors, Codes
  <2>2. /\ job' \in [Jobs -> Row] /\ \A i \in Jobs : i # j => job'[i] = job[i]
        /\ job'[j].state = "failed" /\ job'[j].error = "DEADLINE_EXCEEDED"
        /\ job'[j].asked = job[j].asked /\ job'[j].runs = job[j].runs
        /\ job'[j].partial = job[j].partial
    BY <1>1, <1>3, <2>1, Settles
  <2>3. StageOf(j)' /\ AskedOf(j)' /\ LanesOf(j)' /\ DownOf(j)'
    BY <1>1, <1>2, <1>3, <2>2 DEF StageOf, AskedOf, LanesOf, DownOf, Live, NoTask
  <2>4. ReasonsOf(j)' /\ RowsOf(j)'
    BY <1>1, <1>2, <1>3, <2>2, LanesAre DEF ReasonsOf, RowsOf, Resting, LaneEnds
  <2>5. OutcomeOf(j)'
    BY <1>1, <1>2, <1>3, <2>2 DEF OutcomeOf, Running, Done
  <2>6. QED
    BY <1>1, <1>2, <1>3, <2>2, <2>3, <2>4, <2>5, RecordsMove, Typed DEF JobInv
<1>4. CASE /\ job' = [job EXCEPT ![j].state = "framing", ![j].runs = @ + 1]
           /\ rows' = [rows EXCEPT ![j] = [l \in Lanes |-> "none"]]
           /\ task' = [task EXCEPT ![j].at = "created"]
           /\ worker' = [worker EXCEPT ![w] = j]
  <2>1. /\ job' \in [Jobs -> Row] /\ \A i \in Jobs : i # j => job'[i] = job[i]
        /\ job'[j].state = "framing" /\ job'[j].error = job[j].error
        /\ job'[j].asked = job[j].asked /\ job'[j].partial = job[j].partial
    <3> DEFINE s == [job[j] EXCEPT !.state = "framing", !.runs = job[j].runs + 1]
    <3>1. job[j] \in Row /\ "framing" \in Running
      BY <1>1, Typed DEF Running
    <3>2. job[j].runs + 1 \in 0..MaxRuns
      <4>1. job[j].runs \in 0..MaxRuns /\ job[j].runs < MaxRuns
        BY <1>1, <1>2, <3>1 DEF Row, OutcomeOf
      <4>2. QED
        BY <4>1, EngineAssumption
    <3>3. s \in Row
      BY <3>1, <3>2, Zenon DEF Row
    <3>4. /\ s.state = "framing" /\ s.error = job[j].error
          /\ s.asked = job[j].asked /\ s.partial = job[j].partial
      BY <3>1 DEF Row
    <3>5. job' = [job EXCEPT ![j] = s]
      BY <1>1, <1>4, Typed
    <3> HIDE DEF s
    <3>6. job' \in [Jobs -> Row] /\ job'[j] = s /\ \A i \in Jobs : i # j => job'[i] = job[i]
      BY <1>1, <3>3, <3>5, Typed
    <3>7. QED
      BY <3>4, <3>6
  <2>2. /\ task' \in [Jobs -> Task] /\ task'[j].at = "created" /\ task'[j].cancel = FALSE
        /\ \A i \in Jobs : i # j => task'[i] = task[i]
    <3>1. task' = [task EXCEPT ![j] = [task[j] EXCEPT !.at = "created"]]
      BY <1>1, <1>4, Typed
    <3>2. task[j] \in Task /\ task[j].cancel = FALSE
      <4>1. task[j].at = "none"
        BY <1>2 DEF NoTask
      <4>2. task[j] \in Task
        BY <1>1, Typed
      <4>3. task[j].cancel \in BOOLEAN /\ ~task[j].cancel
        BY <1>1, <4>1, <4>2 DEF AskedOf, Live, Task
      <4>4. QED
        BY <4>2, <4>3
    <3>3. [task[j] EXCEPT !.at = "created"] \in Task
      BY <3>2 DEF Task
    <3>4. QED
      BY <1>1, <3>1, <3>2, <3>3, Typed DEF Task
  <2>3. /\ worker' \in [Workers -> Jobs \union {Nobody}]
        /\ rows' \in [Jobs -> [Lanes -> {"none", "open", "ended", "cancelled"}]]
        /\ \A l \in Lanes : rows'[j][l] = "none"
        /\ \A i \in Jobs : i # j => rows'[i] = rows[i]
    BY <1>1, <1>4, Typed
  <2>4. StageOf(j)' /\ DownOf(j)'
    BY <1>2, <2>1, <2>2 DEF StageOf, DownOf
  <2>5. AskedOf(j)'
    BY <1>1, <1>2, <2>1, <2>2 DEF AskedOf, Live
  <2>6. LanesOf(j)'
    BY <1>1, <1>2, <2>2, LanesAre DEF LanesOf, Live, NoTask
  <2>7. ReasonsOf(j)' /\ RowsOf(j)'
    BY <1>1, <1>2, <2>1, <2>3, LanesAre DEF ReasonsOf, RowsOf, Resting, LaneEnds
  <2>8. OutcomeOf(j)'
    BY <1>1, <1>2, <2>1, <2>2 DEF OutcomeOf, Live, Done
  <2>9. QED
    BY <1>1, <1>2, <2>1, <2>2, <2>3, <2>4, <2>5, <2>6, <2>7, <2>8, RecordsMove, Typed DEF JobInv
<1>5. QED
  BY <1>3, <1>4 DEF Claim

LEMMA WorkerWakesKeeps ==
  ASSUME EngineInv, NEW w \in Workers, WorkerWakes(w)
  PROVE  EngineInv'
<1>1. PICK j \in Jobs : j = worker[w] /\ task[j].at \in {"done", "cancelled"}
  BY Typed DEF EngineInv, WorkerWakes
<1>2. /\ TypeOK /\ StageOf(j) /\ AskedOf(j) /\ LanesOf(j) /\ ReasonsOf(j)
      /\ RowsOf(j) /\ OutcomeOf(j) /\ DownOf(j)
  BY <1>1 DEF EngineInv, JobInv
<1>3. service # "down" /\ \A l \in Lanes : lane[j][l].at \in Resting
  BY <1>1, <1>2, LanesAre DEF DownOf, NoTask, LanesOf, Live, Resting
<1>4. /\ worker' = [worker EXCEPT ![w] = Nobody]
      /\ task' = [task EXCEPT ![j] = NoTask]
      /\ UNCHANGED <<clock, rows, lane, free, detached, service, loop>>
      /\ \/ task[j].at = "cancelled" /\ ~LeftToRecovery /\ Settled(j, "cancelled", "CANCELLED")
         \/ (task[j].at = "done" \/ LeftToRecovery) /\ UNCHANGED job
  BY <1>1 DEF WorkerWakes
<1>5. worker' \in [Workers -> Jobs \union {Nobody}]
  BY <1>2, <1>4, Typed
<1>6. /\ task' \in [Jobs -> Task] /\ task'[j] = NoTask
      /\ \A i \in Jobs : i # j => task'[i] = task[i]
  BY <1>1, <1>2, <1>4, Typed DEF Task, NoTask
<1>7. \A l \in Lanes : rows[j][l] = "open" /\ clock[j] # "hard" => service # "up"
  BY <1>1, <1>2, <1>3 DEF RowsOf, Resting, LaneEnds
<1>8. CASE task[j].at = "cancelled" /\ ~LeftToRecovery /\ Settled(j, "cancelled", "CANCELLED")
  <2>1. "cancelled" \in Done /\ "CANCELLED" \in Errors
    BY DEF Done, Errors
  <2>2. /\ job' \in [Jobs -> Row] /\ \A i \in Jobs : i # j => job'[i] = job[i]
        /\ job'[j].state = "cancelled" /\ job'[j].error = "CANCELLED"
        /\ job'[j].asked = job[j].asked /\ job'[j].runs = job[j].runs
        /\ job'[j].partial = job[j].partial
    BY <1>1, <1>2, <1>8, <2>1, Settles
  <2>3. service = "up"
    BY <1>2, <1>3, <1>8, Typed DEF LeftToRecovery
  <2>4. StageOf(j)' /\ LanesOf(j)' /\ DownOf(j)'
    BY <1>1, <1>2, <1>3, <1>4, <1>6, <2>2 DEF StageOf, LanesOf, DownOf, Live, NoTask
  <2>5. AskedOf(j)'
    BY <1>2, <1>4, <1>6, <2>2 DEF AskedOf, Live, NoTask
  <2>6. ReasonsOf(j)' /\ RowsOf(j)'
    BY <1>2, <1>3, <1>4, <1>7, <2>2, <2>3, LanesAre DEF ReasonsOf, RowsOf, Resting, LaneEnds
  <2>7. OutcomeOf(j)'
    BY <1>2, <1>4, <2>2 DEF OutcomeOf, Running, Done
  <2>8. QED
    BY <1>1, <1>2, <1>4, <1>5, <1>6, <2>2, <2>4, <2>5, <2>6, <2>7, RecordsMove, Typed DEF JobInv
<1>9. CASE (task[j].at = "done" \/ LeftToRecovery) /\ UNCHANGED job
  <2>1. StageOf(j)' /\ LanesOf(j)' /\ DownOf(j)'
    BY <1>1, <1>2, <1>3, <1>4, <1>6, <1>9 DEF StageOf, LanesOf, DownOf, Live, NoTask
  <2>2. AskedOf(j)'
    BY <1>2, <1>4, <1>6, <1>9 DEF AskedOf, Live, NoTask
  <2>3. ReasonsOf(j)' /\ RowsOf(j)'
    BY <1>2, <1>3, <1>4, <1>7, <1>9, LanesAre DEF ReasonsOf, RowsOf, Resting, LaneEnds
  <2>4. OutcomeOf(j)'
    BY <1>1, <1>2, <1>4, <1>6, <1>9 DEF OutcomeOf, Live, SettlementLost, NoTask, LeftToRecovery
  <2>5. QED
    BY <1>1, <1>2, <1>4, <1>5, <1>6, <1>9, <2>1, <2>2, <2>3, <2>4, RecordsMove, Typed DEF JobInv
<1>10. QED
  BY <1>4, <1>8, <1>9

LEMMA CancelKeeps ==
  ASSUME EngineInv, NEW j \in Jobs, Cancel(j)
  PROVE  EngineInv'
<1>1. /\ TypeOK /\ StageOf(j) /\ AskedOf(j) /\ LanesOf(j) /\ ReasonsOf(j)
      /\ RowsOf(j) /\ OutcomeOf(j) /\ DownOf(j)
  BY DEF EngineInv, JobInv
<1>2. /\ loop = Nobody /\ service = "up"
      /\ task' = IF Live(j) THEN [task EXCEPT ![j].cancel = TRUE] ELSE task
      /\ UNCHANGED <<clock, rows, lane, worker, free, detached, service, loop>>
  BY DEF Cancel
<1>3. \A l \in Lanes : loop # <<j, l>>
  BY <1>2, EngineAssumption DEF Lanes
<1>4. CASE job[j].state = "queued" /\ Settled(j, "cancelled", "CANCELLED")
  <2>1. /\ task[j] = NoTask /\ ~job[j].asked
        /\ \A l \in Lanes : lane[j][l].at \in Resting
    BY <1>4, Untouched
  <2>2. task' = task
    BY <1>2, <2>1 DEF Live, NoTask
  <2>3. "cancelled" \in Done /\ "CANCELLED" \in Errors
    BY DEF Done, Errors
  <2>4. /\ job' \in [Jobs -> Row] /\ \A i \in Jobs : i # j => job'[i] = job[i]
        /\ job'[j].state = "cancelled" /\ job'[j].error = "CANCELLED"
        /\ job'[j].asked = job[j].asked /\ job'[j].runs = job[j].runs
        /\ job'[j].partial = job[j].partial
    BY <1>1, <1>4, <2>3, Settles
  <2>5. StageOf(j)' /\ AskedOf(j)' /\ LanesOf(j)' /\ DownOf(j)'
    BY <1>1, <1>2, <2>1, <2>2, <2>4 DEF StageOf, AskedOf, LanesOf, DownOf, Live, NoTask
  <2>6. ReasonsOf(j)' /\ RowsOf(j)'
    BY <1>1, <1>2, <2>1, <2>2, <2>4, LanesAre
       DEF ReasonsOf, RowsOf, Resting, LaneEnds, NoTask, Running
  <2>7. OutcomeOf(j)'
    BY <1>1, <1>2, <2>4 DEF OutcomeOf, Running, Done
  <2>8. QED
    BY <1>1, <1>2, <2>2, <2>4, <2>5, <2>6, <2>7, RecordsMove, Typed DEF JobInv
<1>5. CASE job[j].state \in Running /\ job' = [job EXCEPT ![j].asked = TRUE]
  <2>1. /\ job' \in [Jobs -> Row] /\ \A i \in Jobs : i # j => job'[i] = job[i]
        /\ job'[j].state = job[j].state /\ job'[j].error = job[j].error
        /\ job'[j].asked = TRUE /\ job'[j].runs = job[j].runs
        /\ job'[j].partial = job[j].partial
    <3>1. job[j] \in Row /\ [job[j] EXCEPT !.asked = TRUE] \in Row
      BY <1>1, Typed DEF Row
    <3>2. job' = [job EXCEPT ![j] = [job[j] EXCEPT !.asked = TRUE]]
      BY <1>1, <1>5, Typed
    <3>3. QED
      BY <1>1, <3>1, <3>2, Typed DEF Row
  <2>2. /\ task' \in [Jobs -> Task] /\ \A i \in Jobs : i # j => task'[i] = task[i]
        /\ task'[j].at = task[j].at
        /\ Live(j) => task'[j].cancel = TRUE
        /\ ~Live(j) => task'[j].cancel = task[j].cancel
    <3>1. task[j] \in Task /\ [task[j] EXCEPT !.cancel = TRUE] \in Task
      BY <1>1, Typed DEF Task
    <3>2. CASE Live(j)
      <4>1. task' = [task EXCEPT ![j] = [task[j] EXCEPT !.cancel = TRUE]]
        BY <1>1, <1>2, <3>2, Typed
      <4>2. QED
        BY <1>1, <3>1, <3>2, <4>1, Typed DEF Task
    <3>3. CASE ~Live(j)
      BY <1>1, <1>2, <3>3, Typed
    <3>4. QED
      BY <3>2, <3>3
  <2>3. StageOf(j)' /\ LanesOf(j)'
    BY <1>1, <1>2, <2>1, <2>2 DEF StageOf, LanesOf, Live
  <2>4. AskedOf(j)'
    BY <1>1, <1>2, <1>3, <1>5, <2>1, <2>2 DEF AskedOf, Live, Running
  <2>5. ReasonsOf(j)' /\ RowsOf(j)' /\ DownOf(j)'
    BY <1>1, <1>2, <2>1, <2>2 DEF ReasonsOf, RowsOf, DownOf
  <2>6. OutcomeOf(j)'
    BY <1>1, <1>2, <1>5, <2>1, <2>2 DEF OutcomeOf, Live, SettlementLost, Running, Done
  <2>7. QED
    BY <1>1, <1>2, <2>1, <2>2, <2>3, <2>4, <2>5, <2>6, RecordsMove, Typed DEF JobInv
<1>6. QED
  BY <1>4, <1>5 DEF Cancel

LEMMA ClockPassesKeeps ==
  ASSUME EngineInv, NEW j \in Jobs, ClockPasses(j)
  PROVE  EngineInv'
<1>1. /\ TypeOK /\ StageOf(j) /\ AskedOf(j) /\ LanesOf(j) /\ ReasonsOf(j)
      /\ RowsOf(j) /\ OutcomeOf(j) /\ DownOf(j)
  BY DEF EngineInv, JobInv
<1>2. /\ UNCHANGED <<job, rows, task, lane, worker, free, detached, service, loop>>
      /\ clock' \in [Jobs -> {"early", "soft", "hard"}]
      /\ \A i \in Jobs : i # j => clock'[i] = clock[i]
      /\ clock[j] # "hard" /\ clock'[j] \in {"soft", "hard"}
  BY <1>1, Typed DEF ClockPasses
<1>3. StageOf(j)' /\ AskedOf(j)' /\ LanesOf(j)' /\ DownOf(j)'
  BY <1>1, <1>2 DEF StageOf, AskedOf, LanesOf, DownOf, Live
<1>4. ReasonsOf(j)' /\ RowsOf(j)'
  BY <1>1, <1>2 DEF ReasonsOf, RowsOf
<1>5. OutcomeOf(j)'
  BY <1>1, <1>2 DEF OutcomeOf, Live, SettlementLost
<1>6. QED
  BY <1>1, <1>2, <1>3, <1>4, <1>5, RecordsMove, Typed DEF JobInv


LEMMA DetachedEndsKeeps ==
  ASSUME EngineInv, NEW k \in Kinds, DetachedEnds(k)
  PROVE  EngineInv'
<1>1. /\ TypeOK /\ PermitInv /\ loop = Nobody
      /\ UNCHANGED <<job, clock, rows, task, lane, worker, service, loop>>
      /\ free \in [Kinds -> Nat] /\ detached \in [Kinds -> Nat]
  BY Typed DEF EngineInv, DetachedEnds
<1>2. /\ free' \in [Kinds -> Nat] /\ detached' \in [Kinds -> Nat]
      /\ \A i \in Kinds : free'[i] + detached'[i] = free[i] + detached[i]
  BY <1>1 DEF DetachedEnds, Release
<1>3. TypeOK'
  BY <1>1, <1>2, Typed, TypedNext
<1>4. PermitInv'
  <2>1. SUFFICES ASSUME NEW i \in Kinds
                 PROVE  /\ IsFiniteSet(HoldsPermit(i))'
                        /\ free'[i] + Cardinality(HoldsPermit(i))' + detached'[i] = Capacity[i]
    BY DEF PermitInv
  <2>2. HoldsPermit(i)' = HoldsPermit(i)
    BY <1>1 DEF HoldsPermit
  <2>3. /\ IsFiniteSet(HoldsPermit(i))
        /\ free[i] + Cardinality(HoldsPermit(i)) + detached[i] = Capacity[i]
    BY <1>1, <2>1 DEF PermitInv
  <2>4. /\ free[i] \in Nat /\ free'[i] \in Nat /\ detached[i] \in Nat /\ detached'[i] \in Nat
        /\ free'[i] + detached'[i] = free[i] + detached[i]
    BY <1>1, <1>2, <2>1
  <2>5. Cardinality(HoldsPermit(i)) \in Nat
    BY <2>3, FS_CardinalityType
  <2>6. QED
    BY <2>2, <2>3, <2>4, <2>5
<1>5. \A j \in Jobs : JobInv(j)'
  BY <1>1 DEF EngineInv, JobInv, StageOf, AskedOf, LanesOf, ReasonsOf, RowsOf, OutcomeOf, DownOf,
              Live, SettlementLost
<1>6. QED
  BY <1>1, <1>3, <1>4, <1>5 DEF EngineInv

LEMMA StopKeeps ==
  ASSUME EngineInv, Stop
  PROVE  EngineInv'
<1>1. /\ TypeOK /\ PermitInv /\ loop = Nobody /\ service = "up" /\ service' = "stopping"
      /\ UNCHANGED <<job, clock, rows, lane, worker, free, detached, loop>>
  BY DEF EngineInv, Stop
<1>2. \A j \in Jobs : /\ task'[j] \in Task /\ task'[j].at = task[j].at
                      /\ task'[j].cancel => Live(j)
                      /\ Live(j) => task'[j].cancel
  <2>1. SUFFICES ASSUME NEW j \in Jobs
                 PROVE  /\ task'[j] \in Task /\ task'[j].at = task[j].at
                        /\ task'[j].cancel => Live(j)
                        /\ Live(j) => task'[j].cancel
    OBVIOUS
  <2>2. task[j] \in Task /\ (task[j].cancel => Live(j))
    BY <1>1, Typed DEF EngineInv, JobInv, AskedOf
  <2>3. CASE Live(j)
    <3>1. task'[j] = [task[j] EXCEPT !.cancel = TRUE]
      BY <2>3 DEF Stop
    <3>2. QED
      BY <2>2, <2>3, <3>1 DEF Task
  <2>4. CASE ~Live(j)
    BY <2>2, <2>4 DEF Stop
  <2>5. QED
    BY <2>3, <2>4
<1>3. TypeOK'
  <2>1. task' \in [Jobs -> Task]
    BY <1>2 DEF Stop
  <2>2. QED
    BY <1>1, <2>1, Typed, TypedNext
<1>4. PermitInv'
  BY <1>1, NoLaneMoves
<1>5. \A j \in Jobs : JobInv(j)'
  <2>1. SUFFICES ASSUME NEW j \in Jobs PROVE JobInv(j)'
    OBVIOUS
  <2>2. /\ StageOf(j) /\ AskedOf(j) /\ LanesOf(j) /\ ReasonsOf(j) /\ RowsOf(j) /\ OutcomeOf(j)
    BY DEF EngineInv, JobInv
  <2>3. /\ task'[j].at = task[j].at
        /\ task'[j].cancel => Live(j)
        /\ Live(j) => task'[j].cancel
    BY <1>2
  <2>4. StageOf(j)' /\ LanesOf(j)' /\ DownOf(j)'
    BY <1>1, <2>2, <2>3 DEF StageOf, LanesOf, DownOf, Live
  <2>5. AskedOf(j)'
    <3>1. \A l \in Lanes : loop' # <<j, l>>
      BY <1>1, EngineAssumption DEF Lanes
    <3>2. QED
      BY <1>1, <2>2, <2>3, <3>1 DEF AskedOf, Live
  <2>6. ReasonsOf(j)' /\ RowsOf(j)'
    BY <1>1, <2>2, <2>3 DEF ReasonsOf, RowsOf
  <2>7. OutcomeOf(j)'
    BY <1>1, <2>2, <2>3 DEF OutcomeOf
  <2>8. QED
    BY <2>4, <2>5, <2>6, <2>7 DEF JobInv
<1>6. QED
  BY <1>1, <1>3, <1>4, <1>5 DEF EngineInv

LEMMA EmptyLanes ==
  /\ IdleLane \in Lane /\ IdleLane.at = "idle" /\ NoTask \in Task /\ NoTask.at = "none"
  /\ ~NoTask.cancel /\ Capacity \in [Kinds -> Nat]
<1>1. IdleLane \in Lane /\ IdleLane.at = "idle"
  BY DEF IdleLane, Lane, LaneAts, Resting, Codes
<1>2. NoTask \in Task /\ NoTask.at = "none" /\ ~NoTask.cancel
  BY DEF NoTask, Task
<1>3. Capacity \in [Kinds -> Nat]
  BY EngineAssumption DEF Capacity, Kinds
<1>4. QED
  BY <1>1, <1>2, <1>3

LEMMA NobodyHolds ==
  ASSUME \A j \in Jobs, l \in Lanes : lane[j][l].at \notin Holding,
         free = Capacity, detached = [k \in Kinds |-> 0]
  PROVE  PermitInv
<1>1. \A k \in Kinds : HoldsPermit(k) = {}
  BY DEF HoldsPermit, Holding
<1>2. Cardinality({}) = 0 /\ IsFiniteSet({})
  BY FS_EmptySet
<1>3. \A k \in Kinds : Capacity[k] \in Nat
  BY EmptyLanes
<1>4. QED
  BY <1>1, <1>2, <1>3 DEF PermitInv

LEMMA NobodyHoldsNext ==
  ASSUME \A j \in Jobs, l \in Lanes : lane'[j][l].at \notin Holding,
         free' = Capacity, detached' = [k \in Kinds |-> 0]
  PROVE  PermitInv'
<1>1. \A k \in Kinds : HoldsPermit(k)' = {}
  BY DEF HoldsPermit, Holding
<1>2. Cardinality({}) = 0 /\ IsFiniteSet({})
  BY FS_EmptySet
<1>3. \A k \in Kinds : Capacity[k] \in Nat
  BY EmptyLanes
<1>4. QED
  BY <1>1, <1>2, <1>3 DEF PermitInv

LEMMA ProcessEndsKeeps ==
  ASSUME EngineInv, ProcessEnds
  PROVE  EngineInv'
<1>1. /\ TypeOK /\ service' = "down" /\ loop' = Nobody /\ UNCHANGED <<job, clock, rows>>
      /\ free' = Capacity /\ detached' = [k \in Kinds |-> 0]
      /\ worker' = [w \in Workers |-> Nobody]
      /\ task' = [j \in Jobs |-> NoTask]
      /\ lane' = [j \in Jobs |-> [l \in Lanes |-> IdleLane]]
  BY DEF EngineInv, ProcessEnds, Kinds
<1>2. /\ \A j \in Jobs : task'[j] = NoTask /\ \A l \in Lanes : lane'[j][l] = IdleLane
      /\ lane' \in [Jobs -> [Lanes -> Lane]] /\ task' \in [Jobs -> Task]
  BY <1>1, EmptyLanes
<1>3. TypeOK'
  <2>1. worker' \in [Workers -> Jobs \union {Nobody}] /\ free' \in [Kinds -> Nat]
        /\ detached' \in [Kinds -> Nat]
    BY <1>1, EmptyLanes
  <2>2. QED
    BY <1>1, <1>2, <2>1, Typed, TypedNext
<1>4. PermitInv'
  BY <1>1, <1>2, NobodyHoldsNext, EmptyLanes DEF Holding
<1>5. \A j \in Jobs : JobInv(j)'
  <2>1. SUFFICES ASSUME NEW j \in Jobs PROVE JobInv(j)'
    OBVIOUS
  <2>2. AskedOf(j) /\ RowsOf(j) /\ OutcomeOf(j)
    BY DEF EngineInv, JobInv
  <2>3. /\ task'[j] = NoTask /\ task'[j].at = "none" /\ ~task'[j].cancel
        /\ \A l \in Lanes : lane'[j][l] = IdleLane /\ lane'[j][l].at = "idle"
    BY <1>2, EmptyLanes
  <2>4. StageOf(j)' /\ LanesOf(j)' /\ DownOf(j)'
    BY <2>3, LanesAre DEF StageOf, LanesOf, DownOf, Live, Resting
  <2>5. AskedOf(j)'
    <3>1. \A l \in Lanes : loop' # <<j, l>>
      BY <1>1, EngineAssumption DEF Lanes
    <3>2. QED
      BY <1>1, <2>2, <2>3, <3>1 DEF AskedOf, Live
  <2>6. ReasonsOf(j)'
    BY <2>3, LanesAre DEF ReasonsOf
  <2>7. RowsOf(j)'
    BY <1>1, <2>2 DEF RowsOf
  <2>8. OutcomeOf(j)'
    BY <1>1, <2>2, <2>3, LanesAre DEF OutcomeOf
  <2>9. QED
    BY <2>4, <2>5, <2>6, <2>7, <2>8 DEF JobInv
<1>6. QED
  BY <1>1, <1>3, <1>4, <1>5 DEF EngineInv

\* What recover_startup makes of the row of a job.
LEMMA Recovers ==
  ASSUME NEW r \in Row, NEW s \in Row,
         s = IF r.state \notin Running THEN r
             ELSE IF r.asked THEN [r EXCEPT !.state = "cancelled", !.error = "CANCELLED"]
             ELSE IF r.runs < MaxRuns THEN [r EXCEPT !.state = "queued"]
             ELSE [r EXCEPT !.state = "failed", !.error = "RETRY_EXHAUSTED"]
  PROVE  /\ s.asked = r.asked /\ s.runs = r.runs /\ s.partial = r.partial
         /\ r.state \notin Running => s = r
         /\ r.state \in Running /\ r.asked => s.state = "cancelled" /\ s.error = "CANCELLED"
         /\ r.state \in Running /\ ~r.asked /\ r.runs < MaxRuns =>
              s.state = "queued" /\ s.error = r.error
         /\ r.state \in Running /\ ~r.asked /\ ~(r.runs < MaxRuns) =>
              s.state = "failed" /\ s.error = "RETRY_EXHAUSTED"
BY DEF Row

LEMMA RecoveredIs ==
  ASSUME TypeOK, NEW j \in Jobs
  PROVE  /\ Recovered(j) \in Row
         /\ Recovered(j) =
              IF job[j].state \notin Running THEN job[j]
              ELSE IF job[j].asked
                THEN [job[j] EXCEPT !.state = "cancelled", !.error = "CANCELLED"]
              ELSE IF job[j].runs < MaxRuns THEN [job[j] EXCEPT !.state = "queued"]
              ELSE [job[j] EXCEPT !.state = "failed", !.error = "RETRY_EXHAUSTED"]
<1>1. job[j] \in Row
  BY Typed
<1>2. Recovered(j) =
        IF job[j].state \notin Running THEN job[j]
        ELSE IF job[j].asked THEN [job[j] EXCEPT !.state = "cancelled", !.error = "CANCELLED"]
        ELSE IF job[j].runs < MaxRuns THEN [job[j] EXCEPT !.state = "queued"]
        ELSE [job[j] EXCEPT !.state = "failed", !.error = "RETRY_EXHAUSTED"]
  BY DEF Recovered
<1>3. /\ [job[j] EXCEPT !.state = "cancelled", !.error = "CANCELLED"] \in Row
      /\ [job[j] EXCEPT !.state = "queued"] \in Row
      /\ [job[j] EXCEPT !.state = "failed", !.error = "RETRY_EXHAUSTED"] \in Row
  BY <1>1 DEF Row, Done, Errors
<1>4. QED
  BY <1>1, <1>2, <1>3

LEMMA RestartKeeps ==
  ASSUME EngineInv, Restart
  PROVE  EngineInv'
<1>1. /\ TypeOK /\ PermitInv /\ service = "down" /\ service' = "up" /\ loop = Nobody
      /\ job' = [j \in Jobs |-> Recovered(j)]
      /\ rows' = [j \in Jobs |-> RecoveredRows(j)]
      /\ UNCHANGED <<clock, task, lane, worker, free, detached, loop>>
  BY DEF EngineInv, Restart
<1>2. /\ job' \in [Jobs -> Row]
      /\ rows' \in [Jobs -> [Lanes -> {"none", "open", "ended", "cancelled"}]]
      /\ \A j \in Jobs : job'[j] = Recovered(j)
  BY <1>1, RecoveredIs, Typed DEF RecoveredRows
<1>3. TypeOK'
  BY <1>1, <1>2, Typed, TypedNext
<1>4. PermitInv'
  BY <1>1, NoLaneMoves
<1>5. \A j \in Jobs : JobInv(j)'
  <2>1. SUFFICES ASSUME NEW j \in Jobs PROVE JobInv(j)'
    OBVIOUS
  <2>2. AskedOf(j) /\ OutcomeOf(j) /\ DownOf(j) /\ job[j] \in Row
    BY <1>1, Typed DEF EngineInv, JobInv
  <2>3. /\ task'[j] = NoTask /\ task'[j].at = "none" /\ ~task'[j].cancel
        /\ \A l \in Lanes : lane'[j][l] = IdleLane /\ lane'[j][l].at = "idle"
    BY <1>1, <2>2, EmptyLanes DEF DownOf
  <2>4. /\ job'[j].asked = job[j].asked /\ job'[j].runs = job[j].runs
        /\ job'[j].partial = job[j].partial
        /\ job[j].state \notin Running => job'[j] = job[j]
        /\ job[j].state \in Running /\ job[j].asked =>
             job'[j].state = "cancelled" /\ job'[j].error = "CANCELLED"
        /\ job[j].state \in Running /\ ~job[j].asked /\ job[j].runs < MaxRuns =>
             job'[j].state = "queued" /\ job'[j].error = job[j].error
        /\ job[j].state \in Running /\ ~job[j].asked /\ ~(job[j].runs < MaxRuns) =>
             job'[j].state = "failed" /\ job'[j].error = "RETRY_EXHAUSTED"
    <3>1. /\ job'[j] \in Row
          /\ job'[j] = IF job[j].state \notin Running THEN job[j]
                       ELSE IF job[j].asked
                         THEN [job[j] EXCEPT !.state = "cancelled", !.error = "CANCELLED"]
                       ELSE IF job[j].runs < MaxRuns THEN [job[j] EXCEPT !.state = "queued"]
                       ELSE [job[j] EXCEPT !.state = "failed", !.error = "RETRY_EXHAUSTED"]
      BY <1>1, <1>2, RecoveredIs
    <3>2. QED
      BY <2>2, <3>1, Recovers
  <2>5. StageOf(j)' /\ LanesOf(j)' /\ DownOf(j)'
    BY <1>1, <2>3, LanesAre DEF StageOf, LanesOf, DownOf, Live, Resting
  <2>6. AskedOf(j)'
    <3>1. \A l \in Lanes : loop' # <<j, l>>
      BY <1>1, EngineAssumption DEF Lanes
    <3>2. job'[j].asked => job'[j].state \notin {"absent", "queued"}
      BY <2>2, <2>4 DEF AskedOf
    <3>3. QED
      BY <1>1, <2>3, <3>1, <3>2 DEF AskedOf, Live
  <2>7. ReasonsOf(j)'
    BY <2>3, LanesAre DEF ReasonsOf
  <2>8. job'[j].state \notin Running /\ RowsOf(j)'
    BY <2>3, <2>4 DEF RowsOf, Running
  <2>9. OutcomeOf(j)'
    <3>1. job'[j].state \notin Running
      BY <2>8
    <3>2. /\ job'[j].state = "queued" => job'[j].runs < MaxRuns
          /\ job'[j].state = "absent" => job'[j].runs = 0
          /\ job'[j].error # "SOFT_DEADLINE_REACHED"
          /\ job'[j].error = "DEADLINE_EXCEEDED" => clock[j] = "hard"
          /\ job'[j].partial => clock[j] # "early"
          /\ job'[j].asked /\ job'[j].state \in Done => job'[j].state = "cancelled"
      BY <2>2, <2>4 DEF OutcomeOf, Running, Done
    <3>3. QED
      BY <1>1, <2>3, <3>1, <3>2, LanesAre DEF OutcomeOf
  <2>10. QED
    BY <2>5, <2>6, <2>7, <2>8, <2>9 DEF JobInv
<1>6. QED
  BY <1>1, <1>3, <1>4, <1>5 DEF EngineInv


-----------------------------------------------------------------------------
(* The invariant holds *)

LEMMA InitInv ==
  ASSUME Init
  PROVE  EngineInv
<1>1. /\ job = [j \in Jobs |-> NewRow] /\ clock = [j \in Jobs |-> "early"]
      /\ rows = [j \in Jobs |-> [l \in Lanes |-> "none"]]
      /\ task = [j \in Jobs |-> NoTask]
      /\ lane = [j \in Jobs |-> [l \in Lanes |-> IdleLane]]
      /\ worker = [w \in Workers |-> Nobody] /\ free = Capacity
      /\ detached = [k \in Kinds |-> 0] /\ service = "up" /\ loop = Nobody
  BY DEF Init, Kinds
<1>2. /\ NewRow \in Row /\ NewRow.state = "absent" /\ NewRow.error = "none" /\ NewRow.runs = 0
      /\ ~NewRow.asked /\ ~NewRow.partial
  BY EngineAssumption DEF NewRow, Row, Errors, Codes
<1>3. TypeOK
  BY <1>1, <1>2, EmptyLanes, Typed
<1>4. PermitInv
  BY <1>1, NobodyHolds, EmptyLanes DEF Holding
<1>5. \A j \in Jobs : JobInv(j)
  <2>1. SUFFICES ASSUME NEW j \in Jobs PROVE JobInv(j)
    OBVIOUS
  <2>2. /\ task[j] = NoTask /\ task[j].at = "none" /\ ~task[j].cancel
        /\ \A l \in Lanes : lane[j][l].at = "idle" /\ rows[j][l] = "none"
        /\ job[j] = NewRow /\ clock[j] = "early"
    BY <1>1, EmptyLanes
  <2>3. StageOf(j) /\ LanesOf(j) /\ DownOf(j)
    BY <1>1, <2>2, LanesAre DEF StageOf, LanesOf, DownOf, Live, Resting
  <2>4. AskedOf(j)
    <3>1. \A l \in Lanes : loop # <<j, l>>
      BY <1>1, EngineAssumption DEF Lanes
    <3>2. QED
      BY <1>1, <1>2, <2>2, <3>1 DEF AskedOf, Live
  <2>5. ReasonsOf(j) /\ RowsOf(j)
    BY <2>2, LanesAre DEF ReasonsOf, RowsOf
  <2>6. OutcomeOf(j)
    BY <1>2, <2>2 DEF OutcomeOf, Running, Done
  <2>7. QED
    BY <2>3, <2>4, <2>5, <2>6 DEF JobInv
<1>6. QED
  BY <1>1, <1>3, <1>4, <1>5 DEF EngineInv

LEMMA NextInv ==
  ASSUME EngineInv, [Next]_vars
  PROVE  EngineInv'
<1>1. ASSUME NEW j \in Jobs, NEW l \in Lanes, LaneStep(j, l)
      PROVE  EngineInv'
  BY <1>1, PhaseKeeps, DeliverCancelKeeps DEF LaneStep
<1>2. ASSUME NEW j \in Jobs, NEW b \in Branches, BranchStep(j, b)
      PROVE  EngineInv'
  BY <1>2, BranchStartsKeeps, BranchEndsKeeps DEF BranchStep
<1>3. ASSUME NEW j \in Jobs, TaskStep(j) \/ Submit(j) \/ Cancel(j) \/ ClockPasses(j)
      PROVE  EngineInv'
  BY <1>3, TaskKeeps, SubmitKeeps, CancelKeeps, ClockPassesKeeps
<1>4. ASSUME NEW w \in Workers, WorkerStep(w)
      PROVE  EngineInv'
  BY <1>4, WorkerWakesKeeps, ClaimKeeps DEF WorkerStep
<1>5. ASSUME NEW k \in {"serial", "rollout"}, DetachedEnds(k)
      PROVE  EngineInv'
  BY <1>5, DetachedEndsKeeps DEF Kinds
<1>6. ASSUME Stop \/ Stopped \/ Crash \/ Restart
      PROVE  EngineInv'
  BY <1>6, StopKeeps, ProcessEndsKeeps, RestartKeeps DEF Stopped, Crash
<1>7. ASSUME UNCHANGED vars
      PROVE  EngineInv'
  BY <1>7 DEF vars, EngineInv, TypeOK, PermitInv, HoldsPermit, JobInv, StageOf, AskedOf, LanesOf,
              ReasonsOf, RowsOf, OutcomeOf, DownOf, Live, SettlementLost
<1>8. QED
  BY <1>1, <1>2, <1>3, <1>4, <1>5, <1>6, <1>7 DEF Next

\* The engine keeps its invariant whatever tasks, branches, callers, clocks and crashes do.
THEOREM EngineInvariant == Spec => []EngineInv
<1>1. Init => EngineInv
  BY InitInv
<1>2. EngineInv /\ [Next]_vars => EngineInv'
  BY NextInv
<1>3. QED
  BY <1>1, <1>2, PTL DEF Spec

\* The variables keep their types.
THEOREM EngineTyped == Spec => []TypeOK
<1>1. EngineInv => TypeOK
  BY DEF EngineInv
<1>2. QED
  BY <1>1, EngineInvariant, PTL

\* No permit of the two semaphores is lost or given twice (engine.py:347-362, 407-513).
THEOREM NoPermitIsLost == Spec => []PermitsConserved
<1>1. EngineInv => PermitsConserved
  BY DEF EngineInv, PermitInv, PermitsConserved, Kinds, Capacity
<1>2. QED
  BY <1>1, EngineInvariant, PTL

\* A job past the queue is in the hands of a task while the service is up, but for the
\* settlement that was lost.
THEOREM NoRunIsAbandoned == Spec => []RunningIsOwned
<1>1. EngineInv => RunningIsOwned
  BY DEF EngineInv, JobInv, OutcomeOf, RunningIsOwned
<1>2. QED
  BY <1>1, EngineInvariant, PTL

\* No branch task outlives the rollout stage of its job.
THEOREM NoBranchIsLeft == Spec => []BranchesAreJoined
<1>1. EngineInv => BranchesAreJoined
  BY DEF EngineInv, JobInv, LanesOf, StageOf, BranchesAreJoined, Resting
<1>2. QED
  BY <1>1, EngineInvariant, PTL

\* The soft deadline never fails a job, and a partial result or DEADLINE_EXCEEDED needs one.
THEOREM OutcomeFollowsDeadlines == Spec => []DeadlinesExplainOutcome
<1>1. EngineInv => DeadlinesExplainOutcome
  BY DEF EngineInv, JobInv, OutcomeOf, DeadlinesExplainOutcome
<1>2. QED
  BY <1>1, EngineInvariant, PTL

\* A running job that was asked to stop can end only as cancelled.
THEOREM CancellationIsHonoured == Spec => []CancelWins
<1>1. EngineInv => CancelWins
  BY DEF EngineInv, JobInv, OutcomeOf, CancelWins
<1>2. QED
  BY <1>1, EngineInvariant, PTL

\* Before the hard deadline no call that has ended leaves its row open, however it ended.
THEOREM NoCallIsForgotten == Spec => []OpenCallsAreInFlight
<1>1. EngineInv => OpenCallsAreInFlight
  BY DEF EngineInv, JobInv, RowsOf, OpenCallsAreInFlight
<1>2. QED
  BY <1>1, EngineInvariant, PTL

\* Success without the partial mark means that every branch was admitted.
THEOREM NothingSkippedUnmarked == Spec => []CompleteMeansComplete
<1>1. EngineInv => CompleteMeansComplete
  BY DEF EngineInv, JobInv, OutcomeOf, CompleteMeansComplete, BranchesAt
<1>2. QED
  BY <1>1, EngineInvariant, PTL


-----------------------------------------------------------------------------
(* The engine implements the lifecycle *)

LEMMA JobAdvances ==
  ASSUME NEW j \in Jobs, \A i \in Jobs : i # j => job'[i] = job[i],
         LC!Step(j) \/ job'[j] = job[j]
  PROVE  LC!Move
<1>1. \A i \in Jobs : /\ [x \in Jobs |-> job[x].state][i] = job[i].state
                      /\ [x \in Jobs |-> job[x].runs][i] = job[i].runs
                      /\ [x \in Jobs |-> job[x].asked][i] = job[i].asked
  OBVIOUS
<1>2. QED
  BY <1>1 DEF LC!Move, LC!Becomes

LEMMA JobStays ==
  ASSUME job' = job
  PROVE  LC!Move
BY DEF LC!Move, LC!Becomes

\* A running job that was not asked to stop goes to its next stage.
LEMMA AdvanceStep ==
  ASSUME NEW j \in Jobs, job[j] \in Row, job'[j] \in Row, ~job[j].asked,
         job[j].state \in {"framing", "rolling_out", "critiquing"},
         job'[j].state = CASE job[j].state = "framing" -> "rolling_out"
                           [] job[j].state = "rolling_out" -> "critiquing"
                           [] job[j].state = "critiquing" -> "synthesizing",
         job'[j].runs = job[j].runs, job'[j].asked = job[j].asked
  PROVE  LC!Step(j)
<1>1. job'[j].asked = FALSE
  <2>1. job[j].asked \in BOOLEAN
    BY DEF Row
  <2>2. QED
    BY <2>1
<1>2. LC!Advance(j)
  BY <1>1 DEF LC!Advance, LC!Successor, LC!Becomes
<1>3. QED
  BY <1>2 DEF LC!Step

\* A running job ends.
LEMMA FinishStep ==
  ASSUME NEW j \in Jobs, job[j].state \in Running, job'[j].state \in Done,
         job'[j].state = "succeeded" => ~job[j].asked,
         job'[j].runs = job[j].runs, job'[j].asked = job[j].asked
  PROVE  LC!Step(j)
<1>1. LC!Finish(j)
  BY DEF LC!Finish, LC!Becomes, LC!Running, LC!Done, Running, Done
<1>2. QED
  BY <1>1 DEF LC!Step

\* A queued job ends without a run.
LEMMA DropStep ==
  ASSUME NEW j \in Jobs, job[j] \in Row, job[j].state = "queued", ~job[j].asked,
         job'[j].state \in {"failed", "cancelled"},
         job'[j].runs = job[j].runs, job'[j].asked = job[j].asked
  PROVE  LC!Step(j)
<1>1. job'[j].asked = FALSE
  <2>1. job[j].asked \in BOOLEAN
    BY DEF Row
  <2>2. QED
    BY <2>1
<1>2. LC!Drop(j)
  BY <1>1 DEF LC!Drop, LC!Becomes
<1>3. QED
  BY <1>2 DEF LC!Step


\* A step of Main at one of these points runs a job that was not asked to stop, while the
\* service is up.
LEMMA MainRuns ==
  ASSUME EngineInv, NEW j \in Jobs, loop = <<j, Main>>,
         lane[j][Main].at \in {"store", "stored", "failed", "settle", "settle_partial"}
  PROVE  /\ TypeOK /\ job[j] \in Row /\ StageOf(j) /\ ReasonsOf(j)
         /\ service = "up" /\ ~job[j].asked /\ job[j].state \in Running
<1>1. lane[j][Main].at \notin Resting /\ Resumed(j, Main) /\ Main \in Lanes
  BY LanesAre DEF Resting, LaneEnds, Resumed
<1>2. TypeOK /\ job[j] \in Row /\ StageOf(j) /\ ReasonsOf(j)
  BY Typed DEF EngineInv, JobInv
<1>3. QED
  BY <1>1, <1>2, InRun

\* What transition makes of the rows when it is not fenced.
LEMMA MovesRow ==
  ASSUME TypeOK, NEW j \in Jobs, NEW stage \in Running \union Done, Moves(j, stage), Accepts(j)
  PROVE  /\ job'[j] \in Row /\ \A i \in Jobs : i # j => job'[i] = job[i]
         /\ job'[j].state = stage
         /\ job'[j].asked = job[j].asked /\ job'[j].runs = job[j].runs
<1>1. job[j] \in Row /\ [job[j] EXCEPT !.state = stage] \in Row
  BY Typed DEF Row
<1>2. job' = [job EXCEPT ![j] = [job[j] EXCEPT !.state = stage]]
  BY Typed DEF Moves
<1>3. QED
  BY <1>1, <1>2, Typed DEF Row

LEMMA AfterFrameMoves ==
  ASSUME EngineInv, NEW j \in Jobs, AfterFrame(j)
  PROVE  LC!Move /\ service = "up"
<1>1. /\ loop = <<j, Main>> /\ lane[j][Main].at = "stored" /\ task[j].at = "frame"
      /\ Moves(j, "rolling_out") /\ "rolling_out" \in Running \union Done
  BY DEF AfterFrame, Stored, Runs, Running
<1>2. /\ TypeOK /\ job[j] \in Row /\ service = "up" /\ ~job[j].asked
      /\ job[j].state = "framing"
  BY <1>1, MainRuns DEF StageOf
<1>3. CASE Accepts(j)
  <2>1. /\ job'[j] \in Row /\ \A i \in Jobs : i # j => job'[i] = job[i]
        /\ job'[j].state = "rolling_out"
        /\ job'[j].asked = job[j].asked /\ job'[j].runs = job[j].runs
    BY <1>1, <1>2, <1>3, MovesRow
  <2>2. LC!Step(j)
    BY <1>2, <2>1, AdvanceStep
  <2>3. QED
    BY <1>2, <2>1, <2>2, JobAdvances
<1>4. CASE ~Accepts(j)
  BY <1>1, <1>2, <1>4, JobStays DEF Moves
<1>5. QED
  BY <1>3, <1>4

LEMMA JudgeRolloutsMoves ==
  ASSUME EngineInv, NEW j \in Jobs, JudgeRollouts(j)
  PROVE  LC!Move /\ service = "up"
<1>1. /\ loop = <<j, Main>> /\ lane[j][Main].at = "store" /\ task[j].at = "rollout"
      /\ job' = job \/ Moves(j, "critiquing")
      /\ "critiquing" \in Running \union Done
  BY DEF JudgeRollouts, Runs, Running
<1>2. /\ TypeOK /\ job[j] \in Row /\ service = "up" /\ ~job[j].asked
      /\ job[j].state = "rolling_out"
  BY <1>1, MainRuns DEF StageOf
<1>3. CASE Accepts(j) /\ Moves(j, "critiquing")
  <2>1. /\ job'[j] \in Row /\ \A i \in Jobs : i # j => job'[i] = job[i]
        /\ job'[j].state = "critiquing"
        /\ job'[j].asked = job[j].asked /\ job'[j].runs = job[j].runs
    BY <1>1, <1>2, <1>3, MovesRow
  <2>2. LC!Step(j)
    BY <1>2, <2>1, AdvanceStep
  <2>3. QED
    BY <1>2, <2>1, <2>2, JobAdvances
<1>4. CASE job' = job
  BY <1>2, <1>4, JobStays
<1>5. QED
  BY <1>1, <1>3, <1>4 DEF Moves

LEMMA AfterCritiqueMoves ==
  ASSUME EngineInv, NEW j \in Jobs, AfterCritique(j)
  PROVE  LC!Move /\ service = "up"
<1>1. /\ loop = <<j, Main>> /\ lane[j][Main].at = "stored" /\ task[j].at = "critique"
      /\ Moves(j, "synthesizing") /\ "synthesizing" \in Running \union Done
  BY DEF AfterCritique, Stored, Runs, Running
<1>2. /\ TypeOK /\ job[j] \in Row /\ service = "up" /\ ~job[j].asked
      /\ clock[j] # "hard" => job[j].state = "critiquing"
  BY <1>1, MainRuns DEF StageOf
<1>3. CASE Accepts(j)
  <2>1. /\ job'[j] \in Row /\ \A i \in Jobs : i # j => job'[i] = job[i]
        /\ job'[j].state = "synthesizing"
        /\ job'[j].asked = job[j].asked /\ job'[j].runs = job[j].runs
    BY <1>1, <1>2, <1>3, MovesRow
  <2>2. LC!Step(j)
    BY <1>2, <1>3, <2>1, AdvanceStep DEF Accepts
  <2>3. QED
    BY <1>2, <2>1, <2>2, JobAdvances
<1>4. CASE ~Accepts(j)
  BY <1>1, <1>2, <1>4, JobStays DEF Moves
<1>5. QED
  BY <1>3, <1>4

LEMMA SettleSuccessMoves ==
  ASSUME EngineInv, NEW j \in Jobs, SettleSuccess(j)
  PROVE  LC!Move /\ service = "up"
<1>1. /\ loop = <<j, Main>> /\ lane[j][Main].at = "settle"
      /\ Moves(j, "succeeded") /\ "succeeded" \in Running \union Done /\ "succeeded" \in Done
  BY DEF SettleSuccess, Runs, Done
<1>2. /\ TypeOK /\ service = "up" /\ ~job[j].asked /\ job[j].state \in Running
  BY <1>1, MainRuns
<1>3. CASE Accepts(j)
  <2>1. /\ \A i \in Jobs : i # j => job'[i] = job[i]
        /\ job'[j].state = "succeeded"
        /\ job'[j].asked = job[j].asked /\ job'[j].runs = job[j].runs
    BY <1>1, <1>2, <1>3, MovesRow
  <2>2. LC!Step(j)
    BY <1>1, <1>2, <2>1, FinishStep
  <2>3. QED
    BY <1>2, <2>1, <2>2, JobAdvances
<1>4. CASE ~Accepts(j)
  BY <1>1, <1>2, <1>4, JobStays DEF Moves
<1>5. QED
  BY <1>3, <1>4

LEMMA SettlePartialMoves ==
  ASSUME EngineInv, NEW j \in Jobs, SettlePartial(j)
  PROVE  LC!Move /\ service = "up"
<1>1. /\ loop = <<j, Main>> /\ lane[j][Main].at = "settle_partial" /\ "succeeded" \in Done
      /\ \/ job' = [job EXCEPT ![j].state = "succeeded", ![j].partial = TRUE]
         \/ job' = job
  BY DEF SettlePartial, Runs, Done
<1>2. /\ TypeOK /\ job[j] \in Row /\ service = "up" /\ ~job[j].asked /\ job[j].state \in Running
  BY <1>1, MainRuns
<1>3. CASE job' = [job EXCEPT ![j].state = "succeeded", ![j].partial = TRUE]
  <2>1. job' = [job EXCEPT ![j] = [job[j] EXCEPT !.state = "succeeded", !.partial = TRUE]]
    BY <1>2, <1>3, Typed
  <2>2. /\ \A i \in Jobs : i # j => job'[i] = job[i]
        /\ job'[j].state = "succeeded"
        /\ job'[j].asked = job[j].asked /\ job'[j].runs = job[j].runs
    BY <1>2, <2>1, Typed DEF Row
  <2>3. LC!Step(j)
    BY <1>1, <1>2, <2>2, FinishStep
  <2>4. QED
    BY <1>2, <2>2, <2>3, JobAdvances
<1>4. CASE job' = job
  BY <1>2, <1>4, JobStays
<1>5. QED
  BY <1>1, <1>3, <1>4

\* The end of a run, by any of its writers.
LEMMA SettledMoves ==
  ASSUME TypeOK, NEW j \in Jobs, NEW state \in {"failed", "cancelled"}, NEW error \in Errors,
         Settled(j, state, error), job[j].state \in Running
  PROVE  LC!Move
<1>1. state \in Done
  BY DEF Done
<1>2. /\ \A i \in Jobs : i # j => job'[i] = job[i]
      /\ job'[j].state = state
      /\ job'[j].asked = job[j].asked /\ job'[j].runs = job[j].runs
  BY <1>1, Settles
<1>3. LC!Step(j)
  BY <1>1, <1>2, FinishStep
<1>4. QED
  BY <1>2, <1>3, JobAdvances

LEMMA RunFailsMoves ==
  ASSUME EngineInv, NEW j \in Jobs, RunFails(j)
  PROVE  LC!Move /\ service = "up"
<1>1. loop = <<j, Main>> /\ lane[j][Main].at = "failed" /\ Main \in Lanes
  BY LanesAre DEF RunFails, Runs
<1>2. /\ TypeOK /\ service = "up" /\ ~job[j].asked /\ job[j].state \in Running
      /\ lane[j][Main].why \in Codes
  BY <1>1, MainRuns DEF ReasonsOf
<1> DEFINE error == IF lane[j][Main].why = "FENCED" THEN "INTERNAL_ERROR" ELSE lane[j][Main].why
<1>3. error \in Errors
  BY <1>2 DEF Errors
<1>4. Settled(j, "failed", error)
  BY <1>2 DEF RunFails
<1> HIDE DEF error
<1>5. QED
  BY <1>2, <1>3, <1>4, SettledMoves

LEMMA RunCancelledMoves ==
  ASSUME EngineInv, NEW j \in Jobs, RunCancelled(j)
  PROVE  LC!Move /\ (service = "stopping" => job' = job)
<1>1. TypeOK /\ lane[j][Main].at # "idle" /\ "CANCELLED" \in Errors
  BY DEF EngineInv, RunCancelled, Runs, Errors
<1>2. job[j].state \in Running
  BY <1>1, MainInUse
<1>3. CASE LeftToRecovery /\ UNCHANGED job
  BY <1>3, JobStays
<1>4. CASE ~LeftToRecovery /\ Settled(j, "cancelled", "CANCELLED")
  BY <1>1, <1>2, <1>4, SettledMoves DEF LeftToRecovery
<1>5. QED
  BY <1>3, <1>4 DEF RunCancelled

LEMMA TaskMoves ==
  ASSUME EngineInv, NEW j \in Jobs, TaskStep(j)
  PROVE  LC!Move /\ (service = "stopping" => job' = job)
<1>1. CASE AfterFrame(j) \/ JudgeRollouts(j) \/ AfterCritique(j) \/ SettlePartial(j)
           \/ SettleSuccess(j) \/ RunFails(j)
  BY <1>1, AfterFrameMoves, JudgeRolloutsMoves, AfterCritiqueMoves, SettlePartialMoves,
     SettleSuccessMoves, RunFailsMoves
<1>2. CASE RunCancelled(j)
  BY <1>2, RunCancelledMoves
<1>3. CASE Starts(j) \/ Gather(j) \/ Checkpoint(j) \/ Store(j) \/ AfterFork(j)
           \/ AfterSynthesis(j) \/ Salvage(j) \/ StorePartial(j)
  <2>1. job' = job
    BY <1>3 DEF Starts, Gather, Checkpoint, Store, AfterFork, AfterSynthesis, Salvage, StorePartial
  <2>2. QED
    BY <2>1, JobStays
<1>4. QED
  BY <1>1, <1>2, <1>3 DEF TaskStep, Continue

LEMMA LaneStepMoves ==
  ASSUME NEW j \in Jobs, NEW l \in Lanes, LaneStep(j, l)
  PROVE  job' = job
BY DEF LaneStep, Phase, Guard, RefusePrompt, Admit, Recheck, Record, CheckAnswer, Acquire,
       WaitExpires, Answer, CallExpires, DeliverCancel

LEMMA SubmitMoves ==
  ASSUME EngineInv, NEW j \in Jobs, Submit(j)
  PROVE  LC!Move /\ service = "up"
<1>1. /\ TypeOK /\ OutcomeOf(j) /\ job[j].state = "absent" /\ service = "up" /\ job[j] \in Row
      /\ job[j].runs = 0 /\ ~job[j].asked
  BY Untouched, Typed DEF Submit, EngineInv, JobInv, OutcomeOf
<1>2. /\ \A i \in Jobs : i # j => job'[i] = job[i]
      /\ job'[j].state = "queued" /\ job'[j].runs = 0 /\ job'[j].asked = job[j].asked
  <2>1. job' = [job EXCEPT ![j] = [job[j] EXCEPT !.state = "queued"]]
    BY <1>1, Typed DEF Submit
  <2>2. QED
    BY <1>1, <2>1, Typed DEF Row
<1>3. job'[j].asked = FALSE
  <2>1. job[j].asked \in BOOLEAN
    BY <1>1 DEF Row
  <2>2. QED
    BY <1>1, <1>2, <2>1
<1>4. LC!Submit(j)
  BY <1>1, <1>2, <1>3 DEF LC!Submit, LC!Becomes
<1>5. LC!Step(j)
  BY <1>4 DEF LC!Step
<1>6. QED
  BY <1>1, <1>2, <1>5, JobAdvances

LEMMA ClaimMoves ==
  ASSUME EngineInv, NEW w \in Workers, NEW j \in Jobs, Claim(w, j)
  PROVE  LC!Move /\ service = "up"
<1>1. /\ TypeOK /\ OutcomeOf(j) /\ job[j].state = "queued" /\ service = "up" /\ job[j] \in Row
      /\ job[j].runs < MaxRuns /\ ~job[j].asked
  BY Untouched, Typed DEF Claim, EngineInv, JobInv, OutcomeOf
<1>2. CASE Settled(j, "failed", "DEADLINE_EXCEEDED")
  <2>1. "failed" \in Done /\ "DEADLINE_EXCEEDED" \in Errors
    BY DEF Done, Errors, Codes
  <2>2. /\ \A i \in Jobs : i # j => job'[i] = job[i]
        /\ job'[j].state = "failed"
        /\ job'[j].asked = job[j].asked /\ job'[j].runs = job[j].runs
    BY <1>1, <1>2, <2>1, Settles
  <2>3. LC!Step(j)
    BY <1>1, <2>2, DropStep
  <2>4. QED
    BY <1>1, <2>2, <2>3, JobAdvances
<1>3. CASE job' = [job EXCEPT ![j].state = "framing", ![j].runs = @ + 1]
  <2>1. job' = [job EXCEPT ![j] = [job[j] EXCEPT !.state = "framing", !.runs = job[j].runs + 1]]
    BY <1>1, <1>3, Typed
  <2>2. /\ \A i \in Jobs : i # j => job'[i] = job[i]
        /\ job'[j].state = "framing" /\ job'[j].runs = job[j].runs + 1
        /\ job'[j].asked = job[j].asked
    BY <1>1, <2>1, Typed DEF Row
  <2>3. job'[j].asked = FALSE
    <3>1. job[j].asked \in BOOLEAN
      BY <1>1 DEF Row
    <3>2. QED
      BY <1>1, <2>2, <3>1
  <2>4. LC!Start(j)
    BY <1>1, <2>2, <2>3 DEF LC!Start, LC!Becomes
  <2>5. LC!Step(j)
    BY <2>4 DEF LC!Step
  <2>6. QED
    BY <1>1, <2>2, <2>5, JobAdvances
<1>4. QED
  BY <1>2, <1>3 DEF Claim

LEMMA WorkerWakesMoves ==
  ASSUME EngineInv, NEW w \in Workers, WorkerWakes(w)
  PROVE  LC!Move /\ (service = "stopping" => job' = job)
<1>1. PICK j \in Jobs : j = worker[w] /\ task[j].at \in {"done", "cancelled"}
  BY Typed DEF EngineInv, WorkerWakes
<1>2. TypeOK /\ StageOf(j) /\ "CANCELLED" \in Errors
  BY DEF EngineInv, JobInv, Errors
<1>3. CASE task[j].at = "cancelled" /\ ~LeftToRecovery /\ Settled(j, "cancelled", "CANCELLED")
  <2>1. job[j].state \in Running
    BY <1>2, <1>3 DEF StageOf
  <2>2. QED
    BY <1>2, <1>3, <2>1, SettledMoves DEF LeftToRecovery
<1>4. CASE UNCHANGED job
  BY <1>4, JobStays
<1>5. QED
  BY <1>1, <1>3, <1>4 DEF WorkerWakes

LEMMA CancelMoves ==
  ASSUME EngineInv, NEW j \in Jobs, Cancel(j)
  PROVE  LC!Move /\ service = "up"
<1>1. TypeOK /\ service = "up" /\ job[j] \in Row
  BY Typed DEF Cancel, EngineInv
<1>2. CASE job[j].state = "queued" /\ Settled(j, "cancelled", "CANCELLED")
  <2>1. "cancelled" \in Done /\ "CANCELLED" \in Errors /\ ~job[j].asked
    BY <1>2, Untouched DEF Done, Errors
  <2>2. /\ \A i \in Jobs : i # j => job'[i] = job[i]
        /\ job'[j].state = "cancelled"
        /\ job'[j].asked = job[j].asked /\ job'[j].runs = job[j].runs
    BY <1>1, <1>2, <2>1, Settles
  <2>3. LC!Step(j)
    BY <1>1, <1>2, <2>1, <2>2, DropStep
  <2>4. QED
    BY <1>1, <2>2, <2>3, JobAdvances
<1>3. CASE job[j].state \in Running /\ job' = [job EXCEPT ![j].asked = TRUE]
  <2>1. job' = [job EXCEPT ![j] = [job[j] EXCEPT !.asked = TRUE]]
    BY <1>1, <1>3, Typed
  <2>2. /\ \A i \in Jobs : i # j => job'[i] = job[i]
        /\ job'[j].state = job[j].state /\ job'[j].runs = job[j].runs /\ job'[j].asked = TRUE
    BY <1>1, <2>1, Typed DEF Row
  <2>3. LC!AskToCancel(j)
    BY <1>3, <2>2 DEF LC!AskToCancel, LC!Becomes, LC!Running, Running
  <2>4. LC!Step(j)
    BY <2>3 DEF LC!Step
  <2>5. QED
    BY <1>1, <2>2, <2>4, JobAdvances
<1>4. QED
  BY <1>2, <1>3 DEF Cancel

LEMMA RestartMoves ==
  ASSUME EngineInv, Restart
  PROVE  LC!Move
<1>1. TypeOK /\ \A j \in Jobs : job'[j] = Recovered(j) /\ job[j] \in Row
  BY Typed DEF EngineInv, Restart
<1>2. ASSUME NEW j \in Jobs
      PROVE  \/ LC!Step(j) \/ job'[j] = job[j]
  <2>1. job[j] \in Row /\ job'[j] \in Row
    BY <1>1, RecoveredIs
  <2>2. /\ job'[j].asked = job[j].asked /\ job'[j].runs = job[j].runs
        /\ job[j].state \notin Running => job'[j] = job[j]
        /\ job[j].state \in Running /\ job[j].asked => job'[j].state = "cancelled"
        /\ job[j].state \in Running /\ ~job[j].asked /\ job[j].runs < MaxRuns =>
             job'[j].state = "queued"
        /\ job[j].state \in Running /\ ~job[j].asked /\ ~(job[j].runs < MaxRuns) =>
             job'[j].state = "failed"
    <3>1. job'[j] = IF job[j].state \notin Running THEN job[j]
                    ELSE IF job[j].asked
                      THEN [job[j] EXCEPT !.state = "cancelled", !.error = "CANCELLED"]
                    ELSE IF job[j].runs < MaxRuns THEN [job[j] EXCEPT !.state = "queued"]
                    ELSE [job[j] EXCEPT !.state = "failed", !.error = "RETRY_EXHAUSTED"]
      BY <1>1, RecoveredIs
    <3>2. QED
      BY <2>1, <3>1, Recovers
  <2>3. CASE job[j].state \in Running /\ job[j].asked
    BY <2>2, <2>3, FinishStep DEF Done
  <2>4. CASE job[j].state \in Running /\ ~job[j].asked /\ job[j].runs < MaxRuns
    <3>1. job'[j].asked = FALSE
      <4>1. job[j].asked \in BOOLEAN
        BY <2>1 DEF Row
      <4>2. QED
        BY <2>2, <2>4, <4>1
    <3>2. LC!StartOver(j)
      BY <2>2, <2>4, <3>1 DEF LC!StartOver, LC!Becomes, LC!Running, Running
    <3>3. QED
      BY <3>2 DEF LC!Step
  <2>5. CASE job[j].state \in Running /\ ~job[j].asked /\ ~(job[j].runs < MaxRuns)
    BY <2>2, <2>5, FinishStep DEF Done
  <2>6. QED
    BY <2>2, <2>3, <2>4, <2>5
<1>3. QED
  BY <1>2 DEF LC!Move, LC!Becomes

LEMMA NextMoves ==
  ASSUME EngineInv, Next
  PROVE  LC!Move /\ (service = "stopping" => job' = job)
<1>1. ASSUME NEW j \in Jobs, NEW l \in Lanes, LaneStep(j, l)
      PROVE  LC!Move /\ (service = "stopping" => job' = job)
  BY <1>1, LaneStepMoves, JobStays
<1>2. ASSUME NEW j \in Jobs, NEW b \in Branches, BranchStep(j, b)
      PROVE  LC!Move /\ (service = "stopping" => job' = job)
  <2>1. job' = job
    BY <1>2 DEF BranchStep, BranchStarts, BranchEnds
  <2>2. QED
    BY <2>1, JobStays
<1>3. ASSUME NEW j \in Jobs, TaskStep(j) \/ Submit(j) \/ Cancel(j) \/ ClockPasses(j)
      PROVE  LC!Move /\ (service = "stopping" => job' = job)
  <2>1. CASE ClockPasses(j)
    <3>1. job' = job
      BY <2>1 DEF ClockPasses
    <3>2. QED
      BY <3>1, JobStays
  <2>2. QED
    BY <1>3, <2>1, TaskMoves, SubmitMoves, CancelMoves
<1>4. ASSUME NEW w \in Workers, WorkerStep(w)
      PROVE  LC!Move /\ (service = "stopping" => job' = job)
  BY <1>4, WorkerWakesMoves, ClaimMoves DEF WorkerStep
<1>5. ASSUME NEW k \in {"serial", "rollout"}, DetachedEnds(k)
      PROVE  LC!Move /\ (service = "stopping" => job' = job)
  <2>1. job' = job
    BY <1>5 DEF DetachedEnds
  <2>2. QED
    BY <2>1, JobStays
<1>6. CASE Stop \/ Stopped \/ Crash
  <2>1. job' = job
    BY <1>6 DEF Stop, Stopped, Crash, ProcessEnds
  <2>2. QED
    BY <2>1, JobStays
<1>7. CASE Restart
  BY <1>7, RestartMoves DEF Restart
<1>8. QED
  BY <1>1, <1>2, <1>3, <1>4, <1>5, <1>6, <1>7 DEF Next

\* stop changes no job (engine.py:630-633).
THEOREM StopChangesNoJob == Spec => StopLeavesJobsAlone
<1>1. EngineInv /\ [Next]_vars => [service = "stopping" => UNCHANGED job]_vars
  BY NextMoves
<1>2. QED
  BY <1>1, EngineInvariant, PTL DEF Spec, StopLeavesJobsAlone

\* Tasks, branches, permits, deadlines, crashes and restarts move each job along the
\* lifecycle that the store promises.
THEOREM EngineImplementsLifecycle == Spec => RefinesLifecycle
<1>1. Init => LC!Start0
  BY DEF Init, LC!Start0, NewRow
<1>2. EngineInv /\ [Next]_vars => [LC!Move]_(LC!lifecycleVars)
  <2>1. SUFFICES ASSUME EngineInv, [Next]_vars
                 PROVE  [LC!Move]_(LC!lifecycleVars)
    OBVIOUS
  <2>2. CASE Next
    BY <2>1, <2>2, NextMoves
  <2>3. CASE UNCHANGED vars
    BY <2>3 DEF vars, LC!lifecycleVars
  <2>4. QED
    BY <2>1, <2>2, <2>3
<1>3. QED
  BY <1>1, <1>2, EngineInvariant, PTL DEF Spec, RefinesLifecycle, LC!Lifecycle

-----------------------------------------------------------------------------
(* A run is finite *)

\* The phases a task has before it.
PhasesLeft ==
  [created |-> 6, frame |-> 5, fork |-> 4, rollout |-> 3, critique |-> 2, synthesis |-> 1,
   done |-> 0, cancelled |-> 0, none |-> 0]

\* Where a lane has no answer yet, and where it has one or needs none.
Asking ==
  [created |-> 19, guard |-> 18, admit |-> 17, waiting |-> 16, admitted |-> 15, record |-> 14,
   calling |-> 13, answered |-> 12]
Judging ==
  [idle |-> 30, ok |-> 10, store |-> 9, stored |-> 8, partial |-> 7, settle |-> 6,
   settle_partial |-> 6, succeeded |-> 0, lost |-> 0, skipped |-> 0, raised |-> 0,
   cancelled |-> 0]

\* Failures that no handler salvages.
Hopeless == {"none", "OTHER", "FENCED", "STALE_ATTEMPT", "DEADLINE_EXCEEDED"}

\* A bound on the steps a lane has before it in its phase; the one repair starts the call again.
StepsLeft(r) ==
  IF r.at \in DOMAIN Asking THEN Asking[r.at] + (IF r.spent = "none" THEN 10 ELSE 0)
  ELSE IF r.at = "failed" THEN IF r.why \in Hopeless THEN 5 ELSE 11
  ELSE Judging[r.at]

\* Lane l of job j takes a step, and nothing else of the job does.
LaneAdvances(j, l) ==
  /\ StepsLeft(lane'[j][l]) < StepsLeft(lane[j][l])
  /\ \A m \in Lanes \ {l} : lane'[j][m] = lane[j][m]

RunMoves(j) ==
  \/ task'[j].at = task[j].at /\ lane'[j] = lane[j]
  \/ task'[j].at = task[j].at /\ \E l \in Lanes : LaneAdvances(j, l)
  \/ PhasesLeft[task'[j].at] < PhasesLeft[task[j].at]

\* A job that is run by a task is at most six phases from its end, and each of its lanes at most
\* thirty steps from the end of the phase; whatever happens, it comes nearer or stays where it is.
RunAdvances ==
  [][\A j \in Jobs : Live(j) =>
       /\ PhasesLeft[task[j].at] \in 1..6
       /\ \A l \in Lanes : StepsLeft(lane[j][l]) \in 0..30
       /\ RunMoves(j)]_vars

LEMMA RanksTyped ==
  ASSUME NEW r \in Lane
  PROVE  /\ StepsLeft(r) \in 0..30
         /\ r.at \in DOMAIN Asking => StepsLeft(r) \in 12..30
         /\ r.at = "failed" => StepsLeft(r) \in 5..11
         /\ r.at = "failed" /\ r.why \in Hopeless => StepsLeft(r) = 5
         /\ r.at = "failed" /\ r.why \notin Hopeless => StepsLeft(r) = 11
         /\ r.at \notin DOMAIN Asking /\ r.at # "failed" => StepsLeft(r) = Judging[r.at]
<1>1. r.at \in DOMAIN Asking => StepsLeft(r) = Asking[r.at] + (IF r.spent = "none" THEN 10 ELSE 0)
  BY DEF StepsLeft
<1>2. r.at \in DOMAIN Asking => StepsLeft(r) \in 12..30
  BY <1>1 DEF Asking
<1>3. r.at = "failed" => StepsLeft(r) = IF r.why \in Hopeless THEN 5 ELSE 11
  BY DEF StepsLeft, Asking
<1>4. r.at \notin DOMAIN Asking /\ r.at # "failed" =>
        StepsLeft(r) = Judging[r.at] /\ r.at \in DOMAIN Judging
  BY DEF StepsLeft, Asking, Judging, Lane, LaneAts, PhaseAts, Resting, LaneEnds
<1>5. \A a \in DOMAIN Judging : Judging[a] \in 0..30
  BY DEF Judging
<1> QED
  BY <1>2, <1>3, <1>4, <1>5

\* A step of one lane that lowers its rank.
LEMMA StepAdvances ==
  ASSUME NEW j \in Jobs, NEW l \in Lanes, OneLane(j, l), UNCHANGED task,
         StepsLeft(lane'[j][l]) < StepsLeft(lane[j][l]),
         lane \in [Jobs -> [Lanes -> Lane]], NEW i \in Jobs
  PROVE  RunMoves(i)
<1>1. CASE i = j
  <2>1. LaneAdvances(j, l)
    BY DEF LaneAdvances, OneLane
  <2> QED
    BY <1>1, <2>1 DEF RunMoves
<1>2. CASE i # j
  <2>1. lane'[i] = lane[i]
    BY <1>2 DEF OneLane
  <2> QED
    BY <1>2, <2>1 DEF RunMoves
<1> QED
  BY <1>1, <1>2

\* A step of one job that brings its task to a later phase.
LEMMA PhaseAdvances ==
  ASSUME NEW j \in Jobs, \A i \in Jobs : i # j => task'[i] = task[i] /\ lane'[i] = lane[i],
         Live(j) => PhasesLeft[task'[j].at] < PhasesLeft[task[j].at], NEW i \in Jobs, Live(i)
  PROVE  RunMoves(i)
  BY DEF RunMoves

LEMMA RestAdvances ==
  ASSUME UNCHANGED lane, NEW i \in Jobs, task'[i].at = task[i].at
  PROVE  RunMoves(i)
  BY DEF RunMoves

\* Failing at once with a code, and leaving for a later place.
LEMMA FailsAdvances ==
  ASSUME TypeOK, NEW j \in Jobs, NEW l \in Lanes, NEW code \in Codes, Fails(j, l, code),
         UNCHANGED task, lane[j][l].at \in DOMAIN Asking \/ (code \in Hopeless /\ StepsLeft(lane[j][l]) > 5),
         NEW i \in Jobs
  PROVE  RunMoves(i)
<1>1. OneLane(j, l) /\ lane'[j][l].at = "failed" /\ lane'[j][l].why = code
  BY LaneFails
<1>2. lane[j][l] \in Lane /\ lane'[j][l] \in Lane /\ lane \in [Jobs -> [Lanes -> Lane]]
  BY <1>1, Typed DEF OneLane
<1>3. StepsLeft(lane'[j][l]) < StepsLeft(lane[j][l])
  BY <1>1, <1>2, RanksTyped
<1> QED
  BY <1>1, <1>2, <1>3, StepAdvances

LEMMA AtAdvances ==
  ASSUME TypeOK, NEW j \in Jobs, NEW l \in Lanes, NEW at \in LaneAts, At(j, l, at), UNCHANGED task,
         \/ /\ at \in DOMAIN Asking /\ lane[j][l].at \in DOMAIN Asking
            /\ Asking[at] < Asking[lane[j][l].at]
         \/ at \in DOMAIN Judging /\ StepsLeft(lane[j][l]) > Judging[at],
         NEW i \in Jobs
  PROVE  RunMoves(i)
<1>1. lane[j][l] \in Lane
  BY Typed
<1>2. lane' = [lane EXCEPT ![j][l] = [lane[j][l] EXCEPT !.at = at]]
  BY Typed DEF At
<1>3. [lane[j][l] EXCEPT !.at = at] \in Lane
  BY <1>1 DEF Lane
<1>4. OneLane(j, l) /\ lane'[j][l] = [lane[j][l] EXCEPT !.at = at]
  BY <1>2, <1>3, SetLane, Typed
<1>5. lane'[j][l] \in Lane /\ lane'[j][l].at = at /\ lane'[j][l].spent = lane[j][l].spent
  BY <1>1, <1>3, <1>4 DEF Lane
<1>6. StepsLeft(lane'[j][l]) < StepsLeft(lane[j][l])
  <2>1. CASE /\ at \in DOMAIN Asking /\ lane[j][l].at \in DOMAIN Asking
             /\ Asking[at] < Asking[lane[j][l].at]
    <3>1. Asking[at] \in Nat /\ Asking[lane[j][l].at] \in Nat
      BY <2>1 DEF Asking
    <3> QED
      BY <1>5, <2>1, <3>1 DEF StepsLeft
  <2>2. CASE at \in DOMAIN Judging /\ StepsLeft(lane[j][l]) > Judging[at]
    <3>1. at \notin DOMAIN Asking /\ at # "failed"
      BY <2>2 DEF Asking, Judging
    <3>2. StepsLeft(lane'[j][l]) = Judging[at]
      BY <1>5, <3>1, RanksTyped
    <3>3. Judging[at] \in Nat /\ StepsLeft(lane[j][l]) \in Nat
      BY <1>1, <2>2, RanksTyped DEF Judging
    <3> QED
      BY <2>2, <3>2, <3>3
  <2> QED
    BY <2>1, <2>2
<1> QED
  BY <1>4, <1>6, StepAdvances, Typed

LEMMA LeavesAdvances ==
  ASSUME TypeOK, NEW j \in Jobs, NEW l \in Lanes, NEW at \in DOMAIN Judging, Leaves(j, l, at),
         UNCHANGED task, StepsLeft(lane[j][l]) > Judging[at], NEW i \in Jobs
  PROVE  RunMoves(i)
<1>1. at \in LaneAts
  BY DEF Judging, LaneAts, Resting, LaneEnds
<1>2. OneLane(j, l) /\ lane'[j][l].at = at
  BY <1>1, LaneLeaves
<1>3. lane[j][l] \in Lane /\ lane'[j][l] \in Lane
  BY <1>2, Typed DEF OneLane
<1>4. at \notin DOMAIN Asking /\ at # "failed"
  BY DEF Asking, Judging
<1>5. StepsLeft(lane'[j][l]) = Judging[at] /\ Judging[at] \in Nat /\ StepsLeft(lane[j][l]) \in Nat
  BY <1>2, <1>3, <1>4, RanksTyped DEF Judging
<1> QED
  BY <1>2, <1>5, StepAdvances, Typed

LEMMA LaneStepAdvances ==
  ASSUME EngineInv, NEW j \in Jobs, NEW l \in Lanes, LaneStep(j, l), NEW i \in Jobs
  PROVE  RunMoves(i)
<1> DEFINE at == lane[j][l].at
           why == lane[j][l].why
<1>1. TypeOK /\ lane[j][l] \in Lane /\ lane \in [Jobs -> [Lanes -> Lane]]
  BY Typed DEF EngineInv
<1>2. ASSUME NEW code \in Codes, Fails(j, l, code), UNCHANGED task, at \in DOMAIN Asking
      PROVE  RunMoves(i)
  BY <1>1, <1>2, FailsAdvances
<1>3. ASSUME NEW next \in DOMAIN Asking, At(j, l, next), UNCHANGED task, at \in DOMAIN Asking,
             Asking[next] < Asking[at]
      PROVE  RunMoves(i)
  <2>1. next \in LaneAts
    BY <1>3 DEF Asking, LaneAts, PhaseAts
  <2> QED
    BY <1>1, <1>3, <2>1, AtAdvances
<1>4. {"OTHER", "DEADLINE_EXCEEDED", "SOFT_DEADLINE_REACHED", "DEADLINE_INSUFFICIENT", "FENCED"}
        \subseteq Codes
  BY DEF Codes
<1>5. ASSUME Reject(j, l), UNCHANGED task, at \in DOMAIN Asking PROVE RunMoves(i)
  BY <1>2, <1>4, <1>5 DEF Reject
<1>6. CASE Guard(j, l)
  <2>1. at \in DOMAIN Asking /\ "admit" \in DOMAIN Asking /\ Asking["admit"] < Asking[at]
    BY <1>6 DEF Guard, Runs, Asking
  <2> QED
    BY <1>2, <1>3, <1>4, <1>6, <2>1 DEF Guard, GuardThen
<1>7. CASE RefusePrompt(j, l)
  <2>1. at \in DOMAIN Asking
    BY <1>7 DEF RefusePrompt, Runs, Asking
  <2> QED
    BY <1>2, <1>4, <1>7, <2>1 DEF RefusePrompt
<1>8. CASE Admit(j, l)
  <2>1. /\ at \in DOMAIN Asking /\ {"waiting", "admitted"} \subseteq DOMAIN Asking
        /\ Asking["waiting"] < Asking[at] /\ Asking["admitted"] < Asking[at]
    BY <1>8 DEF Admit, Runs, Asking
  <2> QED
    BY <1>3, <1>5, <1>8, <2>1 DEF Admit
<1>9. CASE Acquire(j, l)
  <2>1. /\ at \in DOMAIN Asking /\ "admitted" \in DOMAIN Asking
        /\ Asking["admitted"] < Asking[at]
    BY <1>9 DEF Acquire, Wakes, Suspended, Asking
  <2> QED
    BY <1>3, <1>9, <2>1 DEF Acquire
<1>10. CASE WaitExpires(j, l)
  <2>1. at \in DOMAIN Asking
    BY <1>10 DEF WaitExpires, Wakes, Suspended, Asking
  <2> QED
    BY <1>5, <1>10, <2>1 DEF WaitExpires
<1>11. CASE Recheck(j, l)
  <2>1. /\ at \in DOMAIN Asking /\ "record" \in DOMAIN Asking
        /\ Asking["record"] < Asking[at]
    BY <1>11 DEF Recheck, Runs, Asking
  <2> QED
    BY <1>2, <1>3, <1>4, <1>5, <1>11, <2>1 DEF Recheck
<1>12. CASE Record(j, l)
  <2>1. /\ at \in DOMAIN Asking /\ "calling" \in DOMAIN Asking
        /\ Asking["calling"] < Asking[at]
    BY <1>12 DEF Record, Runs, Asking
  <2> QED
    BY <1>2, <1>3, <1>4, <1>12, <2>1 DEF Record
<1>13. ASSUME NEW r \in Answers, Answer(j, l, r) PROVE RunMoves(i)
  <2> DEFINE q == [lane[j][l] EXCEPT !.at = "answered", !.why = r]
  <2>1. q \in Lane /\ q.at = "answered" /\ q.spent = lane[j][l].spent
    BY <1>1, <1>13 DEF Lane, LaneAts, PhaseAts
  <2>2. at = "calling" /\ lane' = [lane EXCEPT ![j][l] = q] /\ UNCHANGED task
    BY <1>1, <1>13 DEF Answer, Wakes, Suspended
  <2> HIDE DEF q
  <2>3. OneLane(j, l) /\ lane'[j][l] = q
    BY <1>1, <2>1, <2>2, SetLane
  <2>4. StepsLeft(q) < StepsLeft(lane[j][l])
    BY <2>1, <2>2 DEF StepsLeft, Asking
  <2> QED
    BY <1>1, <2>2, <2>3, <2>4, StepAdvances
<1>14. CASE CallExpires(j, l)
  <2>1. at \in DOMAIN Asking
    BY <1>14 DEF CallExpires, Wakes, Suspended, Asking
  <2> QED
    BY <1>2, <1>4, <1>14, <2>1 DEF CallExpires
<1>15. CASE DeliverCancel(j, l)
  <2>1. at \in DOMAIN Asking /\ "cancelled" \in DOMAIN Judging /\ Judging["cancelled"] = 0
    BY <1>15 DEF DeliverCancel, Suspended, Asking, Judging
  <2>2. StepsLeft(lane[j][l]) \in 12..30
    BY <1>1, <2>1, RanksTyped
  <2> QED
    BY <1>1, <1>15, <2>1, <2>2, LeavesAdvances DEF DeliverCancel
<1>16. CASE CheckAnswer(j, l)
  <2>1. at = "answered" /\ at \in DOMAIN Asking /\ UNCHANGED task
    BY <1>16 DEF CheckAnswer, Runs, Asking
  <2>2. StepsLeft(lane[j][l]) \in 12..30
    BY <1>1, <2>1, RanksTyped
  <2>3. CASE Fails(j, l, "DEADLINE_EXCEEDED")
    BY <1>2, <1>4, <2>1, <2>3
  <2>4. CASE Leaves(j, l, "ok")
    <3>1. "ok" \in DOMAIN Judging /\ Judging["ok"] = 10
      BY DEF Judging
    <3> QED
      BY <1>1, <2>1, <2>2, <2>4, <3>1, LeavesAdvances
  <2>5. ASSUME why \in {"malformed", "invalid"}, lane[j][l].spent = "none",
               lane' = [lane EXCEPT ![j][l] = [at |-> "guard", why |-> "none", spent |-> why]]
        PROVE  RunMoves(i)
    <3> DEFINE q == [at |-> "guard", why |-> "none", spent |-> why]
    <3>1. q \in Lane /\ StepsLeft(q) = 18
      BY <2>5 DEF Lane, LaneAts, PhaseAts, Codes, StepsLeft, Asking
    <3>2. StepsLeft(lane[j][l]) = 22
      BY <2>1, <2>5 DEF StepsLeft, Asking
    <3> HIDE DEF q
    <3>3. OneLane(j, l) /\ lane'[j][l] = q
      BY <1>1, <2>5, <3>1, SetLane DEF q
    <3> QED
      BY <1>1, <2>1, <3>1, <3>2, <3>3, StepAdvances
  <2>6. why \in {"valid", "malformed", "invalid", "oversized", "error"}
    BY <2>1, EngineAssumption DEF EngineInv, JobInv, ReasonsOf
  <2>7. ASSUME why # "valid", Fails(j, l, Failure[why]) PROVE RunMoves(i)
    <3>1. Failure[why] \in Codes
      BY <2>6, <2>7 DEF Failure, Codes
    <3> QED
      BY <1>2, <2>1, <2>7, <3>1
  <2> QED
    BY <1>16, <2>3, <2>4, <2>5, <2>6, <2>7 DEF CheckAnswer
<1> QED
  BY <1>6, <1>7, <1>8, <1>9, <1>10, <1>11, <1>12, <1>13, <1>14, <1>15, <1>16 DEF LaneStep, Phase

LEMMA BranchStepAdvances ==
  ASSUME TypeOK, NEW j \in Jobs, NEW b \in Branches, BranchStep(j, b), NEW i \in Jobs
  PROVE  RunMoves(i)
<1>1. b \in Lanes /\ lane[j][b] \in Lane
  BY LanesAre, Typed
<1>2. CASE BranchStarts(j, b)
  <2>1. lane[j][b].at = "created" /\ UNCHANGED task
    BY <1>2 DEF BranchStarts, Suspended
  <2>2. StepsLeft(lane[j][b]) \in 12..30
    BY <1>1, <2>1, RanksTyped DEF Asking
  <2>3. CASE Leaves(j, b, "cancelled")
    <3>1. "cancelled" \in DOMAIN Judging /\ Judging["cancelled"] = 0
      BY DEF Judging
    <3> QED
      BY <1>1, <2>1, <2>2, <2>3, <3>1, LeavesAdvances
  <2>4. CASE At(j, b, "guard")
    <3>1. /\ "guard" \in DOMAIN Asking /\ "created" \in DOMAIN Asking
          /\ Asking["guard"] < Asking["created"] /\ "guard" \in LaneAts
      BY DEF Asking, LaneAts, PhaseAts
    <3> QED
      BY <1>1, <2>1, <2>4, <3>1, AtAdvances
  <2> QED
    BY <1>2, <2>3, <2>4 DEF BranchStarts
<1>3. CASE BranchEnds(j, b)
  <2>1. lane[j][b].at \in {"ok", "failed"} /\ UNCHANGED task
    BY <1>3 DEF BranchEnds
  <2>2. StepsLeft(lane[j][b]) \in 5..11
    BY <1>1, <2>1, RanksTyped DEF Asking, Judging
  <2>3. \A at \in LaneEnds : at \in DOMAIN Judging /\ Judging[at] = 0
    BY DEF Judging, LaneEnds
  <2>4. PICK at \in LaneEnds : Leaves(j, b, at)
    BY <1>3 DEF BranchEnds, LaneEnds
  <2> QED
    BY <1>1, <2>1, <2>2, <2>3, <2>4, LeavesAdvances
<1> QED
  BY <1>2, <1>3 DEF BranchStep

LEMMA TaskStepAdvances ==
  ASSUME TypeOK, NEW j \in Jobs, TaskStep(j), NEW i \in Jobs, Live(i)
  PROVE  RunMoves(i)
<1> DEFINE r == lane[j][Main]
<1>1. Main \in Lanes /\ r \in Lane /\ task[j] \in Task /\ task \in [Jobs -> Task]
      /\ lane \in [Jobs -> [Lanes -> Lane]]
  BY LanesAre, Typed
<1>2. ASSUME NEW code \in Codes \intersect Hopeless, Fails(j, Main, code), UNCHANGED task,
             r.at \in {"idle", "ok", "store", "stored", "partial", "settle_partial"}
      PROVE  RunMoves(i)
  <2>1. StepsLeft(r) > 5
    BY <1>2 DEF StepsLeft, Asking, Judging
  <2> QED
    BY <1>1, <1>2, <2>1, FailsAdvances
<1>3. ASSUME NEW at \in DOMAIN Judging, At(j, Main, at), UNCHANGED task,
             StepsLeft(r) > Judging[at]
      PROVE  RunMoves(i)
  <2>1. at \in LaneAts
    BY <1>3 DEF Judging, LaneAts, Resting, LaneEnds
  <2> QED
    BY <1>1, <1>3, <2>1, AtAdvances
<1>4. {"DEADLINE_EXCEEDED", "FENCED", "STALE_ATTEMPT", "OTHER"} \subseteq Codes \intersect Hopeless
  BY DEF Codes, Hopeless
<1>5. r.at \in DOMAIN Judging => StepsLeft(r) = Judging[r.at]
  BY DEF StepsLeft, Asking, Judging
<1>6. ASSUME NEW phase \in {"frame", "fork", "rollout", "critique", "synthesis", "done", "cancelled"},
             task'[j].at = phase, PhasesLeft[phase] < PhasesLeft[task[j].at],
             \A m \in Jobs : m # j => task'[m] = task[m] /\ lane'[m] = lane[m]
      PROVE  RunMoves(i)
  BY <1>6, PhaseAdvances
<1>8. CASE TaskOver(j)
  <2>1. \A m \in Jobs : m # j => task'[m] = task[m] /\ lane'[m] = lane[m]
    BY <1>8, <1>1 DEF TaskOver
  <2>2. task'[j].at = "done"
    BY <1>8, <1>1 DEF TaskOver
  <2>3. Live(j) => PhasesLeft["done"] < PhasesLeft[task[j].at]
    BY <1>1 DEF Live, PhasesLeft, Task
  <2> QED
    BY <2>1, <2>2, <2>3, PhaseAdvances
<1>9. ASSUME NEW phase \in {"fork", "critique", "synthesis"}, Begin(j, phase),
             PhasesLeft[phase] < PhasesLeft[task[j].at]
      PROVE  RunMoves(i)
  <2>1. \A m \in Jobs : m # j => task'[m] = task[m] /\ lane'[m] = lane[m]
    BY <1>9, <1>1 DEF Begin, Leaves
  <2>2. task'[j].at = phase
    BY <1>9, <1>1 DEF Begin, Task
  <2> QED
    BY <1>6, <1>9, <2>1, <2>2
<1>10. CASE Starts(j)
  <2>1. \A m \in Jobs : m # j => task'[m] = task[m] /\ lane'[m] = lane[m]
    BY <1>10, <1>1 DEF Starts, At
  <2>2. task[j].at = "created" /\ task'[j].at \in {"cancelled", "frame"}
    BY <1>10, <1>1 DEF Starts, Task
  <2>3. \A p \in {"cancelled", "frame"} : PhasesLeft[p] < PhasesLeft["created"]
    BY DEF PhasesLeft
  <2> QED
    BY <1>6, <2>1, <2>2, <2>3
<1>11. CASE Gather(j)
  <2>1. r.at = "idle" /\ UNCHANGED task
    BY <1>11 DEF Gather, Suspended
  <2>2. /\ {"idle", "cancelled", "ok"} \subseteq DOMAIN Judging
        /\ Judging["cancelled"] < Judging["idle"] /\ Judging["ok"] < Judging["idle"]
    BY DEF Judging
  <2>3. StepsLeft(r) = Judging["idle"]
    BY <1>5, <2>1, <2>2
  <2> QED
    BY <1>2, <1>3, <1>4, <1>11, <2>1, <2>2, <2>3 DEF Gather
<1>12. CASE Checkpoint(j)
  <2>1. r.at = "ok" /\ UNCHANGED task
    BY <1>12 DEF Checkpoint, Runs
  <2>2. {"ok", "store"} \subseteq DOMAIN Judging /\ Judging["store"] < Judging["ok"]
    BY DEF Judging
  <2> QED
    BY <1>2, <1>3, <1>4, <1>5, <1>12, <2>1, <2>2 DEF Checkpoint, GuardThen
<1>13. CASE Store(j)
  <2>1. r.at = "store" /\ UNCHANGED task
    BY <1>13 DEF Store, Runs
  <2>2. {"stored", "store"} \subseteq DOMAIN Judging /\ Judging["stored"] < Judging["store"]
    BY DEF Judging
  <2> QED
    BY <1>2, <1>3, <1>4, <1>5, <1>13, <2>1, <2>2 DEF Store
<1>14. ASSUME Leaves(j, Main, "partial"), r.at \in {"store", "stored"}, UNCHANGED task
       PROVE  RunMoves(i)
  <2>1. /\ {"store", "stored", "partial"} \subseteq DOMAIN Judging
        /\ Judging["partial"] < Judging["stored"] /\ Judging["partial"] < Judging["store"]
    BY DEF Judging
  <2> QED
    BY <1>1, <1>5, <1>14, <2>1, LeavesAdvances
<1>15. CASE AfterFrame(j)
  <2>1. r.at = "stored" /\ task[j].at = "frame" /\ PhasesLeft["fork"] < PhasesLeft["frame"]
    BY <1>15 DEF AfterFrame, Stored, Runs, PhasesLeft
  <2> QED
    BY <1>9, <1>14, <1>15, <2>1 DEF AfterFrame
<1>16. CASE AfterFork(j)
  <2>1. r.at = "stored" /\ task[j].at = "fork" /\ PhasesLeft["rollout"] < PhasesLeft["fork"]
    BY <1>16 DEF AfterFork, Stored, Runs, PhasesLeft
  <2>2. CASE clock[j] # "early"
    BY <1>14, <1>16, <2>1, <2>2 DEF AfterFork
  <2>3. CASE clock[j] = "early"
    <3>1. \A m \in Jobs : m # j => task'[m] = task[m] /\ lane'[m] = lane[m]
      BY <1>16, <1>1, <2>3 DEF AfterFork
    <3>2. task'[j].at = "rollout"
      BY <1>16, <1>1, <2>3 DEF AfterFork, Task
    <3> QED
      BY <1>6, <2>1, <3>1, <3>2
  <2> QED
    BY <2>2, <2>3
<1>17. CASE JudgeRollouts(j)
  <2>1. r.at = "store" /\ task[j].at = "rollout" /\ PhasesLeft["critique"] < PhasesLeft["rollout"]
    BY <1>17 DEF JudgeRollouts, Runs, PhasesLeft
  <2>2. {"store", "partial"} \subseteq DOMAIN Judging /\ Judging["partial"] < Judging["store"]
    BY DEF Judging
  <2> QED
    BY <1>2, <1>3, <1>4, <1>5, <1>9, <1>17, <2>1, <2>2 DEF JudgeRollouts
<1>18. CASE AfterCritique(j)
  <2>1. task[j].at = "critique" /\ PhasesLeft["synthesis"] < PhasesLeft["critique"]
    BY <1>18 DEF AfterCritique, Stored, PhasesLeft
  <2> QED
    BY <1>9, <1>18, <2>1 DEF AfterCritique
<1>19. CASE AfterSynthesis(j)
  <2>1. r.at = "stored" /\ UNCHANGED task
    BY <1>19 DEF AfterSynthesis, Stored, Runs
  <2>2. /\ {"stored", "settle", "partial"} \subseteq DOMAIN Judging
        /\ Judging["settle"] < Judging["stored"] /\ Judging["partial"] < Judging["stored"]
    BY DEF Judging
  <2>3. ASSUME NEW at \in {"settle", "partial"}, At(j, Main, at) PROVE RunMoves(i)
    BY <1>3, <1>5, <2>1, <2>2, <2>3
  <2> QED
    BY <1>2, <1>4, <1>19, <2>1, <2>3 DEF AfterSynthesis, GuardThen
<1>20. CASE Salvage(j)
  <2>1. r.at = "failed" /\ UNCHANGED task
    BY <1>20 DEF Salvage, Runs
  <2>2. r.why \notin Hopeless
    BY <1>1, <1>20 DEF Salvage, Salvaged, Hopeless, Task
  <2>3. StepsLeft(r) = 11
    BY <1>1, <2>1, <2>2, RanksTyped
  <2>4. \A at \in {"partial", "ok"} : at \in DOMAIN Judging /\ 11 > Judging[at]
    BY DEF Judging
  <2>5. PICK at \in {"partial", "ok"} : Leaves(j, Main, at)
    BY <1>20 DEF Salvage
  <2> QED
    BY <1>1, <2>1, <2>3, <2>4, <2>5, LeavesAdvances
<1>21. CASE StorePartial(j)
  <2>1. r.at = "partial" /\ UNCHANGED task
    BY <1>21 DEF StorePartial, Runs
  <2>2. /\ {"partial", "settle_partial"} \subseteq DOMAIN Judging
        /\ Judging["settle_partial"] < Judging["partial"]
    BY DEF Judging
  <2> QED
    BY <1>2, <1>3, <1>4, <1>5, <1>21, <2>1, <2>2 DEF StorePartial
<1>22. CASE SettlePartial(j)
  <2>1. r.at = "settle_partial"
    BY <1>22 DEF SettlePartial, Runs
  <2> QED
    BY <1>2, <1>4, <1>8, <1>22, <2>1 DEF SettlePartial
<1>23. CASE SettleSuccess(j) \/ RunFails(j) \/ RunCancelled(j)
  BY <1>8, <1>23 DEF SettleSuccess, RunFails, RunCancelled
<1> QED
  BY <1>10, <1>11, <1>12, <1>13, <1>15, <1>16, <1>17, <1>18, <1>19, <1>20, <1>21, <1>22, <1>23
     DEF TaskStep, Continue

LEMMA RunStep ==
  ASSUME EngineInv, [Next]_vars, NEW i \in Jobs, Live(i)
  PROVE  RunMoves(i)
<1>1. TypeOK /\ task[i] \in Task /\ task \in [Jobs -> Task]
  BY Typed DEF EngineInv
<1>2. ASSUME UNCHANGED <<task, lane>> PROVE RunMoves(i)
  BY <1>2, RestAdvances
<1>3. ASSUME NEW j \in Jobs, NEW l \in Lanes, LaneStep(j, l) PROVE RunMoves(i)
  BY <1>3, LaneStepAdvances
<1>4. ASSUME NEW j \in Jobs, NEW b \in Branches, BranchStep(j, b) PROVE RunMoves(i)
  BY <1>1, <1>4, BranchStepAdvances
<1>5. ASSUME NEW j \in Jobs, TaskStep(j) PROVE RunMoves(i)
  BY <1>1, <1>5, TaskStepAdvances
<1>6. ASSUME NEW j \in Jobs, Submit(j) \/ ClockPasses(j) PROVE RunMoves(i)
  BY <1>2, <1>6 DEF Submit, ClockPasses
<1>7. ASSUME NEW j \in Jobs, Cancel(j) PROVE RunMoves(i)
  <2>1. task'[i].at = task[i].at /\ UNCHANGED lane
    BY <1>1, <1>7 DEF Cancel, Task
  <2> QED
    BY <2>1, RestAdvances
<1>8. CASE Stop
  <2>1. task'[i].at = task[i].at /\ UNCHANGED lane
    BY <1>1, <1>8 DEF Stop, Task
  <2> QED
    BY <2>1, RestAdvances
<1>9. ASSUME NEW w \in Workers, NEW j \in Jobs, Claim(w, j) PROVE RunMoves(i)
  <2>1. job[j].state = "queued" /\ UNCHANGED lane
    BY <1>9 DEF Claim
  <2>2. j # i
    <3>1. StageOf(i)
      BY DEF EngineInv, JobInv
    <3> QED
      BY <1>1, <2>1, <3>1 DEF StageOf, Live, Running, Task
  <2>3. task'[i] = task[i]
    BY <1>1, <1>9, <2>2 DEF Claim
  <2> QED
    BY <2>1, <2>3, RestAdvances
<1>10. ASSUME NEW w \in Workers, WorkerWakes(w) PROVE RunMoves(i)
  <2>1. task[worker[w]].at \in {"done", "cancelled"} /\ UNCHANGED lane
    BY <1>10 DEF WorkerWakes
  <2>2. worker[w] # i
    BY <2>1 DEF Live
  <2>3. task'[i] = task[i]
    BY <1>1, <1>10, <2>2 DEF WorkerWakes
  <2> QED
    BY <2>1, <2>3, RestAdvances
<1>11. CASE ProcessEnds
  <2>1. task'[i].at = "none"
    BY <1>11 DEF ProcessEnds, NoTask
  <2>2. PhasesLeft["none"] < PhasesLeft[task[i].at]
    BY <1>1 DEF Live, PhasesLeft, Task
  <2> QED
    BY <2>1, <2>2 DEF RunMoves
<1>12. ASSUME NEW k \in {"serial", "rollout"}, DetachedEnds(k) PROVE RunMoves(i)
  BY <1>2, <1>12 DEF DetachedEnds
<1>13. CASE Restart
  BY <1>2, <1>13 DEF Restart
<1>14. CASE UNCHANGED vars
  BY <1>2, <1>14 DEF vars
<1> QED
  BY <1>3, <1>4, <1>5, <1>6, <1>7, <1>8, <1>9, <1>10, <1>11, <1>12, <1>13, <1>14
     DEF Next, WorkerStep, Stopped, Crash

\* A run cannot go round in circles: every step of a job that a task runs, of its phases, its
\* branches, a repair, a cancellation, a stop or a crash, brings it nearer to its end, and what
\* others do does not set it back.
THEOREM RunsAreFinite == Spec => RunAdvances
<1> DEFINE Step(j) == Live(j) =>
             /\ PhasesLeft[task[j].at] \in 1..6
             /\ \A l \in Lanes : StepsLeft(lane[j][l]) \in 0..30
             /\ RunMoves(j)
<1>1. EngineInv /\ [Next]_vars => \A j \in Jobs : Step(j)
  <2> SUFFICES ASSUME EngineInv, [Next]_vars, NEW j \in Jobs, Live(j)
               PROVE  Step(j)
    OBVIOUS
  <2>1. task[j] \in Task /\ \A l \in Lanes : lane[j][l] \in Lane
    BY Typed DEF EngineInv
  <2>2. PhasesLeft[task[j].at] \in 1..6
    BY <2>1 DEF Live, PhasesLeft, Task
  <2> QED
    BY <2>1, <2>2, RanksTyped, RunStep
<1> QED
  BY <1>1, EngineInvariant, PTL DEF Spec, RunAdvances

=============================================================================
