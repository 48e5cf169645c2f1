---------------------------- MODULE SkillsProofs ----------------------------
(***************************************************************************)
(* Proof that the installer destroys nobody's bytes, for any releases,     *)
(* paths, processes, failing calls, crashes and edits.  A process may      *)
(* remove a file only after it has looked at what it moved aside, so the   *)
(* argument follows what each process believes to be at a path: where it   *)
(* saw somebody else's bytes, what it wants there and what it would        *)
(* restore are those bytes too, and the walk passes over the path.         *)
(* Inode numbers play no part: what counts is that what is unlinked equals *)
(* what was believed, bytes included.                                      *)
(***************************************************************************)
EXTENDS SkillsInstaller, TLAPS

Fields ==
  {"pc", "outcome", "op", "ver", "plan", "snap", "goal", "here", "moved", "put", "i", "at",
   "created", "broken", "unread", "before", "disturbed"}

\* What a process that has begun believes of a path is somebody else's if and only if what it
\* wants there is, and what it would restore there.
Snapshots(r) ==
  /\ DOMAIN r.here = Managed
  /\ \A p \in Managed : /\ r.here[p].data = Foreign <=> r.goal[p] = Foreign
                        /\ r.here[p].data = Foreign <=> r.snap[p].data = Foreign

Begun(r) == r.pc \in {"accepted", "forward"} \/ (r.pc = "back" /\ r.i # 0)

\* A process in the middle of a file is at a path it saw no foreign bytes at.
AtOwnPath(r) ==
  r.pc \in {"forward", "back"} /\ r.i \in 1..Len(Order) /\ r.here[Order[r.i]].data # Foreign

Good(r) ==
  /\ DOMAIN r = Fields
  /\ r.pc \in {"planned", "opened", "locked", "accepted"} => r.i = 0
  /\ r.pc \in {"planned", "opened", "locked"} => r.ver \in Versions
  /\ Begun(r) => Snapshots(r)
  /\ r.at # "pick" => AtOwnPath(r)
  /\ r.at = "remove" => r.moved = r.here[Order[r.i]]
  /\ r.at = "check" => r.put.data # Foreign

SkillsInv ==
  /\ DOMAIN file = Managed /\ DOMAIN aside = Managed /\ DOMAIN proc = Processes
  /\ edits \in Nat
  /\ \A m \in Processes : Good(proc[m])

-----------------------------------------------------------------------------
(* Records of a process *)

\* A process that has not begun or has ended is at no file.
LEMMA IdleGood ==
  \A outcome : \A pc \in {"idle", "ended"} : Good(Idle(pc, outcome))
BY DEF Good, Idle, Fields, Begun

\* An error in a mutation that holds the lock keeps the beliefs and leaves the file it was at.
LEMMA FailedGood ==
  \A r : Good(r) /\ (Begun(r) \/ r.pc = "locked") => Good(Failed(r)) /\ Good(FailedBroken(r))
<1>1. SUFFICES ASSUME NEW r, Good(r), Begun(r) \/ r.pc = "locked"
               PROVE  Good(Failed(r)) /\ Good(FailedBroken(r))
  OBVIOUS
<1>2. /\ DOMAIN Failed(r) = Fields /\ Failed(r).at = "pick" /\ Failed(r).pc = "back"
      /\ Failed(r).here = r.here /\ Failed(r).goal = r.goal /\ Failed(r).snap = r.snap
  BY <1>1 DEF Good, Failed, Fields
<1>3. /\ DOMAIN FailedBroken(r) = Fields
      /\ FailedBroken(r).at = "pick" /\ FailedBroken(r).pc = "back"
      /\ FailedBroken(r).here = r.here /\ FailedBroken(r).goal = r.goal
      /\ FailedBroken(r).snap = r.snap /\ FailedBroken(r).i = Failed(r).i
  BY <1>2 DEF FailedBroken, Fields
<1>4. CASE Begun(r)
  <2>1. Snapshots(r)
    BY <1>1, <1>4 DEF Good
  <2>2. Snapshots(Failed(r)) /\ Snapshots(FailedBroken(r))
    BY <1>2, <1>3, <2>1 DEF Snapshots
  <2>3. QED
    BY <1>2, <1>3, <2>2 DEF Good
<1>5. CASE r.pc = "locked"
  <2>1. r.i = 0
    BY <1>1, <1>5 DEF Good
  <2>2. Failed(r).i = 0
    BY <1>1, <1>5, <2>1, OrderAssumption DEF Good, Failed, Fields
  <2>3. ~Begun(Failed(r)) /\ ~Begun(FailedBroken(r))
    BY <1>2, <1>3, <2>2 DEF Begun
  <2>4. QED
    BY <1>2, <1>3, <2>3 DEF Good
<1>6. QED
  BY <1>1, <1>4, <1>5

\* Fields no belief depends on.
LEMMA SameBeliefs ==
  \A r, s :
    /\ Good(r) /\ DOMAIN s = Fields /\ s.pc = r.pc /\ s.i = r.i /\ s.ver = r.ver
    /\ s.here = r.here /\ s.goal = r.goal /\ s.snap = r.snap
    /\ s.at \in {"pick", r.at}
    /\ s.at = "pick" \/ (s.moved = r.moved /\ s.put = r.put)
    => Good(s)
<1>1. SUFFICES ASSUME NEW r, NEW s, Good(r), DOMAIN s = Fields, s.pc = r.pc, s.i = r.i,
                      s.ver = r.ver, s.here = r.here, s.goal = r.goal, s.snap = r.snap,
                      s.at \in {"pick", r.at},
                      s.at = "pick" \/ (s.moved = r.moved /\ s.put = r.put)
               PROVE  Good(s)
  OBVIOUS
<1>2. (Begun(s) <=> Begun(r)) /\ (Snapshots(s) <=> Snapshots(r)) /\ (AtOwnPath(s) <=> AtOwnPath(r))
  BY <1>1 DEF Begun, Snapshots, AtOwnPath
<1>3. QED
  BY <1>1, <1>2 DEF Good

\* A process that loses the root it opened has begun nothing.
LEMMA OrphanGood == \A r : Good(r) => Good(Orphaned(r))
<1>1. SUFFICES ASSUME NEW r, Good(r), r.pc = "opened" PROVE Good([r EXCEPT !.pc = "orphaned"])
  BY DEF Orphaned
<1>2. DEFINE s == [r EXCEPT !.pc = "orphaned"]
<1>3. DOMAIN s = Fields /\ s.pc = "orphaned" /\ s.at = r.at
  BY <1>1 DEF Good, Fields
<1>4. s.at = "pick"
  BY <1>1, <1>3 DEF Good, AtOwnPath
<1>5. QED
  BY <1>3, <1>4 DEF Good, Begun

-----------------------------------------------------------------------------
(* What a step of one process does *)

\* m is left in a good record; at most another process loses the root it has opened.
Acts(m) ==
  /\ DOMAIN proc' = Processes /\ Good(proc'[m])
  /\ \A n \in Processes \ {m} : proc'[n] \in {proc[n], Orphaned(proc[n])}

\* The tree keeps its paths and what somebody else wrote.
Keeps ==
  /\ DOMAIN file' = Managed /\ DOMAIN aside' = Managed
  /\ \A p \in Managed : ForeignAt(p) \subseteq ForeignAt(p)'

LEMMA TreeUntouched == SkillsInv /\ UNCHANGED <<file, aside>> => Keeps
BY DEF SkillsInv, Keeps, ForeignAt

\* The steps that only look.
LEMMA LookingKeeps ==
  ASSUME SkillsInv, NEW m \in Processes,
         \/ \E v \in Versions : Plan(m, v) \/ Ask(m, v)
         \/ OpenRoot(m) \/ Flock(m) \/ MissRoot(m) \/ AcceptInstall(m) \/ MakeParents(m) \/ AcceptUninstall(m)
         \/ Pick(m) \/ Verify(m) \/ Abandon(m) \/ Crash(m)
  PROVE  Keeps
<1>1. UNCHANGED <<file, aside>>
  BY DEF Plan, Ask, OpenRoot, Flock, MissRoot, AcceptInstall, MakeParents, AcceptUninstall, Pick,
         Verify, Abandon, Crash
<1>2. QED
  BY <1>1, TreeUntouched

LEMMA EndActs ==
  ASSUME SkillsInv, NEW m \in Processes, NEW outcome, End(m, outcome)
  PROVE  Acts(m)
<1>1. proc' = [proc EXCEPT ![m] = Idle("ended", outcome)]
  BY DEF End, Become
<1>2. QED
  BY <1>1, IdleGood DEF SkillsInv, Acts

\* Before the first file: the plan, the root and the lock.
LEMMA EntryActs ==
  ASSUME SkillsInv, NEW m \in Processes,
         (\E v \in Versions : Plan(m, v) \/ Ask(m, v)) \/ OpenRoot(m) \/ Flock(m) \/ MissRoot(m)
  PROVE  Acts(m)
<1>1. ASSUME NEW v \in Versions, Plan(m, v) PROVE Acts(m)
  <2>1. CASE Admits(v)
    <3>1. DEFINE s == [Idle("planned", "none") EXCEPT !.op = "install", !.ver = v,
                                                      !.plan = Classes(v)]
    <3>2. Become(m, s)
      BY <1>1, <2>1 DEF Plan
    <3>3. Good(s)
      BY DEF Good, Idle, Fields, Begun
    <3>4. QED
      BY <3>2, <3>3 DEF SkillsInv, Acts, Become
  <2>2. CASE ~Admits(v)
    BY <1>1, <2>2, EndActs DEF Plan
  <2>3. QED
    BY <2>1, <2>2
<1>2. ASSUME NEW v \in Versions, Ask(m, v) PROVE Acts(m)
  <2>1. CASE Root \in dirs
    <3>1. DEFINE s == [Idle("planned", "none") EXCEPT !.op = "uninstall", !.ver = v]
    <3>2. Become(m, s)
      BY <1>2, <2>1 DEF Ask
    <3>3. Good(s)
      BY DEF Good, Idle, Fields, Begun
    <3>4. QED
      BY <3>2, <3>3 DEF SkillsInv, Acts, Become
  <2>2. CASE Root \notin dirs
    BY <1>2, <2>2, EndActs DEF Ask
  <2>3. QED
    BY <2>1, <2>2
<1>3. CASE OpenRoot(m)
  <2>1. Good(proc[m]) /\ proc[m].pc = "planned" /\ proc[m].i = 0 /\ proc[m].ver \in Versions
    BY <1>3 DEF SkillsInv, OpenRoot, Good
  <2>2. CASE End(m, "refused")
    BY <2>2, EndActs
  <2>3. CASE ~End(m, "refused")
    <3>1. DEFINE s == [proc[m] EXCEPT !.pc = "opened", !.created = {Root} \ dirs]
    <3>2. Become(m, s)
      BY <1>3, <2>3 DEF OpenRoot
    <3>3. DOMAIN s = Fields /\ s.pc = "opened" /\ s.i = 0 /\ s.at = proc[m].at /\ s.ver = proc[m].ver
      BY <2>1 DEF Good, Fields
    <3>4. proc[m].at = "pick"
      BY <2>1 DEF Good, AtOwnPath
    <3>5. Good(s)
      BY <2>1, <3>3, <3>4 DEF Good, Begun
    <3>6. QED
      BY <3>2, <3>5 DEF SkillsInv, Acts, Become
  <2>4. QED
    BY <2>2, <2>3
<1>4. CASE Flock(m)
  <2>1. Good(proc[m]) /\ proc[m].pc = "opened" /\ proc[m].i = 0 /\ proc[m].ver \in Versions
    BY <1>4 DEF SkillsInv, Flock, Good
  <2>2. CASE End(m, "busy")
    BY <2>2, EndActs
  <2>3. CASE ~End(m, "busy")
    <3>1. DEFINE s == [proc[m] EXCEPT !.pc = "locked",
                         !.before = [data |-> [p \in Managed |-> file[p].data],
                                     dirs |-> dirs \ proc[m].created, aside |-> aside]]
    <3>2. Become(m, s)
      BY <1>4, <2>3 DEF Flock
    <3>3. DOMAIN s = Fields /\ s.pc = "locked" /\ s.i = 0 /\ s.at = proc[m].at /\ s.ver = proc[m].ver
      BY <2>1 DEF Good, Fields
    <3>4. proc[m].at = "pick"
      BY <2>1 DEF Good, AtOwnPath
    <3>5. Good(s)
      BY <2>1, <3>3, <3>4 DEF Good, Begun
    <3>6. QED
      BY <3>2, <3>5 DEF SkillsInv, Acts, Become
  <2>4. QED
    BY <2>2, <2>3
<1>5. CASE MissRoot(m)
  BY <1>5, EndActs DEF MissRoot
<1>6. QED
  BY <1>1, <1>2, <1>3, <1>4, <1>5

\* A version's own bytes are nobody else's.
LEMMA OwnBytes ==
  /\ NoFile.data # Foreign
  /\ \A v \in Versions : /\ \A p \in Managed : Target(v, p) # Foreign
                         /\ \A p \in Paths(v) : p \in Managed /\ Payload[v][p] # Foreign
BY ForeignAssumption DEF NoFile, Target, Paths

\* What the classification admits at the paths of a release is not somebody else's.
LEMMA AdmittedIsOwn ==
  ASSUME NEW v \in Versions, Admits(v), NEW p \in Paths(v) \union {Receipt}
  PROVE  file[p].data # Foreign
<1>1. file[Receipt] = NoFile \/ file[Receipt].data \in Versions
  BY VersionAssumption DEF Admits, Valid
<1>2. CASE p = Receipt
  BY <1>1, <1>2, OwnBytes, ForeignAssumption
<1>3. CASE p \in Paths(v)
  <2>1. Class(v, p) # "DIVERGED" /\ p \in Managed
    BY <1>3 DEF Admits, Paths
  <2>2. CASE file[Receipt] = NoFile
    BY <2>1, <2>2, OwnBytes DEF Class
  <2>3. CASE file[Receipt] # NoFile
    <3>1. Payload[file[Receipt].data][p] # Foreign
      BY <1>1, <2>1, <2>3, ForeignAssumption
    <3>2. QED
      BY <2>1, <2>3, <3>1, OwnBytes DEF Class
  <2>4. QED
    BY <2>2, <2>3
<1>4. QED
  BY <1>2, <1>3

\* Both acceptances take their snapshots where no owned path is somebody else's.
LEMMA AcceptActs ==
  ASSUME SkillsInv, NEW m \in Processes,
         AcceptInstall(m) \/ MakeParents(m) \/ AcceptUninstall(m)
  PROVE  Acts(m)
<1>1. DEFINE r == proc[m]
<1>2. Good(r) /\ (r.pc = "locked" => r.ver \in Versions)
  BY DEF SkillsInv, Good
<1>3. CASE AcceptInstall(m)
  <2>1. r.pc = "locked" /\ r.ver \in Versions /\ r.i = 0 /\ r.at = "pick"
    BY <1>2, <1>3 DEF AcceptInstall, Good, AtOwnPath
  <2>2. CASE Become(m, Failed(r))
    BY <1>2, <2>1, <2>2, FailedGood DEF SkillsInv, Acts, Become
  <2>3. CASE ~Become(m, Failed(r))
    <3>1. DEFINE goal == [p \in Managed |-> IF p \in Paths(r.ver) \union {Receipt}
                                            THEN Target(r.ver, p) ELSE file[p].data]
                 s == [r EXCEPT !.pc = "accepted", !.plan = <<>>, !.snap = file, !.here = file,
                                !.goal = goal]
    <3>2. Admits(r.ver) /\ Become(m, s)
      BY <1>3, <2>3 DEF AcceptInstall
    <3>3. /\ DOMAIN s = Fields /\ s.pc = "accepted" /\ s.i = 0 /\ s.at = "pick"
          /\ s.here = file /\ s.snap = file /\ s.goal = goal
      BY <1>2, <2>1 DEF Good, Fields
    <3>4. ASSUME NEW p \in Managed PROVE file[p].data = Foreign <=> goal[p] = Foreign
      <4>1. CASE p \in Paths(r.ver) \union {Receipt}
        <5>1. file[p].data # Foreign
          BY <2>1, <3>2, <4>1, AdmittedIsOwn
        <5>2. QED
          BY <2>1, <4>1, <5>1, OwnBytes
      <4>2. CASE p \notin Paths(r.ver) \union {Receipt}
        BY <4>2
      <4>3. QED
        BY <4>1, <4>2
    <3>5. Snapshots(s)
      BY <3>3, <3>4 DEF Snapshots, SkillsInv
    <3>6. Good(s)
      BY <3>3, <3>5 DEF Good
    <3>7. QED
      BY <3>2, <3>6 DEF SkillsInv, Acts, Become
  <2>4. QED
    BY <2>2, <2>3
<1>4. CASE MakeParents(m)
  <2>1. r.pc = "accepted" /\ r.i = 0 /\ r.at = "pick" /\ Snapshots(r)
    BY <1>2, <1>4 DEF MakeParents, Good, AtOwnPath, Begun
  <2>2. DEFINE missing == {DirOf[p] : p \in Paths(r.ver) \union {Receipt}} \ dirs
               made == [r EXCEPT !.created = @ \union missing]
               s == [made EXCEPT !.pc = "forward", !.i = 1]
  <2>3. Good(made) /\ made.pc = "accepted"
    BY <1>2, <2>1, SameBeliefs DEF Good, Fields
  <2>4. Good(Failed(made))
    BY <2>3, FailedGood DEF Begun
  <2>5. Good(s)
    <3>1. /\ DOMAIN s = Fields /\ s.pc = "forward" /\ s.at = "pick"
          /\ s.here = r.here /\ s.goal = r.goal /\ s.snap = r.snap
      BY <1>2, <2>1 DEF Good, Fields
    <3>2. Snapshots(s)
      BY <2>1, <3>1 DEF Snapshots
    <3>3. QED
      BY <3>1, <3>2 DEF Good
  <2>6. Become(m, s) \/ Become(m, Failed(made))
    BY <1>4 DEF MakeParents
  <2>7. QED
    BY <2>4, <2>5, <2>6 DEF SkillsInv, Acts, Become
<1>5. CASE AcceptUninstall(m)
  <2>1. r.pc = "locked" /\ r.ver \in Versions /\ r.i = 0 /\ r.at = "pick"
    BY <1>2, <1>5 DEF AcceptUninstall, Good, AtOwnPath
  <2>2. CASE Become(m, Failed(r))
    BY <1>2, <2>1, <2>2, FailedGood DEF SkillsInv, Acts, Become
  <2>3. CASE End(m, "absent")
    BY <2>3, EndActs
  <2>4. CASE ~Become(m, Failed(r)) /\ ~End(m, "absent")
    <3>1. DEFINE named == file[Receipt].data
                 owned == Paths(named) \union {Receipt}
                 goal == [p \in Managed |-> IF p \in owned THEN Nothing ELSE file[p].data]
                 s == [r EXCEPT !.pc = "forward", !.i = 1, !.snap = file, !.here = file,
                                !.goal = goal]
    <3>2. /\ Valid(r.ver, file[Receipt]) /\ Become(m, s)
          /\ \A p \in Paths(named) : file[p].data = Payload[named][p]
      BY <1>5, <2>4 DEF AcceptUninstall
    <3>3. /\ DOMAIN s = Fields /\ s.pc = "forward" /\ s.at = "pick"
          /\ s.here = file /\ s.snap = file /\ s.goal = goal
      BY <1>2, <2>1 DEF Good, Fields
    <3>4. named \in Versions
      BY <2>1, <3>2, VersionAssumption DEF Valid
    <3>5. ASSUME NEW p \in Managed PROVE file[p].data = Foreign <=> goal[p] = Foreign
      <4>1. p \in owned => file[p].data # Foreign
        BY <3>2, <3>4, OwnBytes, ForeignAssumption
      <4>2. QED
        BY <4>1, ForeignAssumption
    <3>6. Snapshots(s)
      BY <3>3, <3>5 DEF Snapshots, SkillsInv
    <3>7. Good(s)
      BY <3>3, <3>6 DEF Good
    <3>8. QED
      BY <3>2, <3>7 DEF SkillsInv, Acts, Become
  <2>5. QED
    BY <2>2, <2>3, <2>4
<1>6. QED
  BY <1>3, <1>4, <1>5

-----------------------------------------------------------------------------
(* One file *)

\* What m wants at a path it saw no foreign bytes at is not foreign either.
LEMMA AimIsOwn ==
  \A r, p : Good(r) /\ Begun(r) /\ p \in Managed =>
              (r.here[p].data # Foreign <=> Aim(r, p) # Foreign)
BY DEF Good, Snapshots, Aim

LEMMA WalkingHere ==
  ASSUME SkillsInv, NEW m \in Processes, Walking(m)
  PROVE  /\ Path(m) \in Managed /\ Path(m) = Order[proc[m].i] /\ Begun(proc[m])
         /\ Good(proc[m]) /\ Snapshots(proc[m]) /\ DOMAIN proc[m] = Fields
<1>1. Good(proc[m]) /\ proc[m].i # 0
  BY OrderAssumption DEF SkillsInv, Walking
<1>2. QED
  BY <1>1 DEF Walking, Path, Managed, Begun, Good

\* A file is seen at the path: what is there and what the process would have there agree again.
LEMMA SeenGood ==
  \A r, s, p, f :
    /\ Good(r) /\ Begun(r) /\ p \in Managed /\ r.here[p].data # Foreign /\ f.data # Foreign
    /\ DOMAIN s = Fields /\ s.pc = r.pc /\ s.i = r.i /\ s.ver = r.ver /\ s.at = "pick"
    /\ s.here = [r.here EXCEPT ![p] = f] /\ s.goal = r.goal /\ s.snap = r.snap
    => Good(s)
<1>1. SUFFICES ASSUME NEW r, NEW s, NEW p, NEW f,
                      Good(r), Begun(r), p \in Managed, r.here[p].data # Foreign,
                      f.data # Foreign, DOMAIN s = Fields, s.pc = r.pc, s.i = r.i,
                      s.ver = r.ver, s.at = "pick", s.here = [r.here EXCEPT ![p] = f],
                      s.goal = r.goal, s.snap = r.snap
               PROVE  Good(s)
  OBVIOUS
<1>2. Snapshots(s)
  BY <1>1 DEF Good, Snapshots
<1>3. QED
  BY <1>1, <1>2 DEF Good

\* Choosing the next file.
LEMMA PickActs ==
  ASSUME SkillsInv, NEW m \in Processes, Pick(m)
  PROVE  Acts(m)
<1>1. Walking(m) /\ proc[m].at = "pick"
  BY DEF Pick
<1>2. DEFINE r == proc[m]
             p == Path(m)
<1>3. /\ p \in Managed /\ p = Order[r.i] /\ Begun(r) /\ Good(r) /\ Snapshots(r)
      /\ DOMAIN r = Fields
  BY <1>1, WalkingHere
<1>4. CASE Become(m, Failed(r))
  BY <1>3, <1>4, FailedGood DEF SkillsInv, Acts, Become
<1>5. CASE Settled(r, p)
  <2>1. DEFINE s == [r EXCEPT !.i = IF r.pc = "forward" THEN @ + 1 ELSE @ - 1]
  <2>2. Become(m, s)
    BY <1>5 DEF Pick
  <2>3. /\ DOMAIN s = Fields /\ s.pc = r.pc /\ s.at = "pick"
        /\ s.here = r.here /\ s.goal = r.goal /\ s.snap = r.snap
    BY <1>1, <1>3 DEF Fields
  <2>4. Snapshots(s) /\ s.pc \in {"forward", "back"}
    BY <1>1, <1>3, <2>3 DEF Snapshots, Walking
  <2>5. Good(s)
    BY <2>3, <2>4 DEF Good
  <2>6. QED
    BY <2>2, <2>5 DEF SkillsInv, Acts, Become
<1>6. CASE ~Settled(r, p) /\ ~Become(m, Failed(r))
  <2>1. r.here[p].data # Foreign
    BY <1>3, <1>6 DEF Settled, Aim, Snapshots
  <2>2. CASE \E at \in {"rename", "link"} : Become(m, [r EXCEPT !.at = at])
    <3>1. PICK at \in {"rename", "link"} : Become(m, [r EXCEPT !.at = at])
      BY <2>2
    <3>2. DEFINE s == [r EXCEPT !.at = at]
    <3>3. /\ DOMAIN s = Fields /\ s.pc = r.pc /\ s.i = r.i /\ s.ver = r.ver /\ s.at = at
          /\ s.here = r.here /\ s.goal = r.goal /\ s.snap = r.snap
      BY <1>3 DEF Fields
    <3>4. Snapshots(s) /\ AtOwnPath(s)
      BY <1>1, <1>3, <2>1, <3>3 DEF Snapshots, AtOwnPath, Walking
    <3>5. Good(s)
      BY <1>1, <3>3, <3>4 DEF Good, Walking
    <3>6. QED
      BY <3>1, <3>5 DEF SkillsInv, Acts, Become
  <2>3. CASE r.here[p] = NoFile /\ BackInPlace(r, p) /\ Become(m, [r EXCEPT !.here[p] = file[p]])
    <3>1. DEFINE s == [r EXCEPT !.here[p] = file[p]]
    <3>2. file[p].data # Foreign
      BY <1>3, <2>1, <2>3 DEF BackInPlace, Snapshots
    <3>3. /\ DOMAIN s = Fields /\ s.pc = r.pc /\ s.i = r.i /\ s.ver = r.ver /\ s.at = "pick"
          /\ s.here = [r.here EXCEPT ![p] = file[p]] /\ s.goal = r.goal /\ s.snap = r.snap
      BY <1>1, <1>3 DEF Fields
    <3>4. Good(s)
      BY <1>3, <2>1, <3>2, <3>3, SeenGood
    <3>5. QED
      BY <2>3, <3>4 DEF SkillsInv, Acts, Become
  <2>4. QED
    BY <1>6, <2>2, <2>3 DEF Pick
<1>7. QED
  BY <1>4, <1>5, <1>6

\* Within one file: the beliefs and the place stay.
LEMMA MovesOn ==
  \A r, s :
    /\ Good(r) /\ Begun(r) /\ r.at # "pick"
    /\ DOMAIN s = Fields /\ s.pc = r.pc /\ s.i = r.i /\ s.ver = r.ver
    /\ s.here = r.here /\ s.goal = r.goal /\ s.snap = r.snap
    /\ s.at = "remove" => s.moved = r.here[Order[r.i]]
    /\ s.at = "check" => s.put.data # Foreign
    => Good(s) /\ Begun(s)
<1>1. SUFFICES ASSUME NEW r, NEW s, Good(r), Begun(r), r.at # "pick",
                      DOMAIN s = Fields, s.pc = r.pc, s.i = r.i, s.ver = r.ver,
                      s.here = r.here, s.goal = r.goal, s.snap = r.snap,
                      s.at = "remove" => s.moved = r.here[Order[r.i]],
                      s.at = "check" => s.put.data # Foreign
               PROVE  Good(s) /\ Begun(s)
  OBVIOUS
<1>2. Begun(s) /\ Snapshots(s) /\ AtOwnPath(s)
  BY <1>1 DEF Good, Begun, Snapshots, AtOwnPath
<1>3. QED
  BY <1>1, <1>2 DEF Good

\* A step at one path keeps what somebody else wrote if both places together keep it.
LEMMA OnePathKeeps ==
  ASSUME SkillsInv, NEW p \in Managed,
         DOMAIN file' = Managed, DOMAIN aside' = Managed,
         \A q \in Managed \ {p} : file'[q] = file[q] /\ aside'[q] = aside[q],
         \A f \in {file[p]} \union aside[p] :
           f.data = Foreign => f = file'[p] \/ f \in aside'[p]
  PROVE  Keeps
<1>1. ForeignAt(p) \subseteq ForeignAt(p)'
  BY DEF ForeignAt
<1>2. \A q \in Managed \ {p} : ForeignAt(q) \subseteq ForeignAt(q)'
  BY DEF ForeignAt
<1>3. QED
  BY <1>1, <1>2 DEF Keeps

\* A file is linked, or removed while it is not somebody else's.
LEMMA FileStepKeeps ==
  ASSUME SkillsInv, UNCHANGED aside
  PROVE  \A p \in Managed : \A g :
           file' = [file EXCEPT ![p] = g] /\ file[p].data # Foreign => Keeps
BY OnePathKeeps DEF SkillsInv

\* What is removed from a quarantine name is not somebody else's.
LEMMA AsideStepKeeps ==
  ASSUME SkillsInv, UNCHANGED file
  PROVE  \A p \in Managed : \A f :
           aside' = [aside EXCEPT ![p] = aside[p] \ {f}] /\ f.data # Foreign => Keeps
BY OnePathKeeps DEF SkillsInv

\* A file goes back to a name that is free.
LEMMA PutBackKeeps ==
  ASSUME SkillsInv
  PROVE  \A p \in Managed : \A f : file[p] = NoFile /\ PutBack(p, f) => Keeps
<1>1. SUFFICES ASSUME NEW p \in Managed, NEW f, file[p] = NoFile, PutBack(p, f)
               PROVE  Keeps
  OBVIOUS
<1>2. file' = [file EXCEPT ![p] = f] /\ aside' = [aside EXCEPT ![p] = aside[p] \ {f}]
  BY <1>1 DEF PutBack
<1>3. QED
  BY <1>1, <1>2, OwnBytes, OnePathKeeps DEF SkillsInv

\* Moving a file out of the way and looking at it.
LEMMA AsideStep ==
  ASSUME SkillsInv, NEW m \in Processes, MoveAside(m) \/ Look(m) \/ Remove(m)
  PROVE  Acts(m) /\ Keeps
<1>1. DEFINE r == proc[m]
             p == Path(m)
<1>2. Walking(m) /\ r.at # "pick"
  BY DEF MoveAside, Look, Remove
<1>3. /\ p \in Managed /\ p = Order[r.i] /\ Begun(r) /\ Good(r) /\ Snapshots(r)
      /\ DOMAIN r = Fields /\ r.here[p].data # Foreign
  BY <1>2, WalkingHere DEF Good, AtOwnPath
<1>4. CASE MoveAside(m)
  <2>1. CASE file[p] = NoFile
    <3>1. Keeps
      BY <1>4, <2>1, TreeUntouched DEF MoveAside
    <3>2. Become(m, Failed(r))
      BY <1>4, <2>1 DEF MoveAside
    <3>3. QED
      BY <1>3, <3>1, <3>2, FailedGood DEF SkillsInv, Acts, Become
  <2>2. CASE file[p] # NoFile
    <3>1. DEFINE s == [r EXCEPT !.at = "look", !.moved = file[p]]
    <3>2. /\ Become(m, s) /\ file' = [file EXCEPT ![p] = NoFile]
          /\ aside' = [aside EXCEPT ![p] = aside[p] \union {file[p]}]
      BY <1>4, <2>2 DEF MoveAside
    <3>3. Keeps
      BY <1>3, <3>2, OnePathKeeps DEF SkillsInv
    <3>4. Good(s)
      <4>1. /\ DOMAIN s = Fields /\ s.pc = r.pc /\ s.i = r.i /\ s.ver = r.ver /\ s.at = "look"
            /\ s.here = r.here /\ s.goal = r.goal /\ s.snap = r.snap
        BY <1>3 DEF Fields
      <4>2. QED
        BY <1>2, <1>3, <4>1, MovesOn
    <3>5. QED
      BY <3>2, <3>3, <3>4 DEF SkillsInv, Acts, Become
  <2>3. QED
    BY <2>1, <2>2
<1>5. CASE Look(m)
  <2>1. DEFINE t == [r EXCEPT !.moved = NoFile]
  <2>2. Good(Failed(t)) /\ Good(FailedBroken(t))
    <3>1. /\ DOMAIN t = Fields /\ t.pc = r.pc /\ t.i = r.i /\ t.ver = r.ver /\ t.at = "look"
          /\ t.here = r.here /\ t.goal = r.goal /\ t.snap = r.snap
      BY <1>3, <1>5 DEF Fields, Look
    <3>2. Good(t) /\ Begun(t)
      BY <1>2, <1>3, <3>1, MovesOn
    <3>3. QED
      BY <3>2, FailedGood
  <2>3. CASE SameAs(r, p)
    <3>1. DEFINE s == [r EXCEPT !.at = "remove"]
    <3>2. Become(m, s) /\ UNCHANGED <<file, aside>>
      BY <1>5, <2>3 DEF Look
    <3>3. /\ DOMAIN s = Fields /\ s.pc = r.pc /\ s.i = r.i /\ s.ver = r.ver /\ s.at = "remove"
          /\ s.here = r.here /\ s.goal = r.goal /\ s.snap = r.snap /\ s.moved = r.moved
      BY <1>3 DEF Fields
    <3>4. Good(s)
      BY <1>2, <1>3, <2>3, <3>3, MovesOn DEF SameAs
    <3>5. QED
      BY <3>2, <3>4, TreeUntouched DEF SkillsInv, Acts, Become
  <2>4. CASE ~SameAs(r, p) /\ file[p] = NoFile
    <3>1. PutBack(p, r.moved) /\ Become(m, Failed(t))
      BY <1>5, <2>4 DEF Look
    <3>2. Keeps
      BY <1>3, <2>4, <3>1, PutBackKeeps
    <3>3. QED
      BY <2>2, <3>1, <3>2 DEF SkillsInv, Acts, Become
  <2>5. CASE ~SameAs(r, p) /\ file[p] # NoFile
    <3>1. Become(m, FailedBroken(t)) /\ UNCHANGED <<file, aside>>
      BY <1>5, <2>5 DEF Look
    <3>2. QED
      BY <2>2, <3>1, TreeUntouched DEF SkillsInv, Acts, Become
  <2>6. QED
    BY <2>3, <2>4, <2>5
<1>6. CASE Remove(m)
  <2>1. r.moved.data # Foreign
    BY <1>3, <1>6 DEF Remove, Good
  <2>2. DEFINE s == [r EXCEPT !.at = "pick", !.here[p] = NoFile, !.moved = NoFile]
  <2>3. /\ Become(m, s) /\ UNCHANGED file
        /\ aside' = [aside EXCEPT ![p] = aside[p] \ {r.moved}]
    BY <1>6 DEF Remove
  <2>4. Keeps
    BY <1>3, <2>1, <2>3, AsideStepKeeps
  <2>5. /\ DOMAIN s = Fields /\ s.pc = r.pc /\ s.i = r.i /\ s.ver = r.ver /\ s.at = "pick"
        /\ s.here = [r.here EXCEPT ![p] = NoFile] /\ s.goal = r.goal /\ s.snap = r.snap
    BY <1>3 DEF Fields
  <2>6. Good(s)
    BY <1>3, <2>5, OwnBytes, SeenGood
  <2>7. QED
    BY <2>3, <2>4, <2>6 DEF SkillsInv, Acts, Become
<1>7. QED
  BY <1>4, <1>5, <1>6

\* Linking the new file and looking at its name.
LEMMA LinkStep ==
  ASSUME SkillsInv, NEW m \in Processes, Link(m) \/ Check(m)
  PROVE  Acts(m) /\ Keeps
<1>1. DEFINE r == proc[m]
             p == Path(m)
<1>2. Walking(m) /\ r.at # "pick"
  BY DEF Link, Check
<1>3. /\ p \in Managed /\ p = Order[r.i] /\ Begun(r) /\ Good(r) /\ Snapshots(r)
      /\ DOMAIN r = Fields /\ r.here[p].data # Foreign
  BY <1>2, WalkingHere DEF Good, AtOwnPath
<1>4. CASE Link(m)
  <2>1. CASE file[p] # NoFile
    <3>1. UNCHANGED <<file, aside>> /\ Become(m, Failed(r))
      BY <1>4, <2>1 DEF Link
    <3>2. QED
      BY <1>3, <3>1, FailedGood, TreeUntouched DEF SkillsInv, Acts, Become
  <2>2. CASE file[p] = NoFile
    <3>1. DEFINE new == [data |-> Aim(r, p), inode |-> Fresh]
                 s == [r EXCEPT !.at = "check", !.put = new]
    <3>2. /\ Become(m, s) /\ file' = [file EXCEPT ![p] = new] /\ UNCHANGED aside
      BY <1>4, <2>2 DEF Link
    <3>3. Keeps
      BY <1>3, <2>2, <3>2, OwnBytes, FileStepKeeps
    <3>4. new.data # Foreign
      BY <1>3, AimIsOwn
    <3>5. /\ DOMAIN s = Fields /\ s.pc = r.pc /\ s.i = r.i /\ s.ver = r.ver /\ s.at = "check"
          /\ s.here = r.here /\ s.goal = r.goal /\ s.snap = r.snap /\ s.put = new
      BY <1>3 DEF Fields
    <3>6. Good(s)
      BY <1>2, <1>3, <3>4, <3>5, MovesOn
    <3>7. QED
      BY <3>2, <3>3, <3>6 DEF SkillsInv, Acts, Become
  <2>3. QED
    BY <2>1, <2>2
<1>5. CASE Check(m)
  <2>1. DEFINE t == [r EXCEPT !.put = NoFile]
  <2>2. UNCHANGED <<file, aside>> /\ r.put.data # Foreign
    BY <1>3, <1>5 DEF Check, Good
  <2>3. /\ DOMAIN t = Fields /\ t.pc = r.pc /\ t.i = r.i /\ t.ver = r.ver /\ t.put = NoFile
        /\ t.here = r.here /\ t.goal = r.goal /\ t.snap = r.snap /\ t.at = "check"
    BY <1>3, <1>5 DEF Fields, Check
  <2>4. Good(t) /\ Begun(t)
    BY <1>2, <1>3, <2>3, OwnBytes, MovesOn
  <2>5. CASE file[p] = r.put
    <3>1. DEFINE s == [t EXCEPT !.at = "pick", !.here[p] = file[p]]
    <3>2. Become(m, s)
      BY <1>5, <2>5 DEF Check
    <3>3. /\ DOMAIN s = Fields /\ s.pc = r.pc /\ s.i = r.i /\ s.ver = r.ver /\ s.at = "pick"
          /\ s.here = [r.here EXCEPT ![p] = file[p]] /\ s.goal = r.goal /\ s.snap = r.snap
      BY <2>3 DEF Fields
    <3>4. file[p].data # Foreign
      BY <2>2, <2>5
    <3>5. Good(s)
      <4>1. HIDE DEF s
      <4>2. QED
        BY <1>3, <3>3, <3>4, SeenGood
    <3>6. QED
      BY <2>2, <3>2, <3>5, TreeUntouched DEF SkillsInv, Acts, Become
  <2>6. CASE file[p] # r.put
    <3>1. Become(m, Failed(t))
      BY <1>5, <2>6 DEF Check
    <3>2. QED
      BY <2>2, <2>4, <3>1, FailedGood, TreeUntouched DEF SkillsInv, Acts, Become
  <2>7. QED
    BY <2>5, <2>6
<1>6. QED
  BY <1>4, <1>5

\* The end of a mutation, by itself, by its rollback or by a kill.
LEMMA LastStep ==
  ASSUME SkillsInv, NEW m \in Processes, Verify(m) \/ Abandon(m) \/ Crash(m)
  PROVE  Acts(m)
<1>1. CASE Verify(m) \/ Crash(m)
  BY <1>1, EndActs DEF Verify, Crash
<1>2. CASE Abandon(m)
  <2>1. PICK outcome :
          proc' = [n \in Processes |-> IF n = m THEN Idle("ended", outcome) ELSE Orphaned(proc[n])]
    BY <1>2 DEF Abandon
  <2>2. proc'[m] = Idle("ended", outcome)
        /\ \A n \in Processes \ {m} : proc'[n] = Orphaned(proc[n])
    BY <2>1
  <2>3. QED
    BY <2>1, <2>2, IdleGood DEF Acts
<1>3. QED
  BY <1>1, <1>2

-----------------------------------------------------------------------------
(* Failing calls *)

\* The record of a process that gives up its file in the middle.
LEMMA GivingUp ==
  \A r, t :
    /\ Good(r) /\ (Begun(r) \/ r.pc = "locked")
    /\ DOMAIN t = Fields /\ t.pc = r.pc /\ t.i = r.i /\ t.ver = r.ver
    /\ t.here = r.here /\ t.goal = r.goal /\ t.snap = r.snap
    => Good(Failed(t)) /\ Good(FailedBroken(t))
<1>1. SUFFICES ASSUME NEW r, NEW t, Good(r), Begun(r) \/ r.pc = "locked",
                      DOMAIN t = Fields, t.pc = r.pc, t.i = r.i, t.ver = r.ver,
                      t.here = r.here, t.goal = r.goal, t.snap = r.snap
               PROVE  Good(Failed(t)) /\ Good(FailedBroken(t))
  OBVIOUS
<1>2. DEFINE u == [t EXCEPT !.at = "pick"]
<1>3. /\ DOMAIN u = Fields /\ u.pc = r.pc /\ u.i = r.i /\ u.ver = r.ver /\ u.at = "pick"
      /\ u.here = r.here /\ u.goal = r.goal /\ u.snap = r.snap
  BY <1>1 DEF Fields
<1>4. Good(u) /\ (Begun(u) \/ u.pc = "locked")
  BY <1>1, <1>3, SameBeliefs DEF Begun
<1>5. Good(Failed(u)) /\ Good(FailedBroken(u))
  BY <1>4, FailedGood
<1>6. Failed(u) = Failed(t)
  BY <1>1 DEF Failed, Fields
<1>7. QED
  BY <1>5, <1>6 DEF FailedBroken

LEMMA FaultStep ==
  ASSUME SkillsInv, NEW m \in Processes, Fault(m)
  PROVE  Acts(m) /\ Keeps
<1>1. DEFINE r == proc[m]
             p == Path(m)
             t == [r EXCEPT !.moved = NoFile, !.put = NoFile]
<1>2. Good(r) /\ DOMAIN r = Fields
  BY DEF SkillsInv, Good
<1>3. /\ DOMAIN t = Fields /\ t.pc = r.pc /\ t.i = r.i /\ t.ver = r.ver
      /\ t.here = r.here /\ t.goal = r.goal /\ t.snap = r.snap
  BY <1>2 DEF Fields
<1>4. ASSUME Begun(r) \/ r.pc = "locked",
             Become(m, Failed(t)) \/ Become(m, FailedBroken(t))
      PROVE  Acts(m)
  <2>1. Good(Failed(t)) /\ Good(FailedBroken(t))
    BY <1>2, <1>3, <1>4, GivingUp
  <2>2. QED
    BY <1>4, <2>1 DEF SkillsInv, Acts, Become
<1>5. CASE /\ \/ r.pc = "locked"
              \/ r.pc = "forward" /\ r.i > Len(Order)
              \/ Walking(m) /\ r.at \in {"rename", "link"}
           /\ Become(m, Failed(t)) /\ UNCHANGED <<file, aside>>
  <2>1. Begun(r) \/ r.pc = "locked"
    BY <1>5, WalkingHere DEF Begun
  <2>2. QED
    BY <1>4, <1>5, <2>1, TreeUntouched
<1>6. CASE /\ Walking(m) /\ r.at = "look"
           /\ Become(m, Failed([t EXCEPT !.unread = TRUE])) /\ UNCHANGED <<file, aside>>
  <2>1. DEFINE u == [t EXCEPT !.unread = TRUE]
  <2>2. /\ DOMAIN u = Fields /\ u.pc = r.pc /\ u.i = r.i /\ u.ver = r.ver
        /\ u.here = r.here /\ u.goal = r.goal /\ u.snap = r.snap
    BY <1>3 DEF Fields
  <2>3. Good(Failed(u))
    BY <1>2, <1>6, <2>2, WalkingHere, GivingUp
  <2>4. QED
    BY <1>6, <2>3, TreeUntouched DEF SkillsInv, Acts, Become
<1>7. CASE /\ r.pc = "accepted" /\ UNCHANGED <<file, aside>>
           /\ \E D \in SUBSET ({DirOf[q] : q \in Paths(t.ver) \union {Receipt}} \ dirs) :
                Become(m, Failed([t EXCEPT !.created = @ \union D]))
  <2>1. PICK D \in SUBSET ({DirOf[q] : q \in Paths(t.ver) \union {Receipt}} \ dirs) :
          Become(m, Failed([t EXCEPT !.created = @ \union D]))
    BY <1>7
  <2>2. DEFINE u == [t EXCEPT !.created = @ \union D]
  <2>3. /\ DOMAIN u = Fields /\ u.pc = r.pc /\ u.i = r.i /\ u.ver = r.ver
        /\ u.here = r.here /\ u.goal = r.goal /\ u.snap = r.snap
    BY <1>3 DEF Fields
  <2>4. Good(Failed(u))
    BY <1>2, <1>7, <2>3, GivingUp DEF Begun
  <2>5. QED
    BY <1>7, <2>1, <2>4, TreeUntouched DEF SkillsInv, Acts, Become
<1>8. ASSUME Walking(m), r.at \in {"remove", "check"}
      PROVE  /\ p \in Managed /\ Begun(r) /\ p = Order[r.i]
             /\ r.at = "remove" => r.moved.data # Foreign
             /\ r.at = "check" => r.put.data # Foreign
  BY <1>2, <1>8, WalkingHere DEF Good, AtOwnPath
<1>9. CASE /\ Walking(m) /\ r.at = "remove" /\ Become(m, FailedBroken(t)) /\ UNCHANGED file
           /\ aside' \in {aside, [aside EXCEPT ![p] = @ \ {r.moved}]}
  <2>1. Acts(m)
    BY <1>4, <1>8, <1>9
  <2>2. Keeps
    BY <1>8, <1>9, TreeUntouched, AsideStepKeeps
  <2>3. QED
    BY <2>1, <2>2
<1>10. CASE /\ Walking(m) /\ r.at = "remove" /\ Become(m, Failed(t)) /\ file[p] = NoFile
            /\ PutBack(p, r.moved)
  <2>1. Acts(m)
    BY <1>4, <1>8, <1>10
  <2>2. Keeps
    BY <1>8, <1>10, PutBackKeeps
  <2>3. QED
    BY <2>1, <2>2
<1>11. CASE /\ Walking(m) /\ r.at = "remove" /\ Become(m, Failed(t)) /\ file[p] = NoFile
            /\ file' = [file EXCEPT ![p] = [data |-> r.moved.data, inode |-> Fresh]]
            /\ aside' = [aside EXCEPT ![p] = @ \ {r.moved}]
  <2>1. Acts(m)
    BY <1>4, <1>8, <1>11
  <2>2. Keeps
    <3>1. p \in Managed /\ r.moved.data # Foreign
      BY <1>8, <1>11
    <3>2. DOMAIN file' = Managed /\ DOMAIN aside' = Managed
      BY <1>11 DEF SkillsInv
    <3>3. aside'[p] = aside[p] \ {r.moved}
      BY <1>11, <3>1 DEF SkillsInv
    <3>4. \A q \in Managed \ {p} : file'[q] = file[q] /\ aside'[q] = aside[q]
      BY <1>11 DEF SkillsInv
    <3>5. \A f \in {file[p]} \union aside[p] : f.data = Foreign => f \in aside'[p]
      BY <1>11, <3>1, <3>3, OwnBytes
    <3>6. QED
      BY <3>1, <3>2, <3>4, <3>5, OnePathKeeps
  <2>3. QED
    BY <2>1, <2>2
<1>12. CASE /\ Walking(m) /\ r.at = "check" /\ Become(m, Failed(t)) /\ UNCHANGED aside
            /\ file' = IF file[p] = r.put THEN [file EXCEPT ![p] = NoFile] ELSE file
  <2>1. Acts(m)
    BY <1>4, <1>8, <1>12
  <2>2. CASE file[p] = r.put
    <3>1. file[p].data # Foreign
      BY <1>8, <1>12, <2>2
    <3>2. QED
      BY <1>8, <1>12, <2>1, <2>2, <3>1, FileStepKeeps
  <2>3. CASE file[p] # r.put
    BY <1>12, <2>1, <2>3, TreeUntouched
  <2>4. QED
    BY <2>2, <2>3
<1>13. CASE End(m, "failed") /\ UNCHANGED <<file, aside>>
  BY <1>13, EndActs, TreeUntouched
<1>14. QED
  BY <1>5, <1>6, <1>7, <1>9, <1>10, <1>11, <1>12, <1>13 DEF Fault

-----------------------------------------------------------------------------
(* The theorem *)

LEMMA MutateStep ==
  ASSUME SkillsInv, NEW m \in Processes, Mutate(m)
  PROVE  SkillsInv' /\ Keeps /\ edits' = edits
<1>1. Acts(m) /\ Keeps
  BY EntryActs, AcceptActs, PickActs, AsideStep, LinkStep, LastStep, FaultStep, LookingKeeps
     DEF Mutate
<1>2. edits' = edits
  BY DEF Mutate, Plan, Ask, OpenRoot, Flock, MissRoot, AcceptInstall, MakeParents, AcceptUninstall,
         Pick, MoveAside, Look, Remove, Link, Check, Verify, Abandon, Fault, Crash
<1>3. \A n \in Processes : Good(proc'[n])
  BY <1>1, OrphanGood DEF Acts, SkillsInv
<1>4. QED
  BY <1>1, <1>2, <1>3 DEF SkillsInv, Acts, Keeps

LEMMA EditStep ==
  ASSUME SkillsInv, NEW p \in Managed, Edit(p)
  PROVE  SkillsInv' /\ edits' # edits
<1>1. edits' \in Nat /\ edits' # edits
  BY DEF SkillsInv, Edit
<1>2. DOMAIN file' = Managed /\ DOMAIN aside' = Managed /\ DOMAIN proc' = Processes
  BY DEF SkillsInv, Edit
<1>3. ASSUME NEW m \in Processes PROVE Good(proc'[m])
  <2>1. DEFINE r == proc[m]
               s == [r EXCEPT !.disturbed = @ \/ lock = m]
  <2>2. proc'[m] = s /\ Good(r)
    BY DEF SkillsInv, Edit
  <2>3. /\ DOMAIN s = Fields /\ s.pc = r.pc /\ s.i = r.i /\ s.ver = r.ver /\ s.at = r.at
        /\ s.here = r.here /\ s.goal = r.goal /\ s.snap = r.snap
        /\ s.moved = r.moved /\ s.put = r.put
    BY <2>2 DEF Good, Fields
  <2>4. QED
    BY <2>2, <2>3, SameBeliefs
<1>4. QED
  BY <1>1, <1>2, <1>3 DEF SkillsInv

LEMMA SkillsInitial == Init => SkillsInv
<1>1. SUFFICES ASSUME Init PROVE SkillsInv
  OBVIOUS
<1>2. DOMAIN file = Managed
  <2>1. PICK v \in Versions \union {Nothing} :
          file = [p \in Managed |->
                    IF v # Nothing /\ p \in Paths(v) \union {Receipt}
                    THEN [data |-> Target(v, p),
                          inode |-> CHOOSE i \in 1..Len(Order) : Order[i] = p]
                    ELSE NoFile]
    BY <1>1 DEF Init
  <2>2. QED
    BY <2>1
<1>3. aside = [p \in Managed |-> {}] /\ proc = [m \in Processes |-> Idle("idle", "none")] /\ edits = 0
  BY <1>1 DEF Init
<1>4. \A m \in Processes : proc[m] = Idle("idle", "none")
  BY <1>3
<1>5. Good(Idle("idle", "none"))
  BY IdleGood
<1>6. \A m \in Processes : Good(proc[m])
  BY <1>4, <1>5
<1>7. QED
  BY <1>2, <1>3, <1>6 DEF SkillsInv

\* What every process believes of the files stays right.
THEOREM SkillsInvariant == Spec => []SkillsInv
<1>1. SkillsInv /\ [Next]_vars => SkillsInv'
  <2>1. ASSUME SkillsInv, UNCHANGED vars PROVE SkillsInv'
    BY <2>1 DEF vars, SkillsInv
  <2>2. QED
    BY <2>1, MutateStep, EditStep DEF Next
<1>2. QED
  BY <1>1, SkillsInitial, PTL DEF Spec

\* No step of a mutation, forward or back, failing or not, destroys bytes that somebody else
\* wrote: they are at their path or under a quarantine name.
THEOREM NobodyElsesBytesAreLost == Spec => OthersAreSafe
<1>1. ASSUME SkillsInv, Next, edits' = edits, NEW p \in Managed
      PROVE  ForeignAt(p) \subseteq ForeignAt(p)'
  BY <1>1, MutateStep, EditStep DEF Next, Keeps
<1>2. SkillsInv /\ [Next]_vars =>
        [edits' = edits => \A p \in Managed : ForeignAt(p) \subseteq ForeignAt(p)']_vars
  BY <1>1
<1>3. QED
  BY <1>2, SkillsInvariant, PTL DEF Spec, OthersAreSafe

=============================================================================
