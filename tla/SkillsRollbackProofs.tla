------------------------ MODULE SkillsRollbackProofs ------------------------
(***************************************************************************)
(* Proofs that an installation or removal which nobody disturbs is all or  *)
(* nothing, and that it touches only a tree it found whole, for any        *)
(* releases, paths, processes, failing calls, crashes and edits before it. *)
(* The holder of the lock is followed against the tree it found: how far   *)
(* its walk has come, what it has at hand of one file, and what of the     *)
(* rest is still as it was or already as it will be.                       *)
(***************************************************************************)
EXTENDS SkillsProofs

Held == {"locked", "accepted", "forward", "back"}

Total(f) == f = [p \in Managed |-> f[p]]

\* FoundWhole and Carried, of the record of a process.
FoundBy(r) ==
  LET owned == {Receipt} \union Paths(IF r.op = "install" THEN r.ver ELSE r.before.data[Receipt])
  IN \/ \A p \in owned : r.before.data[p] = Nothing
     \/ \E w \in Known[r.ver] : \A p \in owned : r.before.data[p] = Target(w, p)

CarriedTo(r, p) ==
  LET owned == {Receipt} \union Paths(IF r.op = "install" THEN r.ver ELSE r.before.data[Receipt])
  IN IF p \notin owned THEN r.before.data[p]
     ELSE IF r.op = "install" THEN Target(r.ver, p) ELSE Nothing

-----------------------------------------------------------------------------
(* The inductive invariant *)

\* The tree is as it was found.
Untouched(r, fl, as) ==
  \A p \in Managed : fl[p].data = r.before.data[p] /\ as[p] = r.before.aside[p]

Planned(r) ==
  \A p \in Managed : r.snap[p].data = r.before.data[p] /\ r.goal[p] = CarriedTo(r, p)

\* Going forward: the files behind are at their goal, those ahead as they were.
Advanced(r) ==
  /\ r.i \in 1..(Len(Order) + 1)
  /\ \A k \in 1..(r.i - 1) : r.here[Order[k]].data = r.goal[Order[k]]
  /\ \A p \in Managed : /\ r.here[p] \in {r.snap[p], NoFile} \/ r.here[p].data = r.goal[p]
                        /\ r.here[p] = r.snap[p] \/ \E k \in 1..r.i : p = Order[k]

\* Going back: what has not the old bytes is still ahead.
Reverted(r) ==
  /\ r.i \in 1..Len(Order)
  /\ \A p \in Managed : r.here[p].data = r.snap[p].data \/ \E k \in 1..r.i : p = Order[k]

\* What is believed of a path is true.  (A file that was restored from its copy has another
\* inode number, but nothing is done to it any more.)
Tracks(r, p, f) ==
  f = r.here[p] \/ (r.pc = "back" /\ f.data = r.here[p].data /\ f.data = r.snap[p].data)

\* The file that is being replaced, and its quarantine.
InHand(r, f, a) ==
  LET p == Order[r.i] IN
  /\ r.i \in 1..Len(Order) /\ ~Settled(r, p)
  /\ r.at \in {"rename", "link", "check"} => a = r.before.aside[p]
  /\ r.at = "rename" => f = r.here[p] /\ f # NoFile
  /\ r.at \in {"look", "remove"} =>
       /\ f = NoFile /\ r.moved = r.here[p] /\ r.here[p] # NoFile
       /\ r.moved \notin r.before.aside[p] /\ a = r.before.aside[p] \union {r.moved}
  /\ r.at = "link" => f = NoFile /\ r.here[p] = NoFile
  /\ r.at = "check" => f = r.put /\ r.put.data = Aim(r, p) /\ r.here[p] = NoFile

Walks(r) == r.pc = "forward" \/ (r.pc = "back" /\ r.i # 0)

OnTrack(r, fl, as) ==
  /\ \A p \in Managed : r.at = "pick" \/ p # Order[r.i] =>
       Tracks(r, p, fl[p]) /\ as[p] = r.before.aside[p]
  /\ r.at # "pick" => InHand(r, fl[Order[r.i]], as[Order[r.i]])

\* A mutation that nobody disturbed and that could undo every error so far.
Clean(r, fl, as) ==
  /\ r.pc \in {"locked", "accepted"} \/ (r.pc = "back" /\ r.i = 0) => Untouched(r, fl, as)
  /\ r.pc = "accepted" => \A p \in Managed : fl[p] = r.here[p] /\ r.here[p] = r.snap[p]
  /\ Begun(r) => Planned(r)
  /\ r.pc = "forward" => Advanced(r)
  /\ r.pc = "back" /\ r.i # 0 => Reverted(r)
  /\ Walks(r) => OnTrack(r, fl, as)

\* What the holder of the lock knows.
Claim(r, fl, as, ds) ==
  /\ Total(r.before.data) /\ Total(r.before.aside)
  /\ Root \in ds
  /\ ds = r.before.dirs \union r.created /\ r.before.dirs \intersect r.created = {}
  /\ r.at \in {"look", "remove"} => r.moved \in as[Order[r.i]]
  /\ ~r.disturbed /\ Begun(r) => FoundBy(r)
  /\ ~r.disturbed /\ ~r.broken /\ ~r.unread => Clean(r, fl, as)

\* A file is never the same as one of those under its quarantine names.
IsFile(f) == DOMAIN f = {"data", "inode"}

Separate(f, a) ==
  /\ IsFile(f) /\ \A g \in a : IsFile(g)
  /\ f # NoFile => \A g \in a : g.inode # f.inode
  /\ \A g, h \in a : g.inode = h.inode => g = h

Apart(p) == Separate(file[p], aside[p])

\* A process that has opened the root and not locked it yet has made nothing else.
Opened(r, ds) == r.pc = "opened" => Root \in ds /\ r.created \subseteq {Root}

Unmarked(r) ==
  /\ r.pc # "ended" => r.outcome = "none"
  /\ r.pc # "back" => ~r.broken /\ ~r.unread

RollInv ==
  /\ SkillsInv /\ Total(aside)
  /\ \A m \in Processes : Unmarked(proc[m]) /\ (proc[m].pc \in Held <=> lock = m)
  /\ \A m \in Processes : Opened(proc[m], dirs)
  /\ \A p \in Managed : Apart(p)
  /\ \A m \in Processes : lock = m => Claim(proc[m], file, aside, dirs)

-----------------------------------------------------------------------------
(* Records of a process *)

\* What stays as long as a mutation is under way.
SameTask(r, s) ==
  /\ s.before = r.before /\ s.op = r.op /\ s.ver = r.ver
  /\ s.disturbed = r.disturbed /\ s.outcome = r.outcome

SameBeliefsOf(r, s) == s.here = r.here /\ s.goal = r.goal /\ s.snap = r.snap

\* An error turns a walk around, or marks one that is going back.
LEMMA FailedFields ==
  ASSUME NEW r, DOMAIN r = Fields
  PROVE  /\ SameTask(r, Failed(r)) /\ SameBeliefsOf(r, Failed(r))
         /\ Failed(r).pc = "back" /\ Failed(r).at = "pick"
         /\ Failed(r).created = r.created /\ Failed(r).unread = r.unread
         /\ r.pc = "back" => Failed(r).broken = TRUE
         /\ r.pc # "back" => /\ Failed(r).broken = r.broken
                             /\ Failed(r).i = IF r.i > Len(Order) THEN Len(Order) ELSE r.i
  BY DEF Failed, Fields, SameTask, SameBeliefsOf

LEMMA FailedBrokenFields ==
  ASSUME NEW r, DOMAIN r = Fields
  PROVE  /\ SameTask(r, FailedBroken(r)) /\ FailedBroken(r).pc = "back"
         /\ FailedBroken(r).at = "pick" /\ FailedBroken(r).created = r.created
         /\ FailedBroken(r).broken = TRUE
<1>1. DOMAIN Failed(r) = Fields
  BY DEF Failed, Fields
<1> QED
  BY <1>1, FailedFields DEF FailedBroken, Fields, SameTask

\* What a mutation is about, and what it found, depends on its task only.
LEMMA TaskDecides ==
  ASSUME NEW r, NEW s, SameTask(r, s)
  PROVE  /\ FoundBy(s) = FoundBy(r)
         /\ \A p : CarriedTo(s, p) = CarriedTo(r, p)
         /\ SameBeliefsOf(r, s) => (Planned(s) <=> Planned(r))
  BY DEF SameTask, FoundBy, CarriedTo, SameBeliefsOf, Planned

-----------------------------------------------------------------------------
(* Whose step it is *)

\* What the invariant says of a tree that stays as it is.
LEMMA SameTreeApart ==
  (\A p \in Managed : Apart(p)) /\ UNCHANGED <<file, aside>> => \A p \in Managed : Apart(p)'
BY DEF Apart

\* The holder of the lock goes on.
LEMMA HolderFrame ==
  ASSUME RollInv, NEW m \in Processes, lock = m, NEW s, Become(m, s), UNCHANGED lock,
         SkillsInv', s.pc \in Held, Unmarked(s), Total(aside)', \A p \in Managed : Apart(p)',
         Claim(s, file', aside', dirs')
  PROVE  RollInv'
<1>1. proc'[m] = s /\ \A n \in Processes \ {m} : proc'[n] = proc[n]
  BY DEF RollInv, SkillsInv, Become
<1>2. \A n \in Processes : Unmarked(proc'[n]) /\ (proc'[n].pc \in Held <=> lock' = n)
  BY <1>1 DEF RollInv
<1>3. \A n \in Processes : lock' = n => Claim(proc'[n], file', aside', dirs')
  BY <1>1
<1>4. \A n \in Processes : Opened(proc'[n], dirs')
  BY <1>1 DEF RollInv, Opened, Held, Claim
<1> QED
  BY <1>2, <1>3, <1>4 DEF RollInv

\* A process without the lock changes no directory but the root, which the holder has already.
OnlyRoot == dirs' \in {dirs, dirs \union {Root}}

\* A mutation ends without removing anything.
LEMMA EndFrame ==
  ASSUME RollInv, NEW m \in Processes, NEW o, End(m, o), SkillsInv', UNCHANGED <<file, aside>>,
         OnlyRoot
  PROVE  RollInv'
<1> DEFINE s == Idle("ended", o)
<1>1. proc'[m] = s /\ \A n \in Processes \ {m} : proc'[n] = proc[n]
  BY DEF RollInv, SkillsInv, End, Become
<1>2. lock' = IF lock = m THEN Nothing ELSE lock
  BY DEF End
<1>3. Unmarked(s) /\ s.pc \notin Held /\ s.pc # "opened"
  BY DEF Unmarked, Idle, Held
<1>4. \A n \in Processes : Unmarked(proc'[n]) /\ (proc'[n].pc \in Held <=> lock' = n)
  BY <1>1, <1>2, <1>3, ProcessAssumption DEF RollInv
<1>5. ASSUME NEW n \in Processes, lock' = n PROVE Claim(proc'[n], file', aside', dirs')
  <2>1. lock = n /\ n # m
    BY <1>2, <1>5, ProcessAssumption
  <2>2. Claim(proc[n], file, aside, dirs) /\ Root \in dirs
    BY <2>1 DEF RollInv, Claim
  <2>3. dirs' = dirs
    BY <2>2 DEF OnlyRoot
  <2> QED
    BY <1>1, <2>1, <2>2, <2>3
<1>6. \A p \in Managed : Apart(p)'
  BY SameTreeApart DEF RollInv
<1>7. \A n \in Processes : Opened(proc'[n], dirs')
  BY <1>1, <1>3 DEF RollInv, Opened, OnlyRoot
<1> QED
  BY <1>4, <1>5, <1>6, <1>7 DEF RollInv

\* A process without the lock, which stays without it.
LEMMA IdleFrame ==
  ASSUME RollInv, NEW m \in Processes, lock # m, NEW s, Become(m, s), s.pc \notin Held,
         Unmarked(s), Opened(s, dirs'), SkillsInv', OnlyRoot, UNCHANGED <<file, aside, lock>>
  PROVE  RollInv'
<1>1. proc'[m] = s /\ \A n \in Processes \ {m} : proc'[n] = proc[n]
  BY DEF RollInv, SkillsInv, Become
<1>2. \A n \in Processes : Unmarked(proc'[n]) /\ (proc'[n].pc \in Held <=> lock' = n)
  BY <1>1 DEF RollInv
<1>3. ASSUME NEW n \in Processes, lock' = n PROVE Claim(proc'[n], file', aside', dirs')
  <2>1. Claim(proc[n], file, aside, dirs) /\ Root \in dirs /\ proc'[n] = proc[n]
    BY <1>1, <1>3 DEF RollInv, Claim
  <2>2. dirs' = dirs
    BY <2>1 DEF OnlyRoot
  <2> QED
    BY <2>1, <2>2
<1>4. \A p \in Managed : Apart(p)'
  BY SameTreeApart DEF RollInv
<1>5. \A n \in Processes : Opened(proc'[n], dirs')
  BY <1>1 DEF RollInv, Opened, OnlyRoot
<1> QED
  BY <1>2, <1>3, <1>4, <1>5 DEF RollInv

\* A mutation walked back; whoever had opened the root it removes has lost it.
LEMMA AbandonFrame ==
  ASSUME RollInv, SkillsInv', NEW m \in Processes, Abandon(m)
  PROVE  RollInv'
<1>1. lock = m /\ lock' = Nothing /\ UNCHANGED <<file, aside>>
  BY DEF Abandon, RollInv, Held
<1>2. PICK o :
        proc' = [n \in Processes |-> IF n = m THEN Idle("ended", o) ELSE Orphaned(proc[n])]
  BY DEF Abandon
<1>3. ASSUME NEW n \in Processes
      PROVE  Unmarked(proc'[n]) /\ proc'[n].pc \notin Held /\ Opened(proc'[n], dirs')
  <2>1. CASE n = m
    BY <1>2, <2>1 DEF Unmarked, Idle, Held, Opened
  <2>2. CASE n # m
    <3> DEFINE r == proc[n]
    <3>1. proc'[n] = Orphaned(r)
      BY <1>2, <2>2
    <3>2. DOMAIN r = Fields /\ Unmarked(r) /\ r.pc \notin Held /\ Opened(r, dirs)
      BY <1>1, <2>2 DEF RollInv, SkillsInv, Good
    <3>3. CASE r.pc = "opened" /\ Root \notin dirs'
      <4> DEFINE s == [r EXCEPT !.pc = "orphaned"]
      <4>1. /\ s.pc = "orphaned" /\ s.outcome = r.outcome /\ s.broken = r.broken
            /\ s.unread = r.unread /\ proc'[n] = s
        BY <3>1, <3>2, <3>3 DEF Fields, Orphaned
      <4> QED
        BY <3>2, <3>3, <4>1 DEF Unmarked, Held, Opened
    <3>4. CASE ~(r.pc = "opened" /\ Root \notin dirs')
      BY <3>1, <3>2, <3>4 DEF Orphaned, Opened
    <3> QED
      BY <3>3, <3>4
  <2> QED
    BY <2>1, <2>2
<1>4. \A p \in Managed : Apart(p)'
  BY <1>1, SameTreeApart DEF RollInv
<1>5. Total(aside)'
  BY <1>1 DEF RollInv, Total
<1> QED
  BY <1>1, <1>3, <1>4, <1>5, ProcessAssumption DEF RollInv

\* A process takes the lock.
LEMMA LockFrame ==
  ASSUME RollInv, NEW m \in Processes, lock = Nothing, lock' = m, NEW s, Become(m, s),
         s.pc \in Held, Unmarked(s), SkillsInv', UNCHANGED <<file, aside, dirs>>,
         Claim(s, file', aside', dirs')
  PROVE  RollInv'
<1>1. proc'[m] = s /\ \A n \in Processes \ {m} : proc'[n] = proc[n]
  BY DEF RollInv, SkillsInv, Become
<1>2. \A n \in Processes : Unmarked(proc'[n]) /\ (proc'[n].pc \in Held <=> lock' = n)
  BY <1>1, ProcessAssumption DEF RollInv
<1>3. \A n \in Processes : lock' = n => Claim(proc'[n], file', aside', dirs')
  BY <1>1
<1>4. \A p \in Managed : Apart(p)'
  BY SameTreeApart DEF RollInv
<1>5. \A n \in Processes : Opened(proc'[n], dirs')
  BY <1>1 DEF RollInv, Opened, Held
<1> QED
  BY <1>2, <1>3, <1>4, <1>5 DEF RollInv

-----------------------------------------------------------------------------
(* The walk of a mutation that nobody disturbs *)

LEMMA ClaimMoves ==
  ASSUME NEW r, NEW s, SameTask(r, s), s.created = r.created, Begun(s) => Begun(r),
         NEW fl, NEW as, NEW fl2, NEW as2, NEW ds, Claim(r, fl, as, ds),
         s.at \in {"look", "remove"} => s.moved \in as2[Order[s.i]],
         ~s.disturbed /\ ~s.broken /\ ~s.unread => Clean(s, fl2, as2)
  PROVE  Claim(s, fl2, as2, ds)
<1>1. FoundBy(s) = FoundBy(r) /\ s.before = r.before /\ s.disturbed = r.disturbed
  BY TaskDecides DEF SameTask
<1> QED
  BY <1>1 DEF Claim

\* An error going forward: what was done is ahead of the walk back.
LEMMA TurnBack ==
  ASSUME NEW r, NEW s, r.pc = "forward", Planned(r), Advanced(r),
         SameTask(r, s), SameBeliefsOf(r, s), s.pc = "back", s.at = "pick",
         s.i = IF r.i > Len(Order) THEN Len(Order) ELSE r.i,
         NEW fl, NEW as,
         \A p \in Managed :
           /\ as[p] = r.before.aside[p]
           /\ \/ fl[p] = r.here[p]
              \/ fl[p].data = r.here[p].data /\ fl[p].data = r.snap[p].data
  PROVE  Clean(s, fl, as)
<1>1. s.i \in 1..Len(Order) /\ s.i # 0
  BY OrderAssumption DEF Advanced
<1>2. ASSUME NEW p \in Managed, r.here[p] # r.snap[p]
      PROVE  \E k \in 1..s.i : p = Order[k]
  <2>1. PICK k \in 1..r.i : p = Order[k]
    BY <1>2 DEF Advanced
  <2>2. CASE r.i > Len(Order)
    BY <2>2 DEF Managed
  <2>3. CASE ~(r.i > Len(Order))
    BY <2>1, <2>3
  <2> QED
    BY <2>2, <2>3
<1>3. Reverted(s)
  BY <1>1, <1>2 DEF Reverted, SameBeliefsOf
<1>4. OnTrack(s, fl, as)
  BY DEF OnTrack, Tracks, SameTask, SameBeliefsOf
<1>5. Planned(s)
  BY TaskDecides
<1> QED
  BY <1>1, <1>3, <1>4, <1>5 DEF Clean

\* The file is as it should be: on to the next.
LEMMA NextFile ==
  ASSUME NEW r, NEW s, Walks(r), r.at = "pick", r.i \in 1..Len(Order), Settled(r, Order[r.i]),
         NEW fl, NEW as, Clean(r, fl, as),
         SameTask(r, s), SameBeliefsOf(r, s), s.pc = r.pc, s.at = "pick",
         s.i = IF r.pc = "forward" THEN r.i + 1 ELSE r.i - 1
  PROVE  Clean(s, fl, as)
<1>1. /\ s.before = r.before /\ s.here = r.here /\ s.goal = r.goal /\ s.snap = r.snap
      /\ Len(Order) \in Nat
  BY OrderAssumption DEF SameTask, SameBeliefsOf
<1>2. Planned(r) /\ Planned(s)
  BY TaskDecides DEF Clean, Walks, Begun
<1>3. \A p \in Managed : Tracks(r, p, fl[p]) /\ as[p] = r.before.aside[p]
  BY DEF Clean, OnTrack
<1>4. OnTrack(s, fl, as)
  BY <1>1, <1>3 DEF OnTrack, Tracks
<1>5. CASE r.pc = "forward"
  <2>1. Advanced(r) /\ s.i = r.i + 1 /\ r.here[Order[r.i]].data = r.goal[Order[r.i]]
    BY <1>5 DEF Clean, Settled, Aim
  <2>2. s.i \in 1..(Len(Order) + 1) /\ 1..r.i \subseteq 1..s.i
        /\ \A k \in 1..(s.i - 1) : k = r.i \/ k \in 1..(r.i - 1)
    BY <1>1, <2>1
  <2>3. Advanced(s)
    BY <1>1, <2>1, <2>2 DEF Advanced
  <2> QED
    BY <1>2, <1>4, <1>5, <2>3 DEF Clean
<1>6. CASE r.pc = "back"
  <2>1. Reverted(r) /\ s.i = r.i - 1 /\ r.here[Order[r.i]].data = r.snap[Order[r.i]].data
    BY <1>6 DEF Clean, Settled, Aim, Walks
  <2>2. \A k \in 1..r.i : k = r.i \/ k \in 1..s.i
    BY <2>1
  <2>3. \A p \in Managed : r.here[p].data = r.snap[p].data \/ \E k \in 1..s.i : p = Order[k]
    BY <2>1, <2>2 DEF Reverted
  <2>4. CASE s.i = 0
    <3>1. \A p \in Managed : r.here[p].data = r.snap[p].data
      BY <2>3, <2>4
    <3>2. Untouched(s, fl, as)
      BY <1>1, <1>2, <1>3, <3>1 DEF Untouched, Tracks, Planned
    <3> QED
      BY <1>6, <2>4, <3>2 DEF Clean, Begun, Walks
  <2>5. CASE s.i # 0
    <3>1. s.i \in 1..Len(Order)
      BY <1>1, <2>1, <2>5
    <3>2. Reverted(s)
      BY <1>1, <2>3, <3>1 DEF Reverted
    <3> QED
      BY <1>2, <1>4, <1>6, <2>5, <3>2 DEF Clean
  <2> QED
    BY <2>4, <2>5
<1> QED
  BY <1>5, <1>6 DEF Walks

\* Something is done to the file at hand, and believed as before.
LEMMA HandMoves ==
  ASSUME NEW r, NEW s, Walks(r), r.i \in 1..Len(Order), NEW fl, NEW as, Clean(r, fl, as),
         SameTask(r, s), SameBeliefsOf(r, s), s.pc = r.pc, s.i = r.i, s.at # "pick",
         NEW fl2, NEW as2, InHand(s, fl2[Order[r.i]], as2[Order[r.i]]),
         \A q \in Managed \ {Order[r.i]} : fl2[q] = fl[q] /\ as2[q] = as[q]
  PROVE  Clean(s, fl2, as2)
<1>1. s.before = r.before /\ s.here = r.here /\ s.goal = r.goal /\ s.snap = r.snap
  BY DEF SameTask, SameBeliefsOf
<1>2. Planned(s)
  BY TaskDecides DEF Clean, Walks, Begun
<1>3. OnTrack(s, fl2, as2)
  BY <1>1 DEF Clean, OnTrack, Tracks
<1>4. (r.pc = "forward" => Advanced(s)) /\ (r.pc = "back" => Reverted(s))
  BY <1>1 DEF Clean, Advanced, Reverted, Walks
<1> QED
  BY <1>2, <1>3, <1>4 DEF Clean, Walks

\* The file at hand is removed or linked, and that is believed.
LEMMA Replaced ==
  ASSUME NEW r, NEW s, Walks(r), r.at # "pick", NEW fl, NEW as, Clean(r, fl, as),
         DOMAIN r.here = Managed, Order[r.i] \in Managed,
         SameTask(r, s), s.goal = r.goal, s.snap = r.snap, s.pc = r.pc, s.i = r.i,
         s.at = "pick", NEW g, s.here = [r.here EXCEPT ![Order[r.i]] = g],
         g = NoFile \/ g.data = Aim(r, Order[r.i]),
         NEW fl2, NEW as2, fl2[Order[r.i]] = g, as2[Order[r.i]] = r.before.aside[Order[r.i]],
         \A q \in Managed \ {Order[r.i]} : fl2[q] = fl[q] /\ as2[q] = as[q]
  PROVE  Clean(s, fl2, as2)
<1> DEFINE p == Order[r.i]
<1>1. s.before = r.before /\ s.here[p] = g /\ \A q \in Managed \ {p} : s.here[q] = r.here[q]
  BY DEF SameTask
<1>2. Planned(r) /\ OnTrack(r, fl, as) /\ InHand(r, fl[p], as[p])
  BY DEF Clean, Walks, Begun, OnTrack
<1>3. Planned(s)
  <2>1. \A q : CarriedTo(s, q) = CarriedTo(r, q)
    BY TaskDecides
  <2> QED
    BY <1>1, <1>2, <2>1 DEF Planned
<1>4. ~Settled(r, p) /\ r.i \in 1..Len(Order)
  BY <1>2 DEF InHand
<1>5. OnTrack(s, fl2, as2)
  <2>1. ASSUME NEW q \in Managed PROVE Tracks(s, q, fl2[q]) /\ as2[q] = s.before.aside[q]
    <3>1. CASE q = p
      BY <1>1, <3>1 DEF Tracks
    <3>2. CASE q # p
      BY <1>1, <1>2, <3>2 DEF Tracks, OnTrack
    <3> QED
      BY <3>1, <3>2
  <2> QED
    BY <2>1 DEF OnTrack
<1>6. CASE r.pc = "forward"
  <2>1. Advanced(r) /\ r.here[p].data # r.goal[p] /\ Aim(r, p) = r.goal[p]
    BY <1>4, <1>6 DEF Clean, Settled, Aim
  <2>2. ASSUME NEW k \in 1..(s.i - 1) PROVE s.here[Order[k]].data = s.goal[Order[k]]
    <3>1. r.here[Order[k]].data = r.goal[Order[k]] /\ Order[k] # p
      BY <2>1, <2>2 DEF Advanced
    <3>2. k \in 1..Len(Order)
      BY <1>4, <2>2, OrderAssumption
    <3> QED
      BY <1>1, <3>1, <3>2 DEF Managed
  <2>3. r.i \in 1..r.i
    BY <1>4
  <2>4. ASSUME NEW q \in Managed
        PROVE  /\ s.here[q] \in {s.snap[q], NoFile} \/ s.here[q].data = s.goal[q]
               /\ s.here[q] = s.snap[q] \/ \E k \in 1..s.i : q = Order[k]
    <3>1. CASE q = p
      BY <1>1, <2>1, <2>3, <3>1
    <3>2. CASE q # p
      BY <1>1, <2>1, <3>2 DEF Advanced
    <3> QED
      BY <3>1, <3>2
  <2>5. Advanced(s)
    BY <2>1, <2>2, <2>4 DEF Advanced
  <2> QED
    BY <1>3, <1>5, <1>6, <2>5 DEF Clean
<1>7. CASE r.pc = "back"
  <2>1. Reverted(r) /\ r.i # 0 /\ r.i \in 1..r.i
    BY <1>4, <1>7 DEF Clean, Walks
  <2>2. Reverted(s)
    BY <1>1, <2>1 DEF Reverted
  <2> QED
    BY <1>3, <1>5, <1>7, <2>1, <2>2 DEF Clean
<1> QED
  BY <1>6, <1>7 DEF Walks

-----------------------------------------------------------------------------
(* Before the first file *)

\* The holder of the lock, by where it is.
LEMMA HolderIsAt ==
  ASSUME RollInv, NEW m \in Processes, proc[m].pc \in Held
  PROVE  /\ lock = m /\ Claim(proc[m], file, aside, dirs) /\ Unmarked(proc[m])
         /\ Good(proc[m]) /\ DOMAIN proc[m] = Fields /\ proc[m].outcome = "none"
<1>1. proc[m].pc # "ended"
  BY DEF Held
<1> QED
  BY <1>1 DEF RollInv, SkillsInv, Good, Unmarked

LEMMA EntryRolls ==
  ASSUME RollInv, SkillsInv', NEW m \in Processes,
         (\E v \in Versions : Plan(m, v) \/ Ask(m, v)) \/ OpenRoot(m) \/ Flock(m) \/ MissRoot(m)
  PROVE  RollInv'
<1>1. lock # m /\ UNCHANGED <<file, aside>>
  BY DEF RollInv, Held, Plan, Ask, OpenRoot, Flock, MissRoot
<1>2. ASSUME NEW s, Become(m, s), s.pc = "planned", Unmarked(s), UNCHANGED <<dirs, lock>>
      PROVE  RollInv'
  <2>1. s.pc \notin Held /\ Opened(s, dirs') /\ OnlyRoot
    BY <1>2 DEF Held, Opened, OnlyRoot
  <2> QED
    BY <1>1, <1>2, <2>1, IdleFrame
<1>3. ASSUME NEW v \in Versions, Plan(m, v) PROVE RollInv'
  <2>1. CASE Admits(v)
    <3> DEFINE s == [Idle("planned", "none") EXCEPT !.op = "install", !.ver = v,
                                                    !.plan = Classes(v)]
    <3>1. s.pc = "planned" /\ Unmarked(s)
      BY DEF Idle, Unmarked
    <3>2. Become(m, s) /\ UNCHANGED <<dirs, lock>>
      BY <1>3, <2>1 DEF Plan
    <3> QED
      BY <1>2, <3>1, <3>2
  <2>2. CASE ~Admits(v)
    BY <1>1, <1>3, <2>2, EndFrame DEF Plan, OnlyRoot
  <2> QED
    BY <2>1, <2>2
<1>4. ASSUME NEW v \in Versions, Ask(m, v) PROVE RollInv'
  <2>1. CASE Root \in dirs
    <3> DEFINE s == [Idle("planned", "none") EXCEPT !.op = "uninstall", !.ver = v]
    <3>1. s.pc = "planned" /\ Unmarked(s)
      BY DEF Idle, Unmarked
    <3>2. Become(m, s) /\ UNCHANGED <<dirs, lock>>
      BY <1>4, <2>1 DEF Ask
    <3> QED
      BY <1>2, <3>1, <3>2
  <2>2. CASE Root \notin dirs
    BY <1>1, <1>4, <2>2, EndFrame DEF Ask, OnlyRoot
  <2> QED
    BY <2>1, <2>2
<1>5. CASE OpenRoot(m)
  <2>1. CASE End(m, "refused") /\ UNCHANGED dirs
    BY <1>1, <2>1, EndFrame DEF OnlyRoot
  <2>2. CASE ~(End(m, "refused") /\ UNCHANGED dirs)
    <3> DEFINE r == proc[m]
               s == [r EXCEPT !.pc = "opened", !.created = {Root} \ dirs]
    <3>1. dirs' = dirs \union {Root} /\ Become(m, s) /\ UNCHANGED lock /\ r.pc = "planned"
      BY <1>5, <2>2 DEF OpenRoot
    <3>2. DOMAIN r = Fields /\ Unmarked(r)
      BY DEF RollInv, SkillsInv, Good
    <3>3. /\ s.pc = "opened" /\ s.created = {Root} \ dirs /\ s.outcome = r.outcome
          /\ s.broken = r.broken /\ s.unread = r.unread
      BY <3>2 DEF Fields
    <3> HIDE DEF s
    <3>4. Unmarked(s) /\ Opened(s, dirs') /\ s.pc \notin Held /\ OnlyRoot
      BY <3>1, <3>2, <3>3 DEF Unmarked, Opened, Held, OnlyRoot
    <3> QED
      BY <1>1, <3>1, <3>4, IdleFrame
  <2> QED
    BY <2>1, <2>2
<1>6. CASE Flock(m)
  <2>1. CASE End(m, "busy")
    BY <1>1, <1>6, <2>1, EndFrame DEF Flock, OnlyRoot
  <2>2. CASE ~End(m, "busy")
    <3> DEFINE r == proc[m]
               b == [data |-> [p \in Managed |-> file[p].data], dirs |-> dirs \ r.created,
                     aside |-> aside]
               s == [r EXCEPT !.pc = "locked", !.before = b]
    <3>1. lock = Nothing /\ lock' = m /\ UNCHANGED dirs /\ Become(m, s) /\ r.pc = "opened"
      BY <1>6, <2>2 DEF Flock
    <3>2. /\ DOMAIN r = Fields /\ Unmarked(r) /\ r.at = "pick" /\ r.outcome = "none"
          /\ ~r.broken /\ ~r.unread /\ Root \in dirs /\ r.created \subseteq {Root}
      BY <3>1 DEF RollInv, SkillsInv, Good, AtOwnPath, Unmarked, Opened
    <3>3. /\ s.pc = "locked" /\ s.created = r.created /\ s.before = b /\ s.at = "pick"
          /\ s.outcome = "none" /\ s.broken = r.broken /\ s.unread = r.unread
      BY <3>2 DEF Fields
    <3>4. /\ b.data = [p \in Managed |-> file[p].data] /\ b.aside = aside
          /\ b.dirs = dirs \ r.created
      OBVIOUS
    <3> HIDE DEF b, s
    <3>5. Clean(s, file, aside)
      BY <3>3, <3>4 DEF Clean, Untouched, Begun, Walks
    <3>6. Claim(s, file, aside, dirs)
      <4>1. Total(s.before.data) /\ Total(s.before.aside)
        BY <3>3, <3>4 DEF Total, RollInv
      <4>2. dirs = s.before.dirs \union s.created /\ s.before.dirs \intersect s.created = {}
        BY <3>2, <3>3, <3>4
      <4> QED
        BY <3>2, <3>3, <3>5, <4>1, <4>2 DEF Claim, Begun
    <3>7. Unmarked(s) /\ s.pc \in Held
      BY <3>2, <3>3 DEF Unmarked, Held
    <3> QED
      BY <1>1, <3>1, <3>6, <3>7, LockFrame
  <2> QED
    BY <2>1, <2>2
<1>7. CASE MissRoot(m)
  BY <1>7, EndFrame DEF MissRoot, OnlyRoot
<1> QED
  BY <1>3, <1>4, <1>5, <1>6, <1>7

\* An error before the first file: there is nothing to restore but directories.
LEMMA GiveUpEarly ==
  ASSUME RollInv, SkillsInv', NEW m \in Processes, proc[m].pc \in {"locked", "accepted"},
         NEW t, DOMAIN t = Fields, SameTask(proc[m], t), t.pc = proc[m].pc, t.i = proc[m].i,
         Become(m, Failed(t)), UNCHANGED <<lock, file, aside>>,
         dirs' = t.before.dirs \union t.created, t.before.dirs \intersect t.created = {}
  PROVE  RollInv'
<1> DEFINE r == proc[m]
           s == Failed(t)
<1>1. lock = m /\ Claim(r, file, aside, dirs) /\ Unmarked(r) /\ Good(r) /\ r.outcome = "none"
  BY HolderIsAt DEF Held
<1>2. /\ SameTask(t, s) /\ s.pc = "back" /\ s.at = "pick" /\ s.created = t.created
      /\ s.i = IF t.i > Len(Order) THEN Len(Order) ELSE t.i
  BY FailedFields
<1>3. r.i = 0 /\ ~r.broken /\ ~r.unread
  BY <1>1 DEF Good, Unmarked
<1>4. s.i = 0
  BY <1>2, <1>3, OrderAssumption
<1> HIDE DEF s
<1>5. s.before = r.before /\ s.disturbed = r.disturbed /\ s.outcome = "none"
  BY <1>1, <1>2 DEF SameTask
<1>6. ~s.disturbed => Clean(s, file, aside)
  BY <1>1, <1>2, <1>3, <1>4, <1>5 DEF Claim, Clean, Untouched, Begun, Walks
<1>7. Claim(s, file, aside, dirs')
  <2>1. dirs' = s.before.dirs \union s.created /\ s.before.dirs \intersect s.created = {}
    BY <1>2 DEF SameTask
  <2> QED
    BY <1>1, <1>2, <1>4, <1>5, <1>6, <2>1 DEF Claim, Begun
<1>8. s.pc \in Held /\ Unmarked(s)
  BY <1>2, <1>5 DEF Held, Unmarked
<1>9. Total(aside)' /\ \A p \in Managed : Apart(p)'
  BY SameTreeApart DEF RollInv, Total
<1>10. Become(m, s)
  BY DEF s
<1> QED
  BY <1>1, <1>7, <1>8, <1>9, <1>10, HolderFrame

\* A tree that an installation admits is one bundle its release knows, or has none of its files.
LEMMA InstallFinds ==
  ASSUME NEW r, r.op = "install", r.ver \in Versions, Admits(r.ver),
         \A p \in Managed : r.before.data[p] = file[p].data
  PROVE  FoundBy(r)
<1> DEFINE v == r.ver
           owned == {Receipt} \union Paths(v)
<1>1. Receipt \in Managed /\ owned \subseteq Managed /\ \A p \in Paths(v) : p # Receipt
  BY OrderAssumption DEF Managed, Receipt, Paths
<1>2. CASE file[Receipt] = NoFile
  <2>1. \A p \in Paths(v) : file[p] = NoFile
    BY <1>2 DEF Admits, Class
  <2>2. \A p \in owned : r.before.data[p] = Nothing
    BY <1>1, <1>2, <2>1 DEF NoFile
  <2> QED
    BY <2>2 DEF FoundBy
<1>3. CASE file[Receipt] # NoFile
  <2> DEFINE w == file[Receipt].data
  <2>1. w \in Known[v]
    BY <1>3 DEF Admits, Valid
  <2>2. ASSUME NEW p \in Paths(v) PROVE r.before.data[p] = Target(w, p)
    <3>1. Class(v, p) # "DIVERGED" /\ p \in Managed /\ p # Receipt
      BY <1>1 DEF Admits
    <3>2. CASE Payload[w][p] = Nothing
      BY <1>3, <3>1, <3>2 DEF Class, Target, NoFile
    <3>3. CASE Payload[w][p] # Nothing
      BY <1>3, <3>1, <3>3 DEF Class, Target
    <3> QED
      BY <3>2, <3>3
  <2>3. r.before.data[Receipt] = Target(w, Receipt)
    BY <1>1 DEF Target
  <2> QED
    BY <2>1, <2>2, <2>3 DEF FoundBy
<1> QED
  BY <1>2, <1>3

LEMMA InstallRolls ==
  ASSUME RollInv, SkillsInv', NEW m \in Processes, AcceptInstall(m)
  PROVE  RollInv'
<1> DEFINE r == proc[m]
<1>1. r.pc = "locked" /\ r.op = "install" /\ UNCHANGED <<lock, file, aside, dirs>>
  BY DEF AcceptInstall
<1>2. /\ lock = m /\ Claim(r, file, aside, dirs) /\ Unmarked(r) /\ Good(r)
      /\ DOMAIN r = Fields /\ r.outcome = "none"
  BY <1>1, HolderIsAt DEF Held
<1>3. CASE Become(m, Failed(r))
  <2>1. SameTask(r, r)
    BY DEF SameTask
  <2> QED
    BY <1>1, <1>2, <1>3, <2>1, GiveUpEarly DEF Claim
<1>4. CASE ~Become(m, Failed(r))
  <2> DEFINE goal == [p \in Managed |-> IF p \in Paths(r.ver) \union {Receipt}
                                        THEN Target(r.ver, p) ELSE file[p].data]
             s == [r EXCEPT !.pc = "accepted", !.plan = <<>>, !.snap = file, !.here = file,
                            !.goal = goal]
  <2>1. Admits(r.ver) /\ Become(m, s)
    BY <1>4 DEF AcceptInstall
  <2>2. r.i = 0 /\ r.at = "pick" /\ ~r.broken /\ ~r.unread /\ r.ver \in Versions
    BY <1>1, <1>2 DEF Good, AtOwnPath, Unmarked
  <2>3. /\ SameTask(r, s) /\ s.pc = "accepted" /\ s.here = file /\ s.snap = file
        /\ s.goal = goal /\ s.at = "pick" /\ s.created = r.created
        /\ s.broken = r.broken /\ s.unread = r.unread
    BY <1>2, <2>2 DEF Fields, SameTask
  <2> HIDE DEF s
  <2>4. ASSUME ~s.disturbed PROVE FoundBy(s) /\ Clean(s, file, aside)
    <3>1. Untouched(r, file, aside) /\ s.before = r.before
      BY <1>1, <1>2, <2>2, <2>3, <2>4 DEF Claim, Clean, SameTask
    <3>2. FoundBy(r)
      BY <1>1, <2>1, <2>2, <3>1, InstallFinds DEF Untouched
    <3>3. Planned(s)
      <4>1. \A p \in Managed : goal[p] = CarriedTo(r, p)
        BY <1>1, <3>1 DEF CarriedTo, Untouched
      <4>2. \A p : CarriedTo(s, p) = CarriedTo(r, p)
        BY <2>3, TaskDecides
      <4> QED
        BY <2>3, <3>1, <4>1, <4>2 DEF Planned, Untouched
    <3>4. Untouched(s, file, aside)
      BY <3>1 DEF Untouched
    <3>5. Clean(s, file, aside)
      BY <2>3, <3>3, <3>4 DEF Clean, Walks
    <3>6. FoundBy(s) = FoundBy(r)
      BY <2>3, TaskDecides
    <3> QED
      BY <3>2, <3>5, <3>6
  <2>5. Claim(s, file, aside, dirs)
    BY <1>2, <2>3, <2>4 DEF Claim, SameTask
  <2>6. s.pc \in Held /\ Unmarked(s)
    BY <1>2, <2>2, <2>3 DEF Held, Unmarked, SameTask
  <2>7. Total(aside)' /\ \A p \in Managed : Apart(p)'
    BY <1>1, SameTreeApart DEF RollInv, Total
  <2> QED
    BY <1>1, <1>2, <2>1, <2>5, <2>6, <2>7, HolderFrame
<1> QED
  BY <1>3, <1>4

\* Every file the receipt names has the bytes it names: the tree is that bundle.
LEMMA UninstallFinds ==
  ASSUME NEW r, r.op = "uninstall", Valid(r.ver, file[Receipt]),
         \A p \in Paths(file[Receipt].data) : file[p].data = Payload[file[Receipt].data][p],
         \A p \in Managed : r.before.data[p] = file[p].data
  PROVE  FoundBy(r)
<1> DEFINE w == file[Receipt].data
<1>1. Receipt \in Managed /\ \A p \in Paths(w) : p # Receipt /\ p \in Managed
  BY OrderAssumption DEF Managed, Receipt, Paths
<1>2. w \in Known[r.ver] /\ r.before.data[Receipt] = w
  BY <1>1 DEF Valid
<1>3. \A p \in {Receipt} \union Paths(w) : r.before.data[p] = Target(w, p)
  BY <1>1, <1>2 DEF Target
<1> QED
  BY <1>2, <1>3 DEF FoundBy

LEMMA UninstallRolls ==
  ASSUME RollInv, SkillsInv', NEW m \in Processes, AcceptUninstall(m)
  PROVE  RollInv'
<1> DEFINE r == proc[m]
<1>1. r.pc = "locked" /\ r.op = "uninstall" /\ UNCHANGED <<file, aside, dirs>>
  BY DEF AcceptUninstall
<1>2. /\ lock = m /\ Claim(r, file, aside, dirs) /\ Unmarked(r) /\ Good(r)
      /\ DOMAIN r = Fields /\ r.outcome = "none"
  BY <1>1, HolderIsAt DEF Held
<1>3. CASE Become(m, Failed(r)) /\ UNCHANGED lock
  <2>1. SameTask(r, r)
    BY DEF SameTask
  <2> QED
    BY <1>1, <1>2, <1>3, <2>1, GiveUpEarly DEF Claim
<1>4. CASE End(m, "absent")
  BY <1>1, <1>4, EndFrame DEF OnlyRoot
<1>5. CASE ~(Become(m, Failed(r)) /\ UNCHANGED lock) /\ ~End(m, "absent")
  <2> DEFINE named == file[Receipt].data
             owned == Paths(named) \union {Receipt}
             goal == [p \in Managed |-> IF p \in owned THEN Nothing ELSE file[p].data]
             s == [r EXCEPT !.pc = "forward", !.i = 1, !.snap = file, !.here = file,
                            !.goal = goal]
  <2>1. /\ Valid(r.ver, file[Receipt]) /\ Become(m, s) /\ UNCHANGED lock
        /\ \A p \in Paths(named) : file[p].data = Payload[named][p]
    BY <1>5 DEF AcceptUninstall
  <2>2. r.at = "pick" /\ ~r.broken /\ ~r.unread
    BY <1>1, <1>2 DEF Good, AtOwnPath, Unmarked
  <2>3. /\ SameTask(r, s) /\ s.pc = "forward" /\ s.here = file /\ s.snap = file /\ s.i = 1
        /\ s.goal = goal /\ s.at = "pick" /\ s.created = r.created
        /\ s.broken = r.broken /\ s.unread = r.unread
    BY <1>2, <2>2 DEF Fields, SameTask
  <2> HIDE DEF s
  <2>4. ASSUME ~s.disturbed PROVE FoundBy(s) /\ Clean(s, file, aside)
    <3>1. Untouched(r, file, aside) /\ s.before = r.before
      BY <1>1, <1>2, <2>2, <2>3, <2>4 DEF Claim, Clean, SameTask
    <3>2. FoundBy(r)
      BY <1>1, <2>1, <3>1, UninstallFinds DEF Untouched
    <3>3. Planned(s)
      <4>1. r.before.data[Receipt] = named
        BY <3>1, OrderAssumption DEF Untouched, Managed, Receipt
      <4>2. \A p \in Managed : goal[p] = CarriedTo(r, p)
        BY <1>1, <3>1, <4>1 DEF CarriedTo, Untouched
      <4>3. \A p : CarriedTo(s, p) = CarriedTo(r, p)
        BY <2>3, TaskDecides
      <4> QED
        BY <2>3, <3>1, <4>2, <4>3 DEF Planned, Untouched
    <3>4. OnTrack(s, file, aside)
      BY <2>3, <3>1 DEF OnTrack, Untouched, Tracks
    <3>5. Advanced(s)
      BY <2>3, OrderAssumption DEF Advanced
    <3>6. Clean(s, file, aside)
      BY <2>3, <3>3, <3>4, <3>5 DEF Clean
    <3>7. FoundBy(s) = FoundBy(r)
      BY <2>3, TaskDecides
    <3> QED
      BY <3>2, <3>6, <3>7
  <2>5. Claim(s, file, aside, dirs)
    BY <1>2, <2>3, <2>4 DEF Claim, SameTask
  <2>6. s.pc \in Held /\ Unmarked(s)
    BY <1>2, <2>2, <2>3 DEF Held, Unmarked, SameTask
  <2>7. Total(aside)' /\ \A p \in Managed : Apart(p)'
    BY <1>1, SameTreeApart DEF RollInv, Total
  <2> QED
    BY <1>1, <1>2, <2>1, <2>5, <2>6, <2>7, HolderFrame
<1> QED
  BY <1>3, <1>4, <1>5

LEMMA ParentsRoll ==
  ASSUME RollInv, SkillsInv', NEW m \in Processes, MakeParents(m)
  PROVE  RollInv'
<1> DEFINE r == proc[m]
           missing == {DirOf[p] : p \in Paths(r.ver) \union {Receipt}} \ dirs
           made == [r EXCEPT !.created = @ \union missing]
           s == [made EXCEPT !.pc = "forward", !.i = 1]
<1>1. /\ r.pc = "accepted" /\ UNCHANGED <<lock, file, aside>> /\ dirs' = dirs \union missing
      /\ Become(m, s) \/ Become(m, Failed(made))
  BY DEF MakeParents
<1>2. /\ lock = m /\ Claim(r, file, aside, dirs) /\ Unmarked(r) /\ Good(r)
      /\ DOMAIN r = Fields /\ r.outcome = "none"
  BY <1>1, HolderIsAt DEF Held
<1>3. r.i = 0 /\ r.at = "pick" /\ ~r.broken /\ ~r.unread
  BY <1>1, <1>2 DEF Good, AtOwnPath, Unmarked
<1>4. /\ DOMAIN made = Fields /\ SameTask(r, made) /\ SameBeliefsOf(r, made)
      /\ made.pc = r.pc /\ made.i = r.i /\ made.at = "pick"
      /\ made.created = r.created \union missing
      /\ made.broken = r.broken /\ made.unread = r.unread
  BY <1>2, <1>3 DEF Fields, SameTask, SameBeliefsOf
<1>5. /\ SameTask(made, s) /\ SameBeliefsOf(made, s) /\ s.pc = "forward" /\ s.i = 1
      /\ s.at = "pick" /\ s.created = r.created \union missing
      /\ s.broken = r.broken /\ s.unread = r.unread
  BY <1>3, <1>4 DEF Fields, SameTask, SameBeliefsOf
<1>6. /\ dirs' = r.before.dirs \union (r.created \union missing)
      /\ r.before.dirs \intersect (r.created \union missing) = {}
  BY <1>1, <1>2 DEF Claim
<1> HIDE DEF made, s, missing
<1>7. CASE Become(m, Failed(made))
  <2>1. made.before = r.before
    BY <1>4 DEF SameTask
  <2> QED
    BY <1>1, <1>4, <1>6, <1>7, <2>1, GiveUpEarly
<1>8. CASE Become(m, s)
  <2>1. SameTask(r, s) /\ SameBeliefsOf(r, s)
    BY <1>4, <1>5 DEF SameTask, SameBeliefsOf
  <2>2. s.before = r.before /\ s.disturbed = r.disturbed /\ s.outcome = "none"
    BY <1>2, <2>1 DEF SameTask
  <2>3. ASSUME ~s.disturbed PROVE Clean(s, file, aside)
    <3>1. Clean(r, file, aside)
      BY <1>2, <1>3, <2>2, <2>3 DEF Claim
    <3>2. /\ Untouched(r, file, aside) /\ Planned(r)
          /\ \A p \in Managed : file[p] = r.here[p] /\ r.here[p] = r.snap[p]
      BY <1>1, <3>1 DEF Clean, Begun
    <3>3. Planned(s)
      BY <2>1, <3>2, TaskDecides
    <3>4. OnTrack(s, file, aside)
      BY <1>5, <2>1, <2>2, <3>2 DEF OnTrack, Untouched, Tracks, SameBeliefsOf
    <3>5. Advanced(s)
      BY <1>5, <2>1, <3>2, OrderAssumption DEF Advanced, SameBeliefsOf
    <3> QED
      BY <1>5, <3>3, <3>4, <3>5 DEF Clean
  <2>4. ~s.disturbed => FoundBy(s)
    <3>1. FoundBy(s) = FoundBy(r)
      BY <2>1, TaskDecides
    <3> QED
      BY <1>1, <1>2, <2>2, <3>1 DEF Claim, Begun
  <2>5. Claim(s, file, aside, dirs')
    BY <1>2, <1>5, <1>6, <2>2, <2>3, <2>4 DEF Claim
  <2>6. s.pc \in Held /\ Unmarked(s)
    BY <1>3, <1>5, <2>2 DEF Held, Unmarked
  <2>7. Total(aside)' /\ \A p \in Managed : Apart(p)'
    BY <1>1, SameTreeApart DEF RollInv, Total
  <2> QED
    BY <1>1, <1>2, <1>8, <2>5, <2>6, <2>7, HolderFrame
<1> QED
  BY <1>1, <1>7, <1>8

-----------------------------------------------------------------------------
(* The walk *)

LEMMA WalkerIsAt ==
  ASSUME RollInv, NEW m \in Processes, Walking(m)
  PROVE  /\ lock = m /\ Claim(proc[m], file, aside, dirs) /\ Unmarked(proc[m])
         /\ DOMAIN proc[m] = Fields /\ proc[m].outcome = "none" /\ proc[m].pc # "ended"
         /\ Walks(proc[m]) /\ Begun(proc[m]) /\ proc[m].i \in 1..Len(Order)
         /\ Path(m) = Order[proc[m].i] /\ Path(m) \in Managed /\ DOMAIN proc[m].here = Managed
<1>1. proc[m].pc \in {"forward", "back"} /\ proc[m].i \in 1..Len(Order) /\ proc[m].i # 0
  BY OrderAssumption DEF Walking
<1>2. SkillsInv
  BY DEF RollInv
<1> QED
  BY <1>1, <1>2, HolderIsAt, WalkingHere DEF Held, Walks, Snapshots

\* A step of the holder that keeps its task and what it has made.
LEMMA WalkRolls ==
  ASSUME RollInv, SkillsInv', NEW m \in Processes, lock = m, Begun(proc[m]),
         Claim(proc[m], file, aside, dirs), proc[m].outcome = "none",
         NEW s, Become(m, s), UNCHANGED <<lock, dirs>>,
         SameTask(proc[m], s), s.created = proc[m].created,
         s.pc = proc[m].pc \/ s.pc = "back", Unmarked(proc[m]),
         s.pc = "back" \/ (s.broken = proc[m].broken /\ s.unread = proc[m].unread),
         s.at \in {"look", "remove"} => s.moved \in aside'[Order[s.i]],
         ~s.disturbed /\ ~s.broken /\ ~s.unread => Clean(s, file', aside'),
         Total(aside)', \A p \in Managed : Apart(p)'
  PROVE  RollInv'
<1>1. Claim(s, file', aside', dirs)
  BY ClaimMoves
<1>2. s.pc \in Held /\ Unmarked(s)
  BY DEF Begun, Held, Unmarked, SameTask
<1> QED
  BY <1>1, <1>2, HolderFrame

\* What a walk forward believes is true as long as it has not begun to move the file at hand.
LEMMA StillTrue ==
  ASSUME NEW r, NEW fl, NEW as, Clean(r, fl, as), r.pc = "forward",
         r.at \in {"pick", "rename", "link"}
  PROVE  \A p \in Managed : as[p] = r.before.aside[p] /\ fl[p] = r.here[p]
<1>1. OnTrack(r, fl, as)
  BY DEF Clean, Walks
<1>2. ASSUME NEW p \in Managed PROVE as[p] = r.before.aside[p] /\ fl[p] = r.here[p]
  <2>1. CASE r.at = "pick" \/ p # Order[r.i]
    BY <1>1, <2>1 DEF OnTrack, Tracks
  <2>2. CASE r.at # "pick" /\ p = Order[r.i]
    BY <1>1, <2>2 DEF OnTrack, InHand
  <2> QED
    BY <2>1, <2>2
<1> QED
  BY <1>2

\* An error in the middle of the walk.
LEMMA GiveUp ==
  ASSUME RollInv, SkillsInv', NEW m \in Processes, lock = m, Begun(proc[m]),
         proc[m].pc \in {"forward", "back"},
         NEW t, DOMAIN t = Fields, SameTask(proc[m], t), SameBeliefsOf(proc[m], t),
         t.pc = proc[m].pc, t.i = proc[m].i, t.created = proc[m].created,
         t.broken = proc[m].broken, t.unread = TRUE \/ t.unread = proc[m].unread,
         Become(m, Failed(t)), UNCHANGED <<lock, dirs>>,
         Total(aside)', \A p \in Managed : Apart(p)',
         t.unread # TRUE /\ proc[m].pc = "forward" /\ Clean(proc[m], file, aside) =>
           \A p \in Managed :
             /\ aside'[p] = proc[m].before.aside[p]
             /\ \/ file'[p] = proc[m].here[p]
                \/ /\ file'[p].data = proc[m].here[p].data
                   /\ file'[p].data = proc[m].snap[p].data
  PROVE  RollInv'
<1> DEFINE r == proc[m]
           s == Failed(t)
<1>1. /\ Claim(r, file, aside, dirs) /\ Unmarked(r) /\ r.outcome = "none"
  BY HolderIsAt DEF Held
<1>2. /\ SameTask(t, s) /\ SameBeliefsOf(t, s) /\ s.pc = "back" /\ s.at = "pick"
      /\ s.created = r.created /\ s.unread = t.unread
      /\ r.pc = "back" => s.broken = TRUE
      /\ r.pc # "back" => /\ s.broken = r.broken
                          /\ s.i = IF r.i > Len(Order) THEN Len(Order) ELSE r.i
  BY FailedFields
<1>3. Become(m, s)
  OBVIOUS
<1> HIDE DEF s
<1>4. SameTask(r, s) /\ SameBeliefsOf(r, s)
  BY <1>2 DEF SameTask, SameBeliefsOf
<1>5. ASSUME ~s.disturbed, ~s.broken, ~s.unread PROVE Clean(s, file', aside')
  <2>1. r.pc = "forward" /\ ~r.broken /\ ~r.unread /\ ~r.disturbed /\ t.unread # TRUE
    BY <1>2, <1>4, <1>5 DEF SameTask
  <2>2. Clean(r, file, aside)
    BY <1>1, <2>1 DEF Claim
  <2>3. Planned(r) /\ Advanced(r)
    BY <2>1, <2>2 DEF Clean, Begun
  <2>4. s.i = IF r.i > Len(Order) THEN Len(Order) ELSE r.i
    BY <1>2, <2>1
  <2> QED
    BY <1>2, <1>4, <2>1, <2>2, <2>3, <2>4, TurnBack
<1> QED
  BY <1>1, <1>2, <1>3, <1>4, <1>5, WalkRolls

\* An error that is marked: what is left behind is not promised anything.
LEMMA GiveUpMarked ==
  ASSUME RollInv, SkillsInv', NEW m \in Processes, lock = m, Begun(proc[m]),
         proc[m].pc \in {"forward", "back"},
         NEW t, DOMAIN t = Fields, SameTask(proc[m], t), t.created = proc[m].created,
         Become(m, FailedBroken(t)), UNCHANGED <<lock, dirs>>,
         Total(aside)', \A p \in Managed : Apart(p)'
  PROVE  RollInv'
<1> DEFINE s == FailedBroken(t)
<1>1. Claim(proc[m], file, aside, dirs) /\ Unmarked(proc[m]) /\ proc[m].outcome = "none"
  BY HolderIsAt DEF Held
<1>2. /\ SameTask(t, s) /\ s.pc = "back" /\ s.at = "pick"
      /\ s.created = proc[m].created /\ s.broken = TRUE
  BY FailedBrokenFields
<1>3. Become(m, s)
  OBVIOUS
<1> HIDE DEF s
<1>4. SameTask(proc[m], s)
  BY <1>2 DEF SameTask
<1> QED
  BY <1>1, <1>2, <1>3, <1>4, WalkRolls

\* A step at one path leaves the files of the others apart.
LEMMA OneApart ==
  ASSUME RollInv, NEW p \in Managed,
         \A q \in Managed \ {p} : file'[q] = file[q] /\ aside'[q] = aside[q],
         Separate(file'[p], aside'[p])
  PROVE  \A q \in Managed : Apart(q)'
<1>1. ASSUME NEW q \in Managed, q # p PROVE Apart(q)'
  BY <1>1 DEF RollInv, Apart
<1> QED
  BY <1>1 DEF Apart

LEMMA NoFileIsFile == IsFile(NoFile)
BY DEF IsFile, NoFile

LEMMA ExceptTotal ==
  ASSUME NEW f, Total(f), NEW p, NEW x
  PROVE  Total([f EXCEPT ![p] = x])
  BY DEF Total

LEMMA FreshIsNew ==
  ASSUME HasFresh, NEW p \in Managed
  PROVE  \A f \in aside[p] : f.inode # Fresh
<1>1. Fresh \notin InUse
  BY DEF HasFresh, Fresh
<1>2. ASSUME NEW f \in aside[p] PROVE f.inode \in InUse
  <2>1. f.inode \in {g.inode : g \in aside[p]}
    OBVIOUS
  <2>2. f.inode \in UNION {{g.inode : g \in aside[q]} : q \in Managed}
    BY <2>1
  <2> QED
    BY <2>2 DEF InUse
<1> QED
  BY <1>1, <1>2

LEMMA PickRolls ==
  ASSUME RollInv, SkillsInv', NEW m \in Processes, Pick(m)
  PROVE  RollInv'
<1> DEFINE r == proc[m]
           p == Path(m)
<1>1. Walking(m) /\ r.at = "pick" /\ UNCHANGED <<file, aside, dirs, lock>>
  BY DEF Pick
<1>2. /\ lock = m /\ Claim(r, file, aside, dirs) /\ Unmarked(r)
      /\ DOMAIN r = Fields /\ r.outcome = "none" /\ Walks(r) /\ Begun(r)
      /\ r.i \in 1..Len(Order) /\ p = Order[r.i] /\ p \in Managed
  BY <1>1, WalkerIsAt
<1>3. Total(aside)' /\ \A q \in Managed : Apart(q)'
  BY <1>1, SameTreeApart DEF RollInv, Total
<1>4. r.pc \in {"forward", "back"}
  BY <1>1 DEF Walking
<1>5. ASSUME NEW s, Become(m, s), SameTask(r, s), s.created = r.created, s.pc = r.pc,
             s.broken = r.broken, s.unread = r.unread, s.at \notin {"look", "remove"},
             Clean(r, file, aside) => Clean(s, file, aside)
      PROVE  RollInv'
  <2>1. ~s.disturbed /\ ~s.broken /\ ~s.unread => Clean(s, file', aside')
    BY <1>1, <1>2, <1>5 DEF Claim, SameTask
  <2> QED
    BY <1>1, <1>2, <1>3, <1>5, <2>1, WalkRolls
<1>6. CASE Become(m, Failed(r))
  <2>1. SameTask(r, r) /\ SameBeliefsOf(r, r)
    BY DEF SameTask, SameBeliefsOf
  <2>2. r.pc = "forward" /\ Clean(r, file, aside) =>
          \A q \in Managed : aside[q] = r.before.aside[q] /\ file[q] = r.here[q]
    BY <1>1, StillTrue
  <2> QED
    BY <1>1, <1>2, <1>3, <1>4, <1>6, <2>1, <2>2, GiveUp
<1>7. CASE Settled(r, p)
  <2> DEFINE s == [r EXCEPT !.i = IF r.pc = "forward" THEN @ + 1 ELSE @ - 1]
  <2>1. Become(m, s)
    BY <1>7 DEF Pick
  <2>2. /\ SameTask(r, s) /\ SameBeliefsOf(r, s) /\ s.created = r.created /\ s.pc = r.pc
        /\ s.broken = r.broken /\ s.unread = r.unread /\ s.at = "pick"
        /\ s.i = IF r.pc = "forward" THEN r.i + 1 ELSE r.i - 1
    BY <1>1, <1>2 DEF Fields, SameTask, SameBeliefsOf
  <2> HIDE DEF s
  <2>3. Clean(r, file, aside) => Clean(s, file, aside)
    BY <1>1, <1>2, <1>7, <2>2, NextFile
  <2> QED
    BY <1>5, <2>1, <2>2, <2>3
<1>8. CASE ~Settled(r, p) /\ ~Become(m, Failed(r))
  <2>1. Clean(r, file, aside) => file[p] = r.here[p] /\ aside[p] = r.before.aside[p]
    <3>1. ASSUME Clean(r, file, aside)
          PROVE  Tracks(r, p, file[p]) /\ aside[p] = r.before.aside[p]
      BY <1>1, <1>2, <3>1 DEF Clean, OnTrack
    <3> QED
      BY <1>8, <3>1 DEF Tracks, Settled, Aim
  <2>2. ASSUME NEW at \in {"rename", "link"}, Become(m, [r EXCEPT !.at = at]),
               at = "rename" => r.here[p] # NoFile, at = "link" => file[p] = NoFile
        PROVE  RollInv'
    <3> DEFINE s == [r EXCEPT !.at = at]
    <3>1. /\ SameTask(r, s) /\ SameBeliefsOf(r, s) /\ s.created = r.created /\ s.pc = r.pc
          /\ s.broken = r.broken /\ s.unread = r.unread /\ s.at = at /\ s.i = r.i
      BY <1>2 DEF Fields, SameTask, SameBeliefsOf
    <3>2. Become(m, s)
      BY <2>2
    <3> HIDE DEF s
    <3>3. Clean(r, file, aside) => InHand(s, file[p], aside[p])
      <4>1. Settled(s, p) <=> Settled(r, p)
        BY <3>1 DEF Settled, Aim, SameBeliefsOf
      <4> QED
        BY <1>2, <1>8, <2>1, <2>2, <3>1, <4>1 DEF InHand, SameTask, SameBeliefsOf
    <3>4. Clean(r, file, aside) => Clean(s, file, aside)
      BY <1>2, <3>1, <3>3, HandMoves
    <3> QED
      BY <1>5, <2>2, <3>1, <3>2, <3>4
  <2>3. ASSUME r.here[p] = NoFile, file[p] # NoFile, Become(m, [r EXCEPT !.here[p] = file[p]])
        PROVE  RollInv'
    <3> DEFINE s == [r EXCEPT !.here[p] = file[p]]
    <3>1. /\ SameTask(r, s) /\ s.created = r.created /\ s.pc = r.pc
          /\ s.broken = r.broken /\ s.unread = r.unread /\ s.at = "pick"
      BY <1>1, <1>2 DEF Fields, SameTask
    <3>2. Become(m, s)
      BY <2>3
    <3> HIDE DEF s
    <3>3. ~Clean(r, file, aside)
      BY <2>1, <2>3
    <3> QED
      BY <1>5, <3>1, <3>2, <3>3
  <2>4. CASE r.here[p] # NoFile
    BY <1>8, <2>2, <2>4 DEF Pick
  <2>5. CASE r.here[p] = NoFile /\ file[p] = NoFile
    BY <1>8, <2>2, <2>5 DEF Pick
  <2>6. CASE r.here[p] = NoFile /\ file[p] # NoFile
    BY <1>8, <2>3, <2>6 DEF Pick
  <2> QED
    BY <2>4, <2>5, <2>6
<1> QED
  BY <1>6, <1>7, <1>8

LEMMA MoveAsideRolls ==
  ASSUME RollInv, SkillsInv', NEW m \in Processes, MoveAside(m)
  PROVE  RollInv'
<1> DEFINE r == proc[m]
           p == Path(m)
<1>1. Walking(m) /\ r.at = "rename" /\ UNCHANGED <<dirs, lock>>
  BY DEF MoveAside
<1>2. /\ lock = m /\ Claim(r, file, aside, dirs) /\ Unmarked(r)
      /\ DOMAIN r = Fields /\ r.outcome = "none" /\ Walks(r) /\ Begun(r)
      /\ r.i \in 1..Len(Order) /\ p = Order[r.i] /\ p \in Managed
  BY <1>1, WalkerIsAt
<1>3. r.pc \in {"forward", "back"}
  BY <1>1 DEF Walking
<1>4. CASE file[p] = NoFile
  <2>1. Become(m, Failed(r)) /\ UNCHANGED <<file, aside>>
    BY <1>4 DEF MoveAside
  <2>2. SameTask(r, r) /\ SameBeliefsOf(r, r)
    BY DEF SameTask, SameBeliefsOf
  <2>3. r.pc = "forward" /\ Clean(r, file, aside) =>
          \A q \in Managed : aside[q] = r.before.aside[q] /\ file[q] = r.here[q]
    BY <1>1, StillTrue
  <2>4. Total(aside)' /\ \A q \in Managed : Apart(q)'
    BY <2>1, SameTreeApart DEF RollInv, Total
  <2> QED
    BY <1>1, <1>2, <1>3, <2>1, <2>2, <2>3, <2>4, GiveUp
<1>5. CASE file[p] # NoFile
  <2> DEFINE s == [r EXCEPT !.at = "look", !.moved = file[p]]
  <2>1. /\ Become(m, s) /\ file' = [file EXCEPT ![p] = NoFile]
        /\ aside' = [aside EXCEPT ![p] = @ \union {file[p]}]
    BY <1>5 DEF MoveAside
  <2>2. /\ SameTask(r, s) /\ SameBeliefsOf(r, s) /\ s.created = r.created /\ s.pc = r.pc
        /\ s.broken = r.broken /\ s.unread = r.unread /\ s.at = "look" /\ s.i = r.i
        /\ s.moved = file[p]
    BY <1>2 DEF Fields, SameTask, SameBeliefsOf
  <2> HIDE DEF s
  <2>3. /\ file'[p] = NoFile /\ aside'[p] = aside[p] \union {file[p]}
        /\ \A q \in Managed \ {p} : file'[q] = file[q] /\ aside'[q] = aside[q]
    BY <1>2, <2>1 DEF RollInv, SkillsInv
  <2>4. Separate(file[p], aside[p])
    BY <1>2 DEF RollInv, Apart
  <2>5. Separate(file'[p], aside'[p])
    BY <1>5, <2>3, <2>4, NoFileIsFile DEF Separate
  <2>6. Total(aside)' /\ \A q \in Managed : Apart(q)'
    BY <1>2, <2>1, <2>3, <2>5, OneApart, ExceptTotal DEF RollInv
  <2>7. Clean(r, file, aside) => Clean(s, file', aside')
    <3>1. SUFFICES ASSUME Clean(r, file, aside) PROVE Clean(s, file', aside')
      OBVIOUS
    <3>2. InHand(r, file[p], aside[p])
      BY <1>1, <1>2, <3>1 DEF Clean, OnTrack
    <3>3. ~Settled(s, p)
      BY <1>2, <2>2, <3>2 DEF InHand, Settled, Aim, SameBeliefsOf
    <3>4. file[p] = r.here[p] /\ aside[p] = r.before.aside[p]
      BY <1>1, <1>2, <3>2 DEF InHand
    <3>5. file[p] \notin aside[p]
      BY <1>5, <2>4 DEF Separate
    <3>6. InHand(s, file'[p], aside'[p])
      BY <1>2, <1>5, <2>2, <2>3, <3>3, <3>4, <3>5 DEF InHand, SameTask, SameBeliefsOf
    <3>7. /\ InHand(s, file'[Order[r.i]], aside'[Order[r.i]])
          /\ \A q \in Managed \ {Order[r.i]} : file'[q] = file[q] /\ aside'[q] = aside[q]
      BY <1>2, <2>3, <3>6
    <3> HIDE DEF r, p
    <3> QED
      BY <1>2, <2>2, <3>1, <3>7, HandMoves
  <2>8. ~s.disturbed /\ ~s.broken /\ ~s.unread => Clean(s, file', aside')
    BY <1>2, <2>2, <2>7 DEF Claim, SameTask
  <2>9. s.moved \in aside'[Order[s.i]]
    BY <1>2, <2>2, <2>3
  <2> QED
    BY <1>1, <1>2, <2>1, <2>2, <2>6, <2>8, <2>9, WalkRolls
<1> QED
  BY <1>4, <1>5

LEMMA LookRolls ==
  ASSUME RollInv, SkillsInv', NEW m \in Processes, Look(m)
  PROVE  RollInv'
<1> DEFINE r == proc[m]
           p == Path(m)
           t == [r EXCEPT !.moved = NoFile]
<1>1. Walking(m) /\ r.at = "look" /\ UNCHANGED <<dirs, lock>>
  BY DEF Look
<1>2. /\ lock = m /\ Claim(r, file, aside, dirs) /\ Unmarked(r)
      /\ DOMAIN r = Fields /\ r.outcome = "none" /\ Walks(r) /\ Begun(r)
      /\ r.i \in 1..Len(Order) /\ p = Order[r.i] /\ p \in Managed
  BY <1>1, WalkerIsAt
<1>3. r.pc \in {"forward", "back"}
  BY <1>1 DEF Walking
<1>4. /\ DOMAIN t = Fields /\ SameTask(r, t) /\ SameBeliefsOf(r, t) /\ t.pc = r.pc
      /\ t.i = r.i /\ t.created = r.created /\ t.broken = r.broken /\ t.unread = r.unread
  BY <1>2 DEF Fields, SameTask, SameBeliefsOf
<1>5. Clean(r, file, aside) => InHand(r, file[p], aside[p])
  BY <1>1, <1>2 DEF Clean, OnTrack
<1>6. r.moved \in aside[p] /\ Separate(file[p], aside[p])
  BY <1>1, <1>2 DEF Claim, RollInv, Apart
<1> HIDE DEF t
<1>7. CASE SameAs(r, p)
  <2> DEFINE s == [r EXCEPT !.at = "remove"]
  <2>1. Become(m, s) /\ UNCHANGED <<file, aside>>
    BY <1>7 DEF Look
  <2>2. /\ SameTask(r, s) /\ SameBeliefsOf(r, s) /\ s.created = r.created /\ s.pc = r.pc
        /\ s.broken = r.broken /\ s.unread = r.unread /\ s.at = "remove" /\ s.i = r.i
        /\ s.moved = r.moved
    BY <1>2 DEF Fields, SameTask, SameBeliefsOf
  <2> HIDE DEF s
  <2>3. Clean(r, file, aside) => InHand(s, file[p], aside[p])
    <3>1. Settled(s, p) <=> Settled(r, p)
      BY <2>2 DEF Settled, Aim, SameBeliefsOf
    <3> QED
      BY <1>1, <1>2, <1>5, <2>2, <3>1 DEF InHand, SameTask, SameBeliefsOf
  <2>4. Clean(r, file, aside) => Clean(s, file, aside)
    BY <1>2, <2>2, <2>3, HandMoves
  <2>5. ~s.disturbed /\ ~s.broken /\ ~s.unread => Clean(s, file', aside')
    BY <1>2, <2>1, <2>2, <2>4 DEF Claim, SameTask
  <2>6. s.moved \in aside'[Order[s.i]]
    BY <1>2, <1>6, <2>1, <2>2
  <2>7. Total(aside)' /\ \A q \in Managed : Apart(q)'
    BY <2>1, SameTreeApart DEF RollInv, Total
  <2> QED
    BY <1>1, <1>2, <2>1, <2>2, <2>5, <2>6, <2>7, WalkRolls
<1>8. CASE ~SameAs(r, p) /\ file[p] = NoFile
  <2>1. PutBack(p, r.moved) /\ Become(m, Failed(t))
    BY <1>8 DEF Look, t
  <2>2. /\ file'[p] = r.moved /\ aside'[p] = aside[p] \ {r.moved}
        /\ \A q \in Managed \ {p} : file'[q] = file[q] /\ aside'[q] = aside[q]
    BY <1>2, <2>1 DEF RollInv, SkillsInv, PutBack
  <2>3. Separate(file'[p], aside'[p])
    BY <1>6, <2>2 DEF Separate
  <2>4. Total(aside)' /\ \A q \in Managed : Apart(q)'
    BY <1>2, <2>1, <2>2, <2>3, OneApart, ExceptTotal DEF RollInv, PutBack
  <2>5. ~Clean(r, file, aside)
    BY <1>1, <1>2, <1>5, <1>8 DEF InHand, SameAs
  <2> HIDE DEF r
  <2> QED
    BY <1>1, <1>2, <1>3, <1>4, <2>1, <2>4, <2>5, GiveUp DEF r
<1>9. CASE ~SameAs(r, p) /\ file[p] # NoFile
  <2>1. Become(m, FailedBroken(t)) /\ UNCHANGED <<file, aside>>
    BY <1>9 DEF Look, t
  <2>2. Total(aside)' /\ \A q \in Managed : Apart(q)'
    BY <2>1, SameTreeApart DEF RollInv, Total
  <2> QED
    BY <1>1, <1>2, <1>3, <1>4, <2>1, <2>2, GiveUpMarked
<1> QED
  BY <1>7, <1>8, <1>9

LEMMA RemoveRolls ==
  ASSUME RollInv, SkillsInv', NEW m \in Processes, Remove(m)
  PROVE  RollInv'
<1> DEFINE r == proc[m]
           p == Path(m)
           s == [r EXCEPT !.at = "pick", !.here[p] = NoFile, !.moved = NoFile]
<1>1. /\ Walking(m) /\ r.at = "remove" /\ UNCHANGED <<file, dirs, lock>>
      /\ aside' = [aside EXCEPT ![p] = @ \ {r.moved}] /\ Become(m, s)
  BY DEF Remove
<1>2. /\ lock = m /\ Claim(r, file, aside, dirs) /\ Unmarked(r)
      /\ DOMAIN r = Fields /\ r.outcome = "none" /\ Walks(r) /\ Begun(r)
      /\ r.i \in 1..Len(Order) /\ p = Order[r.i] /\ p \in Managed /\ DOMAIN r.here = Managed
  BY <1>1, WalkerIsAt
<1>3. /\ SameTask(r, s) /\ s.goal = r.goal /\ s.snap = r.snap /\ s.created = r.created
      /\ s.pc = r.pc /\ s.broken = r.broken /\ s.unread = r.unread /\ s.at = "pick"
      /\ s.i = r.i /\ s.here = [r.here EXCEPT ![p] = NoFile]
  BY <1>2 DEF Fields, SameTask
<1> HIDE DEF s
<1>4. /\ aside'[p] = aside[p] \ {r.moved}
      /\ \A q \in Managed \ {p} : file'[q] = file[q] /\ aside'[q] = aside[q]
  BY <1>1, <1>2 DEF RollInv, SkillsInv
<1>5. Separate(file'[p], aside'[p])
  BY <1>1, <1>2, <1>4 DEF RollInv, Apart, Separate
<1>6. Total(aside)' /\ \A q \in Managed : Apart(q)'
  BY <1>1, <1>2, <1>4, <1>5, OneApart, ExceptTotal DEF RollInv
<1>7. Clean(r, file, aside) => Clean(s, file', aside')
  <2>1. SUFFICES ASSUME Clean(r, file, aside) PROVE Clean(s, file', aside')
    OBVIOUS
  <2>2. InHand(r, file[p], aside[p])
    BY <1>1, <1>2, <2>1 DEF Clean, OnTrack
  <2>3. /\ file[p] = NoFile /\ aside[p] = r.before.aside[p] \union {r.moved}
        /\ r.moved \notin r.before.aside[p]
    BY <1>1, <1>2, <2>2 DEF InHand
  <2>4. file'[p] = NoFile /\ aside'[p] = r.before.aside[p]
    BY <1>1, <1>4, <2>3
  <2>5. /\ file'[Order[r.i]] = NoFile /\ aside'[Order[r.i]] = r.before.aside[Order[r.i]]
        /\ Order[r.i] \in Managed /\ s.here = [r.here EXCEPT ![Order[r.i]] = NoFile]
        /\ \A q \in Managed \ {Order[r.i]} : file'[q] = file[q] /\ aside'[q] = aside[q]
    BY <1>2, <1>3, <1>4, <2>4
  <2>6. r.at # "pick"
    BY <1>1
  <2> HIDE DEF r, p
  <2> QED
    BY <1>2, <1>3, <2>1, <2>5, <2>6, Replaced
<1>8. ~s.disturbed /\ ~s.broken /\ ~s.unread => Clean(s, file', aside')
  BY <1>2, <1>3, <1>7 DEF Claim, SameTask
<1> QED
  BY <1>1, <1>2, <1>3, <1>6, <1>8, WalkRolls

LEMMA LinkRolls ==
  ASSUME RollInv, SkillsInv', NEW m \in Processes, Link(m)
  PROVE  RollInv'
<1> DEFINE r == proc[m]
           p == Path(m)
<1>1. Walking(m) /\ r.at = "link" /\ UNCHANGED <<aside, dirs, lock>>
  BY DEF Link
<1>2. /\ lock = m /\ Claim(r, file, aside, dirs) /\ Unmarked(r)
      /\ DOMAIN r = Fields /\ r.outcome = "none" /\ Walks(r) /\ Begun(r)
      /\ r.i \in 1..Len(Order) /\ p = Order[r.i] /\ p \in Managed
  BY <1>1, WalkerIsAt
<1>3. r.pc \in {"forward", "back"}
  BY <1>1 DEF Walking
<1>4. CASE file[p] # NoFile
  <2>1. Become(m, Failed(r)) /\ UNCHANGED <<file, aside>>
    BY <1>1, <1>4 DEF Link
  <2>2. SameTask(r, r) /\ SameBeliefsOf(r, r)
    BY DEF SameTask, SameBeliefsOf
  <2>3. r.pc = "forward" /\ Clean(r, file, aside) =>
          \A q \in Managed : aside[q] = r.before.aside[q] /\ file[q] = r.here[q]
    BY <1>1, StillTrue
  <2>4. Total(aside)' /\ \A q \in Managed : Apart(q)'
    BY <2>1, SameTreeApart DEF RollInv, Total
  <2> QED
    BY <1>1, <1>2, <1>3, <2>1, <2>2, <2>3, <2>4, GiveUp
<1>5. CASE file[p] = NoFile
  <2> DEFINE new == [data |-> Aim(r, p), inode |-> Fresh]
             s == [r EXCEPT !.at = "check", !.put = new]
  <2>1. Become(m, s) /\ file' = [file EXCEPT ![p] = new]
    BY <1>5 DEF Link
  <2>2. /\ SameTask(r, s) /\ SameBeliefsOf(r, s) /\ s.created = r.created /\ s.pc = r.pc
        /\ s.broken = r.broken /\ s.unread = r.unread /\ s.at = "check" /\ s.i = r.i
        /\ s.put = new
    BY <1>2 DEF Fields, SameTask, SameBeliefsOf
  <2>3. new.data = Aim(r, p) /\ new.inode = Fresh /\ IsFile(new)
    BY DEF IsFile
  <2> HIDE DEF s, new
  <2>4. /\ file'[p] = new
        /\ \A q \in Managed \ {p} : file'[q] = file[q] /\ aside'[q] = aside[q]
    BY <1>1, <1>2, <2>1 DEF RollInv, SkillsInv
  <2>5. Separate(file'[p], aside'[p])
    <3>1. \A f \in aside[p] : f.inode # Fresh
      <4>1. HasFresh
        BY <1>5 DEF Link
      <4> QED
        BY <1>2, <4>1, FreshIsNew
    <3> QED
      BY <1>1, <1>2, <2>3, <2>4, <3>1 DEF RollInv, Apart, Separate
  <2>6. Total(aside)' /\ \A q \in Managed : Apart(q)'
    BY <1>1, <1>2, <2>4, <2>5, OneApart DEF RollInv, Total
  <2>7. Clean(r, file, aside) => Clean(s, file', aside')
    <3>1. SUFFICES ASSUME Clean(r, file, aside) PROVE Clean(s, file', aside')
      OBVIOUS
    <3>2. InHand(r, file[p], aside[p])
      BY <1>1, <1>2, <3>1 DEF Clean, OnTrack
    <3>3. (Settled(s, p) <=> Settled(r, p)) /\ Aim(s, p) = Aim(r, p)
      BY <2>2 DEF Settled, Aim, SameBeliefsOf
    <3>4. InHand(s, file'[p], aside'[p])
      BY <1>1, <1>2, <2>2, <2>3, <2>4, <3>2, <3>3 DEF InHand, SameTask, SameBeliefsOf
    <3>5. /\ InHand(s, file'[Order[r.i]], aside'[Order[r.i]])
          /\ \A q \in Managed \ {Order[r.i]} : file'[q] = file[q] /\ aside'[q] = aside[q]
      BY <1>2, <2>4, <3>4
    <3> HIDE DEF r, p
    <3> QED
      BY <1>2, <2>2, <3>1, <3>5, HandMoves
  <2>8. ~s.disturbed /\ ~s.broken /\ ~s.unread => Clean(s, file', aside')
    BY <1>2, <2>2, <2>7 DEF Claim, SameTask
  <2> QED
    BY <1>1, <1>2, <2>1, <2>2, <2>6, <2>8, WalkRolls
<1> QED
  BY <1>4, <1>5

LEMMA CheckRolls ==
  ASSUME RollInv, SkillsInv', NEW m \in Processes, Check(m)
  PROVE  RollInv'
<1> DEFINE r == proc[m]
           p == Path(m)
           t == [r EXCEPT !.put = NoFile]
<1>1. Walking(m) /\ r.at = "check" /\ UNCHANGED <<file, aside, dirs, lock>>
  BY DEF Check
<1>2. /\ lock = m /\ Claim(r, file, aside, dirs) /\ Unmarked(r)
      /\ DOMAIN r = Fields /\ r.outcome = "none" /\ Walks(r) /\ Begun(r)
      /\ r.i \in 1..Len(Order) /\ p = Order[r.i] /\ p \in Managed /\ DOMAIN r.here = Managed
  BY <1>1, WalkerIsAt
<1>3. r.pc \in {"forward", "back"}
  BY <1>1 DEF Walking
<1>4. /\ DOMAIN t = Fields /\ SameTask(r, t) /\ SameBeliefsOf(r, t) /\ t.pc = r.pc
      /\ t.i = r.i /\ t.created = r.created /\ t.broken = r.broken /\ t.unread = r.unread
  BY <1>2 DEF Fields, SameTask, SameBeliefsOf
<1>5. Clean(r, file, aside) => InHand(r, file[p], aside[p])
  BY <1>1, <1>2 DEF Clean, OnTrack
<1>6. Total(aside)' /\ \A q \in Managed : Apart(q)'
  BY <1>1, SameTreeApart DEF RollInv, Total
<1> HIDE DEF t
<1>7. CASE file[p] = r.put
  <2> DEFINE s == [t EXCEPT !.at = "pick", !.here[p] = file[p]]
  <2>1. Become(m, s)
    BY <1>7 DEF Check, t
  <2>2. /\ SameTask(t, s) /\ s.goal = t.goal /\ s.snap = t.snap /\ s.created = t.created
        /\ s.pc = t.pc /\ s.broken = t.broken /\ s.unread = t.unread /\ s.at = "pick"
        /\ s.i = t.i /\ s.here = [t.here EXCEPT ![p] = file[p]]
    BY <1>4 DEF Fields, SameTask
  <2> HIDE DEF s
  <2>3. /\ SameTask(r, s) /\ s.goal = r.goal /\ s.snap = r.snap /\ s.created = r.created
        /\ s.pc = r.pc /\ s.broken = r.broken /\ s.unread = r.unread /\ s.at = "pick"
        /\ s.i = r.i /\ s.here = [r.here EXCEPT ![p] = file[p]]
    BY <1>4, <2>2 DEF SameTask, SameBeliefsOf
  <2>4. Clean(r, file, aside) => Clean(s, file, aside)
    <3>1. SUFFICES ASSUME Clean(r, file, aside) PROVE Clean(s, file, aside)
      OBVIOUS
    <3>2. InHand(r, file[p], aside[p])
      BY <1>5, <3>1
    <3>3. file[p].data = Aim(r, p) /\ aside[p] = r.before.aside[p]
      BY <1>1, <1>2, <3>2 DEF InHand
    <3>4. /\ file[Order[r.i]].data = Aim(r, Order[r.i])
          /\ aside[Order[r.i]] = r.before.aside[Order[r.i]] /\ Order[r.i] \in Managed
          /\ s.here = [r.here EXCEPT ![Order[r.i]] = file[Order[r.i]]]
      BY <1>2, <2>3, <3>3
    <3>5. r.at # "pick"
      BY <1>1
    <3> HIDE DEF r, p
    <3> QED
      BY <1>2, <2>3, <3>1, <3>4, <3>5, Replaced
  <2>5. ~s.disturbed /\ ~s.broken /\ ~s.unread => Clean(s, file', aside')
    BY <1>1, <1>2, <2>3, <2>4 DEF Claim, SameTask
  <2> QED
    BY <1>1, <1>2, <1>6, <2>1, <2>3, <2>5, WalkRolls
<1>8. CASE file[p] # r.put
  <2>1. Become(m, Failed(t))
    BY <1>8 DEF Check, t
  <2>2. ~Clean(r, file, aside)
    BY <1>1, <1>2, <1>5, <1>8 DEF InHand
  <2> QED
    BY <1>1, <1>2, <1>3, <1>4, <1>6, <2>1, <2>2, GiveUp
<1> QED
  BY <1>7, <1>8

-----------------------------------------------------------------------------
(* Failing calls *)

LEMMA FaultRolls ==
  ASSUME RollInv, SkillsInv', NEW m \in Processes, Fault(m)
  PROVE  RollInv'
<1> DEFINE r == proc[m]
           p == Path(m)
           t == [r EXCEPT !.moved = NoFile, !.put = NoFile]
<1>1. UNCHANGED lock /\ DOMAIN r = Fields
  BY DEF Fault, RollInv, SkillsInv, Good
<1>2. /\ DOMAIN t = Fields /\ SameTask(r, t) /\ SameBeliefsOf(r, t) /\ t.pc = r.pc
      /\ t.i = r.i /\ t.created = r.created /\ t.broken = r.broken /\ t.unread = r.unread
      /\ t.ver = r.ver
  BY <1>1 DEF Fields, SameTask, SameBeliefsOf
<1>3. UNCHANGED <<file, aside>> => Total(aside)' /\ \A q \in Managed : Apart(q)'
  BY SameTreeApart DEF RollInv, Total
<1>4. ASSUME Walking(m)
      PROVE  /\ lock = m /\ Begun(r) /\ r.pc \in {"forward", "back"} /\ p = Order[r.i]
             /\ p \in Managed /\ Separate(file[p], aside[p]) /\ Claim(r, file, aside, dirs)
             /\ r.at # "pick" /\ Clean(r, file, aside) => InHand(r, file[p], aside[p])
  <2>1. r.pc \in {"forward", "back"}
    BY <1>4 DEF Walking
  <2> QED
    BY <1>4, <2>1, WalkerIsAt DEF RollInv, Apart, Clean, OnTrack
<1> HIDE DEF t
<1>5. CASE /\ \/ r.pc = "locked"
              \/ r.pc = "forward" /\ r.i > Len(Order)
              \/ Walking(m) /\ r.at \in {"rename", "link"}
           /\ Become(m, Failed(t)) /\ UNCHANGED <<file, aside, dirs>>
  <2>1. CASE r.pc = "locked"
    <3>1. Claim(r, file, aside, dirs) /\ t.before = r.before
      BY <1>2, <2>1, HolderIsAt DEF Held, SameTask
    <3> QED
      BY <1>1, <1>2, <1>5, <2>1, <3>1, GiveUpEarly DEF Claim
  <2>2. CASE r.pc # "locked"
    <3>1. r.pc \in {"forward", "back"} /\ lock = m /\ Begun(r) /\ r.at \in {"pick", "rename", "link"}
      <4>1. CASE Walking(m)
        BY <1>4, <1>5, <2>2, <4>1, OrderAssumption DEF RollInv, SkillsInv, Good, AtOwnPath
      <4>2. CASE r.pc = "forward" /\ r.i > Len(Order)
        <5>1. ~(r.i \in 1..Len(Order))
          BY <4>2, OrderAssumption
        <5>2. r.at = "pick"
          BY <5>1 DEF RollInv, SkillsInv, Good, AtOwnPath
        <5> QED
          BY <4>2, <5>2, HolderIsAt DEF Held, Begun
      <4> QED
        BY <1>5, <2>2, <4>1, <4>2
    <3>2. r.pc = "forward" /\ Clean(r, file, aside) =>
            \A q \in Managed : aside[q] = r.before.aside[q] /\ file[q] = r.here[q]
      BY <3>1, StillTrue
    <3> QED
      BY <1>1, <1>2, <1>3, <1>5, <3>1, <3>2, GiveUp
  <2> QED
    BY <2>1, <2>2
<1>6. CASE /\ Walking(m) /\ r.at = "look"
           /\ Become(m, Failed([t EXCEPT !.unread = TRUE])) /\ UNCHANGED <<file, aside, dirs>>
  <2> DEFINE u == [t EXCEPT !.unread = TRUE]
  <2>1. /\ DOMAIN u = Fields /\ SameTask(r, u) /\ SameBeliefsOf(r, u) /\ u.pc = r.pc
        /\ u.i = r.i /\ u.created = r.created /\ u.broken = r.broken /\ u.unread = TRUE
    BY <1>2 DEF Fields, SameTask, SameBeliefsOf
  <2>2. Become(m, Failed(u))
    BY <1>6
  <2> HIDE DEF u, r
  <2> QED
    BY <1>1, <1>3, <1>4, <1>6, <2>1, <2>2, GiveUp DEF r
<1>7. CASE /\ r.pc = "accepted" /\ UNCHANGED <<file, aside>>
           /\ \E D \in SUBSET ({DirOf[q] : q \in Paths(t.ver) \union {Receipt}} \ dirs) :
                /\ dirs' = dirs \union D
                /\ Become(m, Failed([t EXCEPT !.created = @ \union D]))
  <2>1. PICK D \in SUBSET ({DirOf[q] : q \in Paths(t.ver) \union {Receipt}} \ dirs) :
               /\ dirs' = dirs \union D
               /\ Become(m, Failed([t EXCEPT !.created = @ \union D]))
    BY <1>7
  <2> DEFINE u == [t EXCEPT !.created = @ \union D]
  <2>2. /\ DOMAIN u = Fields /\ SameTask(r, u) /\ u.pc = r.pc /\ u.i = r.i
        /\ u.created = r.created \union D
    BY <1>2 DEF Fields, SameTask
  <2>3. Claim(r, file, aside, dirs) /\ u.before = r.before
    BY <1>7, <2>2, HolderIsAt DEF Held, SameTask
  <2>4. dirs' = u.before.dirs \union u.created /\ u.before.dirs \intersect u.created = {}
    BY <2>1, <2>2, <2>3 DEF Claim
  <2>5. Become(m, Failed(u))
    BY <2>1
  <2> HIDE DEF u
  <2> QED
    BY <1>1, <1>7, <2>2, <2>4, <2>5, GiveUpEarly
<1>8. CASE /\ Walking(m) /\ r.at = "remove" /\ file[p] # NoFile
           /\ Become(m, FailedBroken(t)) /\ UNCHANGED <<file, dirs>>
           /\ aside' \in {aside, [aside EXCEPT ![p] = @ \ {r.moved}]}
  <2>1. CASE aside' = aside
    BY <1>1, <1>2, <1>3, <1>4, <1>8, <2>1, GiveUpMarked
  <2>2. CASE aside' = [aside EXCEPT ![p] = @ \ {r.moved}]
    <3>1. /\ aside'[p] = aside[p] \ {r.moved}
          /\ \A q \in Managed \ {p} : file'[q] = file[q] /\ aside'[q] = aside[q]
      BY <1>4, <1>8, <2>2 DEF RollInv, SkillsInv
    <3>2. Separate(file'[p], aside'[p])
      BY <1>4, <1>8, <3>1 DEF Separate
    <3>3. Total(aside)' /\ \A q \in Managed : Apart(q)'
      BY <1>4, <1>8, <2>2, <3>1, <3>2, OneApart, ExceptTotal DEF RollInv
    <3> QED
      BY <1>1, <1>2, <1>4, <1>8, <3>3, GiveUpMarked
  <2> QED
    BY <1>8, <2>1, <2>2
\* The file that was moved comes back, itself or as a copy.
<1>9. ASSUME Walking(m), r.at = "remove", file[p] = NoFile, Become(m, Failed(t)), UNCHANGED dirs,
             NEW f, f.data = r.moved.data,
             f = r.moved \/ (IsFile(f) /\ f.inode = Fresh /\ HasFresh),
             file' = [file EXCEPT ![p] = f], aside' = [aside EXCEPT ![p] = @ \ {r.moved}]
      PROVE  RollInv'
  <2>1. /\ file'[p] = f /\ aside'[p] = aside[p] \ {r.moved}
        /\ \A q \in Managed \ {p} : file'[q] = file[q] /\ aside'[q] = aside[q]
    BY <1>4, <1>9 DEF RollInv, SkillsInv
  <2>2. Separate(file'[p], aside'[p])
    <3>1. r.moved \in aside[p]
      BY <1>4, <1>9 DEF Claim
    <3>2. HasFresh => \A g \in aside[p] : g.inode # Fresh
      BY <1>4, <1>9, FreshIsNew
    <3> QED
      BY <1>4, <1>9, <2>1, <3>1, <3>2 DEF Separate
  <2>3. Total(aside)' /\ \A q \in Managed : Apart(q)'
    BY <1>4, <1>9, <2>1, <2>2, OneApart, ExceptTotal DEF RollInv
  <2>4. ASSUME r.pc = "forward", Clean(r, file, aside), NEW q \in Managed
        PROVE  /\ aside'[q] = r.before.aside[q]
               /\ \/ file'[q] = r.here[q]
                  \/ file'[q].data = r.here[q].data /\ file'[q].data = r.snap[q].data
    <3>1. OnTrack(r, file, aside) /\ Advanced(r)
      BY <2>4 DEF Clean, Walks
    <3>2. CASE q = p
      <4>1. InHand(r, file[p], aside[p])
        BY <1>4, <1>9, <2>4
      <4>2. /\ r.moved = r.here[p] /\ r.here[p] # NoFile /\ r.moved \notin r.before.aside[p]
            /\ aside[p] = r.before.aside[p] \union {r.moved} /\ r.here[p].data # r.goal[p]
        BY <1>4, <1>9, <2>4, <4>1 DEF InHand, Settled, Aim
      <4>3. r.here[p] = r.snap[p]
        BY <1>4, <1>9, <3>1, <4>2 DEF Advanced
      <4>4. aside'[p] = r.before.aside[p]
        BY <2>1, <4>2
      <4> QED
        BY <1>9, <2>1, <3>2, <4>2, <4>3, <4>4
    <3>3. CASE q # p
      BY <1>4, <1>9, <2>1, <2>4, <3>1, <3>3 DEF OnTrack, Tracks
    <3> QED
      BY <3>2, <3>3
  <2> HIDE DEF r
  <2> QED
    BY <1>1, <1>2, <1>4, <1>9, <2>3, <2>4, GiveUp DEF r
<1>10. CASE /\ Walking(m) /\ r.at = "remove" /\ file[p] = NoFile /\ PutBack(p, r.moved)
            /\ Become(m, Failed(t)) /\ UNCHANGED dirs
  BY <1>9, <1>10 DEF PutBack
<1>11. CASE /\ Walking(m) /\ r.at = "remove" /\ file[p] = NoFile /\ HasFresh
            /\ file' = [file EXCEPT ![p] = [data |-> r.moved.data, inode |-> Fresh]]
            /\ aside' = [aside EXCEPT ![p] = @ \ {r.moved}]
            /\ Become(m, Failed(t)) /\ UNCHANGED dirs
  <2> DEFINE f == [data |-> r.moved.data, inode |-> Fresh]
  <2>1. f.data = r.moved.data /\ f.inode = Fresh /\ IsFile(f) /\ file' = [file EXCEPT ![p] = f]
    BY <1>11 DEF IsFile
  <2> HIDE DEF f
  <2> QED
    BY <1>9, <1>11, <2>1
<1>12. CASE /\ Walking(m) /\ r.at = "check"
            /\ file' = IF file[p] = r.put THEN [file EXCEPT ![p] = NoFile] ELSE file
            /\ Become(m, Failed(t)) /\ UNCHANGED <<aside, dirs>>
  <2>1. CASE file[p] # r.put
    <3>1. ~Clean(r, file, aside)
      BY <1>4, <1>12, <2>1 DEF InHand
    <3>2. UNCHANGED <<file, aside>>
      BY <1>12, <2>1
    <3> QED
      BY <1>1, <1>2, <1>3, <1>4, <1>12, <3>1, <3>2, GiveUp
  <2>2. CASE file[p] = r.put
    <3>1. file'[p] = NoFile /\ \A q \in Managed \ {p} : file'[q] = file[q] /\ aside'[q] = aside[q]
      BY <1>4, <1>12, <2>2 DEF RollInv, SkillsInv
    <3>2. Separate(file'[p], aside'[p])
      BY <1>4, <1>12, <3>1, NoFileIsFile DEF Separate
    <3>3. Total(aside)' /\ \A q \in Managed : Apart(q)'
      BY <1>4, <1>12, <3>1, <3>2, OneApart DEF RollInv, Total
    <3>4. ASSUME r.pc = "forward", Clean(r, file, aside), NEW q \in Managed
          PROVE  aside'[q] = r.before.aside[q] /\ file'[q] = r.here[q]
      <4>1. OnTrack(r, file, aside) /\ InHand(r, file[p], aside[p])
        BY <1>4, <1>12, <3>4 DEF Clean, Walks
      <4>2. CASE q = p
        BY <1>4, <1>12, <3>1, <4>1, <4>2 DEF InHand
      <4>3. CASE q # p
        BY <1>4, <1>12, <3>1, <3>4, <4>1, <4>3 DEF OnTrack, Tracks
      <4> QED
        BY <4>2, <4>3
    <3> HIDE DEF r
    <3> QED
      BY <1>1, <1>2, <1>4, <1>12, <3>3, <3>4, GiveUp DEF r
  <2> QED
    BY <2>1, <2>2
<1>13. CASE /\ dirs' \in {dirs} \union IF t.pc = "planned" /\ t.op = "install"
                                     THEN {dirs \union {Root}} ELSE {}
            /\ End(m, "failed") /\ UNCHANGED <<file, aside>>
  BY <1>13, EndFrame DEF OnlyRoot
<1> QED
  BY <1>5, <1>6, <1>7, <1>8, <1>10, <1>11, <1>12, <1>13 DEF Fault, t

-----------------------------------------------------------------------------
(* The theorems *)

LEMMA EndRolls ==
  ASSUME RollInv, SkillsInv', NEW m \in Processes, Verify(m) \/ Abandon(m) \/ Crash(m)
  PROVE  RollInv'
<1>1. CASE Verify(m) \/ Crash(m)
  BY <1>1, EndFrame DEF Verify, Crash, OnlyRoot
<1>2. CASE Abandon(m)
  BY <1>2, AbandonFrame
<1> QED
  BY <1>1, <1>2

\* Somebody else's edit disturbs the mutation under way, and no file becomes one set aside.
LEMMA EditRolls ==
  ASSUME RollInv, SkillsInv', NEW p \in Managed, Edit(p)
  PROVE  RollInv'
<1>1. UNCHANGED <<aside, dirs, lock>>
      /\ proc' = [m \in Processes |-> [proc[m] EXCEPT !.disturbed = @ \/ lock = m]]
  BY DEF Edit
<1>2. ASSUME NEW m \in Processes
      PROVE  /\ Unmarked(proc'[m]) /\ (proc'[m].pc \in Held <=> lock' = m)
             /\ lock' = m => Claim(proc'[m], file', aside', dirs')
             /\ Opened(proc'[m], dirs')
  <2> DEFINE r == proc[m]
             s == [r EXCEPT !.disturbed = @ \/ lock = m]
  <2>1. DOMAIN r = Fields /\ proc'[m] = s
    BY <1>1 DEF RollInv, SkillsInv, Good
  <2>2. /\ s.pc = r.pc /\ s.outcome = r.outcome /\ s.broken = r.broken /\ s.unread = r.unread
        /\ s.before = r.before /\ s.created = r.created /\ s.at = r.at /\ s.moved = r.moved
        /\ s.i = r.i /\ s.disturbed = (r.disturbed \/ lock = m)
    BY <2>1 DEF Fields
  <2> HIDE DEF s
  <2>3. lock = m => Claim(s, file', aside', dirs')
    <3>1. SUFFICES ASSUME lock = m PROVE Claim(s, file', aside', dirs')
      OBVIOUS
    <3>2. s.disturbed
      BY <2>2, <3>1
    <3>3. Claim(r, file, aside, dirs)
      BY <3>1 DEF RollInv
    <3> QED
      BY <1>1, <2>2, <3>2, <3>3 DEF Claim
  <2> QED
    BY <1>1, <2>1, <2>2, <2>3 DEF RollInv, Unmarked, Opened
<1>3. \A q \in Managed : Apart(q)'
  <2>1. PICK f : /\ file' = [file EXCEPT ![p] = f]
                 /\ IsFile(f)
                 /\ \/ f = NoFile \/ f.inode = Fresh
                    \/ file[p] # NoFile /\ f.inode = file[p].inode
    <3>1. PICK f \in IF file[p] = NoFile THEN {[data |-> Foreign, inode |-> Fresh]}
                     ELSE {NoFile, [file[p] EXCEPT !.data = Foreign],
                           [file[p] EXCEPT !.inode = Fresh]} :
            file' = [file EXCEPT ![p] = f]
      BY DEF Edit
    <3>2. IsFile(file[p])
      BY DEF RollInv, Apart, Separate
    <3>3. ASSUME file[p] # NoFile
          PROVE  IsFile(f) /\ (f = NoFile \/ f.inode = Fresh \/ f.inode = file[p].inode)
      <4>1. f \in {NoFile, [file[p] EXCEPT !.data = Foreign], [file[p] EXCEPT !.inode = Fresh]}
        BY <3>1, <3>3
      <4>2. CASE f = NoFile
        BY <4>2, NoFileIsFile
      <4>3. CASE f = [file[p] EXCEPT !.data = Foreign]
        BY <3>2, <4>3 DEF IsFile
      <4>4. CASE f = [file[p] EXCEPT !.inode = Fresh]
        BY <3>2, <4>4 DEF IsFile
      <4> QED
        BY <4>1, <4>2, <4>3, <4>4
    <3>4. ASSUME file[p] = NoFile PROVE IsFile(f) /\ f.inode = Fresh
      BY <3>1, <3>4 DEF IsFile
    <3> QED
      BY <3>1, <3>3, <3>4
  <2>2. /\ file'[p] = f /\ \A q \in Managed \ {p} : file'[q] = file[q] /\ aside'[q] = aside[q]
    BY <1>1, <2>1 DEF RollInv, SkillsInv
  <2>3. \A g \in aside[p] : g.inode # Fresh
    BY FreshIsNew DEF Edit
  <2>4. Separate(file'[p], aside'[p])
    BY <1>1, <2>1, <2>2, <2>3 DEF RollInv, Apart, Separate
  <2> QED
    BY <2>2, <2>4, OneApart
<1>4. Total(aside)'
  BY <1>1 DEF RollInv, Total
<1> QED
  BY <1>2, <1>3, <1>4 DEF RollInv

LEMMA RollStep ==
  ASSUME RollInv, Next
  PROVE  RollInv'
<1>1. SkillsInv
  BY DEF RollInv
<1>2. ASSUME NEW m \in Processes, Mutate(m) PROVE RollInv'
  <2>1. SkillsInv'
    BY <1>1, <1>2, MutateStep
  <2> QED
    BY <1>2, <2>1, EntryRolls, InstallRolls, UninstallRolls, ParentsRoll, PickRolls,
       MoveAsideRolls, LookRolls, RemoveRolls, LinkRolls, CheckRolls, EndRolls, FaultRolls
       DEF Mutate
<1>3. ASSUME NEW p \in Managed, Edit(p) PROVE RollInv'
  BY <1>1, <1>3, EditStep, EditRolls
<1> QED
  BY <1>2, <1>3 DEF Next

LEMMA RollInitial == Init => RollInv
<1> SUFFICES ASSUME Init PROVE RollInv
  OBVIOUS
<1>1. SkillsInv
  BY SkillsInitial
<1>2. aside = [p \in Managed |-> {}] /\ lock = Nothing
      /\ proc = [m \in Processes |-> Idle("idle", "none")]
  BY DEF Init
<1>3. \A m \in Processes : Unmarked(proc[m]) /\ proc[m].pc \notin Held /\ lock # m
                             /\ Opened(proc[m], dirs)
  BY <1>2, ProcessAssumption DEF Idle, Unmarked, Held, Opened
<1>4. \A p \in Managed : Apart(p)
  <2>1. PICK v \in Versions \union {Nothing} :
          file = [p \in Managed |->
                    IF v # Nothing /\ p \in Paths(v) \union {Receipt}
                    THEN [data |-> Target(v, p),
                          inode |-> CHOOSE i \in 1..Len(Order) : Order[i] = p]
                    ELSE NoFile]
    BY DEF Init
  <2>2. \A p \in Managed : IsFile(file[p])
    BY <2>1, NoFileIsFile DEF IsFile
  <2> QED
    BY <1>2, <2>2 DEF Apart, Separate
<1> QED
  BY <1>1, <1>2, <1>3, <1>4 DEF RollInv, Total

\* One process at most holds the lock, and until somebody edits a file the tree is what it found,
\* with the files behind its walk at their goal or put back, and the one it is at as its place says.
THEOREM RollInvariant == Spec => []RollInv
<1>1. RollInv /\ [Next]_vars => RollInv'
  <2>1. ASSUME RollInv, UNCHANGED vars PROVE RollInv'
    <3>1. /\ file' = file /\ aside' = aside /\ dirs' = dirs /\ lock' = lock /\ proc' = proc
          /\ edits' = edits
      BY <2>1 DEF vars
    <3>2. SkillsInv'
      BY <2>1, <3>1 DEF RollInv, SkillsInv
    <3> QED
      BY <2>1, <3>1, <3>2 DEF RollInv, Apart, Total
  <2> QED
    BY <2>1, RollStep
<1> QED
  BY <1>1, RollInitial, PTL DEF Spec

\* Only a mutation that holds the lock and has accepted the tree changes files.
LEMMA WalkersChange ==
  ASSUME NEW m \in Processes, Mutate(m), file' # file
  PROVE  Walking(m)
  BY DEF Mutate, Plan, Ask, OpenRoot, Flock, MissRoot, AcceptInstall, MakeParents, AcceptUninstall,
         Pick, MoveAside, Look, Remove, Link, Check, Verify, Abandon, Fault, Crash

\* What a crash tore is left alone, for any number of files, releases and processes: a mutation
\* that changes a file found one bundle of its release's past, or none of its files.
THEOREM TornTreesAreLeftAlone == Spec => TornIsLeftAlone
<1>1. ASSUME RollInv, Next, NEW m \in Processes, lock = m, ~proc[m].disturbed, edits' = edits,
             file' # file
      PROVE  FoundWhole(m)
  <2>1. PICK n \in Processes : Mutate(n)
    BY <1>1, EditStep DEF RollInv, Next
  <2>2. Walking(n)
    BY <1>1, <2>1, WalkersChange
  <2>3. n = m /\ Begun(proc[m]) /\ Claim(proc[m], file, aside, dirs)
    BY <1>1, <2>2, WalkerIsAt
  <2>4. FoundBy(proc[m])
    BY <1>1, <2>3 DEF Claim
  <2> QED
    BY <2>4 DEF FoundBy, FoundWhole, Owned
<1>2. RollInv /\ [Next]_vars =>
        [\A m \in Processes :
           lock = m /\ ~proc[m].disturbed /\ edits' = edits /\ file' # file => FoundWhole(m)]_vars
  BY <1>1
<1> QED
  BY <1>2, RollInvariant, PTL DEF Spec, TornIsLeftAlone

\* A mutation ends in one step of its own, which leaves the files alone.
LEMMA EndsAsItSays ==
  ASSUME RollInv, RollInv', Next, NEW m \in Processes, NEW o \in {"done", "failed"},
         Undisturbed(m, o)
  PROVE  \/ o = "done" /\ Verify(m)
         \/ o = "failed" /\ Abandon(m)
<1>1. /\ proc[m].pc # "ended" /\ proc'[m].outcome = o /\ proc[m].outcome = "none" /\ lock = m
      /\ proc[m].pc \in Held
  BY DEF Undisturbed, RollInv, Unmarked
<1>2. proc'[m].pc = "ended"
  BY <1>1 DEF RollInv, Unmarked
<1>3. ASSUME NEW s, Become(m, s), s.pc # "ended" PROVE FALSE
  BY <1>2, <1>3 DEF RollInv, SkillsInv, Become
<1>4. ASSUME NEW q, End(m, q) PROVE q = o
  <2>1. proc'[m] = Idle("ended", q)
    BY <1>4 DEF RollInv, SkillsInv, End, Become
  <2> QED
    BY <1>1, <2>1 DEF Idle
<1>5. Mutate(m)
  <2>1. ASSUME NEW p \in Managed, Edit(p) PROVE FALSE
    <3>1. proc'[m] = [proc[m] EXCEPT !.disturbed = @ \/ lock = m]
      BY <2>1 DEF Edit
    <3>2. DOMAIN proc[m] = Fields
      BY DEF RollInv, SkillsInv, Good
    <3>3. proc'[m].pc = proc[m].pc
      BY <3>1, <3>2 DEF Fields
    <3> QED
      BY <1>1, <1>2, <3>3
  <2>2. ASSUME NEW n \in Processes, n # m, Mutate(n) PROVE FALSE
    <3>1. Acts(n)
      BY <2>2, EntryActs, AcceptActs, PickActs, AsideStep, LinkStep, LastStep, FaultStep
         DEF Mutate, RollInv
    <3>2. Orphaned(proc[m]) = proc[m]
      BY <1>1 DEF Orphaned, Held
    <3> QED
      BY <1>1, <1>2, <2>2, <3>1, <3>2 DEF Acts
  <2> QED
    BY <2>1, <2>2 DEF Next
<1>6. lock' # m
  BY <1>2 DEF RollInv, Held
<1>7. ~(\E v \in Versions : Plan(m, v) \/ Ask(m, v)) /\ ~OpenRoot(m) /\ ~Flock(m) /\ ~MissRoot(m)
  BY <1>1 DEF Plan, Ask, OpenRoot, Flock, MissRoot, Held
<1>8. ~AcceptUninstall(m)
  BY <1>1, <1>4, <1>6 DEF AcceptUninstall
<1>9. ~Crash(m) /\ (Verify(m) => o = "done") /\ (Abandon(m) => o = "failed")
  <2>1. ~Crash(m) /\ (Verify(m) => o = "done")
    BY <1>4 DEF Verify, Crash
  <2>2. Abandon(m) => proc'[m].outcome \in {"broken", "failed"}
    BY DEF Abandon, Idle
  <2> QED
    BY <1>1, <2>1, <2>2
<1>10. ~(AcceptInstall(m) \/ MakeParents(m) \/ Pick(m) \/ MoveAside(m) \/ Look(m) \/ Remove(m)
         \/ Link(m) \/ Check(m) \/ Fault(m))
  BY <1>1, <1>6 DEF AcceptInstall, MakeParents, Pick, MoveAside, Look, Remove, Link, Check, Fault, Held
<1> QED
  BY <1>5, <1>7, <1>8, <1>9, <1>10 DEF Mutate

\* A rollback that went well: every file has its old bytes, and what was made is gone.
LEMMA AbandonRollsBack ==
  ASSUME RollInv, NEW m \in Processes, Abandon(m), proc'[m].outcome = "failed",
         ~proc[m].disturbed, ~proc[m].unread
  PROVE  RolledBack(m)
<1> DEFINE r == proc[m]
<1>1. r.pc = "back" /\ r.i = 0 /\ UNCHANGED <<file, aside>>
  BY DEF Abandon
<1>2. Claim(r, file, aside, dirs)
  BY <1>1, HolderIsAt DEF Held
<1>3. ~r.broken /\ dirs' = dirs \ r.created
  <2> DEFINE clean == /\ \A d \in r.created \ {Root} : Empty(d)
                      /\ Root \in r.created => dirs \subseteq r.created
  <2>1. proc'[m] = Idle("ended", IF r.broken \/ ~clean THEN "broken" ELSE "failed")
    BY DEF Abandon
  <2>2. ~r.broken /\ clean
    BY <2>1 DEF Idle
  <2> QED
    BY <2>2 DEF Abandon
<1>4. dirs' = r.before.dirs
  BY <1>2, <1>3 DEF Claim
<1>5. Untouched(r, file, aside)
  BY <1>1, <1>2, <1>3 DEF Claim, Clean
<1>6. Total(r.before.data) /\ Total(r.before.aside) /\ Total(aside)
  BY <1>2 DEF Claim, RollInv
<1>7. Contents' = r.before.data
  BY <1>1, <1>5, <1>6 DEF Contents, Untouched, Total
<1>8. aside' = r.before.aside
  BY <1>1, <1>5, <1>6 DEF Untouched, Total
<1> QED
  BY <1>4, <1>7, <1>8 DEF RolledBack

\* A walk that came to its end: every file has the bytes it should have.
LEMMA VerifyCarries ==
  ASSUME RollInv, NEW m \in Processes, Verify(m), ~proc[m].disturbed
  PROVE  Contents' = Carried(m)
<1> DEFINE r == proc[m]
<1>1. r.pc = "forward" /\ r.i > Len(Order) /\ UNCHANGED file
  BY DEF Verify
<1>2. Claim(r, file, aside, dirs) /\ Unmarked(r) /\ Good(r)
  BY <1>1, HolderIsAt DEF Held
<1>3. Clean(r, file, aside)
  BY <1>1, <1>2 DEF Claim, Unmarked
<1>4. Advanced(r) /\ Planned(r) /\ OnTrack(r, file, aside)
  BY <1>1, <1>3 DEF Clean, Begun, Walks
<1>5. r.at = "pick"
  <2>1. ~(r.i \in 1..Len(Order))
    BY <1>1, OrderAssumption
  <2> QED
    BY <1>2, <2>1 DEF Good, AtOwnPath
<1>6. ASSUME NEW p \in Managed PROVE file[p].data = CarriedTo(r, p)
  <2>1. PICK k \in 1..Len(Order) : p = Order[k]
    BY DEF Managed
  <2>2. k \in 1..(r.i - 1)
    BY <1>1, <1>4, <2>1, OrderAssumption DEF Advanced
  <2>3. r.here[p].data = r.goal[p] /\ file[p] = r.here[p]
    BY <1>1, <1>4, <1>5, <2>1, <2>2 DEF Advanced, OnTrack, Tracks
  <2> QED
    BY <1>4, <2>3 DEF Planned
<1>7. \A p \in Managed : file[p].data =
        CASE p \notin Owned(m) -> r.before.data[p]
          [] p \in Owned(m) /\ r.op = "install" -> Target(r.ver, p)
          [] OTHER -> Nothing
  BY <1>6 DEF CarriedTo, Owned
<1> QED
  BY <1>1, <1>7 DEF Contents, Carried

\* A mutation that has the lock and that nobody disturbs is all or nothing, whichever calls fail
\* from there on and however often: with an ordinary error the tree is as it was found, bytes,
\* directories and quarantine (the read failure of skills.py:672 excepted), and a mutation that
\* returns has carried out what it was for.
THEOREM MutationsAreAllOrNothing == Spec => AllOrNothing
<1>1. ASSUME RollInv, RollInv', Next, NEW m \in Processes
      PROVE  /\ Undisturbed(m, "failed") /\ ~proc[m].unread => RolledBack(m)
             /\ Undisturbed(m, "done") => Contents' = Carried(m)
  <2>1. ASSUME Undisturbed(m, "failed"), ~proc[m].unread PROVE RolledBack(m)
    <3>1. Abandon(m)
      BY <1>1, <2>1, EndsAsItSays
    <3> QED
      BY <1>1, <2>1, <3>1, AbandonRollsBack DEF Undisturbed
  <2>2. ASSUME Undisturbed(m, "done") PROVE Contents' = Carried(m)
    <3>1. Verify(m)
      BY <1>1, <2>2, EndsAsItSays
    <3> QED
      BY <1>1, <2>2, <3>1, VerifyCarries DEF Undisturbed
  <2> QED
    BY <2>1, <2>2
<1>2. RollInv /\ RollInv' /\ [Next]_vars =>
        [\A m \in Processes :
           /\ Undisturbed(m, "failed") /\ ~proc[m].unread => RolledBack(m)
           /\ Undisturbed(m, "done") => Contents' = Carried(m)]_vars
  BY <1>1
<1> QED
  BY <1>2, RollInvariant, PTL DEF Spec, AllOrNothing

=============================================================================
