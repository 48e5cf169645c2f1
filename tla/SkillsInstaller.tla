-------------------------- MODULE SkillsInstaller --------------------------
(***************************************************************************)
(* skills.py: install and uninstall of the managed skill files below one   *)
(* root, by processes that serialise on an flock of the root, beside       *)
(* somebody who edits the same files.  A mutation takes a snapshot of the  *)
(* managed files, then walks them in the order of the manifest, the        *)
(* receipt last; an error walks back over what was done.  One file is      *)
(* removed by moving it aside, looking at what was moved and unlinking it, *)
(* and written by linking an anonymous file that must not replace one.     *)
(* Bytes are members of a small set; a file is its bytes and its inode.    *)
(***************************************************************************)
EXTENDS Naturals, FiniteSets, Sequences

CONSTANTS
  Processes,
  Versions,      \* releases of the program; each carries one bundle
  Known,         \* the versions whose receipts a release accepts, its own among them
  Order,         \* the managed paths in manifest order, the receipt last
  Payload,       \* the bytes a version ships for a path, Nothing if it does not ship it
  DirOf,         \* the directory of a path
  Nothing, Foreign,
  Inodes,        \* a bound: the inode numbers
  MaxEdits,      \* a bound: how often somebody else edits a managed file
  MaxFaults      \* a bound: how many system calls fail

Receipt == Order[Len(Order)]
Managed == {Order[i] : i \in 1..Len(Order)}
Root == "root"

ASSUME OrderAssumption == Len(Order) \in Nat \ {0}
ASSUME ProcessAssumption == Nothing \notin Processes
ASSUME VersionAssumption == \A v \in Versions : v \in Known[v] /\ Known[v] \subseteq Versions
ASSUME ForeignAssumption ==
  /\ Foreign # Nothing /\ Foreign \notin Versions /\ Nothing \notin Versions
  /\ \A v \in Versions, p \in Managed : Payload[v][p] # Foreign

VARIABLES
  file,    \* what is at each managed path
  aside,   \* files under a quarantine name, by the path they were moved from
  dirs,    \* the directories that exist
  lock,    \* the process that holds the flock of the root, or Nothing
  proc,    \* the processes
  edits, faults

vars == <<file, aside, dirs, lock, proc, edits, faults>>

NoFile == [data |-> Nothing, inode |-> 0]

Idle(pc, outcome) ==
  [pc |-> pc, outcome |-> outcome, op |-> "none", ver |-> Nothing, plan |-> <<>>,
   snap |-> <<>>, goal |-> <<>>, here |-> <<>>, moved |-> NoFile, put |-> NoFile,
   i |-> 0, at |-> "pick", created |-> {}, broken |-> FALSE,
   unread |-> FALSE, before |-> <<>>, disturbed |-> FALSE]

Paths(v) == {p \in Managed \ {Receipt} : Payload[v][p] # Nothing}

\* What the projection of version v has at a path.
Target(v, p) == IF p = Receipt THEN v ELSE Payload[v][p]

\* _identity: the kernel gives a new file some inode number that nothing refers to.
InUse ==
  {file[p].inode : p \in Managed}
    \union UNION {{f.inode : f \in aside[p]} : p \in Managed}
    \union UNION {{proc[m].snap[p].inode : p \in DOMAIN proc[m].snap} : m \in Processes}
    \union UNION {{proc[m].here[p].inode : p \in DOMAIN proc[m].here} : m \in Processes}
    \union {proc[m].put.inode : m \in Processes}

Fresh == CHOOSE n \in Inodes : n \notin InUse

\* The bound on the inode numbers is not reached.
HasFresh == Inodes \ InUse # {}

-----------------------------------------------------------------------------
\* Classification, the same in _preflight_install and under the lock in install.

Valid(v, receipt) == receipt.data \in Known[v]

\* Mutant: an owned file that is missing is added again.
ClassMissingAsNew(v, p) ==
  LET owned == IF file[Receipt] = NoFile THEN Nothing ELSE Payload[file[Receipt].data][p]
  IN CASE file[p] = NoFile -> "ADD"
       [] file[p] # NoFile /\ (owned = Nothing \/ file[p].data # owned) -> "DIVERGED"
       [] OTHER -> IF owned = Payload[v][p] THEN "EXACT" ELSE "UPDATE"

Class(v, p) ==
  LET owned == IF file[Receipt] = NoFile THEN Nothing ELSE Payload[file[Receipt].data][p]
  IN CASE owned = Nothing -> IF file[p] = NoFile THEN "ADD" ELSE "DIVERGED"
       [] owned # Nothing /\ file[p].data # owned -> "DIVERGED"
       [] OTHER -> IF owned = Payload[v][p] THEN "EXACT" ELSE "UPDATE"

Classes(v) == [p \in Paths(v) |-> Class(v, p)]

Admits(v) ==
  /\ file[Receipt] = NoFile \/ Valid(v, file[Receipt])
  /\ \A p \in Paths(v) : Class(v, p) # "DIVERGED"

-----------------------------------------------------------------------------
\* The life of a mutation.

Become(m, r) == proc' = [proc EXCEPT ![m] = r]

\* tree.close() gives the lock back with the file descriptors.
End(m, outcome) ==
  /\ Become(m, Idle("ended", outcome))
  /\ lock' = IF lock = m THEN Nothing ELSE lock

\* Mutant: the file that met the error is taken for untouched, and so is the one before it.
FailedTooFar(r) ==
  IF r.pc = "back"
  THEN [r EXCEPT !.broken = TRUE, !.i = @ - 1, !.at = "pick"]
  ELSE [r EXCEPT !.pc = "back", !.at = "pick",
                 !.i = IF @ > Len(Order) THEN Len(Order) ELSE IF @ > 0 THEN @ - 1 ELSE 0]

\* The except clauses.  Going forward, an error turns the walk around at the file it met; going
\* back, it is remembered, that file is given up and the walk goes on.
Failed(r) ==
  IF r.pc = "back"
  THEN [r EXCEPT !.broken = TRUE, !.i = @ - 1, !.at = "pick"]
  ELSE [r EXCEPT !.pc = "back", !.i = IF @ > Len(Order) THEN Len(Order) ELSE @, !.at = "pick"]

FailedBroken(r) == [Failed(r) EXCEPT !.broken = TRUE]

\* install: the manifest is read and the preflight runs before the lock is taken.
Plan(m, v) ==
  /\ proc[m].pc = "idle"
  /\ IF Admits(v)
     THEN /\ Become(m, [Idle("planned", "none") EXCEPT !.op = "install", !.ver = v,
                                                       !.plan = Classes(v)])
          /\ UNCHANGED lock
     ELSE End(m, "refused")
  /\ UNCHANGED <<file, aside, dirs, edits, faults>>

\* uninstall of a root that does not exist returns at once.
Ask(m, v) ==
  /\ proc[m].pc = "idle"
  /\ IF Root \in dirs
     THEN /\ Become(m, [Idle("planned", "none") EXCEPT !.op = "uninstall", !.ver = v])
          /\ UNCHANGED lock
     ELSE End(m, "absent")
  /\ UNCHANGED <<file, aside, dirs, edits, faults>>

\* _SecureTree.__init__ opens the root; install creates it, which stands for its ancestors too.
OpenRoot(m) ==
  /\ proc[m].pc = "planned"
  /\ IF Root \notin dirs /\ proc[m].op = "uninstall"
     THEN End(m, "refused") /\ UNCHANGED dirs
     ELSE /\ dirs' = dirs \union {Root}
          /\ Become(m, [proc[m] EXCEPT !.pc = "opened", !.created = {Root} \ dirs])
          /\ UNCHANGED lock
  /\ UNCHANGED <<file, aside, edits, faults>>

\* It then flocks what it opened, without waiting; nothing it made is removed if another process
\* has the lock.
Flock(m) ==
  /\ proc[m].pc = "opened"
  /\ IF lock # Nothing
     THEN End(m, "busy")
     ELSE /\ lock' = m
          /\ Become(m, [proc[m] EXCEPT !.pc = "locked",
               !.before = [data |-> [p \in Managed |-> file[p].data],
                           dirs |-> dirs \ proc[m].created, aside |-> aside]])
  /\ UNCHANGED <<file, aside, dirs, edits, faults>>

\* The root it opened has been removed: the flock succeeds, and nothing can be found or made there.
MissRoot(m) ==
  /\ proc[m].pc = "orphaned"
  /\ End(m, "failed")
  /\ UNCHANGED <<file, aside, dirs, edits, faults>>

\* install, up to `classifications != preflight`: the snapshots every later step is held to.
AcceptInstall(m) ==
  LET r == proc[m] IN
  /\ r.pc = "locked" /\ r.op = "install"
  /\ Become(m,
       IF Admits(r.ver) /\ Classes(r.ver) = r.plan
       THEN [r EXCEPT !.pc = "accepted", !.plan = <<>>, !.snap = file, !.here = file,
              !.goal = [p \in Managed |-> IF p \in Paths(r.ver) \union {Receipt}
                                          THEN Target(r.ver, p) ELSE file[p].data]]
       ELSE Failed(r))
  /\ UNCHANGED <<file, aside, dirs, lock, edits, faults>>

\* The directories that are missing, and the second look at every snapshot behind them.
MakeParents(m) ==
  LET r == proc[m]
      missing == {DirOf[p] : p \in Paths(r.ver) \union {Receipt}} \ dirs
      made == [r EXCEPT !.created = @ \union missing]
  IN
  /\ r.pc = "accepted"
  /\ dirs' = dirs \union missing
  /\ Become(m, IF \A p \in Paths(r.ver) \union {Receipt} : file[p] = r.snap[p]
               THEN [made EXCEPT !.pc = "forward", !.i = 1] ELSE Failed(made))
  /\ UNCHANGED <<file, aside, lock, edits, faults>>

\* uninstall, up to its first deletion: every file the receipt names has the bytes it names.
AcceptUninstall(m) ==
  LET r == proc[m]
      named == file[Receipt].data
      owned == Paths(named) \union {Receipt}
  IN
  /\ r.pc = "locked" /\ r.op = "uninstall"
  /\ CASE DirOf[Receipt] \in dirs /\ file[Receipt] = NoFile -> End(m, "absent")
       [] /\ file[Receipt] # NoFile /\ Valid(r.ver, file[Receipt])
          /\ \A p \in Paths(named) : file[p].data = Payload[named][p] ->
            /\ Become(m, [r EXCEPT !.pc = "forward", !.i = 1, !.snap = file, !.here = file,
                 !.goal = [p \in Managed |-> IF p \in owned THEN Nothing ELSE file[p].data]])
            /\ UNCHANGED lock
       [] OTHER -> Become(m, Failed(r)) /\ UNCHANGED lock
  /\ UNCHANGED <<file, aside, dirs, edits, faults>>

-----------------------------------------------------------------------------
\* One file.  here is what the process last knew to be at the path; it walks forward to goal
\* and back to snap.

Walking(m) == proc[m].pc \in {"forward", "back"} /\ proc[m].i \in 1..Len(Order)

Path(m) == Order[proc[m].i]

Aim(r, p) == IF r.pc = "forward" THEN r.goal[p] ELSE r.snap[p].data

Settled(r, p) == r.here[p].data = Aim(r, p)

\* _restore_at finds that the original is back in its place.
BackInPlace(r, p) == r.pc = "back" /\ file[p] = r.snap[p]

\* Which file is next, and the checks before it is touched (the start of _unlink_at, of
\* _atomic_write_at, of _restore_at and of _rollback_publish_at).
Pick(m) ==
  LET r == proc[m]
      p == Path(m)
  IN
  /\ Walking(m) /\ r.at = "pick"
  /\ Become(m,
       CASE Settled(r, p) -> [r EXCEPT !.i = IF r.pc = "forward" THEN @ + 1 ELSE @ - 1]
         [] ~Settled(r, p) /\ r.here[p] # NoFile ->
              IF file[p] = r.here[p] THEN [r EXCEPT !.at = "rename"] ELSE Failed(r)
         [] OTHER ->
              IF file[p] = NoFile THEN [r EXCEPT !.at = "link"]
              ELSE IF BackInPlace(r, p) THEN [r EXCEPT !.here[p] = file[p]]
              ELSE Failed(r))
  /\ UNCHANGED <<file, aside, dirs, lock, edits, faults>>

\* _rename_noreplace(name, quarantine) moves whatever is there by now.
MoveAside(m) ==
  LET r == proc[m]
      p == Path(m)
  IN
  /\ Walking(m) /\ r.at = "rename"
  /\ IF file[p] = NoFile
     THEN Become(m, Failed(r)) /\ UNCHANGED <<file, aside>>
     ELSE /\ file' = [file EXCEPT ![p] = NoFile]
          /\ aside' = [aside EXCEPT ![p] = @ \union {file[p]}]
          /\ Become(m, [r EXCEPT !.at = "look", !.moved = file[p]])
  /\ UNCHANGED <<dirs, lock, edits, faults>>

\* The file that was moved goes back to its name.
PutBack(p, f) ==
  /\ file' = [file EXCEPT ![p] = f]
  /\ aside' = [aside EXCEPT ![p] = @ \ {f}]

\* Mutant: what was moved is what was seen before the move.
MovedIsTrusted(r, p) == r.moved # NoFile

SameAs(r, p) == r.moved = r.here[p]

\* What was moved is compared with the snapshot; if it is something else it goes back, unless
\* the name is taken again.
Look(m) ==
  LET r == [proc[m] EXCEPT !.moved = NoFile]
      p == Path(m)
  IN
  /\ Walking(m) /\ proc[m].at = "look"
  /\ CASE SameAs(proc[m], p) ->
            Become(m, [proc[m] EXCEPT !.at = "remove"]) /\ UNCHANGED <<file, aside>>
       [] ~SameAs(proc[m], p) /\ file[p] = NoFile ->
            PutBack(p, proc[m].moved) /\ Become(m, Failed(r))
       [] OTHER -> Become(m, FailedBroken(r)) /\ UNCHANGED <<file, aside>>
  /\ UNCHANGED <<dirs, lock, edits, faults>>

Remove(m) ==
  LET r == proc[m]
      p == Path(m)
  IN
  /\ Walking(m) /\ r.at = "remove"
  /\ aside' = [aside EXCEPT ![p] = @ \ {r.moved}]
  /\ Become(m, [r EXCEPT !.at = "pick", !.here[p] = NoFile, !.moved = NoFile])
  /\ UNCHANGED <<file, dirs, lock, edits, faults>>

\* _link_fd_noreplace gives the anonymous file its name, unless there is a file by now.
Link(m) ==
  LET r == proc[m]
      p == Path(m)
      new == [data |-> Aim(r, p), inode |-> Fresh]
  IN
  /\ Walking(m) /\ r.at = "link"
  /\ IF file[p] = NoFile
     THEN /\ HasFresh
          /\ file' = [file EXCEPT ![p] = new]
          /\ Become(m, [r EXCEPT !.at = "check", !.put = new])
     ELSE UNCHANGED file /\ Become(m, Failed(r))
  /\ UNCHANGED <<aside, dirs, lock, edits, faults>>

\* The name must still lead to the file that was linked.
Check(m) ==
  LET r == [proc[m] EXCEPT !.put = NoFile]
      p == Path(m)
  IN
  /\ Walking(m) /\ proc[m].at = "check"
  /\ Become(m, IF file[p] = proc[m].put
               THEN [r EXCEPT !.at = "pick", !.here[p] = file[p]] ELSE Failed(r))
  /\ UNCHANGED <<file, aside, dirs, lock, edits, faults>>

\* tree.verify(), the end of a mutation that met no error.
Verify(m) ==
  /\ proc[m].pc = "forward" /\ proc[m].i > Len(Order)
  /\ End(m, "done")
  /\ UNCHANGED <<file, aside, dirs, edits, faults>>

Empty(d) == \A p \in Managed : DirOf[p] = d => file[p] = NoFile /\ aside[p] = {}

\* A process that has opened the root, and has not locked it yet, keeps what is no root any more.
Orphaned(r) ==
  IF r.pc = "opened" /\ Root \notin dirs' THEN [r EXCEPT !.pc = "orphaned"] ELSE r

\* rollback_created_directories, which stops at a directory that is not empty, and the raise.
Abandon(m) ==
  LET r == proc[m]
      inner == r.created \ {Root}
      clean == /\ \A d \in inner : Empty(d)
               /\ Root \in r.created => dirs \subseteq r.created
      outcome == IF r.broken \/ ~clean THEN "broken" ELSE "failed"
  IN
  /\ r.pc = "back" /\ r.i = 0
  /\ IF clean THEN dirs' = dirs \ r.created
     ELSE \E D \in SUBSET {d \in inner : Empty(d)} : dirs' = dirs \ D
  /\ proc' = [n \in Processes |-> IF n = m THEN Idle("ended", outcome) ELSE Orphaned(proc[n])]
  /\ lock' = Nothing
  /\ UNCHANGED <<file, aside, edits, faults>>

-----------------------------------------------------------------------------
\* What goes wrong.

\* A system call fails.  The cleanup inside the helper that made the call is part of the step:
\* a failed unlink is undone by _restore_unlink_failure, by renaming back or from the copy it
\* kept, and a link that could not be made durable is removed again.  Nothing is undone when what
\* was moved aside cannot be read (unread): it stays there.  Nothing is undone either of what
\* _SecureTree.__init__ made before it failed: install calls it outside its try.
Fault(m) ==
  LET r == [proc[m] EXCEPT !.moved = NoFile, !.put = NoFile]
      p == Path(m)
  IN
  /\ faults < MaxFaults
  /\ faults' = faults + 1
  /\ \/ /\ \/ proc[m].pc = "locked"
           \/ proc[m].pc = "forward" /\ proc[m].i > Len(Order)
           \/ Walking(m) /\ proc[m].at \in {"rename", "link"}
        /\ Become(m, Failed(r))
        /\ UNCHANGED <<file, aside, dirs>>
     \/ /\ proc[m].pc \in {"planned", "opened"}
        /\ dirs' \in {dirs} \union IF r.pc = "planned" /\ r.op = "install"
                                THEN {dirs \union {Root}} ELSE {}
        /\ End(m, "failed")
        /\ UNCHANGED <<file, aside>>
     \/ /\ Walking(m) /\ proc[m].at = "look"
        /\ Become(m, Failed([r EXCEPT !.unread = TRUE]))
        /\ UNCHANGED <<file, aside, dirs>>
     \/ /\ proc[m].pc = "accepted"
        /\ \E D \in SUBSET ({DirOf[q] : q \in Paths(r.ver) \union {Receipt}} \ dirs) :
             /\ dirs' = dirs \union D
             /\ Become(m, Failed([r EXCEPT !.created = @ \union D]))
        /\ UNCHANGED <<file, aside>>
     \/ /\ Walking(m) /\ proc[m].at = "remove"
        /\ \/ /\ file[p] # NoFile
              /\ aside' \in {aside, [aside EXCEPT ![p] = @ \ {proc[m].moved}]}
              /\ Become(m, FailedBroken(r)) /\ UNCHANGED file
           \/ file[p] = NoFile /\ PutBack(p, proc[m].moved) /\ Become(m, Failed(r))
           \/ /\ file[p] = NoFile /\ HasFresh
              /\ file' = [file EXCEPT ![p] = [data |-> proc[m].moved.data, inode |-> Fresh]]
              /\ aside' = [aside EXCEPT ![p] = @ \ {proc[m].moved}]
              /\ Become(m, Failed(r))
        /\ UNCHANGED dirs
     \/ /\ Walking(m) /\ proc[m].at = "check"
        /\ file' = IF file[p] = proc[m].put THEN [file EXCEPT ![p] = NoFile] ELSE file
        /\ Become(m, Failed(r))
        /\ UNCHANGED <<aside, dirs>>
  /\ UNCHANGED <<lock, edits>>

\* The process is killed: its anonymous files vanish and its lock is gone, nothing else.
Crash(m) ==
  /\ proc[m].pc \notin {"idle", "ended"}
  /\ End(m, "crashed")
  /\ UNCHANGED <<file, aside, dirs, edits, faults>>

\* Somebody who does not take the lock writes, replaces, removes or creates a managed file.
Edit(p) ==
  /\ edits < MaxEdits /\ DirOf[p] \in dirs /\ HasFresh
  /\ \E f \in IF file[p] = NoFile THEN {[data |-> Foreign, inode |-> Fresh]}
              ELSE {NoFile, [file[p] EXCEPT !.data = Foreign], [file[p] EXCEPT !.inode = Fresh]} :
       file' = [file EXCEPT ![p] = f]
  /\ edits' = edits + 1
  /\ proc' = [m \in Processes |-> [proc[m] EXCEPT !.disturbed = @ \/ lock = m]]
  /\ UNCHANGED <<aside, dirs, lock, faults>>

-----------------------------------------------------------------------------

\* A tree without the skills, or with the projection of one version.
Init ==
  /\ \E v \in Versions \union {Nothing} :
       file = [p \in Managed |->
                 IF v # Nothing /\ p \in Paths(v) \union {Receipt}
                 THEN [data |-> Target(v, p),
                       inode |-> CHOOSE i \in 1..Len(Order) : Order[i] = p]
                 ELSE NoFile]
  /\ aside = [p \in Managed |-> {}]
  /\ dirs = IF \A p \in Managed : file[p] = NoFile THEN {}
            ELSE {Root} \union {DirOf[p] : p \in {q \in Managed : file[q] # NoFile}}
  /\ lock = Nothing
  /\ proc = [m \in Processes |-> Idle("idle", "none")]
  /\ edits = 0 /\ faults = 0

Mutate(m) ==
  \/ \E v \in Versions : Plan(m, v) \/ Ask(m, v)
  \/ OpenRoot(m) \/ Flock(m) \/ MissRoot(m)
  \/ AcceptInstall(m) \/ MakeParents(m) \/ AcceptUninstall(m)
  \/ Pick(m) \/ MoveAside(m) \/ Look(m) \/ Remove(m) \/ Link(m) \/ Check(m)
  \/ Verify(m) \/ Abandon(m) \/ Fault(m) \/ Crash(m)

Next == (\E m \in Processes : Mutate(m)) \/ (\E p \in Managed : Edit(p))

Spec == Init /\ [][Next]_vars

-----------------------------------------------------------------------------
\* Correctness.

Contents == [p \in Managed |-> file[p].data]

\* The mutation of m ends, and nobody else touched the tree since it took the lock.
Undisturbed(m, outcome) ==
  /\ proc[m].pc # "ended" /\ proc'[m].outcome = outcome
  /\ lock = m /\ ~proc[m].disturbed

RolledBack(m) ==
  Contents' = proc[m].before.data /\ dirs' = proc[m].before.dirs /\ aside' = proc[m].before.aside

\* The paths a mutation is about: those its release installs, or those the receipt names.
Owned(m) ==
  {Receipt} \union Paths(IF proc[m].op = "install" THEN proc[m].ver ELSE proc[m].before.data[Receipt])

Carried(m) ==
  [p \in Managed |-> CASE p \notin Owned(m) -> proc[m].before.data[p]
                       [] p \in Owned(m) /\ proc[m].op = "install" -> Target(proc[m].ver, p)
                       [] OTHER -> Nothing]

\* A mutation that has taken the lock and ends with an ordinary error, whichever call failed since
\* and however far it had come, leaves bytes, directories and quarantine as it found them; one that
\* returns has made the tree the projection of its version, or removed it.  A RuntimeError may mean
\* less, and so may the error of a read between _unlink_at's rename and its unlink (skills.py:672).
\* Before it has the lock it changes no file, but the root and the ancestors it made stay when
\* _SecureTree.__init__ fails (skills.py:802).
AllOrNothing ==
  [][\A m \in Processes :
       /\ Undisturbed(m, "failed") /\ ~proc[m].unread => RolledBack(m)
       /\ Undisturbed(m, "done") => Contents' = Carried(m)]_vars

\* The files of somebody else that are at a path or were moved aside from it.
ForeignAt(p) == {f \in {file[p]} \union aside[p] : f.data = Foreign}

\* No step of a mutation, going forward or back, destroys bytes that somebody else wrote: at
\* worst they are found under a quarantine name.
OthersAreSafe ==
  [][edits' = edits => \A p \in Managed : ForeignAt(p) \subseteq ForeignAt(p)']_vars

\* The tree as m found it holds one bundle its release knows, or none of its files.
FoundWhole(m) ==
  \/ \A p \in Owned(m) : proc[m].before.data[p] = Nothing
  \/ \E w \in Known[proc[m].ver] : \A p \in Owned(m) : proc[m].before.data[p] = Target(w, p)

\* What a crash tore is left alone: a mutation that changes a file found the tree whole.  (A
\* crash inside _replace_at leaves neither the old file nor the new one.)
TornIsLeftAlone ==
  [][\A m \in Processes :
       lock = m /\ ~proc[m].disturbed /\ edits' = edits /\ file' # file => FoundWhole(m)]_vars

=============================================================================
