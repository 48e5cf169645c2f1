------------------------- MODULE ServiceLifecycle -------------------------
(***************************************************************************)
(* service.py: processes that start a ThinkroomService on the same         *)
(* database path.  Startup takes the service lock, reserves and opens the  *)
(* database, migrates it, recovers and starts the workers; an error, and   *)
(* shutdown, undo what was done in the reverse order.  The provider calls  *)
(* of a service are those of ProcessIsolation: engine.stop cancels them    *)
(* and waits for them, but only so long.  A file is its inode; somebody    *)
(* may put another file at the path of the database or of the lock.        *)
(***************************************************************************)
EXTENDS ProcessIsolation, Naturals

CONSTANTS
  Services,
  CallsOf,    \* the provider calls each service may make
  MaxSwaps,   \* a bound: how often a path comes to lead to another file
  MaxFaults   \* a bound: how many steps of a startup fail

ASSUME CallsOfAssumption ==
  /\ \A s \in Services : CallsOf[s] \subseteq Calls
  /\ \A s, t \in Services : s # t => CallsOf[s] \intersect CallsOf[t] = {}
ASSUME BoundAssumption == MaxSwaps \in Nat /\ MaxFaults \in Nat

VARIABLES
  svc,     \* the services
  path,    \* the inode each path leads to
  faults

serviceVars == <<svc, path, faults>>
vars == <<svc, path, faults, call, child>>

Inode == 1..(MaxSwaps + 1)

Service == [pc : {"new", "attested", "locked", "reserved", "opened", "migrated", "recovered",
                  "up", "stopping", "reaping", "closing", "releasing", "down"},
            handle : {0} \union Inode,      \* the lock file it holds flocked
            reserved : {0} \union Inode,    \* _database_identity
            open : {0} \union Inode,        \* the database its connection leads to
            workers : BOOLEAN,
            retention : {"none", "running", "dead"},
            ready : BOOLEAN,                \* _ready
            unclean : BOOLEAN,              \* cleanup_error
            outcome : {"none", "refused", "failed", "stopped", "broken", "crashed"}]

TypeOK ==
  /\ CallTypeOK
  /\ svc \in [Services -> Service]
  /\ path \in [{"database", "lock"} -> Inode]
  /\ faults \in 0..MaxFaults

NewService ==
  [pc |-> "new", handle |-> 0, reserved |-> 0, open |-> 0, workers |-> FALSE,
   retention |-> "none", ready |-> FALSE, unclean |-> FALSE, outcome |-> "none"]

-----------------------------------------------------------------------------

Set(s, r) == svc' = [svc EXCEPT ![s] = r]

\* engine.provider_capacity_healthy: no call of the service was left behind by its canceller.
Detached(c) == InProgress(c) /\ call[c].asked

CapacityHealthy(s) == \A c \in CallsOf[s] : ~Detached(c)

\* The property ready, which the health endpoint and the retention loop read.
Ready(s) == svc[s].ready /\ CapacityHealthy(s)

\* _assert_startup_custody: both paths still lead to what was reserved and locked.
InCustody(s) == path["database"] = svc[s].reserved /\ path["lock"] = svc[s].handle

\* The except clause of start: not ready, and the engine is stopped next.
Unwinding(r, outcome) ==
  [r EXCEPT !.pc = "stopping", !.ready = FALSE, !.retention = "none", !.outcome = outcome]

\* A step of start that makes r of the service, unless custody is lost or the step fails.
Attested(s, r) ==
  /\ Set(s, IF InCustody(s) THEN r ELSE Unwinding(r, "failed"))
  /\ UNCHANGED <<path, faults, call, child>>

\* What precedes the lock: settings, backend, the custody of the database path.
Validate(s) ==
  /\ svc[s].pc = "new"
  /\ \/ Set(s, [svc[s] EXCEPT !.pc = "attested"])
     \/ Set(s, [svc[s] EXCEPT !.pc = "down", !.outcome = "refused"])
  /\ UNCHANGED <<path, faults, call, child>>

\* Mutant: the lock is taken for granted.
LockUnchecked(s) == TRUE

FlockFree(s) == \A t \in Services \ {s} : svc[t].handle # path["lock"]

\* lock.acquire() of the file the path leads to, without waiting.  It is refused too when the
\* path changes between the open, the flock and the checks around it.
Acquire(s) ==
  /\ svc[s].pc = "attested"
  /\ \/ FlockFree(s) /\ Set(s, [svc[s] EXCEPT !.pc = "locked", !.handle = path["lock"]])
     \/ Set(s, [svc[s] EXCEPT !.pc = "down", !.outcome = "refused"])
  /\ UNCHANGED <<path, faults, call, child>>

\* _reserve_database_path, which creates the file if there is none.
Reserve(s) ==
  /\ svc[s].pc = "locked"
  /\ Set(s, LET r == [svc[s] EXCEPT !.reserved = path["database"]]
            IN IF path["lock"] = svc[s].handle THEN [r EXCEPT !.pc = "reserved"]
               ELSE Unwinding(r, "failed"))
  /\ UNCHANGED <<path, faults, call, child>>

\* repo.open: SQLite opens whatever the path leads to by now.
Open(s) ==
  /\ svc[s].pc = "reserved"
  /\ Attested(s, [svc[s] EXCEPT !.pc = "opened", !.open = path["database"]])

Migrate(s) == svc[s].pc = "opened" /\ Attested(s, [svc[s] EXCEPT !.pc = "migrated"])

\* engine.recover().
Recover(s) ==
  /\ svc[s].pc = "migrated"
  /\ Set(s, [svc[s] EXCEPT !.pc = "recovered"])
  /\ UNCHANGED <<path, faults, call, child>>

\* engine.start(), the last attestation, the retention task and ready, without an await between.
StartWorkers(s) ==
  /\ svc[s].pc = "recovered"
  /\ LET started == [svc[s] EXCEPT !.workers = TRUE] IN
     Attested(s, IF InCustody(s)
                 THEN [started EXCEPT !.pc = "up", !.retention = "running", !.ready = TRUE]
                 ELSE started)

\* Any step of start behind the lock may raise.
StartFails(s) ==
  /\ svc[s].pc \in {"locked", "reserved", "opened", "migrated", "recovered"}
  /\ faults < MaxFaults /\ faults' = faults + 1
  /\ Set(s, Unwinding(svc[s], "failed"))
  /\ UNCHANGED <<path, call, child>>

\* _retention_loop ends, and _retention_done finds the service ready or not.
RetentionEnds(s) ==
  /\ svc[s].retention = "running"
  /\ Set(s, [svc[s] EXCEPT !.retention = "dead", !.ready = svc[s].ready /\ ~Ready(s)])
  /\ UNCHANGED <<path, faults, call, child>>

\* The engine of a running service calls a provider, and cancels calls when jobs are cancelled,
\* time out or lose their deadline.
Provide(s) ==
  /\ svc[s].workers /\ svc[s].pc = "up"
  /\ \E c \in CallsOf[s] : Invoke(c) \/ Cancel(c)
  /\ UNCHANGED serviceVars

\* The coroutines and processes of calls take their own steps.
CallStep == (\E c \in Calls : ChildStep(c) \/ Progress(c)) /\ UNCHANGED serviceVars

\* stop().
Stop(s) ==
  /\ svc[s].pc = "up"
  /\ Set(s, Unwinding(svc[s], "stopped"))
  /\ UNCHANGED <<path, faults, call, child>>

\* engine.stop() cancels the active jobs, and with them their calls, and the workers.
StopEngine(s) ==
  /\ svc[s].pc = "stopping"
  /\ call' = [c \in Calls |-> IF c \in CallsOf[s] THEN Cancelled(call[c]) ELSE call[c]]
  /\ Set(s, [svc[s] EXCEPT !.pc = "reaping", !.workers = FALSE])
  /\ UNCHANGED <<path, faults, child>>

\* Mutant: the two seconds are over, and so is the service.
NothingLeft(s) == FALSE

\* Calls that have not ended when the service stops waiting for them.
LeftBehind(s) == \E c \in CallsOf[s] : InProgress(c)

\* _reap_detached_provider_tasks returns when every call has ended, and raises after two seconds.
Reap(s) ==
  /\ svc[s].pc = "reaping"
  /\ Set(s, [svc[s] EXCEPT !.pc = "closing", !.unclean = LeftBehind(s)])
  /\ UNCHANGED <<path, faults, call, child>>

CloseRepository(s) ==
  /\ svc[s].pc = "closing"
  /\ Set(s, [svc[s] EXCEPT !.pc = "releasing", !.open = 0])
  /\ UNCHANGED <<path, faults, call, child>>

\* lock.release(), and the error that reports an unclean end.
Release(s) ==
  /\ svc[s].pc = "releasing"
  /\ Set(s, [svc[s] EXCEPT !.pc = "down", !.handle = 0, !.reserved = 0,
                           !.outcome = IF svc[s].unclean THEN "broken" ELSE @])
  /\ UNCHANGED <<path, faults, call, child>>

\* The process is killed: the kernel closes its files, and its calls are lost.
Crash(s) ==
  /\ svc[s].pc \notin {"new", "down"}
  /\ Set(s, [NewService EXCEPT !.pc = "down", !.outcome = "crashed"])
  /\ call' = [c \in Calls |-> IF c \in CallsOf[s] THEN Lose(call[c]) ELSE call[c]]
  /\ UNCHANGED <<path, faults, child>>

\* Somebody moves another file to one of the paths.
Swap(which) ==
  /\ path["database"] + path["lock"] < MaxSwaps + 2
  /\ path' = [path EXCEPT ![which] = @ + 1]
  /\ UNCHANGED <<svc, faults, call, child>>

-----------------------------------------------------------------------------

Init ==
  /\ CallInit
  /\ svc = [s \in Services |-> NewService]
  /\ path = [p \in {"database", "lock"} |-> 1]
  /\ faults = 0

Start(s) ==
  Validate(s) \/ Acquire(s) \/ Reserve(s) \/ Open(s) \/ Migrate(s) \/ Recover(s) \/ StartWorkers(s)

Unwind(s) == StopEngine(s) \/ Reap(s) \/ CloseRepository(s) \/ Release(s)

Next ==
  \/ \E s \in Services :
       \/ Start(s) \/ StartFails(s) \/ RetentionEnds(s) \/ Provide(s) \/ Stop(s) \/ Unwind(s)
       \/ Crash(s)
  \/ CallStep
  \/ \E which \in {"database", "lock"} : Swap(which)

Spec == Init /\ [][Next]_vars

\* The event loop runs what is ready, and its timers fire.  Nothing is assumed of children.
Fairness ==
  /\ \A s \in Services : WF_vars(Start(s)) /\ WF_vars(Unwind(s))
  /\ \A c \in Calls : WF_vars(Progress(c) /\ UNCHANGED serviceVars)

FairSpec == Spec /\ Fairness

-----------------------------------------------------------------------------
\* Correctness.

\* While the lock file has not been replaced, no two services are connected to a database,
\* whatever becomes of the path of the database, whoever starts, fails, stops or dies.
OneOwner ==
  path["lock"] = 1 =>
    \A s, t \in Services : s # t => svc[s].open = 0 \/ svc[t].open = 0

\* What is alive of a call that has ended: nothing, unless invoke raised the RuntimeError of a stop
\* that failed.  Helpers may also outlive a refused progress envelope whose leader was dead
\* (process_backend.py:160, 432): the finally clause then looks at the leader only.
NothingSurvives(c) ==
  call[c].outcome # "RuntimeError" =>
    ~LeaderAlive(c) /\ (call[c].outcome # "badProgress" => ~child[c].helpers)

\* A service that is down without having reported trouble has left nothing behind: no lock, no
\* connection, no call under way and, but for the two exceptions above, no process of any call it
\* ever made, neither the leader nor a helper.
QuietWhenDown ==
  \A s \in Services : svc[s].pc = "down" =>
    /\ svc[s].handle = 0 /\ svc[s].open = 0 /\ ~svc[s].workers
    /\ svc[s].outcome \in {"failed", "stopped"} =>
         \A c \in CallsOf[s] : call[c].pc # "idle" =>
           call[c].pc = "ended" /\ NothingSurvives(c)

\* A service that stops, or whose startup failed, gives the lock back, and a call that is being
\* stopped ends, although children may ignore every signal.
DrainsEnd ==
  /\ \A s \in Services : svc[s].pc = "stopping" ~> svc[s].handle = 0
  /\ \A c \in Calls : call[c].pc = "stopping" ~> ~InProgress(c)

=============================================================================
