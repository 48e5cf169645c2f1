---------------------------- MODULE JobLifecycle ----------------------------
(***************************************************************************)
(* What the store promises about each job, whatever the others do: the     *)
(* durable lifecycle                                                       *)
(*   queued -> framing -> rolling_out -> critiquing -> synthesizing ->     *)
(*   succeeded                                                             *)
(* with failure and cancellation from every stage, a bounded number of     *)
(* runs each of which starts again from the queue, and a cancellation      *)
(* request that no later run and no success can follow.                    *)
(***************************************************************************)
EXTENDS Naturals

CONSTANTS
  Jobs,     \* the jobs
  MaxRuns   \* how often one job may be started

VARIABLES
  stage,   \* stage[j]: where job j is
  runs,    \* runs[j]: how often it was started
  asked    \* asked[j]: its cancellation was requested while it ran

lifecycleVars == <<stage, runs, asked>>

Running == {"framing", "rolling_out", "critiquing", "synthesizing"}
Done == {"succeeded", "failed", "cancelled"}

Successor == [s \in {"framing", "rolling_out", "critiquing"} |->
                CASE s = "framing" -> "rolling_out"
                  [] s = "rolling_out" -> "critiquing"
                  [] s = "critiquing" -> "synthesizing"]

\* Job j moves to stage s, with n runs behind it and its request recorded as r.
Becomes(j, s, n, r) == stage'[j] = s /\ runs'[j] = n /\ asked'[j] = r

Submit(j) == stage[j] = "absent" /\ Becomes(j, "queued", 0, FALSE)

Start(j) ==
  /\ stage[j] = "queued"
  /\ runs[j] < MaxRuns
  /\ Becomes(j, "framing", runs[j] + 1, FALSE)

Drop(j) ==
  /\ stage[j] = "queued"
  /\ \E s \in {"failed", "cancelled"} : Becomes(j, s, runs[j], FALSE)

Advance(j) ==
  /\ stage[j] \in DOMAIN Successor
  /\ ~asked[j]
  /\ Becomes(j, Successor[stage[j]], runs[j], FALSE)

AskToCancel(j) == stage[j] \in Running /\ Becomes(j, stage[j], runs[j], TRUE)

Finish(j) ==
  /\ stage[j] \in Running
  /\ \E s \in Done :
       /\ s = "succeeded" => ~asked[j]
       /\ Becomes(j, s, runs[j], asked[j])

\* The service stopped under the job and put it back into the queue.
StartOver(j) ==
  /\ stage[j] \in Running
  /\ ~asked[j]
  /\ runs[j] < MaxRuns
  /\ Becomes(j, "queued", runs[j], FALSE)

Forget(j) == stage[j] \in Done /\ Becomes(j, "absent", 0, FALSE)

Step(j) ==
  \/ Submit(j) \/ Start(j) \/ Drop(j) \/ Advance(j)
  \/ AskToCancel(j) \/ Finish(j) \/ StartOver(j) \/ Forget(j)

\* A restart or a retention sweep moves several jobs in one step.
Move == \A j \in Jobs : Step(j) \/ Becomes(j, stage[j], runs[j], asked[j])

Start0 ==
  /\ stage = [j \in Jobs |-> "absent"]
  /\ runs = [j \in Jobs |-> 0]
  /\ asked = [j \in Jobs |-> FALSE]

Lifecycle == Start0 /\ [][Move]_lifecycleVars

=============================================================================
