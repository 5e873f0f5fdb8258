----------------------------- MODULE TaskOrder -----------------------------
(***************************************************************************)
(* What the task runner of root/tasks.h promises its caller, with no       *)
(* thread, lock or condition variable in sight: every task of the table is *)
(* executed at most once, never before the tasks it depends on are         *)
(* complete, never more than MaxRunning at a time, and the run as a whole  *)
(* is over only when every task is complete.                               *)
(*                                                                         *)
(* Module Tasks, the translation of the code, is shown to implement this   *)
(* specification; module Boot uses it to say in which orders the boot *)
(* program may execute its tasks.                                          *)
(***************************************************************************)
EXTENDS Integers, FiniteSets

CONSTANTS
  Jobs,         \* the tasks
  Needs,        \* Needs[j]: what has to be complete before task j may start
  MaxRunning    \* how many tasks may be running at the same time

VARIABLES
  progress,     \* progress[j]: "waiting", "running" or "done"
  over          \* TRUE once the caller has been told that all is done

ordvars == <<progress, over>>

Running == {j \in Jobs : progress[j] = "running"}

\* Something needed that is not a task never becomes complete.
MayStart(j) ==
  /\ progress[j] = "waiting"
  /\ \A d \in Needs[j] : d \in Jobs /\ progress[d] = "done"

Init ==
  /\ progress = [j \in Jobs |-> "waiting"]
  /\ over = FALSE

StartJob(j) ==
  /\ ~over
  /\ MayStart(j)
  /\ Cardinality(Running) < MaxRunning
  /\ progress' = [progress EXCEPT ![j] = "running"]
  /\ UNCHANGED over

CompleteJob(j) ==
  /\ ~over
  /\ progress[j] = "running"
  /\ progress' = [progress EXCEPT ![j] = "done"]
  /\ UNCHANGED over

Finish ==
  /\ \A j \in Jobs : progress[j] = "done"
  /\ over' = TRUE
  /\ UNCHANGED progress

Next ==
  \/ \E j \in Jobs : StartJob(j) \/ CompleteJob(j)
  \/ Finish

Spec == Init /\ [][Next]_ordvars
============================================================================
