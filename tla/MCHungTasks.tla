---------------------------- MODULE MCHungTasks ----------------------------
(***************************************************************************)
(* The task runner with the boot table when the function of some tasks     *)
(* never returns: `mount -a` waiting for a server that is down, a script   *)
(* that waits for input.  launch() waits for its child without a timeout   *)
(* (root/sys_linux.h), so such a task keeps its thread for ever.           *)
(***************************************************************************)
EXTENDS Tasks, BootTable

\* The assumptions of the proofs hold for the table of the boot program and
\* for that of root/test.cpp, in which a task waits for a later one.
Test == INSTANCE Tasks WITH TaskTable <- test_tasks

ASSUME TablesAssumption ==
  /\ Acyclic
  /\ Test!TableAssumption /\ Test!ParentSlotsAssumption /\ Test!Acyclic

CONSTANT Hung       \* the ids of the tasks whose function may never return

ASSUME HungAssumption ==
  /\ Hung \subseteq TaskIds
  /\ Cardinality(Hung) < Cardinality(Threads)

\* The tasks that are hung or wait for a hung one through at most n others.
BlockedWithin[n \in 0 .. Len(TaskTable)] ==
  IF n = 0 THEN {i \in Entries : Id(i) \in Hung}
  ELSE LET blocked == BlockedWithin[n - 1]
       IN  blocked \cup {i \in Entries : Deps(i) \cap blocked # {}}

Unblocked == Entries \ BlockedWithin[Len(TaskTable)]

\* The functions of all other tasks return; the threads are scheduled.
HungFairness ==
  /\ WF_vars(JoinAll)
  /\ \A t \in Threads :
       /\ WF_vars(Spawn(t))
       /\ WF_vars(PeekStep(t))
       /\ WF_vars(RunTask(t) /\ Id(cur[t]) \notin Hung)

HungSpec == Spec /\ HungFairness

\* With fewer hung tasks than threads, every task that does not depend on a
\* hung one is still executed to its end: the remaining threads are never
\* all asleep, and no notification goes only to threads that cannot use it.
UnblockedTasksComplete == <>(\A i \in Unblocked : Complete(i))
============================================================================
