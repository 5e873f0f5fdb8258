------------------------------- MODULE Tasks -------------------------------
(***************************************************************************)
(* The task runner of root/tasks.h: Tasks<ID>.                             *)
(*                                                                         *)
(* A table of tasks, each with an optional group and up to two parents (a  *)
(* parent is a task or a group), is executed by a fixed number of threads. *)
(* The threads share a mutex, a condition variable, a pointer `begin` to   *)
(* the first entry worth looking at, and one status record per id.  A      *)
(* thread asks peekTask for its next task, executes it without the mutex,  *)
(* and hands it back to peekTask, which marks it done.                     *)
(*                                                                         *)
(* peekTask holds the mutex from its first line to its last, except while  *)
(* it sleeps in cond_var.wait, so it is split into actions where it takes  *)
(* the mutex (PeekEnter, Reacquire), where it decides (PickTask,           *)
(* WaitForTask, NoMoreTasks) and where it notifies and returns             *)
(* (PeekReturn).                                                           *)
(*                                                                         *)
(* An operator whose name starts with Mut is the definition after it with  *)
(* a plausible mistake in it; no specification uses it.  The properties    *)
(* are checked against them too, to see that they can fail.                *)
(***************************************************************************)
EXTENDS Integers, Sequences, FiniteSets

CONSTANTS
  Threads,        \* the threads that start() creates
  Ids,            \* the values of the template parameter ID
  none_id,        \* ID::none_id: "no parent"
  grp_none_id,    \* ID::grp_none_id: "no group"
  TaskTable,      \* the task_info_t array, as a sequence
  NoThread,       \* not a thread: the owner of an unlocked mutex
  MaxSpurious     \* bound: how often cond_var.wait may return unnotified

task_info_t == [id : Ids, grp_id : Ids, parent_id : Ids, parent_id2 : Ids]

Entries == 1 .. Len(TaskTable)
End == Len(TaskTable) + 1          \* the pointer one past the last entry
Id(i) == TaskTable[i].id
Grp(i) == TaskTable[i].grp_id
Parent(i) == TaskTable[i].parent_id
Parent2(i) == TaskTable[i].parent_id2

Members(g) == {i \in Entries : Grp(i) = g}
TaskIds == {Id(i) : i \in Entries}
GroupIds == {Grp(i) : i \in Entries} \ {grp_none_id}

ASSUME ThreadsAssumption ==
  /\ IsFiniteSet(Threads)
  /\ Threads # {}
  /\ NoThread \notin Threads
  /\ MaxSpurious \in Nat

\* What every table in the repository satisfies and the code relies on:
\* an id names one entry, and ids of tasks, ids of groups and the two
\* "none" ids are different things.
ASSUME TableAssumption ==
  /\ none_id \in Ids /\ grp_none_id \in Ids
  /\ TaskTable \in Seq(task_info_t)
  /\ \A i, j \in Entries : Id(i) = Id(j) => i = j
  /\ TaskIds \cap GroupIds = {}
  /\ {none_id, grp_none_id} \cap TaskIds = {}
  /\ none_id \notin GroupIds

\* The constructor counts a second parent only where there is a first one.
ASSUME ParentSlotsAssumption ==
  \A i \in Entries : Parent(i) = none_id => Parent2(i) = none_id

NoTask == 0                        \* the null task_info_t pointer

VARIABLES
  main,         \* the thread in start(): "spawn", "join" or "returned"
  pc,           \* where each thread is
  cur,          \* the task a thread holds: an entry, or NoTask
  child_count,  \* the local variable child_count of peekTask
  mtx,          \* the thread that holds the mutex, or NoThread
  begin,        \* position of the first entry that is looked at
  status,       \* status[x].status
  grp_ref,      \* status[x].grp_ref
  spurious      \* unnotified wake-ups still possible

vars == <<main, pc, cur, child_count, mtx, begin, status, grp_ref, spurious>>

Places ==
  {"unborn",    \* std::thread not constructed yet
   "enter",     \* calling peekTask, has not got the mutex
   "scan",      \* in peekTask with the mutex, at the top of for (;;)
   "waiting",   \* asleep in cond_var.wait
   "woken",     \* out of the wait set, has not got the mutex back
   "return",    \* in peekTask with the mutex, decision taken
   "run",       \* executing the function of its task
   "exit"}      \* sthread has returned

----------------------------------------------------------------------------
(* The constructor *)

\* status[x].child_count, which only the constructor writes.
ChildCount(x) ==
  Cardinality({i \in Entries : Parent(i) # none_id /\ Parent(i) = x})
  + Cardinality({i \in Entries : /\ Parent(i) # none_id
                                 /\ Parent2(i) # none_id
                                 /\ Parent2(i) = x})

InitialStatus(x) ==
  IF x \in {none_id, grp_none_id} THEN "done"
  ELSE IF x \in TaskIds \cup GroupIds THEN "waiting"
  ELSE "disable"

\* The counter is set instead of incremented.
MutInitialGrpRef(x) == IF x = grp_none_id \/ Members(x) = {} THEN 0 ELSE 1

InitialGrpRef(x) == IF x = grp_none_id THEN 0 ELSE Cardinality(Members(x))

Init ==
  /\ main = "spawn"
  /\ pc = [t \in Threads |-> "unborn"]
  /\ cur = [t \in Threads |-> NoTask]
  /\ child_count = [t \in Threads |-> 0]
  /\ mtx = NoThread
  /\ begin = 1
  /\ status = [x \in Ids |-> InitialStatus(x)]
  /\ grp_ref = [x \in Ids |-> InitialGrpRef(x)]
  /\ spurious = MaxSpurious

----------------------------------------------------------------------------
(* start(): create the threads, then join them *)

Spawn(t) ==
  /\ main = "spawn"
  /\ pc[t] = "unborn"
  /\ pc' = [pc EXCEPT ![t] = "enter"]
  /\ main' = IF \A u \in Threads \ {t} : pc[u] # "unborn" THEN "join"
                                                          ELSE "spawn"
  /\ UNCHANGED <<cur, child_count, mtx, begin, status, grp_ref, spurious>>

\* Only one of the threads is joined.
MutJoinAll ==
  /\ main = "join"
  /\ \E t \in Threads : pc[t] = "exit"
  /\ main' = "returned"
  /\ UNCHANGED <<pc, cur, child_count, mtx, begin, status, grp_ref, spurious>>

JoinAll ==
  /\ main = "join"
  /\ \A t \in Threads : pc[t] = "exit"
  /\ main' = "returned"
  /\ UNCHANGED <<pc, cur, child_count, mtx, begin, status, grp_ref, spurious>>

----------------------------------------------------------------------------
(* peekTask() *)

\* The counter is tested before it is decremented.
MutLastOfGroup(i) == Grp(i) # grp_none_id /\ grp_ref[Grp(i)] = 2

LastOfGroup(i) == Grp(i) # grp_none_id /\ grp_ref[Grp(i)] = 1

\* The entry task i is done; so is its group if i was the last of it.
DoneStatus(i) ==
  [x \in Ids |-> IF x = Id(i) \/ (x = Grp(i) /\ LastOfGroup(i))
                 THEN "done" ELSE status[x]]

\* begin moves past entries that are still running.
MutAdvance(st, b) ==
  CHOOSE k \in b .. End : /\ \A j \in b .. k - 1 : st[Id(j)] # "waiting"
                          /\ k = End \/ st[Id(k)] = "waiting"

\* begin after "put back all done task": past every done entry it meets.
Advance(st, b) ==
  CHOOSE k \in b .. End : /\ \A j \in b .. k - 1 : st[Id(j)] = "done"
                          /\ k = End \/ st[Id(k)] # "done"

\* Take the mutex and account for the task that was handed back, if any.
PeekEnter(t) ==
  LET i == cur[t] IN
  /\ pc[t] = "enter"
  /\ mtx = NoThread
  /\ mtx' = t
  /\ pc' = [pc EXCEPT ![t] = "scan"]
  /\ cur' = [cur EXCEPT ![t] = NoTask]
  /\ \/ /\ i = NoTask
        /\ child_count' = [child_count EXCEPT ![t] = 0]
        /\ UNCHANGED <<status, grp_ref, begin>>
     \/ /\ i # NoTask
        /\ status' = DoneStatus(i)
        /\ grp_ref' = [x \in Ids |-> IF x = Grp(i) /\ x # grp_none_id
                                     THEN grp_ref[x] - 1 ELSE grp_ref[x]]
        /\ child_count' = [child_count EXCEPT ![t] =
             ChildCount(Id(i))
             + IF LastOfGroup(i) THEN ChildCount(Grp(i)) ELSE 0]
        /\ begin' = IF i = begin THEN Advance(status', begin) ELSE begin
  /\ UNCHANGED <<main, spurious>>

Waiting(i) == status[Id(i)] = "waiting"

\* The second parent is ignored.
MutReady(i) == Waiting(i) /\ status[Parent(i)] = "done"

Ready(i) ==
  /\ Waiting(i)
  /\ status[Parent(i)] = "done"
  /\ status[Parent2(i)] = "done"

Looked == {i \in Entries : begin <= i}      \* what the inner loop visits

\* The entry is not marked as running.
MutPickTask(t) ==
  /\ pc[t] = "scan"
  /\ \E i \in Looked :
       /\ Ready(i)
       /\ \A j \in Looked : Ready(j) => i <= j
       /\ cur' = [cur EXCEPT ![t] = i]
  /\ pc' = [pc EXCEPT ![t] = "return"]
  /\ UNCHANGED <<main, child_count, mtx, begin, status, grp_ref, spurious>>

\* The first ready entry becomes this thread's task.
PickTask(t) ==
  /\ pc[t] = "scan"
  /\ \E i \in Looked :
       /\ Ready(i)
       /\ \A j \in Looked : Ready(j) => i <= j
       /\ status' = [status EXCEPT ![Id(i)] = "running"]
       /\ cur' = [cur EXCEPT ![t] = i]
  /\ pc' = [pc EXCEPT ![t] = "return"]
  /\ UNCHANGED <<main, child_count, mtx, begin, grp_ref, spurious>>

\* Tasks are left but none is ready: sleep, giving the mutex up.
WaitForTask(t) ==
  /\ pc[t] = "scan"
  /\ \A i \in Looked : ~Ready(i)
  /\ \E i \in Looked : Waiting(i)
  /\ pc' = [pc EXCEPT ![t] = "waiting"]
  /\ mtx' = NoThread
  /\ UNCHANGED <<main, cur, child_count, begin, status, grp_ref, spurious>>

\* The thread leaves without waking the others.
MutNoMoreTasks(t) ==
  /\ pc[t] = "scan"
  /\ \A i \in Looked : ~Waiting(i)
  /\ pc' = [pc EXCEPT ![t] = "return"]
  /\ UNCHANGED <<main, cur, child_count, mtx, begin, status, grp_ref, spurious>>

\* No task is left to pick: wake everybody, this thread is finished.
NoMoreTasks(t) ==
  /\ pc[t] = "scan"
  /\ \A i \in Looked : ~Waiting(i)
  /\ child_count' = [child_count EXCEPT ![t] = 3]
  /\ pc' = [pc EXCEPT ![t] = "return"]
  /\ UNCHANGED <<main, cur, mtx, begin, status, grp_ref, spurious>>

Sleepers == {t \in Threads : pc[t] = "waiting"}

\* Two released tasks wake nobody.
MutNotified(n) == IF n > 2 THEN {Sleepers} ELSE {{}}

\* The sets of threads that the notification of peekTask may wake up.
Notified(n) ==
  IF n > 2 THEN {Sleepers}
  ELSE IF n = 2 /\ Sleepers # {} THEN {{u} : u \in Sleepers}
  ELSE {{}}

PeekReturn(t) ==
  /\ pc[t] = "return"
  /\ \E up \in Notified(child_count[t]) :
       pc' = [u \in Threads |->
                IF u = t THEN IF cur[t] = NoTask THEN "exit" ELSE "run"
                ELSE IF u \in up THEN "woken" ELSE pc[u]]
  /\ mtx' = NoThread
  /\ UNCHANGED <<main, cur, child_count, begin, status, grp_ref, spurious>>

\* cond_var.wait has the mutex again and returns; the loop starts over.
Reacquire(t) ==
  /\ pc[t] = "woken"
  /\ mtx = NoThread
  /\ mtx' = t
  /\ pc' = [pc EXCEPT ![t] = "scan"]
  /\ UNCHANGED <<main, cur, child_count, begin, status, grp_ref, spurious>>

\* A condition variable may wake a sleeper that nobody notified.
SpuriousWakeup(t) ==
  /\ pc[t] = "waiting"
  /\ spurious > 0
  /\ spurious' = spurious - 1
  /\ pc' = [pc EXCEPT ![t] = "woken"]
  /\ UNCHANGED <<main, cur, child_count, mtx, begin, status, grp_ref>>

----------------------------------------------------------------------------
(* sthread(): the function of the task returns, ask for the next one *)

RunTask(t) ==
  /\ pc[t] = "run"
  /\ pc' = [pc EXCEPT ![t] = "enter"]
  /\ UNCHANGED <<main, cur, child_count, mtx, begin, status, grp_ref, spurious>>

----------------------------------------------------------------------------
PeekStep(t) ==
  \/ PeekEnter(t)
  \/ PickTask(t) \/ WaitForTask(t) \/ NoMoreTasks(t)
  \/ PeekReturn(t)
  \/ Reacquire(t)

Terminated == main = "returned" /\ UNCHANGED vars

Next ==
  \/ \E t \in Threads : \/ Spawn(t)
                        \/ PeekStep(t)
                        \/ RunTask(t)
                        \/ SpuriousWakeup(t)
  \/ JoinAll
  \/ Terminated

Spec == Init /\ [][Next]_vars

\* The kernel runs every thread that can run, and the function of every
\* task returns.  A thread needs no fairness from the mutex: the others
\* take it finitely often.
Fairness ==
  /\ WF_vars(JoinAll)
  /\ \A t \in Threads : /\ WF_vars(Spawn(t))
                        /\ WF_vars(PeekStep(t))
                        /\ WF_vars(RunTask(t))

FairSpec == Spec /\ Fairness
----------------------------------------------------------------------------
(* Properties *)

\* Every field of the runner, of its threads and of its statuses has the type
\* that root/tasks.h declares.
TypeOK ==
  /\ main \in {"spawn", "join", "returned"}
  /\ pc \in [Threads -> Places]
  /\ cur \in [Threads -> Entries \cup {NoTask}]
  /\ child_count \in [Threads -> Nat]
  /\ mtx \in Threads \cup {NoThread}
  /\ begin \in 1 .. End
  /\ status \in [Ids -> {"disable", "waiting", "running", "done"}]
  /\ grp_ref \in [Ids -> Nat]
  /\ spurious \in 0 .. MaxSpurious

\* What the parent x stands for: nothing, a task, or a group's members.
\* An id that names neither a task nor a group is never done.
Expand(x) ==
  IF x \in {none_id, grp_none_id} THEN {}
  ELSE IF x \in GroupIds THEN Members(x)
  ELSE IF x \in TaskIds THEN {i \in Entries : Id(i) = x}
  ELSE {NoTask}

Deps(i) == Expand(Parent(i)) \cup Expand(Parent2(i))

Complete(i) == i \in Entries /\ status[Id(i)] = "done"

\* A task has started only if both parents, every member of a parent group
\* included, have completed: the group counters, the done marks and the
\* scan agree whatever order the threads finish in.
NoTaskBeforeItsParents ==
  \A i \in Entries :
    status[Id(i)] \in {"running", "done"} => \A d \in Deps(i) : Complete(d)

\* A running task is held by exactly one thread, which no other holds, so
\* no function is executed twice at the same time or lost by its thread.
OneThreadPerTask ==
  /\ \A t, u \in Threads : cur[t] = cur[u] /\ cur[t] # NoTask => t = u
  /\ \A i \in Entries :
       status[Id(i)] = "running" <=> \E t \in Threads : cur[t] = i

\* grp_ref counts the members of the group that are not done, so it never
\* wraps below zero and the group is done exactly when its last member is.
GroupCounters ==
  \A g \in GroupIds :
    /\ grp_ref[g] = Cardinality({i \in Members(g) : ~Complete(i)})
    /\ status[g] = IF grp_ref[g] = 0 THEN "done" ELSE "waiting"

\* Moving begin hides only completed tasks from the scan.
BeginSkipsOnlyDone ==
  /\ \A i \in Entries : i < begin => Complete(i)
  /\ begin # End => ~Complete(begin)

\* start() returns only when every task of the table is complete, although
\* threads leave while tasks are still running.
ReturnsAfterLastTask ==
  main = "returned" => \A i \in Entries : Complete(i)

\* The threads that are about to look for a task and owe no notification.
Coming ==
  {t \in Threads : \/ pc[t] \in {"unborn", "woken"}
                   \/ pc[t] = "enter" /\ cur[t] = NoTask}

ReadyTasks == {i \in Entries : Ready(i)}

\* No lost wake-up: while the mutex is free, a thread sleeps only if there
\* are as many threads on their way to the scan as there are ready tasks.
\* It is what the comment "Actions to take when tasks are release" promises.
NoLostWakeup ==
  mtx = NoThread /\ Sleepers # {} =>
    Cardinality(ReadyTasks) <= Cardinality(Coming)

\* No task waits for itself through others, nor for an id that is no entry:
\* among any tasks there is one that waits for none of them.  The order of
\* the table is free; root/test.cpp has a task that waits for a later one.
Acyclic ==
  \A S \in SUBSET Entries :
    S # {} => \E i \in S : Deps(i) \subseteq Entries \ S

\* In such a table the threads never all sleep: with no thread running a
\* task or on its way, somebody would have been woken for the next task.
NeverAllAsleep ==
  (\A t \in Threads : pc[t] \in {"waiting", "exit"}) => Sleepers = {}

\* The caller of start() gets its answer.
StartReturns == <>(main = "returned")

Order == INSTANCE TaskOrder WITH
  Jobs <- Entries,
  Needs <- [i \in Entries |-> Deps(i)],
  MaxRunning <- Cardinality(Threads),
  progress <- [i \in Entries |-> status[Id(i)]],
  over <- (main = "returned")

\* The threaded runner implements the order specification.
ImplementsTaskOrder == Order!Spec
============================================================================
