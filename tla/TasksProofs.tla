---------------------------- MODULE TasksProofs ----------------------------
(***************************************************************************)
(* Proofs about module Tasks, for every task table, every number of        *)
(* threads and any number of unnotified wake-ups.                          *)
(*                                                                         *)
(* The inductive invariant IInv adds to the safety properties of Tasks     *)
(* what a thread holds in each place of peekTask, what the status of an id *)
(* that is not a task says, that a thread which found nothing to do leaves *)
(* no waiting task behind, and how many wake-ups the owner of the mutex    *)
(* still owes.                                                             *)
(***************************************************************************)
EXTENDS Tasks, TLAPS, FiniteSetTheorems, WellFoundedInduction

----------------------------------------------------------------------------
(* The inductive invariant *)

\* The mutex is owned exactly by the thread that is inside peekTask.
MutexOwner ==
  \A t \in Threads : pc[t] \in {"scan", "return"} <=> mtx = t

\* A thread without a task is one that is looking for it.
TaskHolder ==
  \A t \in Threads :
    /\ pc[t] \in {"unborn", "scan", "waiting", "woken", "exit"} =>
         cur[t] = NoTask
    /\ pc[t] = "run" => cur[t] # NoTask

\* The ids that are no task: "none" is always done, an unknown id never.
IdKinds ==
  /\ status[none_id] = "done" /\ status[grp_none_id] = "done"
  /\ \A i \in Entries : status[Id(i)] # "disable"
  /\ \A x \in Ids \ (TaskIds \cup GroupIds \cup {none_id, grp_none_id}) :
       status[x] = "disable"

\* A thread that has found nothing to wait for leaves no waiting task.
Leaves(t) == pc[t] = "exit" \/ (pc[t] = "return" /\ cur[t] = NoTask)

LeavesNothingWaiting ==
  (\E t \in Threads : Leaves(t)) => \A i \in Entries : ~Waiting(i)

JoinedAll == main = "returned" => \A t \in Threads : pc[t] = "exit"

\* How many ready tasks the owner of the mutex takes care of: it picks one
\* itself at the top of the loop, and its notification will bring threads
\* for the ones that its finished task released, but for the one it took.
Owed ==
  IF mtx = NoThread THEN 0
  ELSE IF pc[mtx] = "scan"
  THEN IF child_count[mtx] > 1 THEN child_count[mtx] ELSE 1
  ELSE IF child_count[mtx] > 1 THEN child_count[mtx] - 1 ELSE 0

EnoughComing ==
  Sleepers # {} => Cardinality(ReadyTasks) <= Cardinality(Coming) + Owed

IInv ==
  /\ TypeOK
  /\ MutexOwner
  /\ TaskHolder
  /\ OneThreadPerTask
  /\ IdKinds
  /\ GroupCounters
  /\ BeginSkipsOnlyDone
  /\ NoTaskBeforeItsParents
  /\ LeavesNothingWaiting
  /\ JoinedAll
  /\ EnoughComing
----------------------------------------------------------------------------
(* Facts about the constants *)

\* The table is a finite sequence of well-typed entries.
LEMMA TableFacts ==
  /\ Len(TaskTable) \in Nat
  /\ End \in Nat /\ End >= 1
  /\ IsFiniteSet(Entries)
  /\ \A i \in Entries : i \in Nat /\ i # NoTask /\ 1 <= i /\ i < End
  /\ \A i \in Entries : /\ Id(i) \in Ids /\ Grp(i) \in Ids
                        /\ Parent(i) \in Ids /\ Parent2(i) \in Ids
  /\ \A i \in Entries : Id(i) \in TaskIds
  /\ \A i \in Entries : Id(i) \notin GroupIds \cup {none_id, grp_none_id}
<1>1. Len(TaskTable) \in Nat /\ TaskTable \in Seq(task_info_t)
  BY TableAssumption
<1>2. IsFiniteSet(Entries)
  BY <1>1, FS_Interval DEF Entries
<1>3. \A i \in Entries : TaskTable[i] \in task_info_t
  BY <1>1 DEF Entries
<1>4. \A i \in Entries : /\ Id(i) \in Ids /\ Grp(i) \in Ids
                         /\ Parent(i) \in Ids /\ Parent2(i) \in Ids
  BY <1>3 DEF task_info_t, Id, Grp, Parent, Parent2
<1>5. \A i \in Entries : Id(i) \in TaskIds
  BY DEF TaskIds
<1>6. QED
  BY <1>1, <1>2, <1>4, <1>5, TableAssumption DEF Entries, End, NoTask

\* Sets of entries are finite, and so are the two sets ChildCount counts.
LEMMA ChildCountType == \A x : ChildCount(x) \in Nat
<1> TAKE x
<1> DEFINE A == {i \in Entries : Parent(i) # none_id /\ Parent(i) = x}
           B == {i \in Entries : /\ Parent(i) # none_id
                                 /\ Parent2(i) # none_id
                                 /\ Parent2(i) = x}
<1>1. A \in SUBSET Entries /\ B \in SUBSET Entries
  OBVIOUS
<1>2. IsFiniteSet(A) /\ IsFiniteSet(B)
  BY <1>1, TableFacts, FS_Subset
<1>3. Cardinality(A) \in Nat /\ Cardinality(B) \in Nat
  BY <1>2, FS_CardinalityType
<1>4. ChildCount(x) = Cardinality(A) + Cardinality(B)
  BY DEF ChildCount
<1>5. QED
  BY <1>3, <1>4

\* Every non-empty set of naturals has a least element (from the strict
\* inclusion order on the finite sets 0 .. k, which is well-founded).
LEMMA LeastElement ==
  ASSUME NEW S, S \subseteq Nat, S # {}
  PROVE  \E k \in S : \A j \in S : k <= j
<1> DEFINE T == {0 .. k : k \in S}
<1>1. PICK I \in T : \A J \in T : <<J, I>> \notin StrictSubsetOrdering(Nat)
  <2>1. T # {}
    OBVIOUS
  <2>2. T \subseteq FiniteSubsetsOf(Nat)
    <3> SUFFICES ASSUME NEW k \in S
                 PROVE  0 .. k \subseteq Nat /\ IsFiniteSet(0 .. k)
      BY DEF FiniteSubsetsOf
    <3>1. QED BY FS_Interval
  <2>3. IsWellFoundedOn(StrictSubsetOrdering(Nat), FiniteSubsetsOf(Nat))
    BY FS_StrictSubsetOrderingWellFounded
  <2> HIDE DEF T
  <2>4. QED
    BY <2>1, <2>2, <2>3, WFMin
<1>2. PICK k \in S : I = 0 .. k
  OBVIOUS
<1>3. ASSUME NEW j \in S, j < k PROVE FALSE
  <2>1. k \in Nat /\ j \in Nat
    OBVIOUS
  <2>2. 0 .. j \subseteq 0 .. k /\ 0 .. k \subseteq Nat
    BY <1>3, <2>1
  <2>3. k \in 0 .. k /\ k \notin 0 .. j
    BY <1>3, <2>1
  <2>4. <<0 .. j, 0 .. k>> \in StrictSubsetOrdering(Nat)
    BY <2>2, <2>3 DEF StrictSubsetOrdering
  <2>5. QED BY <1>1, <1>2, <2>4
<1>4. QED
  BY <1>3

\* The loop "put back all done task" stops at the first entry that is not
\* done: there is one, or it reaches the end.
LEMMA AdvanceIsFirst ==
  ASSUME NEW st, NEW b \in Nat, b <= End
  PROVE  /\ Advance(st, b) \in b .. End
         /\ \A j \in Nat : b <= j /\ j < Advance(st, b) => st[Id(j)] = "done"
         /\ Advance(st, b) = End \/ st[Id(Advance(st, b))] # "done"
<1> DEFINE Stop == {k \in b .. End : k = End \/ st[Id(k)] # "done"}
           P(k) == /\ \A j \in b .. k - 1 : st[Id(j)] = "done"
                   /\ k = End \/ st[Id(k)] # "done"
<1>1. End \in Stop /\ Stop \subseteq Nat
  BY TableFacts
<1>2. PICK k \in Stop : \A j \in Stop : k <= j
  <2> HIDE DEF Stop
  <2>1. QED BY <1>1, LeastElement
<1>3. k \in b .. End /\ P(k)
  BY <1>2, TableFacts
<1>4. Advance(st, b) = CHOOSE n \in b .. End : P(n)
  BY DEF Advance
<1>5. Advance(st, b) \in b .. End /\ P(Advance(st, b))
  <2> HIDE DEF P
  <2>1. QED BY <1>3, <1>4
<1>6. QED
  BY <1>5

\* A group has members, and its id differs from every task id and none id.
LEMMA GroupFacts ==
  ASSUME NEW g \in GroupIds
  PROVE  /\ g \in Ids /\ g # none_id /\ g # grp_none_id
         /\ \A i \in Entries : Id(i) # g
         /\ \E i \in Entries : i \in Members(g)
BY TableFacts, TableAssumption DEF GroupIds, Members

\* Every set of entries and every set of threads is finite.
LEMMA SubsetsAreFinite ==
  /\ \A S \in SUBSET Entries : IsFiniteSet(S) /\ Cardinality(S) \in Nat
  /\ \A S \in SUBSET Threads : IsFiniteSet(S) /\ Cardinality(S) \in Nat
BY TableFacts, ThreadsAssumption, FS_Subset, FS_CardinalityType

LEMMA SetSizes ==
  /\ Cardinality(ReadyTasks) \in Nat
  /\ Cardinality(Coming) \in Nat
BY SubsetsAreFinite DEF ReadyTasks, Coming
----------------------------------------------------------------------------
(* The initial state *)

LEMMA InitIInv == Init => IInv
<1> SUFFICES ASSUME Init PROVE IInv
  OBVIOUS
<1>1. \A i \in Entries : status[Id(i)] = "waiting"
  BY TableFacts, Zenon DEF Init, InitialStatus
<1>2. TypeOK
  <2>1. status \in [Ids -> {"disable", "waiting", "running", "done"}]
    BY DEF Init, InitialStatus
  <2>2. \A x \in Ids : InitialGrpRef(x) \in Nat
    BY SubsetsAreFinite DEF InitialGrpRef, Members
  <2>3. QED
    BY <2>1, <2>2, TableFacts, ThreadsAssumption DEF Init, TypeOK, Places
<1>3. MutexOwner /\ TaskHolder /\ OneThreadPerTask
  BY <1>1, TableFacts, ThreadsAssumption
     DEF Init, MutexOwner, TaskHolder, OneThreadPerTask
<1>4. IdKinds
  BY <1>1, TableAssumption DEF Init, InitialStatus, IdKinds
<1>5. GroupCounters
  <2> SUFFICES ASSUME NEW g \in GroupIds
               PROVE  /\ grp_ref[g] =
                           Cardinality({i \in Members(g) : ~Complete(i)})
                      /\ status[g] = IF grp_ref[g] = 0 THEN "done"
                                                       ELSE "waiting"
    BY DEF GroupCounters
  <2>1. {i \in Members(g) : ~Complete(i)} = Members(g)
    BY <1>1 DEF Members, Complete
  <2>2. grp_ref[g] = Cardinality(Members(g))
    BY GroupFacts DEF Init, InitialGrpRef
  <2>3. Cardinality(Members(g)) # 0
    <3>1. Members(g) # {} /\ Members(g) \in SUBSET Entries
      BY GroupFacts DEF Members
    <3>2. QED BY <3>1, SubsetsAreFinite, FS_EmptySet
  <2>4. status[g] = "waiting"
    BY GroupFacts DEF Init, InitialStatus
  <2>5. QED BY <2>1, <2>2, <2>3, <2>4
<1>6. BeginSkipsOnlyDone
  <2>1. \A i \in Entries : ~(i < begin)
    BY TableFacts DEF Init
  <2>2. QED
    BY <1>1, <2>1 DEF BeginSkipsOnlyDone, Complete
<1>7. NoTaskBeforeItsParents
  BY <1>1 DEF NoTaskBeforeItsParents
<1>8. LeavesNothingWaiting /\ JoinedAll
  BY DEF Init, LeavesNothingWaiting, Leaves, JoinedAll
<1>9. EnoughComing
  BY DEF Init, EnoughComing, Sleepers
<1>10. QED
  BY <1>2, <1>3, <1>4, <1>5, <1>6, <1>7, <1>8, <1>9 DEF IInv
----------------------------------------------------------------------------
(* Steps that move a thread and leave the tasks alone *)

TaskData == <<cur, begin, status, grp_ref>>

\* What the invariant says of tasks, groups and holders is about TaskData.
LEMMA TaskDataUnchanged ==
  ASSUME IInv, UNCHANGED TaskData
  PROVE  /\ OneThreadPerTask' /\ IdKinds' /\ GroupCounters'
         /\ BeginSkipsOnlyDone' /\ NoTaskBeforeItsParents'
         /\ ReadyTasks' = ReadyTasks
         /\ \A i \in Entries : Waiting(i)' <=> Waiting(i)
<1>1. OneThreadPerTask' /\ IdKinds'
  BY DEF IInv, TaskData, OneThreadPerTask, IdKinds
<1>2. GroupCounters' /\ BeginSkipsOnlyDone' /\ NoTaskBeforeItsParents'
  BY DEF IInv, TaskData, GroupCounters, BeginSkipsOnlyDone,
         NoTaskBeforeItsParents, Complete
<1>3. /\ ReadyTasks' = ReadyTasks
      /\ \A i \in Entries : Waiting(i)' <=> Waiting(i)
  BY DEF TaskData, ReadyTasks, Ready, Waiting
<1>4. QED
  BY <1>1, <1>2, <1>3

\* A waiting entry is never one that begin has skipped.
LEMMA WaitingIsLookedAt ==
  ASSUME IInv, NEW i \in Entries, Waiting(i)
  PROVE  i \in Looked
BY TableFacts DEF IInv, TypeOK, BeginSkipsOnlyDone, Complete, Looked, Waiting

LEMMA SpawnStep ==
  ASSUME IInv, NEW t \in Threads, Spawn(t)
  PROVE  IInv'
<1>1. TypeOK'
  BY DEF IInv, TypeOK, Spawn, Places
<1>2. MutexOwner' /\ TaskHolder'
  BY DEF IInv, TypeOK, Spawn, MutexOwner, TaskHolder
<1>3. LeavesNothingWaiting' /\ JoinedAll'
  BY TaskDataUnchanged
     DEF IInv, TypeOK, Spawn, TaskData, LeavesNothingWaiting, Leaves, JoinedAll
<1>4. EnoughComing'
  <2>1. Coming' = Coming /\ Sleepers' = Sleepers
    BY DEF IInv, TypeOK, Spawn, TaskHolder, Coming, Sleepers
  <2>2. Owed' = Owed
    BY ThreadsAssumption DEF IInv, TypeOK, Spawn, MutexOwner, Owed
  <2>3. QED
    BY <2>1, <2>2, TaskDataUnchanged DEF IInv, Spawn, TaskData, EnoughComing
<1>5. QED
  BY <1>1, <1>2, <1>3, <1>4, TaskDataUnchanged DEF IInv, Spawn, TaskData

LEMMA JoinAllStep ==
  ASSUME IInv, JoinAll
  PROVE  IInv'
<1>1. TypeOK' /\ MutexOwner' /\ TaskHolder' /\ JoinedAll'
  BY DEF IInv, TypeOK, JoinAll, MutexOwner, TaskHolder, JoinedAll
<1>2. LeavesNothingWaiting'
  BY TaskDataUnchanged
     DEF IInv, JoinAll, TaskData, LeavesNothingWaiting, Leaves
<1>3. EnoughComing'
  BY TaskDataUnchanged
     DEF IInv, JoinAll, TaskData, EnoughComing, Coming, Sleepers, Owed
<1>4. QED
  BY <1>1, <1>2, <1>3, TaskDataUnchanged DEF IInv, JoinAll, TaskData

LEMMA PeekReturnStep ==
  ASSUME IInv, NEW t \in Threads, PeekReturn(t)
  PROVE  IInv'
<1> DEFINE after(u, up) ==
             IF u = t THEN IF cur[t] = NoTask THEN "exit" ELSE "run"
             ELSE IF u \in up THEN "woken" ELSE pc[u]
<1>1. PICK up \in Notified(child_count[t]) :
        pc' = [u \in Threads |-> after(u, up)]
  BY DEF PeekReturn
<1>2. up \subseteq Sleepers /\ t \notin up
  BY <1>1 DEF Notified, Sleepers, PeekReturn
<1>3. mtx = t /\ mtx' = NoThread /\ pc[t] = "return"
  BY DEF IInv, MutexOwner, PeekReturn
<1>4. UNCHANGED TaskData /\ UNCHANGED <<main, child_count, spurious>>
  BY DEF PeekReturn, TaskData
<1>5. TypeOK'
  BY <1>1, <1>3, <1>4 DEF IInv, TypeOK, TaskData, Places
<1>6. MutexOwner' /\ TaskHolder'
  BY <1>1, <1>2, <1>3, <1>4, ThreadsAssumption
     DEF IInv, TypeOK, MutexOwner, TaskHolder, TaskData, Sleepers
<1>7. LeavesNothingWaiting' /\ JoinedAll'
  <2>1. \A u \in Threads : Leaves(u)' => Leaves(u)
    BY <1>1, <1>2, <1>3, <1>4 DEF TaskData, Leaves
  <2>2. \A u \in Threads : pc[u] = "exit" => pc'[u] = "exit"
    BY <1>1, <1>2, <1>3 DEF Sleepers
  <2>3. QED
    BY <1>4, <2>1, <2>2, TaskDataUnchanged
       DEF IInv, LeavesNothingWaiting, JoinedAll
<1>8. EnoughComing'
  <2>1. /\ Sleepers' = Sleepers \ up
        /\ Coming' = Coming \cup up
        /\ Coming \cap up = {}
    BY <1>1, <1>2, <1>3, <1>4 DEF Sleepers, Coming, TaskData
  <2>2. Owed' = 0
    BY <1>3 DEF Owed
  <2>3. child_count[t] \in Nat
    BY DEF IInv, TypeOK
  <2>4. ReadyTasks' = ReadyTasks
    BY <1>4, TaskDataUnchanged
  <2>5. CASE child_count[t] > 2
    BY <1>1, <2>1, <2>5 DEF Notified, EnoughComing
  <2>6. CASE child_count[t] = 2 /\ Sleepers # {}
    <3>1. PICK u \in Sleepers : up = {u}
      BY <1>1, <2>6 DEF Notified
    <3>2. Coming \in SUBSET Threads /\ u \notin Coming
      BY <2>1, <3>1 DEF Coming
    <3>3. Cardinality(Coming') = Cardinality(Coming) + 1
      BY <2>1, <3>1, <3>2, SubsetsAreFinite, FS_AddElement
    <3>4. Owed = 1
      BY <1>3, <2>6, ThreadsAssumption DEF Owed
    <3>5. Cardinality(ReadyTasks) <= Cardinality(Coming) + 1
      BY <2>6, <3>4 DEF IInv, EnoughComing
    <3>6. QED
      BY <2>2, <2>4, <3>3, <3>5, SetSizes DEF EnoughComing
  <2>7. CASE child_count[t] < 2 \/ (child_count[t] = 2 /\ Sleepers = {})
    <3>1. up = {}
      BY <1>1, <2>3, <2>7 DEF Notified
    <3>2. Sleepers # {} => Owed = 0
      BY <1>3, <2>3, <2>7, ThreadsAssumption DEF Owed
    <3>3. QED
      BY <2>1, <2>2, <2>4, <3>1, <3>2 DEF IInv, EnoughComing
  <2>8. QED
    BY <2>3, <2>5, <2>6, <2>7
<1>9. QED
  BY <1>4, <1>5, <1>6, <1>7, <1>8, TaskDataUnchanged DEF IInv

\* A thread that looks for a task has got the mutex, with or without a
\* notification: it has left Coming and will take one of the ready tasks.
LEMMA ScannerOwesOne ==
  ASSUME IInv, NEW t \in Coming, mtx = NoThread, mtx' = t,
         pc' = [pc EXCEPT ![t] = "scan"], UNCHANGED TaskData,
         child_count'[t] \in Nat
  PROVE  EnoughComing'
<1>1. t \in Threads /\ Coming \in SUBSET Threads
  BY DEF Coming
<1>2. Sleepers' = Sleepers /\ Coming' = Coming \ {t}
  BY <1>1 DEF IInv, TypeOK, Sleepers, Coming, TaskData
<1>3. Cardinality(Coming') = Cardinality(Coming) - 1
  BY <1>1, <1>2, SubsetsAreFinite, FS_RemoveElement
<1>4. Owed = 0 /\ Owed' \in Nat /\ Owed' >= 1
  BY <1>1, ThreadsAssumption DEF IInv, TypeOK, Owed
<1>5. QED
  BY <1>2, <1>3, <1>4, SetSizes, TaskDataUnchanged DEF IInv, EnoughComing

LEMMA ReacquireStep ==
  ASSUME IInv, NEW t \in Threads, Reacquire(t)
  PROVE  IInv'
<1>1. TypeOK' /\ MutexOwner' /\ TaskHolder'
  BY ThreadsAssumption
     DEF IInv, TypeOK, Reacquire, Places, MutexOwner, TaskHolder
<1>2. LeavesNothingWaiting' /\ JoinedAll'
  BY TaskDataUnchanged
     DEF IInv, TypeOK, Reacquire, TaskData, LeavesNothingWaiting, Leaves,
         JoinedAll
<1>3. EnoughComing'
  <2>1. t \in Coming /\ child_count'[t] \in Nat
    BY DEF IInv, TypeOK, Reacquire, Coming
  <2>2. QED
    BY <2>1, ScannerOwesOne DEF Reacquire, TaskData
<1>4. QED
  BY <1>1, <1>2, <1>3, TaskDataUnchanged DEF IInv, Reacquire, TaskData

LEMMA WaitForTaskStep ==
  ASSUME IInv, NEW t \in Threads, WaitForTask(t)
  PROVE  IInv'
<1>1. TypeOK' /\ MutexOwner' /\ TaskHolder'
  BY ThreadsAssumption
     DEF IInv, TypeOK, WaitForTask, Places, MutexOwner, TaskHolder
<1>2. LeavesNothingWaiting' /\ JoinedAll'
  BY TaskDataUnchanged
     DEF IInv, TypeOK, WaitForTask, TaskData, LeavesNothingWaiting, Leaves,
         JoinedAll
<1>3. ReadyTasks = {}
  BY WaitingIsLookedAt DEF WaitForTask, ReadyTasks, Ready
<1>4. EnoughComing'
  <2>1. Cardinality(ReadyTasks') = 0
    BY <1>3, TaskDataUnchanged, FS_EmptySet DEF WaitForTask, TaskData
  <2>2. Cardinality(Coming') \in Nat /\ Owed' = 0
    BY SubsetsAreFinite DEF Coming, Owed, WaitForTask
  <2>3. QED
    BY <2>1, <2>2 DEF EnoughComing
<1>5. QED
  BY <1>1, <1>2, <1>4, TaskDataUnchanged DEF IInv, WaitForTask, TaskData

LEMMA NoMoreTasksStep ==
  ASSUME IInv, NEW t \in Threads, NoMoreTasks(t)
  PROVE  IInv'
<1>1. TypeOK' /\ MutexOwner' /\ TaskHolder'
  BY ThreadsAssumption
     DEF IInv, TypeOK, NoMoreTasks, Places, MutexOwner, TaskHolder
<1>2. \A i \in Entries : ~Waiting(i)
  BY WaitingIsLookedAt DEF NoMoreTasks
<1>3. LeavesNothingWaiting' /\ JoinedAll'
  BY <1>2, TaskDataUnchanged
     DEF IInv, TypeOK, NoMoreTasks, TaskData, LeavesNothingWaiting, JoinedAll
<1>4. EnoughComing'
  <2>1. ReadyTasks' = {}
    BY <1>2, TaskDataUnchanged DEF NoMoreTasks, TaskData, ReadyTasks, Ready
  <2>2. Cardinality(Coming') \in Nat
    BY SubsetsAreFinite DEF Coming
  <2>3. mtx' = t /\ child_count'[t] = 3 /\ pc'[t] = "return"
    BY DEF IInv, TypeOK, MutexOwner, NoMoreTasks
  <2>4. Owed' = 2
    BY <2>3, ThreadsAssumption DEF Owed
  <2>5. QED
    BY <2>1, <2>2, <2>4, FS_EmptySet DEF EnoughComing
<1>5. QED
  BY <1>1, <1>3, <1>4, TaskDataUnchanged DEF IInv, NoMoreTasks, TaskData

LEMMA SpuriousWakeupStep ==
  ASSUME IInv, NEW t \in Threads, SpuriousWakeup(t)
  PROVE  IInv'
<1>1. TypeOK' /\ MutexOwner' /\ TaskHolder'
  BY ThreadsAssumption
     DEF IInv, TypeOK, SpuriousWakeup, Places, MutexOwner, TaskHolder
<1>2. LeavesNothingWaiting' /\ JoinedAll'
  BY TaskDataUnchanged
     DEF IInv, TypeOK, SpuriousWakeup, TaskData, LeavesNothingWaiting, Leaves,
         JoinedAll
<1>3. EnoughComing'
  <2>1. /\ Sleepers' \subseteq Sleepers
        /\ Coming' = Coming \cup {t} /\ Coming \in SUBSET Threads
    BY DEF IInv, TypeOK, SpuriousWakeup, Sleepers, Coming
  <2>2. Cardinality(Coming') >= Cardinality(Coming)
    <3>1. Coming \cup {t} \in SUBSET Threads
      BY <2>1
    <3>2. QED
      BY <2>1, <3>1, SetSizes, SubsetsAreFinite, FS_Subset
  <2>3. Owed' = Owed /\ Owed \in Nat
    BY ThreadsAssumption DEF IInv, TypeOK, MutexOwner, SpuriousWakeup, Owed
  <2>4. Cardinality(Coming') \in Nat
    BY SubsetsAreFinite DEF Coming
  <2>5. QED
    BY <2>1, <2>2, <2>3, <2>4, SetSizes, TaskDataUnchanged
       DEF IInv, SpuriousWakeup, TaskData, EnoughComing
<1>4. QED
  BY <1>1, <1>2, <1>3, TaskDataUnchanged DEF IInv, SpuriousWakeup, TaskData

LEMMA RunTaskStep ==
  ASSUME IInv, NEW t \in Threads, RunTask(t)
  PROVE  IInv'
<1>1. TypeOK' /\ MutexOwner' /\ TaskHolder'
  BY ThreadsAssumption
     DEF IInv, TypeOK, RunTask, Places, MutexOwner, TaskHolder
<1>2. LeavesNothingWaiting' /\ JoinedAll'
  BY TaskDataUnchanged
     DEF IInv, TypeOK, RunTask, TaskData, LeavesNothingWaiting, Leaves,
         JoinedAll
<1>3. EnoughComing'
  <2>1. Sleepers' = Sleepers /\ Coming' = Coming
    BY DEF IInv, TypeOK, TaskHolder, RunTask, Sleepers, Coming
  <2>2. Owed' = Owed
    BY ThreadsAssumption DEF IInv, TypeOK, MutexOwner, RunTask, Owed
  <2>3. QED
    BY <2>1, <2>2, TaskDataUnchanged DEF IInv, RunTask, TaskData, EnoughComing
<1>4. QED
  BY <1>1, <1>2, <1>3, TaskDataUnchanged DEF IInv, RunTask, TaskData
----------------------------------------------------------------------------
(* Steps that change the status of a task *)

\* A parent that is marked done stands only for tasks that are complete.
LEMMA DoneParentIsComplete ==
  ASSUME IInv, NEW x \in Ids, status[x] = "done"
  PROVE  \A d \in Expand(x) : Complete(d)
<1>1. CASE x \in {none_id, grp_none_id}
  BY <1>1 DEF Expand
<1>2. CASE x \in GroupIds
  <2>1. grp_ref[x] = Cardinality({i \in Members(x) : ~Complete(i)})
    BY <1>2 DEF IInv, GroupCounters
  <2>2. grp_ref[x] = 0
    BY <1>2 DEF IInv, GroupCounters
  <2>3. {i \in Members(x) : ~Complete(i)} \in SUBSET Entries
    BY DEF Members
  <2>4. {i \in Members(x) : ~Complete(i)} = {}
    BY <2>1, <2>2, <2>3, SubsetsAreFinite, FS_EmptySet
  <2>5. QED
    BY <1>2, <2>4, GroupFacts DEF Expand
<1>3. CASE x \in TaskIds /\ x \notin GroupIds \cup {none_id, grp_none_id}
  BY <1>3 DEF Expand, Complete
<1>4. CASE x \notin TaskIds \cup GroupIds \cup {none_id, grp_none_id}
  BY <1>4 DEF IInv, IdKinds
<1>5. QED
  BY <1>1, <1>2, <1>3, <1>4

LEMMA PickTaskStep ==
  ASSUME IInv, NEW t \in Threads, PickTask(t)
  PROVE  IInv'
<1>1. PICK i \in Looked :
        /\ Ready(i)
        /\ status' = [status EXCEPT ![Id(i)] = "running"]
        /\ cur' = [cur EXCEPT ![t] = i]
  BY DEF PickTask
<1>2. /\ i \in Entries /\ i # NoTask /\ Id(i) \in Ids
      /\ status[Id(i)] = "waiting" /\ status'[Id(i)] = "running"
      /\ \A x \in Ids : x # Id(i) => status'[x] = status[x]
      /\ \A j \in Entries : j # i => Id(j) # Id(i)
  BY <1>1, TableFacts, TableAssumption
     DEF Looked, Ready, Waiting, IInv, TypeOK
<1>3. \A j \in Entries : Complete(j)' <=> Complete(j)
  BY <1>2, TableFacts DEF Complete
<1>4. mtx = t /\ pc[t] = "scan"
  BY DEF PickTask, IInv, MutexOwner
<1>5. TypeOK'
  BY <1>1, <1>2 DEF IInv, TypeOK, PickTask, Places
<1>6. MutexOwner' /\ TaskHolder'
  BY <1>1, <1>2 DEF IInv, TypeOK, PickTask, MutexOwner, TaskHolder
<1>7. OneThreadPerTask'
  <2>1. \A u \in Threads : cur[u] # i
    BY <1>2 DEF IInv, OneThreadPerTask
  <2>2. cur[t] = NoTask
    BY <1>4 DEF IInv, TaskHolder
  <2>3. \A u \in Threads : cur'[u] = IF u = t THEN i ELSE cur[u]
    BY <1>1 DEF IInv, TypeOK
  <2>4. \A u, v \in Threads :
          cur'[u] = cur'[v] /\ cur'[u] # NoTask => u = v
    BY <2>1, <2>3 DEF IInv, OneThreadPerTask
  <2>5. ASSUME NEW j \in Entries
        PROVE  status'[Id(j)] = "running" <=> \E u \in Threads : cur'[u] = j
    <3>1. CASE j = i
      BY <1>2, <2>3, <3>1
    <3>2. CASE j # i
      <4>1. status'[Id(j)] = status[Id(j)]
        BY <1>2, <3>2, TableFacts
      <4>2. \A u \in Threads : cur'[u] = j <=> cur[u] = j
        BY <2>2, <2>3, <3>2, TableFacts
      <4>3. QED
        BY <4>1, <4>2 DEF IInv, OneThreadPerTask
    <3>3. QED BY <3>1, <3>2
  <2>6. QED
    BY <2>4, <2>5 DEF OneThreadPerTask
<1>8. IdKinds'
  BY <1>2, TableFacts, TableAssumption DEF IInv, IdKinds
<1>9. GroupCounters'
  <2> SUFFICES ASSUME NEW g \in GroupIds
               PROVE  /\ grp_ref'[g] =
                           Cardinality({j \in Members(g) : ~Complete(j)'})
                      /\ status'[g] = IF grp_ref'[g] = 0 THEN "done"
                                                         ELSE "waiting"
    BY DEF GroupCounters
  <2>1. {j \in Members(g) : ~Complete(j)'} = {j \in Members(g) : ~Complete(j)}
    BY <1>3 DEF Members
  <2>2. status'[g] = status[g] /\ grp_ref' = grp_ref
    BY <1>2, GroupFacts DEF PickTask
  <2>3. QED
    BY <2>1, <2>2 DEF IInv, GroupCounters
<1>10. BeginSkipsOnlyDone'
  BY <1>3 DEF IInv, BeginSkipsOnlyDone, PickTask, Complete
<1>11. NoTaskBeforeItsParents'
  <2> SUFFICES ASSUME NEW j \in Entries, status'[Id(j)] \in {"running", "done"},
                      NEW d \in Deps(j)
               PROVE  Complete(d)'
    BY DEF NoTaskBeforeItsParents
  <2>1. Complete(d)
    <3>1. CASE j = i
      <4>1. /\ status[Parent(i)] = "done" /\ status[Parent2(i)] = "done"
            /\ Parent(i) \in Ids /\ Parent2(i) \in Ids
        BY <1>1, <1>2, TableFacts DEF Ready
      <4>2. QED
        BY <3>1, <4>1, DoneParentIsComplete DEF Deps
    <3>2. CASE j # i
      BY <1>2, <3>2, TableFacts DEF IInv, NoTaskBeforeItsParents
    <3>3. QED BY <3>1, <3>2
  <2>2. QED
    BY <1>3, <2>1 DEF Complete
<1>12. LeavesNothingWaiting' /\ JoinedAll'
  <2>1. \A u \in Threads : Leaves(u)' => Leaves(u)
    BY <1>1, <1>2 DEF IInv, TypeOK, PickTask, Leaves
  <2>2. \A j \in Entries : Waiting(j)' => Waiting(j)
    BY <1>2, TableFacts DEF Waiting
  <2>3. QED
    BY <1>4, <2>1, <2>2
       DEF IInv, TypeOK, PickTask, LeavesNothingWaiting, JoinedAll
<1>13. EnoughComing'
  <2>1. ReadyTasks' \in SUBSET (ReadyTasks \ {i})
    BY <1>2, TableFacts DEF ReadyTasks, Ready, Waiting
  <2>2. i \in ReadyTasks /\ ReadyTasks \in SUBSET Entries
    BY <1>1, <1>2 DEF ReadyTasks
  <2>3. /\ Cardinality(ReadyTasks \ {i}) = Cardinality(ReadyTasks) - 1
        /\ IsFiniteSet(ReadyTasks \ {i})
    BY <2>2, SubsetsAreFinite, FS_RemoveElement
  <2>4. Cardinality(ReadyTasks') <= Cardinality(ReadyTasks) - 1
    BY <2>1, <2>3, FS_Subset
  <2>5. Cardinality(ReadyTasks') \in Nat
    BY SubsetsAreFinite DEF ReadyTasks
  <2>6. Sleepers' = Sleepers /\ Coming' = Coming
    BY <1>1, <1>4 DEF IInv, TypeOK, PickTask, Sleepers, Coming
  <2>7. Owed \in Nat /\ Owed' = Owed - 1
    BY <1>4, ThreadsAssumption DEF IInv, TypeOK, PickTask, Owed
  <2>8. QED
    BY <2>4, <2>5, <2>6, <2>7, SetSizes DEF IInv, EnoughComing
<1>14. QED
  BY <1>5, <1>6, <1>7, <1>8, <1>9, <1>10, <1>11, <1>12, <1>13 DEF IInv

\* The tasks that name x as a parent, counted as the constructor counts.
Kids(x) ==
  {j \in Entries : Parent(j) # none_id /\ Parent(j) = x}
  \cup {j \in Entries : /\ Parent(j) # none_id
                        /\ Parent2(j) # none_id
                        /\ Parent2(j) = x}

LEMMA KidsAreCounted ==
  ASSUME NEW x
  PROVE  /\ Kids(x) \in SUBSET Entries
         /\ Cardinality(Kids(x)) <= ChildCount(x)
<1> DEFINE A == {j \in Entries : Parent(j) # none_id /\ Parent(j) = x}
           B == {j \in Entries : /\ Parent(j) # none_id
                                 /\ Parent2(j) # none_id
                                 /\ Parent2(j) = x}
<1>1. A \in SUBSET Entries /\ B \in SUBSET Entries /\ A \cap B \in SUBSET Entries
  OBVIOUS
<1>2. Kids(x) = A \cup B
  BY DEF Kids
<1>3. ChildCount(x) = Cardinality(A) + Cardinality(B)
  BY DEF ChildCount
<1> HIDE DEF A, B
<1>4. Cardinality(A \cup B)
        = Cardinality(A) + Cardinality(B) - Cardinality(A \cap B)
  BY <1>1, SubsetsAreFinite, FS_Union
<1>5. QED
  BY <1>1, <1>2, <1>3, <1>4, SubsetsAreFinite

\* The union of two sets of entries is no larger than both together.
LEMMA UnionSize ==
  ASSUME NEW A \in SUBSET Entries, NEW B \in SUBSET Entries
  PROVE  /\ A \cup B \in SUBSET Entries
         /\ Cardinality(A \cup B) <= Cardinality(A) + Cardinality(B)
<1>1. Cardinality(A \cup B)
        = Cardinality(A) + Cardinality(B) - Cardinality(A \cap B)
  BY SubsetsAreFinite, FS_Union
<1>2. A \cap B \in SUBSET Entries
  OBVIOUS
<1>3. QED
  BY <1>1, <1>2, SubsetsAreFinite

\* A thread that comes without a task accounts for nothing.
LEMMA PeekEnterEmptyStep ==
  ASSUME IInv, NEW t \in Threads, PeekEnter(t), cur[t] = NoTask
  PROVE  IInv'
<1>1. UNCHANGED <<status, grp_ref, begin>> /\ child_count' = [child_count EXCEPT ![t] = 0]
  BY DEF PeekEnter
<1>2. cur' = cur
  BY DEF PeekEnter, IInv, TypeOK
<1>3. UNCHANGED TaskData
  BY <1>1, <1>2 DEF TaskData
<1>4. TypeOK' /\ MutexOwner' /\ TaskHolder'
  BY <1>1, <1>2, ThreadsAssumption
     DEF IInv, TypeOK, PeekEnter, Places, MutexOwner, TaskHolder
<1>5. LeavesNothingWaiting' /\ JoinedAll'
  BY <1>2, <1>3, TaskDataUnchanged
     DEF IInv, TypeOK, PeekEnter, LeavesNothingWaiting, Leaves, JoinedAll
<1>6. EnoughComing'
  <2>1. t \in Coming /\ child_count'[t] \in Nat
    BY <1>1 DEF IInv, TypeOK, PeekEnter, Coming
  <2>2. QED
    BY <1>3, <2>1, ScannerOwesOne DEF PeekEnter
<1>7. QED
  BY <1>3, <1>4, <1>5, <1>6, TaskDataUnchanged DEF IInv

\* What handing back the task i does to the status of every id.
LEMMA DoneStatusFacts ==
  ASSUME IInv, NEW t \in Threads, PeekEnter(t), NEW i, i = cur[t], i # NoTask
  PROVE  /\ i \in Entries /\ status[Id(i)] = "running"
         /\ \A x \in Ids :
              status'[x] = IF x = Id(i) \/ (x = Grp(i) /\ LastOfGroup(i))
                           THEN "done" ELSE status[x]
         /\ \A j \in Entries : j # i => Id(j) # Id(i)
         /\ LastOfGroup(i) => Grp(i) \in GroupIds
         /\ \A j \in Entries : j # i => status'[Id(j)] = status[Id(j)]
         /\ status'[Id(i)] = "done"
         /\ \A j \in Entries : Complete(j)' <=> Complete(j) \/ j = i
<1>1. i \in Entries /\ status[Id(i)] = "running"
  BY DEF IInv, TypeOK, OneThreadPerTask
<1>2. \A x \in Ids : status'[x] = IF x = Id(i) \/ (x = Grp(i) /\ LastOfGroup(i))
                                  THEN "done" ELSE status[x]
  BY DEF PeekEnter, DoneStatus
<1>3. \A j \in Entries : j # i => Id(j) # Id(i)
  BY <1>1, TableAssumption
<1>4. LastOfGroup(i) => Grp(i) \in GroupIds
  BY <1>1 DEF LastOfGroup, GroupIds
<1>5. \A j \in Entries : j # i => status'[Id(j)] = status[Id(j)]
  <2> SUFFICES ASSUME NEW j \in Entries, j # i
               PROVE  status'[Id(j)] = status[Id(j)]
    OBVIOUS
  <2>1. Id(j) \in Ids /\ Id(j) # Id(i) /\ Id(j) \notin GroupIds
    BY <1>3, TableFacts
  <2>2. QED
    BY <1>2, <1>4, <2>1
<1>6. status'[Id(i)] = "done"
  BY <1>1, <1>2, TableFacts
<1>7. \A j \in Entries : Complete(j)' <=> Complete(j) \/ j = i
  BY <1>5, <1>6 DEF Complete
<1>8. QED
  BY <1>1, <1>2, <1>3, <1>4, <1>5, <1>6, <1>7

\* Handing back a task makes no more tasks ready than the wake-ups that
\* peekTask has counted for it: every task it releases names the task, or
\* the group it was the last of, as a parent that the constructor counted.
LEMMA NewlyReadyAreCounted ==
  ASSUME IInv, NEW t \in Threads, PeekEnter(t), cur[t] # NoTask
  PROVE  /\ child_count'[t] \in Nat
         /\ Cardinality(ReadyTasks') <= Cardinality(ReadyTasks) + child_count'[t]
<1> DEFINE i == cur[t]
           G == IF LastOfGroup(i) THEN Kids(Grp(i)) ELSE {}
           c == ChildCount(Id(i))
                + IF LastOfGroup(i) THEN ChildCount(Grp(i)) ELSE 0
<1>1. child_count'[t] = c
  BY DEF PeekEnter, IInv, TypeOK
<1>2. c \in Nat
  BY ChildCountType
<1>3. ReadyTasks' \subseteq ReadyTasks \cup (Kids(Id(i)) \cup G)
  <2> SUFFICES ASSUME NEW j \in Entries, Ready(j)', ~Ready(j)
               PROVE  j \in Kids(Id(i)) \cup G
    BY DEF ReadyTasks
  <2>1. j # i
    BY DoneStatusFacts DEF Ready, Waiting
  <2>2. Waiting(j)
    BY <2>1, DoneStatusFacts DEF Ready, Waiting
  <2>3. PICK p \in {Parent(j), Parent2(j)} :
          status[p] # "done" /\ status'[p] = "done"
    BY <2>2 DEF Ready
  <2>4. p \in Ids
    BY <2>3, TableFacts
  <2>5. p = Id(i) \/ (p = Grp(i) /\ LastOfGroup(i))
    BY <2>3, <2>4, DoneStatusFacts
  <2>6. p # none_id
    BY <2>3 DEF IInv, IdKinds
  <2>7. Parent(j) # none_id
    BY <2>3, <2>6, ParentSlotsAssumption
  <2>8. j \in Kids(p)
    BY <2>3, <2>6, <2>7 DEF Kids
  <2>9. QED
    BY <2>5, <2>8
<1>4. /\ Kids(Id(i)) \in SUBSET Entries /\ G \in SUBSET Entries
      /\ Cardinality(Kids(Id(i))) <= ChildCount(Id(i))
      /\ Cardinality(G) <= IF LastOfGroup(i) THEN ChildCount(Grp(i)) ELSE 0
  BY KidsAreCounted, FS_EmptySet
<1> DEFINE K == Kids(Id(i))
           cg == IF LastOfGroup(i) THEN ChildCount(Grp(i)) ELSE 0
<1>5. K \cup G \in SUBSET Entries /\ Cardinality(K \cup G) <= Cardinality(K) + Cardinality(G)
  BY <1>4, UnionSize
<1>6. ReadyTasks \in SUBSET Entries
  BY DEF ReadyTasks
<1>7. /\ ReadyTasks \cup (K \cup G) \in SUBSET Entries
      /\ Cardinality(ReadyTasks \cup (K \cup G))
           <= Cardinality(ReadyTasks) + Cardinality(K \cup G)
  BY <1>5, <1>6, UnionSize
<1>8. Cardinality(ReadyTasks') <= Cardinality(ReadyTasks \cup (K \cup G))
  BY <1>3, <1>7, SubsetsAreFinite, FS_Subset
<1>9. /\ Cardinality(K) \in Nat /\ Cardinality(G) \in Nat
      /\ Cardinality(K \cup G) \in Nat
      /\ Cardinality(ReadyTasks \cup (K \cup G)) \in Nat
      /\ Cardinality(ReadyTasks) \in Nat
      /\ ReadyTasks' \in SUBSET Entries
  BY <1>3, <1>4, <1>5, <1>6, <1>7, SubsetsAreFinite
<1>10. Cardinality(ReadyTasks') \in Nat
  BY <1>9, SubsetsAreFinite
<1>11. ChildCount(Id(i)) \in Nat /\ cg \in Nat /\ c = ChildCount(Id(i)) + cg
  BY ChildCountType
<1>12. Cardinality(K) <= ChildCount(Id(i)) /\ Cardinality(G) <= cg
  BY <1>4
<1> HIDE DEF K, G, c, cg, i
<1>13. QED
  BY <1>1, <1>2, <1>5, <1>7, <1>8, <1>9, <1>10, <1>11, <1>12

LEMMA PeekEnterDoneStep ==
  ASSUME IInv, NEW t \in Threads, PeekEnter(t), cur[t] # NoTask
  PROVE  IInv'
<1> DEFINE i == cur[t]
<1>1. /\ i \in Entries /\ status[Id(i)] = "running"
      /\ \A x \in Ids :
           status'[x] = IF x = Id(i) \/ (x = Grp(i) /\ LastOfGroup(i))
                        THEN "done" ELSE status[x]
      /\ \A j \in Entries : j # i => Id(j) # Id(i)
      /\ LastOfGroup(i) => Grp(i) \in GroupIds
      /\ \A j \in Entries : j # i => status'[Id(j)] = status[Id(j)]
      /\ status'[Id(i)] = "done"
      /\ \A j \in Entries : Complete(j)' <=> Complete(j) \/ j = i
  BY DoneStatusFacts
<1>2. ~Complete(i)
  BY <1>1 DEF Complete
<1>3. /\ \A x \in Ids : grp_ref'[x] = IF x = Grp(i) /\ x # grp_none_id
                                      THEN grp_ref[x] - 1 ELSE grp_ref[x]
      /\ grp_ref' = [x \in Ids |-> grp_ref'[x]]
      /\ begin' = IF i = begin THEN Advance(status', begin) ELSE begin
      /\ status' = DoneStatus(i)
      /\ cur' = [cur EXCEPT ![t] = NoTask]
      /\ pc' = [pc EXCEPT ![t] = "scan"] /\ pc[t] = "enter"
      /\ mtx = NoThread /\ mtx' = t
      /\ main' = main /\ spurious' = spurious
      /\ child_count' = [child_count EXCEPT ![t] = child_count'[t]]
  BY DEF PeekEnter, IInv, TypeOK
<1>4. GroupCounters'
  <2> SUFFICES ASSUME NEW g \in GroupIds
               PROVE  /\ grp_ref'[g] =
                           Cardinality({j \in Members(g) : ~Complete(j)'})
                      /\ status'[g] = IF grp_ref'[g] = 0 THEN "done"
                                                         ELSE "waiting"
    BY DEF GroupCounters
  <2> DEFINE Left == {j \in Members(g) : ~Complete(j)}
             Left1 == {j \in Members(g) : ~Complete(j)'}
  <2>1. /\ g \in Ids /\ g # grp_none_id /\ g # Id(i)
        /\ Left \in SUBSET Entries
        /\ grp_ref[g] = Cardinality(Left)
        /\ status[g] = IF grp_ref[g] = 0 THEN "done" ELSE "waiting"
    BY <1>1, GroupFacts DEF IInv, GroupCounters, Members
  <2>2. CASE g = Grp(i)
    <3>1. i \in Left
      BY <1>1, <1>2, <2>2 DEF Members
    <3>2. Left1 = Left \ {i}
      BY <1>1 DEF Members
    <3>3. Cardinality(Left1) = grp_ref[g] - 1
      <4>1. IsFiniteSet(Left)
        BY <2>1, SubsetsAreFinite
      <4>2. Cardinality(Left \ {i}) = Cardinality(Left) - 1
        <5> HIDE DEF Left
        <5>1. QED BY <3>1, <4>1, FS_RemoveElement
      <4>3. QED
        BY <2>1, <3>2, <4>2
    <3>4. grp_ref'[g] = grp_ref[g] - 1 /\ grp_ref[g] # 0
      BY <1>3, <2>1, <2>2, <3>1, SubsetsAreFinite, FS_EmptySet
    <3>5. status'[g] = IF grp_ref[g] = 1 THEN "done" ELSE status[g]
      BY <1>1, <2>1, <2>2 DEF LastOfGroup
    <3>6. grp_ref[g] \in Nat
      BY <2>1, SubsetsAreFinite
    <3>7. QED
      BY <2>1, <3>3, <3>4, <3>5, <3>6
  <2>3. CASE g # Grp(i)
    <3>1. i \notin Members(g)
      BY <2>3 DEF Members
    <3>2. Left1 = Left
      BY <1>1, <3>1 DEF Members
    <3>3. grp_ref'[g] = grp_ref[g] /\ status'[g] = status[g]
      BY <1>1, <1>3, <2>1, <2>3
    <3>4. QED
      BY <2>1, <3>2, <3>3
  <2>4. QED
    BY <2>2, <2>3
<1>5. TypeOK'
  <2>1. grp_ref' \in [Ids -> Nat]
    <3>1. \A x \in Ids : grp_ref'[x] \in Nat
      <4> SUFFICES ASSUME NEW x \in Ids, x = Grp(i), x # grp_none_id
                   PROVE  grp_ref'[x] \in Nat
        BY <1>3 DEF IInv, TypeOK
      <4>1. x \in GroupIds
        BY <1>1 DEF GroupIds
      <4>2. grp_ref'[x] = Cardinality({j \in Members(x) : ~Complete(j)'})
        BY <1>4, <4>1 DEF GroupCounters
      <4>3. {j \in Members(x) : ~Complete(j)'} \in SUBSET Entries
        BY DEF Members
      <4>4. QED
        BY <4>2, <4>3, SubsetsAreFinite
    <3>2. QED
      BY <1>3, <3>1
  <2>2. status' \in [Ids -> {"disable", "waiting", "running", "done"}]
    BY <1>3 DEF DoneStatus, IInv, TypeOK
  <2>3. begin' \in 1 .. End
    BY <1>3, AdvanceIsFirst, TableFacts DEF IInv, TypeOK
  <2>4. child_count' \in [Threads -> Nat]
    BY <1>3, NewlyReadyAreCounted DEF IInv, TypeOK
  <2>5. QED
    BY <1>3, <2>1, <2>2, <2>3, <2>4 DEF IInv, TypeOK, Places
<1>6. MutexOwner' /\ TaskHolder'
  BY <1>3, ThreadsAssumption DEF IInv, TypeOK, MutexOwner, TaskHolder
<1>7. OneThreadPerTask'
  <2>1. \A u \in Threads : cur'[u] = IF u = t THEN NoTask ELSE cur[u]
    BY <1>3 DEF IInv, TypeOK
  <2>2. \A u \in Threads : u # t => cur[u] # i
    BY <1>1, TableFacts DEF IInv, OneThreadPerTask
  <2>3. \A u, v \in Threads : cur'[u] = cur'[v] /\ cur'[u] # NoTask => u = v
    BY <2>1 DEF IInv, OneThreadPerTask
  <2>4. ASSUME NEW j \in Entries
        PROVE  status'[Id(j)] = "running" <=> \E u \in Threads : cur'[u] = j
    <3>1. CASE j = i
      BY <1>1, <2>1, <2>2, <3>1, TableFacts
    <3>2. CASE j # i
      <4>1. \A u \in Threads : cur'[u] = j <=> cur[u] = j
        BY <2>1, <3>2, TableFacts
      <4>2. QED
        BY <1>1, <3>2, <4>1 DEF IInv, OneThreadPerTask
    <3>3. QED BY <3>1, <3>2
  <2>5. QED
    BY <2>3, <2>4 DEF OneThreadPerTask
<1>8. IdKinds'
  <2>1. status'[none_id] = "done" /\ status'[grp_none_id] = "done"
    BY <1>1, TableAssumption DEF IInv, IdKinds
  <2>2. \A j \in Entries : status'[Id(j)] # "disable"
    BY <1>1 DEF IInv, IdKinds
  <2>3. \A x \in Ids \ (TaskIds \cup GroupIds \cup {none_id, grp_none_id}) :
          status'[x] = "disable"
    BY <1>1, TableFacts DEF IInv, IdKinds
  <2>4. QED
    BY <2>1, <2>2, <2>3 DEF IdKinds
<1>9. BeginSkipsOnlyDone'
  <2>1. CASE i # begin
    <3>1. begin' = begin
      BY <1>3, <2>1
    <3>2. QED
      BY <1>1, <2>1, <3>1, TableFacts DEF IInv, BeginSkipsOnlyDone, Complete
  <2>2. CASE i = begin
    <3>1. /\ begin \in Nat /\ begin' \in begin .. End
          /\ \A j \in Nat : begin <= j /\ j < begin' => status'[Id(j)] = "done"
          /\ begin' = End \/ status'[Id(begin')] # "done"
      BY <1>3, <2>2, AdvanceIsFirst, TableFacts DEF IInv, TypeOK
    <3>2. ASSUME NEW j \in Entries, j < begin' PROVE Complete(j)'
      <4>1. CASE j < begin
        BY <1>1, <4>1 DEF IInv, BeginSkipsOnlyDone
      <4>2. CASE ~(j < begin)
        <5>1. j \in Nat /\ begin <= j
          BY <3>1, <4>2, TableFacts
        <5>2. QED
          BY <3>1, <3>2, <5>1 DEF Complete
      <4>3. QED BY <4>1, <4>2
    <3>3. \A j \in Entries : j < begin' => status'[Id(j)] = "done"
      BY <3>2 DEF Complete
    <3>4. QED
      BY <3>1, <3>3 DEF BeginSkipsOnlyDone, Complete
  <2>3. QED
    BY <2>1, <2>2
<1>10. NoTaskBeforeItsParents'
  <2> SUFFICES ASSUME NEW j \in Entries, status'[Id(j)] \in {"running", "done"},
                      NEW d \in Deps(j)
               PROVE  Complete(d)'
    BY DEF NoTaskBeforeItsParents
  <2>1. status[Id(j)] \in {"running", "done"}
    BY <1>1
  <2>2. Complete(d)
    BY <2>1 DEF IInv, NoTaskBeforeItsParents
  <2>3. QED
    BY <1>1, <2>2 DEF Complete
<1>11. LeavesNothingWaiting' /\ JoinedAll'
  <2>1. \A j \in Entries : Waiting(j)' => Waiting(j)
    BY <1>1 DEF Waiting
  <2>2. \A u \in Threads : Leaves(u)' => Leaves(u)
    BY <1>3 DEF IInv, TypeOK, Leaves
  <2>3. QED
    BY <1>3, <2>1, <2>2 DEF IInv, TypeOK, LeavesNothingWaiting, JoinedAll
<1>12. EnoughComing'
  <2>1. Sleepers' = Sleepers /\ Coming' = Coming
    BY <1>1, <1>3, TableFacts DEF IInv, TypeOK, Sleepers, Coming
  <2>2. Owed = 0
    BY <1>3 DEF Owed
  <2>3. child_count'[t] \in Nat /\ mtx' \in Threads
    BY <1>3, NewlyReadyAreCounted
  <2>4. Owed' \in Nat /\ Owed' >= child_count'[t]
    BY <1>3, <2>3, ThreadsAssumption DEF IInv, TypeOK, Owed
  <2>5. Cardinality(ReadyTasks') \in Nat
    BY SubsetsAreFinite DEF ReadyTasks
  <2>6. QED
    BY <2>1, <2>2, <2>3, <2>4, <2>5, SetSizes, NewlyReadyAreCounted
       DEF IInv, EnoughComing
<1>13. QED
  BY <1>4, <1>5, <1>6, <1>7, <1>8, <1>9, <1>10, <1>11, <1>12 DEF IInv
----------------------------------------------------------------------------
(* The theorems *)

\* IInv is preserved by every step of the program.
LEMMA NextIInv == IInv /\ [Next]_vars => IInv'
<1> SUFFICES ASSUME IInv, [Next]_vars PROVE IInv'
  OBVIOUS
<1>1. ASSUME NEW t \in Threads, PeekStep(t) PROVE IInv'
  <2>1. CASE PeekEnter(t)
    BY <2>1, PeekEnterEmptyStep, PeekEnterDoneStep
  <2>2. CASE PickTask(t)
    BY <2>2, PickTaskStep
  <2>3. CASE WaitForTask(t)
    BY <2>3, WaitForTaskStep
  <2>4. CASE NoMoreTasks(t)
    BY <2>4, NoMoreTasksStep
  <2>5. CASE PeekReturn(t)
    BY <2>5, PeekReturnStep
  <2>6. CASE Reacquire(t)
    BY <2>6, ReacquireStep
  <2>7. QED
    BY <1>1, <2>1, <2>2, <2>3, <2>4, <2>5, <2>6 DEF PeekStep
<1>2. ASSUME NEW t \in Threads, Spawn(t) PROVE IInv'
  BY <1>2, SpawnStep
<1>3. ASSUME NEW t \in Threads, RunTask(t) PROVE IInv'
  BY <1>3, RunTaskStep
<1>4. ASSUME NEW t \in Threads, SpuriousWakeup(t) PROVE IInv'
  BY <1>4, SpuriousWakeupStep
<1>5. CASE JoinAll
  BY <1>5, JoinAllStep
<1>6. CASE UNCHANGED vars
  BY <1>6, TaskDataUnchanged
     DEF vars, TaskData, IInv, TypeOK, MutexOwner, TaskHolder,
         LeavesNothingWaiting, Leaves, JoinedAll, EnoughComing, Sleepers,
         Coming, Owed
<1>7. QED
  BY <1>1, <1>2, <1>3, <1>4, <1>5, <1>6 DEF Next, Terminated

\* Every reachable state satisfies the inductive invariant.
THEOREM Invariance == Spec => []IInv
BY InitIInv, NextIInv, PTL DEF Spec

\* The variables keep their types; in particular the group counters, which
\* are unsigned in the code, never go below zero.
THEOREM TypeCorrect == Spec => []TypeOK
<1>1. IInv => TypeOK
  BY DEF IInv
<1>2. QED BY <1>1, Invariance, PTL

\* No task starts before its parents and all members of its parent groups
\* are complete, for every table and every interleaving of the threads.
THEOREM ParentsComeFirst == Spec => []NoTaskBeforeItsParents
<1>1. IInv => NoTaskBeforeItsParents
  BY DEF IInv
<1>2. QED BY <1>1, Invariance, PTL

\* No two threads execute the same task, and every running task has one.
THEOREM TasksAreExclusive == Spec => []OneThreadPerTask
<1>1. IInv => OneThreadPerTask
  BY DEF IInv
<1>2. QED BY <1>1, Invariance, PTL

\* The reference counter of a group counts its members that are not done.
THEOREM GroupsAreCounted == Spec => []GroupCounters
<1>1. IInv => GroupCounters
  BY DEF IInv
<1>2. QED BY <1>1, Invariance, PTL

\* The pointer begin skips complete entries only.
THEOREM BeginIsSound == Spec => []BeginSkipsOnlyDone
<1>1. IInv => BeginSkipsOnlyDone
  BY DEF IInv
<1>2. QED BY <1>1, Invariance, PTL

\* When all threads have left, nothing is waiting (the last to leave saw
\* that) and nothing is running (a running task has a thread).
LEMMA AllLeftAllComplete ==
  ASSUME IInv, \A t \in Threads : pc[t] = "exit"
  PROVE  \A i \in Entries : Complete(i)
<1> SUFFICES ASSUME NEW i \in Entries PROVE status[Id(i)] = "done"
  BY DEF Complete
<1>1. status[Id(i)] # "waiting"
  BY ThreadsAssumption DEF IInv, LeavesNothingWaiting, Leaves, Waiting
<1>2. status[Id(i)] # "running"
  BY TableFacts DEF IInv, OneThreadPerTask, TaskHolder
<1>3. status[Id(i)] # "disable"
  BY DEF IInv, IdKinds
<1>4. QED
  BY <1>1, <1>2, <1>3, TableFacts DEF IInv, TypeOK

\* start() does not return before the last task is complete.
THEOREM StartWaitsForAll == Spec => []ReturnsAfterLastTask
<1>1. IInv => ReturnsAfterLastTask
  BY AllLeftAllComplete DEF IInv, JoinedAll, ReturnsAfterLastTask
<1>2. QED BY <1>1, Invariance, PTL

\* The wake-ups that peekTask derives from child_count are enough: whenever
\* the mutex is free and a thread sleeps, a thread is coming for every
\* task that is ready, for every table and any number of threads.
THEOREM WakeupsSuffice == Spec => []NoLostWakeup
<1>1. IInv => NoLostWakeup
  BY SetSizes DEF IInv, EnoughComing, Owed, NoLostWakeup
<1>2. QED BY <1>1, Invariance, PTL

\* A parent id whose tasks are all complete is marked done.
LEMMA CompleteParentIsDone ==
  ASSUME IInv, NEW x \in Ids, \A d \in Expand(x) : Complete(d)
  PROVE  status[x] = "done"
<1>1. CASE x \in {none_id, grp_none_id}
  BY <1>1 DEF IInv, IdKinds
<1>2. CASE x \in GroupIds
  <2>1. {i \in Members(x) : ~Complete(i)} = {}
    BY <1>2, GroupFacts DEF Expand
  <2>2. grp_ref[x] = 0
    BY <1>2, <2>1, FS_EmptySet DEF IInv, GroupCounters
  <2>3. QED
    BY <1>2, <2>2 DEF IInv, GroupCounters
<1>3. CASE x \in TaskIds /\ x \notin GroupIds \cup {none_id, grp_none_id}
  <2>1. PICK i \in Entries : x = Id(i)
    BY <1>3 DEF TaskIds
  <2>2. i \in Expand(x)
    BY <1>3, <2>1 DEF Expand
  <2>3. QED
    BY <2>1, <2>2 DEF Complete
<1>4. CASE x \notin TaskIds \cup GroupIds \cup {none_id, grp_none_id}
  <2>1. NoTask \in Expand(x)
    BY <1>4 DEF Expand
  <2>2. QED
    BY <2>1, TableFacts DEF Complete
<1>5. QED
  BY <1>1, <1>2, <1>3, <1>4

\* In a table without cycles, some waiting entry is ready or waits for a
\* running task.
LEMMA SomethingToDo ==
  ASSUME IInv, Acyclic, NEW w \in Entries, Waiting(w)
  PROVE  \E i \in Entries : Ready(i) \/ status[Id(i)] = "running"
<1> DEFINE W == {i \in Entries : Waiting(i)}
<1>1. PICK i \in W : Deps(i) \subseteq Entries \ W
  BY DEF Acyclic
<1>2. \A d \in Deps(i) : d \in Entries /\ ~Waiting(d)
  BY <1>1
<1>3. CASE \A d \in Deps(i) : Complete(d)
  <2>1. /\ Parent(i) \in Ids /\ Parent2(i) \in Ids
        /\ Expand(Parent(i)) \subseteq Deps(i)
        /\ Expand(Parent2(i)) \subseteq Deps(i)
    BY TableFacts DEF Deps
  <2>2. Ready(i)
    BY <1>3, <2>1, CompleteParentIsDone DEF Ready
  <2>3. QED BY <2>2
<1>4. CASE \E d \in Deps(i) : ~Complete(d)
  <2>1. PICK d \in Deps(i) : ~Complete(d)
    BY <1>4
  <2>2. /\ d \in Entries /\ status[Id(d)] # "waiting"
        /\ status[Id(d)] # "done" /\ status[Id(d)] # "disable"
    BY <1>2, <2>1 DEF Complete, Waiting, IInv, IdKinds
  <2>3. status[Id(d)] = "running"
    BY <2>2, TableFacts DEF IInv, TypeOK
  <2>4. QED BY <2>2, <2>3
<1>5. QED BY <1>3, <1>4

\* Two more facts, about the end of the run: the thread that finds nothing
\* left wakes everybody, and the last thread to fall asleep left a waiting
\* task behind.
LastWakesAll ==
  \A t \in Threads :
    pc[t] = "return" /\ cur[t] = NoTask => child_count[t] = 3

AsleepMeansWaiting ==
  (\A t \in Threads : pc[t] \in {"waiting", "exit"}) /\ Sleepers # {} =>
    \E i \in Entries : Waiting(i)

EndInv == LastWakesAll /\ AsleepMeansWaiting

LEMMA InitEndInv == Init => EndInv
BY DEF Init, EndInv, LastWakesAll, AsleepMeansWaiting, Sleepers

\* A step that leaves its thread awake keeps EndInv.
LEMMA AwakeStep ==
  ASSUME IInv, EndInv, NEW t \in Threads,
         pc'[t] \notin {"waiting", "exit"},
         \A u \in Threads : pc'[u] = "return" /\ cur'[u] = NoTask =>
           child_count'[u] = 3
  PROVE  EndInv'
BY DEF EndInv, LastWakesAll, AsleepMeansWaiting

LEMMA NextEndInv == IInv /\ EndInv /\ [Next]_vars => EndInv'
<1> SUFFICES ASSUME IInv, EndInv, [Next]_vars PROVE EndInv'
  OBVIOUS
<1> USE DEF LastWakesAll
<1>1. ASSUME NEW t \in Threads, Spawn(t) PROVE EndInv'
  BY <1>1, AwakeStep DEF Spawn, IInv, TypeOK, EndInv
<1>2. ASSUME NEW t \in Threads, PeekEnter(t) PROVE EndInv'
  <2>1. /\ pc' = [pc EXCEPT ![t] = "scan"]
        /\ cur' = [cur EXCEPT ![t] = NoTask]
        /\ \A u \in Threads : u # t => child_count'[u] = child_count[u]
    BY <1>2 DEF PeekEnter, IInv, TypeOK
  <2>2. QED
    BY <2>1, AwakeStep DEF IInv, TypeOK, EndInv
<1>3. ASSUME NEW t \in Threads, PickTask(t) PROVE EndInv'
  <2>1. PICK i \in Entries : cur' = [cur EXCEPT ![t] = i]
    BY <1>3 DEF PickTask, Looked
  <2>2. i # NoTask
    BY TableFacts
  <2>3. QED
    BY <1>3, <2>1, <2>2, AwakeStep DEF PickTask, IInv, TypeOK, EndInv
<1>4. ASSUME NEW t \in Threads, WaitForTask(t) PROVE EndInv'
  <2>1. \E i \in Entries : Waiting(i)
    BY <1>4 DEF WaitForTask, Looked
  <2>2. \E i \in Entries : Waiting(i)'
    BY <1>4, <2>1 DEF WaitForTask, Waiting
  <2>3. LastWakesAll'
    BY <1>4 DEF WaitForTask, IInv, TypeOK, EndInv
  <2>4. QED
    BY <2>2, <2>3 DEF EndInv, AsleepMeansWaiting
<1>5. ASSUME NEW t \in Threads, NoMoreTasks(t) PROVE EndInv'
  BY <1>5, AwakeStep DEF NoMoreTasks, IInv, TypeOK, EndInv
<1>6. ASSUME NEW t \in Threads, PeekReturn(t) PROVE EndInv'
  <2>1. PICK up \in Notified(child_count[t]) :
          pc' = [u \in Threads |->
                   IF u = t THEN IF cur[t] = NoTask THEN "exit" ELSE "run"
                   ELSE IF u \in up THEN "woken" ELSE pc[u]]
    BY <1>6 DEF PeekReturn
  <2>2. LastWakesAll'
    BY <1>6, <2>1 DEF PeekReturn, EndInv
  <2>3. CASE cur[t] = NoTask
    <3>1. up = Sleepers
      BY <1>6, <2>1, <2>3 DEF PeekReturn, EndInv, Notified
    <3>2. Sleepers' = {}
      BY <2>1, <2>3, <3>1 DEF Sleepers
    <3>3. QED
      BY <2>2, <3>2 DEF EndInv, AsleepMeansWaiting
  <2>4. CASE cur[t] # NoTask
    BY <2>1, <2>2, <2>4, AwakeStep
  <2>5. QED
    BY <2>3, <2>4
<1>7. ASSUME NEW t \in Threads, Reacquire(t) PROVE EndInv'
  BY <1>7, AwakeStep DEF Reacquire, IInv, TypeOK, EndInv
<1>8. ASSUME NEW t \in Threads, RunTask(t) PROVE EndInv'
  BY <1>8, AwakeStep DEF RunTask, IInv, TypeOK, EndInv
<1>9. ASSUME NEW t \in Threads, SpuriousWakeup(t) PROVE EndInv'
  BY <1>9, AwakeStep DEF SpuriousWakeup, IInv, TypeOK, EndInv
<1>10. ASSUME UNCHANGED <<pc, cur, child_count, status>> PROVE EndInv'
  BY <1>10 DEF EndInv, AsleepMeansWaiting, Sleepers, Waiting
<1>11. QED
  BY <1>1, <1>2, <1>3, <1>4, <1>5, <1>6, <1>7, <1>8, <1>9, <1>10
     DEF Next, PeekStep, JoinAll, Terminated, vars

LEMMA EndInvariance == Spec => []EndInv
BY InitEndInv, NextEndInv, Invariance, PTL DEF Spec

\* The threads never all sleep, in any table without cycles: no
\* combination of groups, second parents and finishing orders deadlocks.
THEOREM NoDeadlock ==
  ASSUME Acyclic
  PROVE  Spec => []NeverAllAsleep
<1>1. IInv /\ AsleepMeansWaiting => NeverAllAsleep
  <2> SUFFICES ASSUME IInv, AsleepMeansWaiting,
                      \A t \in Threads : pc[t] \in {"waiting", "exit"},
                      Sleepers # {}
               PROVE  FALSE
    BY DEF NeverAllAsleep
  <2>1. mtx = NoThread /\ Coming = {}
    BY DEF IInv, TypeOK, MutexOwner, Coming
  <2>2. ReadyTasks = {}
    <3>1. Cardinality(ReadyTasks) = 0
      BY <2>1, SetSizes, FS_EmptySet DEF IInv, EnoughComing, Owed
    <3>2. ReadyTasks \in SUBSET Entries
      BY DEF ReadyTasks
    <3>3. QED BY <3>1, <3>2, SubsetsAreFinite, FS_EmptySet
  <2>3. \A i \in Entries : status[Id(i)] # "running"
    BY TableFacts DEF IInv, OneThreadPerTask, TaskHolder
  <2>4. PICK w \in Entries : Waiting(w)
    BY DEF AsleepMeansWaiting
  <2>5. QED
    BY <2>2, <2>3, <2>4, SomethingToDo DEF ReadyTasks
<1>2. EndInv => AsleepMeansWaiting
  BY DEF EndInv
<1>3. QED BY <1>1, <1>2, Invariance, EndInvariance, PTL
============================================================================
