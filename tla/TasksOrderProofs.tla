-------------------------- MODULE TasksOrderProofs --------------------------
(***************************************************************************)
(* The threaded task runner implements the order specification: read       *)
(* `status` of the entries as `progress` and the return of start() as      *)
(* `over`, every step of Tasks is a step of TaskOrder or changes nothing.  *)
(***************************************************************************)
EXTENDS TasksProofs

Progress == [i \in Entries |-> status[Id(i)]]

\* PickTask and the return of a task move one entry a step forward; no
\* other step changes the status of any entry.
LEMMA ProgressUnchanged ==
  ASSUME UNCHANGED status
  PROVE  Progress' = Progress
BY DEF Progress

\* The other threads hold the running tasks, so a thread that picks one
\* finds fewer of them than there are threads.
LEMMA AThreadIsFree ==
  ASSUME IInv, NEW t \in Threads, cur[t] = NoTask
  PROVE  Cardinality({j \in Entries : status[Id(j)] = "running"})
           < Cardinality(Threads)
<1> DEFINE R == {j \in Entries : status[Id(j)] = "running"}
           others == Threads \ {t}
           holder == [j \in R |-> CHOOSE u \in Threads : cur[u] = j]
<1>1. \A j \in R : holder[j] \in Threads /\ cur[holder[j]] = j
  BY DEF IInv, OneThreadPerTask
<1>2. \A j \in R : holder[j] # t
  BY <1>1, TableFacts
<1>3. holder \in Injection(R, others)
  <2>1. holder \in [R -> others]
    BY <1>1, <1>2
  <2>2. \A a, b \in R : holder[a] = holder[b] => a = b
    BY <1>1
  <2> HIDE DEF R, others, holder
  <2>3. QED BY <2>1, <2>2 DEF Injection, IsInjective
<1>4. /\ IsFiniteSet(others)
      /\ Cardinality(others) = Cardinality(Threads) - 1
  BY ThreadsAssumption, FS_RemoveElement
<1>5. Cardinality(R) <= Cardinality(others)
  <2> HIDE DEF R, others, holder
  <2>1. QED BY <1>3, <1>4, FS_Injection
<1>6. /\ R \in SUBSET Entries /\ Cardinality(R) \in Nat
      /\ Cardinality(Threads) \in Nat
  BY SubsetsAreFinite
<1>7. QED
  BY <1>4, <1>5, <1>6

\* Picking a task is starting a job that may start.
LEMMA PickTaskStartsJob ==
  ASSUME IInv, IInv', NEW t \in Threads, PickTask(t)
  PROVE  \E j \in Entries : Order!StartJob(j)
<1>1. PICK i \in Looked :
        Ready(i) /\ status' = [status EXCEPT ![Id(i)] = "running"]
  BY DEF PickTask
<1>2. i \in Entries
  BY DEF Looked
<1>3. main' = main /\ main # "returned"
  BY DEF PickTask, IInv, JoinedAll
<1>4. Order!MayStart(i)
  <2>1. status[Id(i)] = "waiting"
    BY <1>1 DEF Ready, Waiting
  <2>2. \A d \in Deps(i) : Complete(d)
    <3>1. /\ Parent(i) \in Ids /\ Parent2(i) \in Ids
          /\ status[Parent(i)] = "done" /\ status[Parent2(i)] = "done"
      BY <1>1, <1>2, TableFacts DEF Ready
    <3>2. QED
      BY <3>1, DoneParentIsComplete DEF Deps
  <2>3. QED
    BY <1>2, <2>1, <2>2 DEF Order!MayStart, Complete
<1>5. Cardinality(Order!Running) < Cardinality(Threads)
  <2>1. Order!Running = {j \in Entries : status[Id(j)] = "running"}
    BY DEF Order!Running
  <2>2. cur[t] = NoTask
    BY DEF PickTask, IInv, TaskHolder
  <2>3. QED
    BY <2>1, <2>2, AThreadIsFree
<1>6. Progress' = [Progress EXCEPT ![i] = "running"]
  <2>1. \A j \in Entries :
          status'[Id(j)] = IF j = i THEN "running" ELSE status[Id(j)]
    BY <1>1, <1>2, TableFacts, TableAssumption DEF IInv, TypeOK
  <2>2. QED
    BY <1>2, <2>1 DEF Progress
<1>7. Order!StartJob(i)
  <2>1. UNCHANGED (main = "returned")
    BY <1>3
  <2>2. Order!Cardinality(Order!Running) = Cardinality(Order!Running)
    BY DEF Order!Cardinality, Cardinality, Order!IsFiniteSet, IsFiniteSet
  <2>3. QED
    BY <1>3, <1>4, <1>5, <1>6, <2>1, <2>2 DEF Order!StartJob, Progress
<1>8. QED
  BY <1>2, <1>7

\* Handing a task back is completing a running job.
LEMMA PeekEnterCompletesJob ==
  ASSUME IInv, NEW t \in Threads, PeekEnter(t), cur[t] # NoTask
  PROVE  \E j \in Entries : Order!CompleteJob(j)
<1> DEFINE i == cur[t]
<1>1. /\ i \in Entries /\ status[Id(i)] = "running"
      /\ \A j \in Entries : j # i => status'[Id(j)] = status[Id(j)]
      /\ status'[Id(i)] = "done"
  BY DoneStatusFacts
<1>2. Progress' = [Progress EXCEPT ![i] = "done"]
  BY <1>1 DEF Progress
<1>3. main' = main /\ main # "returned"
  BY DEF PeekEnter, IInv, JoinedAll
<1>4. QED
  BY <1>1, <1>2, <1>3 DEF Order!CompleteJob, Progress

\* The initial states correspond.
LEMMA OrderInit == Init => Order!Init
<1> SUFFICES ASSUME Init PROVE Order!Init
  OBVIOUS
<1>1. \A i \in Entries : status[Id(i)] = "waiting"
  BY TableFacts, Zenon DEF Init, InitialStatus
<1>2. main # "returned"
  BY DEF Init
<1>3. QED
  BY <1>1, <1>2 DEF Order!Init

LEMMA OrderNext ==
  IInv /\ IInv' /\ [Next]_vars => [Order!Next]_(Order!ordvars)
<1> SUFFICES ASSUME IInv, IInv', [Next]_vars
             PROVE  Order!Next \/ UNCHANGED Order!ordvars
  OBVIOUS
<1>1. ASSUME status' = status, main' = main
      PROVE  UNCHANGED Order!ordvars
  BY <1>1 DEF Order!ordvars
<1>2. ASSUME NEW t \in Threads, PickTask(t)
      PROVE  Order!Next
  BY <1>2, PickTaskStartsJob DEF Order!Next
<1>3. ASSUME NEW t \in Threads, PeekEnter(t)
      PROVE  Order!Next \/ UNCHANGED Order!ordvars
  <2>1. CASE cur[t] = NoTask
    BY <1>1, <1>3, <2>1 DEF PeekEnter
  <2>2. CASE cur[t] # NoTask
    BY <1>3, <2>2, PeekEnterCompletesJob DEF Order!Next
  <2>3. QED BY <2>1, <2>2
<1>4. ASSUME NEW t \in Threads, Spawn(t)
      PROVE  UNCHANGED Order!ordvars
  <2>1. status' = status /\ (main' = "returned") = (main = "returned")
    BY <1>4 DEF Spawn
  <2>2. QED BY <2>1 DEF Order!ordvars
<1>5. CASE JoinAll
  <2>1. \A i \in Entries : Complete(i)
    BY <1>5, AllLeftAllComplete DEF JoinAll
  <2>2. status' = status /\ main' = "returned"
    BY <1>5 DEF JoinAll
  <2>3. Order!Finish
    BY <2>1, <2>2 DEF Order!Finish, Complete
  <2>4. QED BY <2>3 DEF Order!Next
<1>6. ASSUME NEW t \in Threads,
             \/ WaitForTask(t) \/ NoMoreTasks(t) \/ PeekReturn(t)
             \/ Reacquire(t) \/ RunTask(t) \/ SpuriousWakeup(t)
      PROVE  UNCHANGED Order!ordvars
  BY <1>1, <1>6 DEF WaitForTask, NoMoreTasks, PeekReturn, Reacquire, RunTask,
                    SpuriousWakeup
<1>7. CASE UNCHANGED vars
  BY <1>1, <1>7 DEF vars
<1>8. QED
  BY <1>2, <1>3, <1>4, <1>5, <1>6, <1>7 DEF Next, PeekStep, Terminated

\* The runner of root/tasks.h executes the tasks of any table in an order
\* that its caller may rely on, with at most one task per thread at a time.
THEOREM RunnerImplementsOrder == Spec => ImplementsTaskOrder
<1>1. Spec => Order!Spec
  BY OrderInit, OrderNext, Invariance, PTL DEF Spec, Order!Spec
<1>2. QED
  BY <1>1 DEF ImplementsTaskOrder
=============================================================================
