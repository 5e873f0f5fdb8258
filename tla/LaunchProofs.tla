---------------------------- MODULE LaunchProofs ----------------------------
(***************************************************************************)
(* Proofs about launch, for any number of threads, calls and process ids:  *)
(* whoever waits, waits for its own child until that child is over.        *)
(***************************************************************************)
EXTENDS Launch, TLAPS

\* Only what a thread waits for is marked as waited for.
WaitedHasWaiter ==
  \A p \in Pids :
    proc[p].waited => \E t \in Threads : pc[t] = "wait" /\ pid[t] = p

\* The program becomes init when all threads have come back from launch.
InitIsAlone == main = "init" => \A t \in Threads : pc[t] = "idle"

LInv == TypeOK /\ WaitsForItsOwn /\ WaitedHasWaiter /\ InitIsAlone

\* What a place of the process table holds.
Process == [state : {"free", "child", "running", "zombie"},
            parent : Pids \cup {Init1}, call : {<<>>} \cup (Threads \X Nat),
            waited : BOOLEAN, code : Codes]

\* The type of the process table, by place.
LEMMA ProcType ==
  ASSUME TypeOK
  PROVE  proc \in [Pids -> Process] /\ \A p \in Pids : proc[p] \in Process
BY DEF TypeOK, Process

\* A place without a process is not waited for.
LEMMA FreeIsNotWaited ==
  ASSUME LInv, NEW p \in Pids, proc[p].state = "free"
  PROVE  ~proc[p].waited
BY DEF LInv, WaitedHasWaiter, WaitsForItsOwn

----------------------------------------------------------------------------
(* The steps of the programs *)

\* Process p belongs to whom it belonged, or to process 1, and is waited for
\* by whom it was; a free place may be filled with what nobody waits for.
KeepsOwner(p) ==
  \/ proc[p].state = "free" /\ ~proc'[p].waited
  \/ /\ proc'[p].state # "free"
     /\ proc'[p].parent \in {proc[p].parent, Init1}
     /\ proc'[p].call = proc[p].call
     /\ proc'[p].waited = proc[p].waited

\* A step that leaves the threads alone and does this to every process
\* preserves the invariant.
LEMMA KeepsOwnersStep ==
  ASSUME LInv, TypeOK', UNCHANGED <<main, pc, pid, calls>>,
         \A p \in Pids : KeepsOwner(p)
  PROVE  LInv'
<1>1. WaitsForItsOwn'
  <2> SUFFICES ASSUME NEW t \in Threads, pc[t] = "wait"
               PROVE  /\ pid[t] \in Pids
                      /\ proc'[pid[t]].state # "free"
                      /\ proc'[pid[t]].parent = Init1
                      /\ proc'[pid[t]].call = <<t, calls[t]>>
    BY DEF WaitsForItsOwn
  <2>1. /\ pid[t] \in Pids
        /\ proc[pid[t]].state # "free"
        /\ proc[pid[t]].parent = Init1
        /\ proc[pid[t]].call = <<t, calls[t]>>
    BY DEF LInv, WaitsForItsOwn
  <2>2. KeepsOwner(pid[t])
    BY <2>1
  <2> QED BY <2>1, <2>2 DEF KeepsOwner
<1>2. WaitedHasWaiter'
  <2> SUFFICES ASSUME NEW p \in Pids, proc'[p].waited
               PROVE  \E t \in Threads : pc[t] = "wait" /\ pid[t] = p
    BY DEF WaitedHasWaiter
  <2>1. proc[p].waited
    BY DEF KeepsOwner
  <2> QED BY <2>1 DEF LInv, WaitedHasWaiter
<1>3. InitIsAlone'
  BY DEF LInv, InitIsAlone
<1> QED BY <1>1, <1>2, <1>3 DEF LInv

\* A process ends and hands its children to process 1.
LEMMA ExitStep ==
  ASSUME LInv, NEW p \in Pids, proc[p].state \in {"child", "running"},
         NEW code \in Codes, Exit(p, code),
         UNCHANGED <<main, pc, pid, status, calls>>
  PROVE  LInv'
<1>1. \A q \in Pids : proc[q] \in Process
  BY ProcType DEF LInv
<1>2. proc' \in [Pids -> Process]
  <2>1. [proc[p] EXCEPT !.state = "zombie", !.code = code] \in Process
    BY <1>1 DEF Process
  <2>2. \A q \in Pids : [proc[q] EXCEPT !.parent = Init1] \in Process
    BY <1>1 DEF Process
  <2> QED BY <1>1, <2>1, <2>2 DEF Exit
<1>3. TypeOK'
  BY <1>2 DEF LInv, TypeOK, Process
<1>4. ASSUME NEW q \in Pids PROVE KeepsOwner(q)
  <2>1. proc[q] \in Process /\ (proc[q].state = "free" => ~proc[q].waited)
    BY <1>1, FreeIsNotWaited
  <2>2. CASE q = p
    BY <2>1, <2>2 DEF Exit, Process, KeepsOwner
  <2>3. CASE q # p /\ proc[q].parent = p
    BY <2>1, <2>3 DEF Exit, Process, KeepsOwner
  <2>4. CASE q # p /\ proc[q].parent # p
    BY <2>1, <2>4 DEF Exit, KeepsOwner
  <2> QED BY <2>2, <2>3, <2>4
<1> QED BY <1>3, <1>4, KeepsOwnersStep

\* The child becomes its program, or ends.
LEMMA ExecStep ==
  ASSUME LInv, NEW p \in Pids, Exec(p)
  PROVE  LInv'
<1>1. \A q \in Pids : proc[q] \in Process
  BY ProcType DEF LInv
<1>2. CASE ExecFails(p)
  BY <1>2, ExitStep DEF Exec, ExecFails, Codes, EXIT_FAILURE
<1>3. CASE proc' = [proc EXCEPT ![p].state = "running"]
  <2>1. TypeOK'
    <3>1. proc \in [Pids -> Process]
      BY ProcType DEF LInv
    <3>2. [proc[p] EXCEPT !.state = "running"] \in Process
      BY <1>1 DEF Process
    <3>3. proc' \in [Pids -> Process]
      BY <1>3, <3>1, <3>2
    <3> QED BY <3>3 DEF LInv, TypeOK, Process, Exec
  <2>2. ASSUME NEW q \in Pids PROVE KeepsOwner(q)
    BY <1>1, <1>3, FreeIsNotWaited DEF LInv, TypeOK, Process, KeepsOwner, Exec
  <2> QED BY <2>1, <2>2, KeepsOwnersStep DEF Exec
<1> QED BY <1>2, <1>3 DEF Exec

\* A daemon fills a free place.
LEMMA DaemoniseStep ==
  ASSUME LInv, NEW p \in Pids, Daemonise(p)
  PROVE  LInv'
<1>1. PICK d \in Pids : /\ proc[d].state = "free"
                        /\ proc' = [proc EXCEPT ![d] = Daemon(p)]
  BY DEF Daemonise
<1>2. Daemon(p) \in Process /\ ~Daemon(p).waited
  BY DEF Daemon, Free, Process, Codes
<1>3. TypeOK'
  BY <1>1, <1>2 DEF LInv, TypeOK, Process, Daemonise
<1>4. ASSUME NEW q \in Pids PROVE KeepsOwner(q)
  BY <1>1, <1>2, FreeIsNotWaited DEF LInv, TypeOK, KeepsOwner
<1> QED BY <1>3, <1>4, KeepsOwnersStep DEF Daemonise

\* A program ends.
LEMMA EndsStep ==
  ASSUME LInv, NEW p \in Pids, Ends(p)
  PROVE  LInv'
<1>1. PICK code \in Codes : Exit(p, code)
  BY DEF Ends
<1> QED BY <1>1, ExitStep DEF Ends

\* init collects what is nobody's: all threads are back.
LEMMA InitCollectsStep ==
  ASSUME LInv, NEW p \in Pids, InitCollects(p)
  PROVE  LInv'
<1>1. \A t \in Threads : pc[t] = "idle"
  BY DEF LInv, InitIsAlone, InitCollects
<1>2. Free \in Process /\ ~Free.waited
  BY DEF Free, Process, Codes
<1>3. TypeOK'
  BY <1>2 DEF LInv, TypeOK, Process, InitCollects
<1>4. WaitedHasWaiter'
  BY <1>1, <1>2 DEF LInv, TypeOK, WaitedHasWaiter, InitCollects
<1> QED BY <1>1, <1>3, <1>4 DEF LInv, WaitsForItsOwn, InitIsAlone, InitCollects

----------------------------------------------------------------------------
(* The steps of the threads *)

\* The child gets a free process id, which nobody waits for.
LEMMA ForkStep ==
  ASSUME LInv, NEW t \in Threads, NEW wait \in BOOLEAN, Fork(t, wait)
  PROVE  LInv'
<1>1. PICK p \in Pids : /\ proc[p].state = "free"
                        /\ proc' = [proc EXCEPT ![p] = Child(t, wait)]
                        /\ pid' = [pid EXCEPT ![t] = p]
  BY DEF Fork
<1>2. /\ main = "tasks" /\ main' = main /\ pc[t] = "idle"
      /\ calls' = [calls EXCEPT ![t] = @ + 1]
      /\ pc' = [pc EXCEPT ![t] = AfterFork(wait)]
      /\ status' = [status EXCEPT ![t] = 0]
  BY DEF Fork, Called
<1>3. /\ Child(t, wait) \in Process
      /\ Child(t, wait).state = "child" /\ Child(t, wait).parent = Init1
      /\ Child(t, wait).call = <<t, calls[t] + 1>>
      /\ Child(t, wait).waited = wait
  <2>1. calls[t] + 1 \in Nat
    BY DEF LInv, TypeOK
  <2>2. <<t, calls[t] + 1>> \in {<<>>} \cup (Threads \X Nat)
    BY <2>1
  <2> QED BY <2>2 DEF Child, Process, Codes
<1>4. TypeOK'
  BY <1>1, <1>2, <1>3 DEF LInv, TypeOK, Process, AfterFork, Results, Codes
<1>5. WaitsForItsOwn'
  <2> SUFFICES ASSUME NEW u \in Threads, pc'[u] = "wait"
               PROVE  /\ pid'[u] \in Pids
                      /\ proc'[pid'[u]].state # "free"
                      /\ proc'[pid'[u]].parent = Init1
                      /\ proc'[pid'[u]].call = <<u, calls'[u]>>
    BY DEF WaitsForItsOwn
  <2>1. CASE u = t
    BY <1>1, <1>2, <1>3, <2>1 DEF LInv, TypeOK
  <2>2. CASE u # t
    <3>1. pc[u] = "wait" /\ pid'[u] = pid[u] /\ calls'[u] = calls[u]
      BY <1>1, <1>2, <2>2 DEF LInv, TypeOK
    <3>2. pid[u] \in Pids /\ pid[u] # p
      BY <1>1, <3>1 DEF LInv, WaitsForItsOwn
    <3> QED BY <1>1, <3>1, <3>2 DEF LInv, TypeOK, WaitsForItsOwn
  <2> QED BY <2>1, <2>2
<1>6. WaitedHasWaiter'
  <2> SUFFICES ASSUME NEW q \in Pids, proc'[q].waited
               PROVE  \E u \in Threads : pc'[u] = "wait" /\ pid'[u] = q
    BY DEF WaitedHasWaiter
  <2>1. CASE q = p
    <3>1. wait
      BY <1>1, <1>3, <2>1 DEF LInv, TypeOK
    <3> QED BY <1>1, <1>2, <2>1, <3>1 DEF LInv, TypeOK, AfterFork
  <2>2. CASE q # p
    <3>1. PICK u \in Threads : pc[u] = "wait" /\ pid[u] = q
      BY <1>1, <2>2 DEF LInv, TypeOK, WaitedHasWaiter
    <3> QED BY <1>1, <1>2, <3>1 DEF LInv, TypeOK
  <2> QED BY <2>1, <2>2
<1>7. InitIsAlone'
  BY <1>2 DEF InitIsAlone
<1> QED BY <1>4, <1>5, <1>6, <1>7 DEF LInv

\* Without a child the thread does not wait.
LEMMA ForkFailsStep ==
  ASSUME LInv, NEW t \in Threads, ForkFails(t)
  PROVE  LInv'
<1>1. TypeOK'
  BY DEF LInv, TypeOK, ForkFails, Called, Results
<1>2. WaitsForItsOwn'
  BY DEF LInv, TypeOK, WaitsForItsOwn, ForkFails, Called
<1> QED
  BY <1>1, <1>2 DEF LInv, WaitedHasWaiter, InitIsAlone, ForkFails, Called

\* The process that waitpid collects is the child the thread has forked.
LEMMA AwaitedIsOwn ==
  ASSUME LInv, NEW t \in Threads, Wait(t)
  PROVE  LET p == pid[t] IN
         /\ p \in Pids
         /\ proc[p].state = "zombie" /\ proc[p].call = <<t, calls[t]>>
         /\ pc[t] = "wait" /\ pc' = [pc EXCEPT ![t] = "idle"]
         /\ status' = [status EXCEPT ![t] = proc[p].code]
         /\ proc' = [proc EXCEPT ![p] = Free]
         /\ UNCHANGED <<main, pid, calls>>
BY DEF LInv, WaitsForItsOwn, Wait, Awaited, Ended

\* The thread that returns frees the place of its own child only.
LEMMA WaitStep ==
  ASSUME LInv, NEW t \in Threads, Wait(t)
  PROVE  LInv'
<1> DEFINE p == pid[t]
<1>1. /\ p \in Pids
      /\ proc[p].state = "zombie" /\ proc[p].call = <<t, calls[t]>>
      /\ pc[t] = "wait" /\ pc' = [pc EXCEPT ![t] = "idle"]
      /\ status' = [status EXCEPT ![t] = proc[p].code]
      /\ proc' = [proc EXCEPT ![p] = Free]
      /\ UNCHANGED <<main, pid, calls>>
  BY AwaitedIsOwn
<1>2. Free \in Process /\ ~Free.waited
  BY DEF Free, Process, Codes
<1>3. \A q \in Pids : proc[q] \in Process
  BY ProcType DEF LInv
<1> HIDE DEF p
<1>4. TypeOK'
  BY <1>1, <1>2, <1>3 DEF LInv, TypeOK, Process, Results
<1>5. \A u \in Threads : pc'[u] = "wait" => u # t /\ pc[u] = "wait" /\ pid[u] # p
  BY <1>1 DEF LInv, TypeOK, WaitsForItsOwn
<1>6. WaitsForItsOwn'
  BY <1>1, <1>5 DEF LInv, TypeOK, WaitsForItsOwn
<1>7. WaitedHasWaiter'
  <2> SUFFICES ASSUME NEW q \in Pids, proc'[q].waited
               PROVE  \E u \in Threads : pc'[u] = "wait" /\ pid[u] = q
    BY <1>1 DEF WaitedHasWaiter
  <2>1. q # p /\ proc[q].waited
    BY <1>1, <1>2 DEF LInv, TypeOK
  <2>2. PICK u \in Threads : pc[u] = "wait" /\ pid[u] = q
    BY <2>1 DEF LInv, WaitedHasWaiter
  <2>3. u # t
    BY <2>1, <2>2 DEF p
  <2> QED BY <1>1, <2>2, <2>3 DEF LInv, TypeOK
<1>8. InitIsAlone'
  BY <1>1 DEF LInv, TypeOK, InitIsAlone
<1> QED BY <1>4, <1>6, <1>7, <1>8 DEF LInv

\* The program becomes init.
LEMMA BecomeInitStep ==
  ASSUME LInv, BecomeInit
  PROVE  LInv'
BY DEF LInv, TypeOK, WaitsForItsOwn, WaitedHasWaiter, InitIsAlone, BecomeInit

----------------------------------------------------------------------------
(* The invariant, and what follows from it *)

\* The invariant holds at first.
LEMMA LInvInit ==
  ASSUME Init
  PROVE  LInv
<1>1. Free \in Process /\ ~Free.waited
  BY DEF Free, Process, Codes
<1>2. TypeOK
  BY <1>1 DEF Init, TypeOK, Process, Results, Codes
<1> QED BY <1>1, <1>2 DEF Init, LInv, WaitsForItsOwn, WaitedHasWaiter, InitIsAlone

\* Every step preserves the invariant.
LEMMA LInvNext ==
  ASSUME LInv, [Next]_vars
  PROVE  LInv'
<1>1. ASSUME NEW t \in Threads, NEW wait \in BOOLEAN, Fork(t, wait) PROVE LInv'
  BY <1>1, ForkStep
<1>2. ASSUME NEW t \in Threads, ForkFails(t) PROVE LInv'
  BY <1>2, ForkFailsStep
<1>3. ASSUME NEW t \in Threads, Wait(t) PROVE LInv'
  BY <1>3, WaitStep
<1>4. ASSUME NEW p \in Pids, ProgramStep(p) PROVE LInv'
  BY <1>4, ExecStep, DaemoniseStep, EndsStep DEF ProgramStep
<1>5. ASSUME NEW p \in Pids, InitCollects(p) PROVE LInv'
  BY <1>5, InitCollectsStep
<1>6. CASE BecomeInit
  BY <1>6, BecomeInitStep
<1>7. CASE UNCHANGED vars
  BY <1>7 DEF vars, LInv, TypeOK, WaitsForItsOwn, WaitedHasWaiter, InitIsAlone
<1> QED BY <1>1, <1>2, <1>3, <1>4, <1>5, <1>6, <1>7 DEF Next, Idle

\* The inductive invariant: a thread waits for its own child, which nothing else
\* frees, and nothing else is marked as waited for.
THEOREM LaunchInvariant == Spec => []LInv
<1>1. Init => LInv
  BY LInvInit
<1>2. LInv /\ [Next]_vars => LInv'
  BY LInvNext
<1> QED BY <1>1, <1>2, PTL DEF Spec

\* The variables of launch and the process table keep their types.
THEOREM LaunchTypeCorrect == Spec => []TypeOK
<1>1. LInv => TypeOK
  BY DEF LInv
<1> QED BY <1>1, LaunchInvariant, PTL

\* The id that launch passes to waitpid is that of the child it forked, as
\* long as it waits, whatever the other threads and programs do.
THEOREM LaunchWaitsForItsOwn == Spec => []WaitsForItsOwn
<1>1. LInv => WaitsForItsOwn
  BY DEF LInv
<1> QED BY <1>1, LaunchInvariant, PTL

\* A waiting launch returns the status of its own program, after its end.
THEOREM LaunchReturnsOwnStatus == Spec => ReturnsOwnStatus
<1> DEFINE A == \A t \in Threads :
                  pc[t] = "wait" /\ pc'[t] = "idle" =>
                    \E p \in Pids : /\ proc[p].state = "zombie"
                                    /\ proc[p].call = <<t, calls[t]>>
                                    /\ proc[p].code = status'[t]
<1>1. LInv /\ [Next]_vars => [A]_vars
  <2> SUFFICES ASSUME LInv, Next, NEW t \in Threads,
                      pc[t] = "wait", pc'[t] = "idle"
               PROVE  \E p \in Pids : /\ proc[p].state = "zombie"
                                      /\ proc[p].call = <<t, calls[t]>>
                                      /\ proc[p].code = status'[t]
    OBVIOUS
  <2>1. Wait(t)
    <3>1. ASSUME NEW u \in Threads, NEW wait \in BOOLEAN, Fork(u, wait) PROVE FALSE
      BY <3>1 DEF LInv, TypeOK, Fork, Called
    <3>2. ASSUME NEW u \in Threads, Wait(u), u # t PROVE FALSE
      BY <3>2 DEF LInv, TypeOK, Wait
    <3>3. ASSUME UNCHANGED pc PROVE FALSE
      BY <3>3
    <3> QED BY <3>1, <3>2, <3>3 DEF Next, ProgramStep, ForkFails, Exec,
               Daemonise, Ends, InitCollects, BecomeInit, Idle, vars
  <2> QED BY <2>1, AwaitedIsOwn DEF LInv, TypeOK
<1> QED BY <1>1, LaunchInvariant, PTL DEF Spec, ReturnsOwnStatus

\* Nothing that a task waits for is left to init, and no copy of the boot
\* program, however many executions fail.
THEOREM LaunchLeavesOnlyUnwaited == Spec => []OnlyUnwaitedLeft
<1>1. LInv => OnlyUnwaitedLeft
  BY DEF LInv, TypeOK, InitIsAlone, WaitedHasWaiter, OnlyUnwaitedLeft
<1> QED BY <1>1, LaunchInvariant, PTL
=============================================================================
