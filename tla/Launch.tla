------------------------------- MODULE Launch -------------------------------
(***************************************************************************)
(* Starting programs: SysLinux::launch of root/sys_linux.h, called by the  *)
(* threads of the boot program through execute and execute_arg.            *)
(*                                                                         *)
(* The program is process 1: besides the children of its own threads it    *)
(* becomes the parent of what daemons leave behind.  It never collects     *)
(* anything but the child a thread waits for; the rest stays in the        *)
(* process table until the program has become /sbin/init, which collects   *)
(* every child.  The process table, the programs and init are outside of   *)
(* the repository.                                                         *)
(***************************************************************************)
EXTENDS Integers, FiniteSets

CONSTANTS
  Threads,      \* the threads that call launch
  Pids,         \* the process ids that the kernel gives and gives again
  Init1,        \* the process id of the boot program, 1
  MaxCalls      \* bound on the calls of launch per thread

ASSUME LaunchAssumption == Init1 \notin Pids /\ MaxCalls \in Nat

EXIT_FAILURE == 1
Codes == {0, EXIT_FAILURE}          \* what a program may exit with
NoFork == -1                        \* launch's status if there is no child
Results == Codes \cup {NoFork}

VARIABLES
  main,         \* "tasks", then "init"
  pc,           \* per thread: "idle", or "wait": in waitpid
  pid,          \* per thread: the local variable pid
  status,       \* per thread: what launch has returned last
  calls,        \* per thread: how often it has called launch
  proc          \* the process table

vars == <<main, pc, pid, status, calls, proc>>

\* call is <<t, n>> in the child of thread t's n-th call and the programs it
\* executes, and <<>> in a process that such a program has left behind.
\* waited says that the call waits.
Free == [state |-> "free", parent |-> Init1, call |-> <<>>,
         waited |-> FALSE, code |-> 0]

Child(t, wait) == [state |-> "child", parent |-> Init1,
                   call |-> <<t, calls[t] + 1>>, waited |-> wait, code |-> 0]
Daemon(p) == [Free EXCEPT !.state = "running", !.parent = p]

Init ==
  /\ main = "tasks"
  /\ pc = [t \in Threads |-> "idle"]
  /\ pid = [t \in Threads |-> Init1]
  /\ status = [t \in Threads |-> 0]
  /\ calls = [t \in Threads |-> 0]
  /\ proc = [p \in Pids |-> Free]

----------------------------------------------------------------------------
(* launch(wait, argv) *)

Called(t) ==
  /\ main = "tasks" /\ pc[t] = "idle" /\ calls[t] < MaxCalls
  /\ calls' = [calls EXCEPT ![t] = @ + 1]
  /\ UNCHANGED main

\* What the parent does after fork.
MutAfterFork(wait) == "idle"
AfterFork(wait) == IF wait THEN "wait" ELSE "idle"

Fork(t, wait) ==
  /\ Called(t)
  /\ \E p \in Pids :
       /\ proc[p].state = "free"
       /\ proc' = [proc EXCEPT ![p] = Child(t, wait)]
       /\ pid' = [pid EXCEPT ![t] = p]
  /\ pc' = [pc EXCEPT ![t] = AfterFork(wait)]
  /\ status' = [status EXCEPT ![t] = 0]

\* No process id or no memory is left: the caller is told, and goes on.
ForkFails(t) ==
  /\ Called(t)
  /\ status' = [status EXCEPT ![t] = NoFork]
  /\ UNCHANGED <<pc, pid, proc>>

Ended(p) == proc[p].state = "zombie" /\ proc[p].parent = Init1

\* The processes that waitpid may return: -1 in place of pid means any.
MutAwaited(t) == {p \in Pids : Ended(p)}
Awaited(t) == {p \in {pid[t]} : Ended(p)}

Wait(t) ==
  /\ pc[t] = "wait"
  /\ \E p \in Awaited(t) :
       /\ status' = [status EXCEPT ![t] = proc[p].code]
       /\ proc' = [proc EXCEPT ![p] = Free]
  /\ pc' = [pc EXCEPT ![t] = "idle"]
  /\ UNCHANGED <<main, pid, calls>>

----------------------------------------------------------------------------
(* The child, and the program it executes *)

Exit(p, code) ==
  proc' = [q \in Pids |->
             IF q = p THEN [proc[p] EXCEPT !.state = "zombie", !.code = code]
             ELSE IF proc[q].parent = p THEN [proc[q] EXCEPT !.parent = Init1]
             ELSE proc[q]]

\* Without _exit the child would be a second copy of the boot program.
MutExecFails(p) == proc' = [proc EXCEPT ![p].state = "copy"]
ExecFails(p) == Exit(p, EXIT_FAILURE)

Exec(p) ==
  /\ proc[p].state = "child"
  /\ proc' = [proc EXCEPT ![p].state = "running"] \/ ExecFails(p)
  /\ UNCHANGED <<main, pc, pid, status, calls>>

Daemonise(p) ==
  /\ proc[p].state = "running"
  /\ \E q \in Pids : /\ proc[q].state = "free"
                     /\ proc' = [proc EXCEPT ![q] = Daemon(p)]
  /\ UNCHANGED <<main, pc, pid, status, calls>>

Ends(p) ==
  /\ proc[p].state = "running"
  /\ \E code \in Codes : Exit(p, code)
  /\ UNCHANGED <<main, pc, pid, status, calls>>

----------------------------------------------------------------------------
(* /sbin/init *)

\* The threads have found no more tasks and the program executes init.
BecomeInit ==
  /\ main = "tasks" /\ \A t \in Threads : pc[t] = "idle"
  /\ main' = "init"
  /\ UNCHANGED <<pc, pid, status, calls, proc>>

InitCollects(p) ==
  /\ main = "init" /\ Ended(p)
  /\ proc' = [proc EXCEPT ![p] = Free]
  /\ UNCHANGED <<main, pc, pid, status, calls>>

Idle == main = "init" /\ UNCHANGED vars

ProgramStep(p) == Exec(p) \/ Daemonise(p) \/ Ends(p)

Next ==
  \/ \E t \in Threads : \/ \E wait \in BOOLEAN : Fork(t, wait)
                        \/ ForkFails(t) \/ Wait(t)
  \/ \E p \in Pids : ProgramStep(p) \/ InitCollects(p)
  \/ BecomeInit
  \/ Idle

Spec == Init /\ [][Next]_vars

\* A child gets to execute its program, a program that is waited for ends,
\* and a thread that can return from waitpid does.
Fairness ==
  /\ \A t \in Threads : WF_vars(Wait(t))
  /\ \A p \in Pids : WF_vars(Exec(p)) /\ WF_vars(proc[p].waited /\ Ends(p))

FairSpec == Spec /\ Fairness

----------------------------------------------------------------------------
(* Properties *)

\* Threads, their local variables and the process table have their types.
TypeOK ==
  /\ main \in {"tasks", "init"}
  /\ pc \in [Threads -> {"idle", "wait"}]
  /\ pid \in [Threads -> Pids \cup {Init1}]
  /\ status \in [Threads -> Results]
  /\ calls \in [Threads -> Nat]
  /\ proc \in [Pids ->
       [state : {"free", "child", "running", "zombie"},
        parent : Pids \cup {Init1}, call : {<<>>} \cup (Threads \X Nat),
        waited : BOOLEAN, code : Codes]]

\* The process id that a thread waits for stays that of the child it forked:
\* no other thread collects the child, so the id is not given to another
\* process, whatever becomes of the other children of process 1.
WaitsForItsOwn ==
  \A t \in Threads :
    pc[t] = "wait" => /\ pid[t] \in Pids
                      /\ proc[pid[t]].state # "free"
                      /\ proc[pid[t]].parent = Init1
                      /\ proc[pid[t]].call = <<t, calls[t]>>

\* A launch that waits returns when its own program is over, with the exit
\* status of that program; so the next task finds the program's work done.
ReturnsOwnStatus ==
  [][\A t \in Threads :
       pc[t] = "wait" /\ pc'[t] = "idle" =>
         \E p \in Pids : /\ proc[p].state = "zombie"
                         /\ proc[p].call = <<t, calls[t]>>
                         /\ proc[p].code = status'[t]]_vars

\* What is handed to init are daemons and the programs nobody waits for: a
\* program that a task waits for is over before the tasks are, and no process
\* whose program could not be executed goes on as a copy of the boot program,
\* whether it was waited for or not.
OnlyUnwaitedLeft ==
  main = "init" => \A p \in Pids : ~proc[p].waited /\ proc[p].state # "copy"

\* Every launch returns, also if its program cannot be executed.
LaunchesReturn == \A t \in Threads : pc[t] = "wait" ~> pc[t] = "idle"
=============================================================================
