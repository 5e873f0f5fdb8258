------------------------------ MODULE XServer ------------------------------
(***************************************************************************)
(* Starting the X server and the desktop: SysLinux::startXserver and       *)
(* startxfce4 of root/sys_linux.h, executed as tasks by threads of the     *)
(* runner of root/tasks.h.                                                 *)
(*                                                                         *)
(* An X server that was started with SIGUSR1 ignored sends SIGUSR1 to its  *)
(* parent process when it accepts connections.  The runner's constructor   *)
(* blocks the signal in the main thread before there are others, so that   *)
(* they all inherit the mask and the signal stays pending until the thread *)
(* that started the server takes it with sigtimedwait.                     *)
(*                                                                         *)
(* A signal mask is per thread and is inherited by threads, by fork and    *)
(* by exec; how the kernel delivers the signal and what the server does    *)
(* are outside of the repository.                                          *)
(***************************************************************************)
EXTENDS FiniteSets

CONSTANTS
  main,         \* the thread that constructs the runner and calls start()
  starter,      \* the thread of the runner that executes startXserver
  Others        \* the other threads of the runner

Workers == {starter} \cup Others
Threads == {main} \cup Workers

ASSUME ThreadsAssumption ==
  IsFiniteSet(Others) /\ starter \notin Others /\ main \notin Workers

VARIABLES
  is_init,      \* the program is process 1, which no default action kills
  alive,        \* FALSE after the program has been ended or killed
  threads,      \* the threads that exist
  blocked,      \* the threads whose mask blocks SIGUSR1
  main_pc,      \* "ctor", "start", "join" or "init"
  pc,           \* where the starter is in startXserver
  desktop,      \* startxfce4 has launched the desktop
  pending,      \* SIGUSR1 is pending for the process
  x,            \* the server: "none", "forked", "ignoring", "starting",
                \* "ready" or "dead"
  sent          \* the server has sent the signal

runner == <<threads, blocked, main_pc>>
starting == <<pc, desktop>>
server == <<x, sent>>
vars == <<is_init, alive, runner, starting, pending, server>>

Init ==
  /\ is_init \in BOOLEAN
  /\ alive = TRUE
  /\ threads = {main} /\ blocked = {}
  /\ main_pc = "ctor" /\ pc = "auth" /\ desktop = FALSE
  /\ pending = FALSE
  /\ x = "none" /\ sent = FALSE

----------------------------------------------------------------------------
(* The runner: constructor, start(), and what follows it in main() *)

RunnerAt(place) ==
  /\ alive /\ main_pc = place
  /\ UNCHANGED <<is_init, alive, starting, pending, server>>

\* The signal is not blocked before the threads are created.
MutMainMask == {}
MainMask == {main}

BlockInMain ==
  /\ RunnerAt("ctor")
  /\ blocked' = blocked \cup MainMask
  /\ main_pc' = "start"
  /\ UNCHANGED threads

\* A new thread has the mask of the thread that creates it.
Spawn(t) ==
  /\ RunnerAt("start")
  /\ t \in Workers \ threads
  /\ threads' = threads \cup {t}
  /\ blocked' = IF main \in blocked THEN blocked \cup {t} ELSE blocked
  /\ main_pc' = IF Workers \subseteq threads' THEN "join" ELSE "start"

\* A thread of the runner finds no more tasks, the last being the desktop's.
ThreadExits(t) ==
  /\ RunnerAt("join")
  /\ t \in Workers \cap threads /\ desktop
  /\ threads' = threads \ {t}
  /\ UNCHANGED <<blocked, main_pc>>

\* start() returns and the program becomes /sbin/init, with main's mask.
BecomeInit ==
  /\ RunnerAt("join")
  /\ threads = {main}
  /\ main_pc' = "init"
  /\ UNCHANGED <<threads, blocked>>

----------------------------------------------------------------------------
(* startXserver() and startxfce4() *)

StarterAt(place) ==
  /\ alive /\ starter \in threads /\ pc = place
  /\ UNCHANGED <<is_init, threads, main_pc, sent>>

\* mkstemp, mcookie and xauth, whose failures are not looked at; a null FILE
\* pointer from popen is read from, which kills the program.
MakeAuthFiles ==
  /\ StarterAt("auth")
  /\ \/ pc' = "chown" /\ UNCHANGED alive
     \/ alive' = FALSE /\ UNCHANGED pc
  /\ UNCHANGED <<blocked, desktop, pending, x>>

\* The one call whose failure ends the program.
Chown ==
  /\ StarterAt("chown")
  /\ \/ pc' = "block" /\ UNCHANGED alive
     \/ alive' = FALSE /\ UNCHANGED pc
  /\ UNCHANGED <<blocked, desktop, pending, x>>

Block ==
  /\ StarterAt("block")
  /\ blocked' = blocked \cup {starter}
  /\ pc' = "fork"
  /\ UNCHANGED <<alive, desktop, pending, x>>

\* fork may fail, which is not looked at either.
Fork ==
  /\ StarterAt("fork")
  /\ pc' = "wait"
  /\ x' \in {"forked", "dead"}
  /\ UNCHANGED <<alive, blocked, desktop, pending>>

\* sigtimedwait takes the pending signal.
SignalArrives ==
  /\ StarterAt("wait")
  /\ pending
  /\ pending' = FALSE
  /\ pc' = "ready"
  /\ UNCHANGED <<alive, blocked, desktop, x>>

\* The thread gives up only on a server that has died.
MutTimedOut == ~pending /\ x = "dead"
TimedOut == ~pending

\* 15 seconds have passed: a message, and the function returns all the same.
Timeout ==
  /\ StarterAt("wait")
  /\ TimedOut
  /\ pc' = "timeout"
  /\ UNCHANGED <<alive, blocked, desktop, pending, x>>

\* startxfce4, a task of its own that waits for the one of the server; any
\* thread that is left may execute it.
StartDesktop ==
  /\ alive /\ pc \in {"ready", "timeout"} /\ ~desktop
  /\ desktop' = TRUE
  /\ UNCHANGED <<is_init, alive, runner, pc, pending, server>>

----------------------------------------------------------------------------
(* The child process and the kernel *)

Server(state) ==
  /\ x = state
  /\ UNCHANGED <<is_init, alive, runner, starting>>

\* What the server takes as the wish to be told: signal(SIGUSR1, SIG_IGN).
Ignore ==
  /\ Server("forked")
  /\ x' = "ignoring"
  /\ UNCHANGED <<pending, sent>>

\* A server that could not be executed is forgotten.
MutNotExecuted == "none"
NotExecuted == "dead"

ExecServer ==
  /\ Server("ignoring")
  /\ x' \in {"starting", NotExecuted}
  /\ UNCHANGED <<pending, sent>>

ServerDies ==
  /\ Server("starting") \/ Server("ready")
  /\ x' = "dead"
  /\ UNCHANGED <<pending, sent>>

\* The signal becomes pending, except that process 1 discards it if its main
\* thread neither blocks nor handles it.
ServerReady ==
  /\ Server("starting")
  /\ x' = "ready"
  /\ sent' = TRUE
  /\ pending' = (main \in blocked \/ ~is_init)

----------------------------------------------------------------------------
Ended == UNCHANGED vars

StarterStep ==
  \/ MakeAuthFiles \/ Chown \/ Block \/ Fork \/ SignalArrives \/ Timeout
  \/ StartDesktop

RunnerStep ==
  BlockInMain \/ BecomeInit \/ \E t \in Workers : Spawn(t) \/ ThreadExits(t)

ServerStep == Ignore \/ ExecServer \/ ServerDies \/ ServerReady

Next ==
  \/ StarterStep \/ RunnerStep \/ ServerStep
  \/ Ended

Spec == Init /\ [][Next]_vars

\* The threads of the program are scheduled, and time passes.  Nothing is
\* assumed of the server.
FairSpec == Spec /\ WF_vars(StarterStep) /\ WF_vars(RunnerStep)

----------------------------------------------------------------------------
(* Properties *)

\* What the two processes keep has the type that root/preload_main.cpp
\* declares.
TypeOK ==
  /\ is_init \in BOOLEAN /\ alive \in BOOLEAN
  /\ threads \subseteq Threads /\ blocked \subseteq Threads
  /\ main_pc \in {"ctor", "start", "join", "init"}
  /\ pc \in {"auth", "chown", "block", "fork", "wait", "ready", "timeout"}
  /\ x \in {"none", "forked", "ignoring", "starting", "ready", "dead"}
  /\ x = "none" <=> pc \in {"auth", "chown", "block", "fork"}
  /\ desktop \in BOOLEAN /\ pending \in BOOLEAN /\ sent \in BOOLEAN

\* The signal kills the program in no order of events: while it is pending
\* there is no thread that would suffer its default action, also when it
\* comes after the time-out or after the program has become init.
NeverKilledBySignal == pending => threads \subseteq blocked

\* The starter never takes a server for late that has already answered.
AnswerIsSeen == [][pc' = "timeout" /\ pc # "timeout" => ~sent]_vars

\* A server that dies or never answers does not keep the boot from ending, with
\* the desktop launched; what can is a failing popen or chown.
BootGoesOn ==
  <>(\/ main_pc = "init" /\ desktop
     \/ ~alive /\ pc \in {"auth", "chown"})

============================================================================
