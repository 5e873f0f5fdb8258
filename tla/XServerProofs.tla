---------------------------- MODULE XServerProofs ----------------------------
(***************************************************************************)
(* Proofs about the start of the X server, for any number of threads: the  *)
(* signal neither kills the program nor comes unseen.                      *)
(***************************************************************************)
EXTENDS XServer, TLAPS

\* Before the constructor is over there is only the main thread, and no server.
AloneInCtor ==
  main_pc = "ctor" => threads = {main} /\ pc = "auth" /\ ~pending

\* After it, every thread and every thread to come blocks the signal.
AllBlock == main_pc # "ctor" => threads \cup {main} \subseteq blocked

\* The answer of the server stays pending until it is taken.
AnswerKept == sent /\ pc \notin {"ready", "timeout"} => pending

XInv == TypeOK /\ AloneInCtor /\ AllBlock /\ AnswerKept

USE DEF XInv, AloneInCtor, AllBlock, AnswerKept

\* The steps of startXserver and startxfce4 preserve the invariant.
LEMMA StarterKeeps ==
  ASSUME XInv, StarterStep
  PROVE  XInv'
<1> USE ThreadsAssumption DEF TypeOK, StarterAt, Workers, Threads
<1>1. CASE MakeAuthFiles
  BY <1>1 DEF MakeAuthFiles
<1>2. CASE Chown
  BY <1>2 DEF Chown
<1>3. CASE Block
  BY <1>3 DEF Block
<1>4. CASE Fork
  BY <1>4 DEF Fork
<1>5. CASE SignalArrives
  BY <1>5 DEF SignalArrives
<1>6. CASE Timeout
  BY <1>6 DEF Timeout
<1>7. CASE StartDesktop
  BY <1>7 DEF StartDesktop, runner, server
<1> QED BY <1>1, <1>2, <1>3, <1>4, <1>5, <1>6, <1>7 DEF StarterStep

\* So do those of the runner: a new thread inherits the mask.
LEMMA RunnerKeeps ==
  ASSUME XInv, RunnerStep
  PROVE  XInv'
<1> USE DEF TypeOK, RunnerAt, Workers, Threads, starting, server
<1>1. CASE BlockInMain
  BY <1>1 DEF BlockInMain, MainMask
<1>2. CASE BecomeInit
  BY <1>2 DEF BecomeInit
<1>3. ASSUME NEW t \in Workers, Spawn(t) PROVE XInv'
  BY <1>3 DEF Spawn
<1>4. ASSUME NEW t \in Workers, ThreadExits(t) PROVE XInv'
  BY <1>4 DEF ThreadExits
<1> QED BY <1>1, <1>2, <1>3, <1>4 DEF RunnerStep

\* So do those of the server: there is none before the constructor is over.
LEMMA ServerKeeps ==
  ASSUME XInv, ServerStep
  PROVE  XInv'
<1> USE DEF TypeOK, Server, runner, starting
<1>1. CASE Ignore
  BY <1>1 DEF Ignore
<1>2. CASE ExecServer
  BY <1>2 DEF ExecServer, NotExecuted
<1>3. CASE ServerDies
  BY <1>3 DEF ServerDies
<1>4. CASE ServerReady
  <2>1. main_pc # "ctor" /\ main \in blocked
    BY <1>4 DEF ServerReady
  <2> QED BY <1>4, <2>1 DEF ServerReady
<1> QED BY <1>1, <1>2, <1>3, <1>4 DEF ServerStep

\* The inductive invariant: what the constructor does to the mask lasts, and an
\* answer that nobody has taken is pending.
THEOREM XServerInvariant == Spec => []XInv
<1>1. Init => XInv
  BY DEF Init, TypeOK, Threads
<1>2. XInv /\ [Next]_vars => XInv'
  <2>1. CASE UNCHANGED vars
    BY <2>1 DEF vars, runner, starting, server, TypeOK
  <2> QED BY <2>1, StarterKeeps, RunnerKeeps, ServerKeeps DEF Next, Ended
<1> QED BY <1>1, <1>2, PTL DEF Spec

\* The variables of both processes keep their types.
THEOREM XServerTypeCorrect == Spec => []TypeOK
<1>1. XInv => TypeOK
  OBVIOUS
<1> QED BY <1>1, XServerInvariant, PTL

\* Blocking the signal in the constructor is enough: whenever it is pending,
\* no thread of the program could be killed by it.
THEOREM XServerNeverKilled == Spec => []NeverKilledBySignal
<1>1. XInv => NeverKilledBySignal
  BY DEF NeverKilledBySignal
<1> QED BY <1>1, XServerInvariant, PTL

\* startXserver gives up only on a server that has not answered.
THEOREM XServerAnswerIsSeen == Spec => AnswerIsSeen
<1>1. XInv /\ [Next]_vars => [pc' = "timeout" /\ pc # "timeout" => ~sent]_vars
  <2> SUFFICES ASSUME XInv, Next, pc' = "timeout", pc # "timeout"
               PROVE  ~sent
    OBVIOUS
  <2>1. Timeout
    BY DEF Next, Ended, vars, StarterStep, RunnerStep, ServerStep, StarterAt,
           RunnerAt, Server, starting, MakeAuthFiles, Chown, Block, Fork,
           SignalArrives, StartDesktop, BlockInMain, BecomeInit, Spawn,
           ThreadExits, Ignore, ExecServer, ServerDies, ServerReady
  <2> QED BY <2>1 DEF Timeout, TimedOut, StarterAt
<1> QED BY <1>1, XServerInvariant, PTL DEF Spec, AnswerIsSeen
=============================================================================
