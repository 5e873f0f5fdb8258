----------------------------- MODULE TaskNames -----------------------------
(***************************************************************************)
(* The function that names the tasks, as class Tasks of root/tasks.h keeps *)
(* it: the member getTaskName is a reference, and the constructor binds it *)
(* to its parameter, which is passed by value.  When the constructor has   *)
(* returned, the reference refers to memory that belongs to whatever       *)
(* start() and the functions it calls keep there; every thread calls       *)
(* through it before and after each task.                                  *)
(***************************************************************************)
EXTENDS Tasks

CONSTANTS
  get_name_fnc,     \* the function passed to the constructor
  Other             \* anything else that memory may hold

VARIABLES
  param,            \* what is in the memory of the parameter
  called            \* the functions that were called to name a task

namevars == <<vars, param, called>>

NameInit ==
  /\ Init
  /\ param = get_name_fnc
  /\ called = {}

\* The calls that start() makes use the stack; they may leave the old value
\* where it is, and a compiler may put anything there.
Overwrite == param' \in {param, Other}

StartStep ==
  /\ JoinAll \/ \E t \in Threads : Spawn(t)
  /\ Overwrite
  /\ UNCHANGED called

\* Before and after the function of the task: lnx->getTaskName(t->id).
NameTask ==
  /\ \E t \in Threads : RunTask(t)
  /\ called' = called \cup {param}
  /\ UNCHANGED param

PeekSteps ==
  /\ \E t \in Threads : PeekStep(t) \/ SpuriousWakeup(t)
  /\ UNCHANGED <<param, called>>

NameNext ==
  \/ StartStep \/ NameTask \/ PeekSteps
  \/ Terminated /\ UNCHANGED namevars

NameSpec == NameInit /\ [][NameNext]_namevars

\* "task name (a function need to be provieded )": the threads name the tasks
\* with the function that the caller of the constructor has provided.
NamesAreProvided == called \subseteq {get_name_fnc}
============================================================================
