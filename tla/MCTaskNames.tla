---------------------------- MODULE MCTaskNames ----------------------------
(***************************************************************************)
(* The names of the tasks of the boot program, with two threads.           *)
(***************************************************************************)
EXTENDS TaskNames, BootTable
============================================================================
