------------------------------ MODULE MCLaunch ------------------------------
(***************************************************************************)
(* Two threads that launch programs twice, with three process ids: fork    *)
(* fails for want of an id, and ids are given again while others wait.     *)
(***************************************************************************)
EXTENDS Launch
============================================================================
