----------------------------- MODULE MCXServer -----------------------------
(***************************************************************************)
(* The X server started by one of the five threads of the runner.          *)
(***************************************************************************)
EXTENDS XServer
============================================================================
