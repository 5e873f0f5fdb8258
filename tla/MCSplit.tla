------------------------------ MODULE MCSplit ------------------------------
(***************************************************************************)
(* All strings of blanks, quotes and two letters up to a length.           *)
(***************************************************************************)
EXTENDS Split

CONSTANT MaxLength

AllTexts == UNION {[1 .. n -> {" ", "'", "a", "b"}] : n \in 0 .. MaxLength}
============================================================================
