----------------------------- MODULE Arguments -----------------------------
(***************************************************************************)
(* What SysLinux::split of root/sys_linux.h makes of a command line: the   *)
(* arguments by the characters read so far, without a buffer.  Module      *)
(* Split models how the code does it and is checked against this.          *)
(*                                                                         *)
(* A character is a string of length 1 and a text a sequence of those.     *)
(***************************************************************************)
EXTENDS Integers, Sequences

Chars(string) == [k \in 1 .. Len(string) |-> SubSeq(string, k, k)]

Blank == " "
Quote == "'"

\* A reader is between arguments, in a word that ends at a blank, or in quotes,
\* which must begin an argument and which the end of the text closes too.
Between(args) == [in |-> "gap", arg |-> <<>>, args |-> args]

Read(state, c) ==
  LET close == Between(Append(state.args, state.arg))
      more(in) == [in |-> in, arg |-> Append(state.arg, c), args |-> state.args]
  IN
  CASE state.in = "gap" -> IF c = Blank THEN state
                           ELSE IF c = Quote THEN [state EXCEPT !.in = "quotes"]
                           ELSE more("word")
    [] state.in = "word" -> IF c = Blank THEN close ELSE more("word")
    [] state.in = "quotes" -> IF c = Quote THEN close ELSE more("quotes")

\* The reader after k characters.
Reader(text) ==
  LET state[k \in 0 .. Len(text)] ==
        IF k = 0 THEN Between(<<>>) ELSE Read(state[k - 1], text[k])
  IN  state

Arguments(text) ==
  LET end == Reader(text)[Len(text)]
  IN  IF end.in = "gap" THEN end.args ELSE Append(end.args, end.arg)
============================================================================
