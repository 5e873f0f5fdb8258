------------------------------- MODULE Split -------------------------------
(***************************************************************************)
(* SysLinux::split of root/sys_linux.h, which cuts the kernel command line *)
(* and the command lines of execute() into arguments, in place: it writes  *)
(* a NUL after each argument and collects pointers to their beginnings.    *)
(***************************************************************************)
EXTENDS Arguments

CONSTANT Texts      \* the strings to split, as sequences of characters

NUL == "NUL"

\* A C string holds no NUL before its end.
ASSUME TextsAssumption == Texts \subseteq Seq(STRING \ {NUL})

VARIABLES
  text,     \* the string as it was passed
  list,     \* the memory it is in: a function on addresses, NUL at the end
  cptr,     \* where split is
  v,        \* the pointers collected
  done      \* split has returned

vars == <<text, list, cptr, v, done>>

Init ==
  /\ text \in Texts
  /\ list = [a \in 0 .. Len(text) |-> IF a < Len(text) THEN text[a + 1] ELSE NUL]
  /\ cptr = 0 /\ v = <<>> /\ done = FALSE

\* The first address from a on that holds a character of C, or the end.
Find(a, C) ==
  CHOOSE p \in a .. Len(text) :
    /\ list[p] \in C \cup {NUL}
    /\ \A q \in a .. p - 1 : list[q] \notin C \cup {NUL}

AfterBlanks == CHOOSE p \in cptr .. Len(text) :
                 /\ list[p] # Blank
                 /\ \A q \in cptr .. p - 1 : list[q] = Blank

\* Where to go on after an argument: behind the character that ended it,
\* unless that was the end of the string.  In the first form it always was.
MutBehind(e, c) == e + 1
Behind(e, c) == IF list[e] = c THEN e + 1 ELSE e

\* Where the argument that begins at a ends.  A quote must not end a word.
MutEndOf(a, c) == Find(a, {c, Quote})
EndOf(a, c) == Find(a, {c})

\* An argument from a to the next character c, which becomes its NUL.  Split
\* goes on unless it is at the end of the string.
Argument(a, c) ==
  LET e == EndOf(a, c) IN
  /\ v' = Append(v, a)
  /\ list' = [list EXCEPT ![e] = NUL]
  /\ cptr' = Behind(e, c)
  /\ done' = (cptr' >= Len(text))
  /\ UNCHANGED text

Quoted ==
  /\ ~done /\ list[AfterBlanks] = Quote
  /\ Argument(AfterBlanks + 1, Quote)

Word ==
  /\ ~done /\ list[AfterBlanks] \notin {Quote, NUL}
  /\ Argument(AfterBlanks, Blank)

Nothing ==
  /\ ~done /\ list[AfterBlanks] = NUL
  /\ cptr' = AfterBlanks
  /\ done' = TRUE
  /\ UNCHANGED <<text, list, v>>

Returned == done /\ UNCHANGED vars

Next == Quoted \/ Word \/ Nothing \/ Returned

Spec == Init /\ [][Next]_vars

----------------------------------------------------------------------------
(* Properties *)

\* The scan never leaves the string, whose NUL ends every loop, and no
\* argument begins outside of it.
StaysInString ==
  /\ cptr \in 0 .. Len(text)
  /\ list[Len(text)] = NUL
  /\ \A k \in DOMAIN v : v[k] \in 0 .. Len(text)

\* The C string at address a.
StringAt(a) == [k \in 1 .. Find(a, {}) - a |-> list[a + k - 1]]

\* Cutting in place, with pointers into a buffer that is being overwritten,
\* gives the arguments that reading the string character by character gives.
SplitsIntoArguments == done => [k \in DOMAIN v |-> StringAt(v[k])] = Arguments(text)
============================================================================
