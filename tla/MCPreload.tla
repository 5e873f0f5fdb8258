----------------------------- MODULE MCPreload -----------------------------
(***************************************************************************)
(* Small preload lists: lists of up to MaxLines lines of three shapes,     *)
(* whose last line may lack its newline, and texts of any bytes.  With     *)
(* INT_MAX = 3 and LLONG_MAX = 4 some of their numbers are too large for   *)
(* an int, a long long or an unsigned long, and some are not.              *)
(***************************************************************************)
EXTENDS Preload

CONSTANTS
  MaxLines,     \* how many lines a list has at most
  MaxBytes      \* the length of an arbitrary text at most

Listed ==
  { [text |-> <<"1", " ", "2", " ", "a", "\n">>,
     at |-> <<0, 1, 2, 3, 4, 5>>,
     line |-> [dev |-> 1, inode |-> 2, path |-> <<"a">>]],
    [text |-> <<"1", "0", " ", "3", " ", "b", " ", "c", "\n">>,
     at |-> <<0, 2, 3, 4, 5, 8>>,
     line |-> [dev |-> 10, inode |-> 3, path |-> <<"b", " ", "c">>]],
    [text |-> <<"\n", "4", " ", "\t", "5", " ", "n", "\n">>,
     at |-> <<1, 2, 4, 5, 6, 7>>,
     line |-> [dev |-> 4, inode |-> 5, path |-> <<"n">>]] }

Text(lines) == FlattenSeq([k \in DOMAIN lines |-> lines[k].text])
Lines(lines) == [k \in DOMAIN lines |-> lines[k].line]

\* Where the fields of line k begin and end.
Places(lines) ==
  [k \in DOMAIN lines |->
     LET at == [i \in 1 .. 6 |-> lines[k].at[i] + Len(Text(SubSeq(lines, 1, k - 1)))] IN
     [dev |-> at[1], dev_end |-> at[2], inode |-> at[3], inode_end |-> at[4],
      path |-> at[5], end |-> at[6]]]

Lists == UNION {[1 .. n -> Listed] : n \in 1 .. MaxLines}

\* These are the lists that the proofs are about.
ASSUME ListsAssumption ==
  \A l \in Lists : Describes([text |-> Text(l), lines |-> Lines(l)], Places(l))

Described == {[text |-> Text(l), lines |-> Lines(l)] : l \in Lists}

Cut == {[f EXCEPT !.text = Front(@)] : f \in Described}

\* Any bytes at all.
Texts(bytes, n) ==
  {[text |-> t, lines |-> <<>>] : t \in UNION {[1 .. m -> bytes] : m \in 0 .. n}}

Arbitrary == Texts({" ", "\n", "1"}, MaxBytes)
             \cup Texts({" ", "\n", "9", "-", "\t"}, MaxBytes - 2)

\* A list of whole pages whose last line is the beginning of an entry.
Begun == [text |-> <<"1", " ", " ", "1", " ", "1", "\n", "1", "\n">>, lines |-> <<>>]

Both == Described \cup Arbitrary \cup {Begun}

Tab == {"\t"}

SomeReadable == {<<"a">>, <<"b", " ", "c">>, <<"1">>}
============================================================================
