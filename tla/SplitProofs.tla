----------------------------- MODULE SplitProofs -----------------------------
(***************************************************************************)
(* Proofs about split, for strings of any length: it stays in its string,  *)
(* and hands out the arguments that reading the string gives.              *)
(***************************************************************************)
EXTENDS Split, SequenceTheorems, WellFoundedInduction, TLAPS

\* A set of natural numbers that is not empty has a least element.
LEMMA LeastNumber ==
  ASSUME NEW S \in SUBSET Nat, S # {}
  PROVE  \E n \in S : \A m \in S : n <= m
<1>1. PICK n \in S : \A m \in S : <<m, n>> \notin OpToRel(<, Nat)
  BY NatLessThanWellFounded, WFMin
<1>2. ASSUME NEW m \in S PROVE n <= m
  <2>1. ~(m < n)
    BY <1>1 DEF OpToRel
  <2> QED BY <2>1
<1> QED BY <1>2

\* A blank, a quote and the end of a string differ.
LEMMA CharactersDiffer == Blank # NUL /\ Quote # NUL /\ Blank # Quote
BY Zenon DEF Blank, Quote, NUL

----------------------------------------------------------------------------
\* The string in its memory.
StringType ==
  /\ text \in Texts /\ Len(text) \in Nat
  /\ DOMAIN list = 0 .. Len(text)
  /\ v \in Seq(0 .. Len(text))

SInv == StringType /\ StaysInString

\* Every scan ends at the end of the string, or before it.
LEMMA FindIsInString ==
  ASSUME SInv, NEW a \in 0 .. Len(text), NEW C
  PROVE  /\ Find(a, C) \in a .. Len(text) /\ list[Find(a, C)] \in C \cup {NUL}
         /\ \A q \in a .. Find(a, C) - 1 : list[q] \notin C \cup {NUL}
<1> DEFINE Ends == {p \in a .. Len(text) : list[p] \in C \cup {NUL}}
<1>1. Ends \in SUBSET Nat /\ Len(text) \in Ends
  BY DEF SInv, StringType, StaysInString
<1>2. PICK p \in Ends : \A m \in Ends : p <= m
  BY <1>1, LeastNumber
<1>3. \A q \in a .. p - 1 : list[q] \notin C \cup {NUL}
  BY <1>1, <1>2
<1> QED BY <1>2, <1>3 DEF Find

\* The scan over blanks ends in the string too.
LEMMA SkipEnds ==
  ASSUME SInv
  PROVE  /\ AfterBlanks \in cptr .. Len(text) /\ list[AfterBlanks] # Blank
         /\ \A q \in cptr .. AfterBlanks - 1 : list[q] = Blank
<1> DEFINE Ends == {p \in cptr .. Len(text) : list[p] # Blank}
<1>1. cptr \in Nat /\ cptr <= Len(text) /\ Len(text) \in Nat
  BY DEF SInv, StringType, StaysInString
<1>2. Ends \in SUBSET Nat /\ Len(text) \in Ends
  BY <1>1, CharactersDiffer DEF SInv, StaysInString
<1>3. PICK p \in Ends : \A m \in Ends : p <= m
  BY <1>2, LeastNumber
<1>4. \A q \in cptr .. p - 1 : list[q] = Blank
  BY <1>1, <1>3
<1> QED BY <1>3, <1>4 DEF AfterBlanks

\* So an argument begins in the string.
LEMMA AfterBlanksIsInString ==
  ASSUME SInv
  PROVE  AfterBlanks \in 0 .. Len(text)
BY SkipEnds DEF SInv, StringType, StaysInString

\* An argument begins and ends in the string, and its NUL is written there.
LEMMA ArgumentStep ==
  ASSUME SInv, NEW a \in 0 .. Len(text), NEW c, c # NUL, Argument(a, c)
  PROVE  SInv'
<1> DEFINE e == EndOf(a, c)
<1>1. e \in a .. Len(text) /\ list[e] \in {c, NUL}
  BY FindIsInString DEF EndOf
<1>2. /\ v' = Append(v, a) /\ list' = [list EXCEPT ![e] = NUL]
      /\ cptr' = Behind(e, c) /\ text' = text
  BY DEF Argument
<1> HIDE DEF e
<1>3. list[Len(text)] = NUL /\ Len(text) \in Nat
  BY DEF SInv, StringType, StaysInString
<1>4. cptr' \in 0 .. Len(text)
  BY <1>1, <1>2, <1>3 DEF Behind
<1>5. DOMAIN list' = 0 .. Len(text) /\ list'[Len(text)] = NUL
  BY <1>1, <1>2, <1>3 DEF SInv, StringType
<1>6. v' \in Seq(0 .. Len(text))
  BY <1>2 DEF SInv, StringType
<1>7. \A k \in DOMAIN v' : v'[k] \in 0 .. Len(text)
  BY <1>6
<1> QED BY <1>2, <1>3, <1>4, <1>5, <1>6, <1>7 DEF SInv, StringType, StaysInString

\* Every turn of the loop preserves the invariant.
LEMMA SplitNext ==
  ASSUME SInv, [Next]_vars
  PROVE  SInv'
<1>1. CASE Quoted
  <2>1. AfterBlanks + 1 \in 0 .. Len(text)
    BY <1>1, AfterBlanksIsInString, CharactersDiffer DEF Quoted, SInv, StringType,
       StaysInString
  <2> QED BY <1>1, <2>1, ArgumentStep, CharactersDiffer DEF Quoted
<1>2. CASE Word
  BY <1>2, AfterBlanksIsInString, ArgumentStep, CharactersDiffer DEF Word
<1>3. CASE Nothing
  BY <1>3, AfterBlanksIsInString DEF Nothing, SInv, StringType, StaysInString
<1>4. CASE UNCHANGED vars
  BY <1>4 DEF vars, SInv, StringType, StaysInString
<1> QED BY <1>1, <1>2, <1>3, <1>4 DEF Next, Returned

\* split never reads or writes outside of the string it was given, and hands
\* out no pointer that leads there.
THEOREM SplitStaysInString == Spec => []StaysInString
<1>1. Init => SInv
  BY TextsAssumption DEF Init, SInv, StringType, StaysInString
<1>2. SInv /\ [Next]_vars => SInv'
  BY SplitNext
<1>3. SInv => StaysInString
  BY DEF SInv
<1> QED BY <1>1, <1>2, <1>3, PTL DEF Spec

----------------------------------------------------------------------------
(* Reading a string character by character *)

\* The recursion of Reader, up to n characters.
Reading(state, t, n) ==
  state = [k \in 0 .. n |-> IF k = 0 THEN Between(<<>>) ELSE Read(state[k - 1], t[k])]

LEMMA ReadingExists ==
  ASSUME NEW t, NEW n \in Nat
  PROVE  \E state : Reading(state, t, n)
<1> DEFINE Bad == {m \in 0 .. n : ~ \E state : Reading(state, t, m)}
<1> SUFFICES ASSUME Bad # {} PROVE FALSE
  OBVIOUS
<1>1. /\ Bad \in SUBSET Nat
      /\ \A m \in 0 .. n : m \in Bad <=> ~ \E state : Reading(state, t, m)
      /\ \A m \in Bad : m \in 0 .. n
  OBVIOUS
<1> HIDE DEF Bad
<1>2. PICK m \in Bad : \A l \in Bad : m <= l
  BY <1>1, LeastNumber
<1>3. m # 0
  <2> DEFINE w == [k \in 0 .. 0 |-> Between(<<>>)]
  <2>1. Reading(w, t, 0)
    BY DEF Reading
  <2> QED BY <1>1, <1>2, <2>1
<1>4. m \in 0 .. n /\ m - 1 \in 0 .. n /\ m - 1 \notin Bad
  BY <1>1, <1>2, <1>3
<1>5. PICK w : Reading(w, t, m - 1)
  BY <1>1, <1>4
<1> DEFINE x == [k \in 0 .. m |-> IF k = m THEN Read(w[m - 1], t[m]) ELSE w[k]]
<1>6. ASSUME NEW k \in 0 .. m
      PROVE  x[k] = IF k = 0 THEN Between(<<>>) ELSE Read(x[k - 1], t[k])
  <2>1. CASE k = m
    <3>1. x[m] = Read(w[m - 1], t[m]) /\ x[m - 1] = w[m - 1]
      BY <1>4
    <3> QED BY <1>3, <2>1, <3>1
  <2>2. CASE k # m
    <3>1. k \in 0 .. m - 1 /\ x[k] = w[k]
      BY <1>4, <2>2
    <3>2. k # 0 => x[k - 1] = w[k - 1]
      BY <1>4, <3>1
    <3>3. w[k] = IF k = 0 THEN Between(<<>>) ELSE Read(w[k - 1], t[k])
      BY <1>5, <3>1 DEF Reading
    <3> QED BY <3>1, <3>2, <3>3
  <2> QED BY <2>1, <2>2
<1>7. Reading(x, t, m)
  BY <1>6 DEF Reading
<1> QED BY <1>1, <1>2, <1>4, <1>7

LEMMA ReaderIs ==
  ASSUME NEW t, Len(t) \in Nat
  PROVE  /\ Reader(t)[0] = Between(<<>>)
         /\ \A k \in 0 .. Len(t) - 1 : Reader(t)[k + 1] = Read(Reader(t)[k], t[k + 1])
<1>1. Reader(t) = CHOOSE state : Reading(state, t, Len(t))
  BY DEF Reader, Reading
<1>2. Reading(Reader(t), t, Len(t))
  BY <1>1, ReadingExists
<1>3. \A k \in 0 .. Len(t) :
        Reader(t)[k] = IF k = 0 THEN Between(<<>>) ELSE Read(Reader(t)[k - 1], t[k])
  BY <1>2 DEF Reading
<1> QED BY <1>3

\* What the reader does with a character between arguments and in one.
LEMMA ReadBetween ==
  ASSUME NEW args, NEW c
  PROVE  /\ c = Blank => Read(Between(args), c) = Between(args)
         /\ c = Quote => Read(Between(args), c) = [in |-> "quotes", arg |-> <<>>, args |-> args]
         /\ c \notin {Blank, Quote} =>
              Read(Between(args), c) = [in |-> "word", arg |-> Append(<<>>, c), args |-> args]
BY CharactersDiffer DEF Read, Between

\* The two kinds of arguments, and the character that ends each.
Kinds == {<<"word", Blank>>, <<"quotes", Quote>>}

LEMMA ReadIn ==
  ASSUME NEW kind \in Kinds, NEW arg, NEW args, NEW c
  PROVE  Read([in |-> kind[1], arg |-> arg, args |-> args], c) =
           IF c = kind[2] THEN Between(Append(args, arg))
           ELSE [in |-> kind[1], arg |-> Append(arg, c), args |-> args]
<1>1. CASE kind = <<"word", Blank>>
  BY <1>1 DEF Read
<1>2. CASE kind = <<"quotes", Quote>>
  BY <1>2 DEF Read
<1> QED BY <1>1, <1>2 DEF Kinds

\* A part of the text, from address a up to e.
Piece(t, a, e) == [k \in 1 .. e - a |-> t[a + k]]

LEMMA PieceGrows ==
  ASSUME NEW t, NEW a \in Nat, NEW e \in Nat, a <= e
  PROVE  /\ Piece(t, a, a) = <<>>
         /\ Append(Piece(t, a, e), t[e + 1]) = Piece(t, a, e + 1)
<1>1. e - a \in Nat
  OBVIOUS
<1> QED BY <1>1 DEF Piece

\* A reader in an argument, and what it has read of it.
Inside(kind, arg, args) == [in |-> kind[1], arg |-> arg, args |-> args]

\* A reader in an argument stays in it up to the character that ends it.
LEMMA ReadPiece ==
  ASSUME NEW t, Len(t) \in Nat, NEW kind \in Kinds, NEW args,
         NEW a \in Nat, NEW m \in 0 .. Len(t), NEW e \in 0 .. Len(t), a <= m, m <= e,
         Reader(t)[m] = Inside(kind, Piece(t, a, m), args),
         \A q \in m .. e - 1 : t[q + 1] # kind[2]
  PROVE  Reader(t)[e] = Inside(kind, Piece(t, a, e), args)
<1> DEFINE Good(n) == Reader(t)[n] = Inside(kind, Piece(t, a, n), args)
           Bad == {n \in m .. e : ~Good(n)}
<1> SUFFICES ASSUME Bad # {} PROVE FALSE
  OBVIOUS
<1>1. /\ Bad \in SUBSET Nat /\ \A n \in m .. e : n \in Bad <=> ~Good(n)
      /\ \A n \in Bad : n \in m .. e
  OBVIOUS
<1>0. Good(m)
  OBVIOUS
<1> HIDE DEF Bad
<1>2. PICK n \in Bad : \A l \in Bad : n <= l
  BY <1>1, LeastNumber
<1>3. n \in m .. e /\ n # m
  BY <1>0, <1>1, <1>2
<1>4. n - 1 \in m .. e - 1 /\ n - 1 \in m .. e /\ n - 1 \notin Bad
  BY <1>2, <1>3
<1>5. Good(n - 1)
  BY <1>1, <1>4
<1>6. n - 1 \in 0 .. Len(t) - 1 /\ n - 1 \in Nat /\ a <= n - 1 /\ (n - 1) + 1 = n
  BY <1>3, <1>4
<1>7. Reader(t)[n] = Read(Reader(t)[n - 1], t[n]) /\ t[n] # kind[2]
  BY <1>4, <1>6, ReaderIs
<1>8. Append(Piece(t, a, n - 1), t[n]) = Piece(t, a, n)
  BY <1>6, PieceGrows
<1>9. Read(Inside(kind, Piece(t, a, n - 1), args), t[n]) =
        Inside(kind, Append(Piece(t, a, n - 1), t[n]), args)
  BY <1>7, ReadIn DEF Inside
<1>10. Good(n)
  BY <1>5, <1>7, <1>8, <1>9
<1> QED BY <1>1, <1>2, <1>3, <1>10

\* A reader between arguments stays there while it reads blanks.
LEMMA ReadBlanks ==
  ASSUME NEW t, Len(t) \in Nat, NEW args,
         NEW m \in 0 .. Len(t), NEW e \in 0 .. Len(t), m <= e,
         Reader(t)[m] = Between(args), \A q \in m .. e - 1 : t[q + 1] = Blank
  PROVE  Reader(t)[e] = Between(args)
<1> DEFINE Bad == {n \in m .. e : Reader(t)[n] # Between(args)}
<1> SUFFICES ASSUME Bad # {} PROVE FALSE
  OBVIOUS
<1>1. /\ Bad \in SUBSET Nat /\ \A n \in m .. e : n \in Bad <=> Reader(t)[n] # Between(args)
      /\ \A n \in Bad : n \in m .. e
  OBVIOUS
<1> HIDE DEF Bad
<1>2. PICK n \in Bad : \A l \in Bad : n <= l
  BY <1>1, LeastNumber
<1>3. n \in m .. e /\ n # m
  BY <1>1, <1>2
<1>4. n - 1 \in m .. e - 1 /\ n - 1 \in m .. e /\ n - 1 \notin Bad
  BY <1>2, <1>3
<1>5. Reader(t)[n - 1] = Between(args)
  BY <1>1, <1>4
<1>6. n - 1 \in 0 .. Len(t) - 1 /\ (n - 1) + 1 = n
  BY <1>3, <1>4
<1>7. Reader(t)[n] = Read(Reader(t)[n - 1], t[n]) /\ t[n] = Blank
  BY <1>4, <1>6, ReaderIs
<1>8. Reader(t)[n] = Between(args)
  BY <1>5, <1>7, ReadBetween
<1> QED BY <1>1, <1>2, <1>3, <1>8

----------------------------------------------------------------------------
(* C strings in memory *)

\* StringAt for any memory l of addresses up to n.
StringIn(l, n, a) ==
  LET end == CHOOSE p \in a .. n : /\ l[p] \in {} \cup {NUL}
                                   /\ \A q \in a .. p - 1 : l[q] \notin {} \cup {NUL}
  IN  [k \in 1 .. end - a |-> l[a + k - 1]]

LEMMA StringEnds ==
  ASSUME NEW n \in Nat, NEW a \in Nat, NEW e \in a .. n, NEW l,
         l[e] = NUL, \A q \in a .. e - 1 : l[q] # NUL
  PROVE  StringIn(l, n, a) = [k \in 1 .. e - a |-> l[a + k - 1]]
<1> DEFINE end == CHOOSE p \in a .. n : /\ l[p] \in {} \cup {NUL}
                                        /\ \A q \in a .. p - 1 : l[q] \notin {} \cup {NUL}
<1>1. end \in a .. n /\ l[end] = NUL /\ \A q \in a .. end - 1 : l[q] # NUL
  OBVIOUS
<1> HIDE DEF end
<1>2. end = e
  <2>1. ~(end < e)
    BY <1>1
  <2>2. ~(e < end)
    BY <1>1
  <2> QED BY <1>1, <2>1, <2>2
<1> QED BY <1>2 DEF StringIn, end

----------------------------------------------------------------------------
(* The arguments *)

Strings == [k \in DOMAIN v |-> StringAt(v[k])]

\* What is left is unchanged; the pointers collected are those of strings that
\* have been ended, and these are what a reader of the text has made of it.
Collected ==
  /\ \A p \in cptr .. Len(text) - 1 : list[p] = text[p + 1]
  /\ ~done => /\ \A k \in DOMAIN v : \E p \in v[k] .. cptr - 1 : list[p] = NUL
              /\ Reader(text)[cptr] = Between(Strings)
  /\ SplitsIntoArguments

LEMMA TextIs ==
  ASSUME SInv
  PROVE  /\ Len(text) \in Nat /\ \A k \in 1 .. Len(text) : text[k] # NUL
         /\ cptr \in 0 .. Len(text) /\ v \in Seq(0 .. Len(text))
         /\ DOMAIN v = 1 .. Len(v) /\ Len(v) \in Nat
         /\ \A k \in DOMAIN v : v[k] \in 0 .. Len(text)
<1>1. text \in Seq(STRING \ {NUL})
  BY TextsAssumption DEF SInv, StringType
<1> QED BY <1>1 DEF SInv, StringType, StaysInString

LEMMA AppendIs ==
  ASSUME NEW U, NEW s \in Seq(U), NEW t \in Seq(U), NEW x \in U,
         Len(t) = Len(s) + 1, \A k \in 1 .. Len(s) : t[k] = s[k], t[Len(s) + 1] = x
  PROVE  t = Append(s, x)
<1> DEFINE y == Append(s, x)
<1>1. /\ y \in Seq(U) /\ Len(y) = Len(s) + 1
      /\ \A k \in 1 .. Len(s) : y[k] = s[k]
      /\ y[Len(s) + 1] = x
  BY AppendProperties
<1> HIDE DEF y
<1>2. \A k \in 1 .. Len(y) : y[k] = t[k]
  BY <1>1
<1>3. Len(y) = Len(t)
  BY <1>1
<1>4. y = t
  BY <1>1, <1>2, <1>3, SeqEqual
<1> QED BY <1>4 DEF y

LEMMA SequenceIs ==
  ASSUME NEW S, NEW s, NEW n \in Nat, s = [k \in 1 .. n |-> s[k]],
         \A k \in 1 .. n : s[k] \in S
  PROVE  s \in Seq(S) /\ Len(s) = n
OBVIOUS

\* An argument is collected as the reader reads it.
LEMMA ArgumentCollected ==
  ASSUME SInv, Collected, ~done, NEW kind \in Kinds,
         NEW a \in cptr .. Len(text), NEW m \in a .. Len(text),
         \A q \in a .. m - 1 : text[q + 1] # kind[2],
         Reader(text)[m] = Inside(kind, Piece(text, a, m), Strings),
         Argument(a, kind[2])
  PROVE  Collected'
<1> DEFINE n == Len(text)
           c == kind[2]
           e == EndOf(a, c)
<1>1. /\ n \in Nat /\ \A k \in 1 .. n : text[k] # NUL
      /\ cptr \in 0 .. n /\ v \in Seq(0 .. n) /\ DOMAIN v = 1 .. Len(v) /\ Len(v) \in Nat
      /\ \A k \in DOMAIN v : v[k] \in 0 .. n
  BY TextIs
<1>2. a \in 0 .. n /\ a \in Nat /\ m \in 0 .. n
  BY <1>1
<1>3. e \in a .. n /\ list[e] \in {c, NUL} /\ \A q \in a .. e - 1 : list[q] \notin {c, NUL}
  BY <1>2, FindIsInString DEF EndOf
<1> HIDE DEF e
<1>4. \A p \in cptr .. n - 1 : list[p] = text[p + 1]
  BY DEF Collected
<1>5. c # NUL
  BY CharactersDiffer DEF Kinds
<1>6. m <= e
  <2> SUFFICES ASSUME e < m PROVE FALSE
    BY <1>2, <1>3
  <2>1. e \in a .. m - 1 /\ e \in cptr .. n - 1 /\ e + 1 \in 1 .. n
    BY <1>1, <1>2, <1>3
  <2> QED BY <1>1, <1>3, <1>4, <2>1
<1>7. /\ v' = Append(v, a) /\ list' = [list EXCEPT ![e] = NUL] /\ cptr' = Behind(e, c)
      /\ done' = (cptr' >= n) /\ text' = text
  BY DEF Argument, e
<1>8. DOMAIN list = 0 .. n
  BY DEF SInv, StringType
<1>9. list'[e] = NUL /\ \A p \in 0 .. n : p # e => list'[p] = list[p]
  BY <1>2, <1>3, <1>7, <1>8
<1>10. Reader(text)[e] = Inside(kind, Piece(text, a, e), Strings)
  <2>1. \A q \in m .. e - 1 : text[q + 1] # c
    <3> SUFFICES ASSUME NEW q \in m .. e - 1 PROVE text[q + 1] # c
      OBVIOUS
    <3>1. q \in a .. e - 1 /\ q \in cptr .. n - 1
      BY <1>1, <1>2, <1>3
    <3> QED BY <1>3, <1>4, <3>1
  <2>2. e \in 0 .. n /\ a <= m
    BY <1>2, <1>3
  <2>3. Len(text) \in Nat /\ a \in Nat /\ m \in 0 .. Len(text) /\ e \in 0 .. Len(text)
    BY <1>1, <1>2, <2>2
  <2> HIDE DEF n, c
  <2> QED BY <1>6, <2>1, <2>2, <2>3, ReadPiece DEF n, c
<1>11. StringIn(list', n, a) = Piece(text, a, e)
  <2>1. ASSUME NEW q \in a .. e - 1
        PROVE  list'[q] = text[q + 1] /\ list'[q] # NUL
    <3>1. q \in cptr .. n - 1 /\ q \in 0 .. n /\ q # e /\ q + 1 \in 1 .. n
      BY <1>1, <1>2, <1>3
    <3> QED BY <1>1, <1>4, <1>9, <3>1
  <2>2. StringIn(list', n, a) = [k \in 1 .. e - a |-> list'[a + k - 1]]
    <3>1. n \in Nat /\ a \in Nat /\ e \in a .. n /\ list'[e] = NUL
      BY <1>1, <1>2, <1>3, <1>9
    <3>2. \A q \in a .. e - 1 : list'[q] # NUL
      BY <2>1
    <3> QED BY <3>1, <3>2, StringEnds
  <2>3. \A k \in 1 .. e - a : list'[a + k - 1] = text[a + k]
    <3> SUFFICES ASSUME NEW k \in 1 .. e - a PROVE list'[a + k - 1] = text[a + k]
      OBVIOUS
    <3>1. a + k - 1 \in a .. e - 1 /\ (a + k - 1) + 1 = a + k
      BY <1>2, <1>3
    <3> QED BY <2>1, <3>1
  <2> QED BY <2>2, <2>3 DEF Piece
<1>12. ASSUME NEW b \in Nat, \E p \in b .. cptr - 1 : list[p] = NUL
       PROVE  StringIn(list', n, b) = StringIn(list, n, b)
  <2> DEFINE Ends == {p \in b .. cptr - 1 : list[p] = NUL}
  <2>1. Ends \in SUBSET Nat /\ Ends # {}
    BY <1>12
  <2>2. PICK p \in Ends : \A q \in Ends : p <= q
    BY <2>1, LeastNumber
  <2>3. p \in b .. n /\ p \in 0 .. cptr - 1 /\ list[p] = NUL
    BY <1>1, <2>2
  <2>4. list'[p] = NUL
    BY <1>1, <1>2, <1>3, <1>9, <2>3
  <2>5. ASSUME NEW q \in b .. p - 1 PROVE list[q] # NUL /\ list'[q] = list[q]
    <3>1. q \in 0 .. n /\ q # e /\ q \in b .. cptr - 1
      BY <1>1, <1>2, <1>3, <2>3
    <3> QED BY <1>9, <2>2, <2>3, <3>1
  <2> HIDE DEF Ends
  <2>6. StringIn(list, n, b) = [i \in 1 .. p - b |-> list[b + i - 1]]
    <3>1. \A q \in b .. p - 1 : list[q] # NUL
      BY <2>5
    <3> QED BY <1>1, <2>3, <3>1, StringEnds
  <2>7. StringIn(list', n, b) = [i \in 1 .. p - b |-> list'[b + i - 1]]
    <3>1. \A q \in b .. p - 1 : list'[q] # NUL
      BY <2>5
    <3> QED BY <1>1, <2>3, <2>4, <3>1, StringEnds
  <2>8. ASSUME NEW i \in 1 .. p - b PROVE list'[b + i - 1] = list[b + i - 1]
    <3>1. b + i - 1 \in b .. p - 1
      BY <2>3
    <3> QED BY <2>5, <3>1
  <2> QED BY <2>6, <2>7, <2>8
<1>13. /\ Strings = [k \in DOMAIN v |-> StringIn(list, n, v[k])]
       /\ Strings' = [k \in DOMAIN v' |-> StringIn(list', n, v'[k])]
  BY <1>7 DEF Strings, StringAt, StringIn, Find
<1>14. /\ DOMAIN v' = 1 .. Len(v) + 1 /\ v'[Len(v) + 1] = a
       /\ \A k \in 1 .. Len(v) : v'[k] = v[k]
  BY <1>1, <1>2, <1>7, AppendProperties
<1>15. Strings' = Append(Strings, Piece(text, a, e))
  <2> DEFINE L == Len(v)
             S == [k \in 1 .. L |-> StringIn(list, n, v[k])]
             T == [k \in 1 .. L + 1 |-> StringIn(list', n, v'[k])]
             x == Piece(text, a, e)
  <2>1. Strings' = T /\ Strings = S /\ L \in Nat
    BY <1>1, <1>13, <1>14
  <2>2. ASSUME NEW k \in 1 .. L PROVE T[k] = S[k]
    <3>1. k \in DOMAIN v /\ k \in 1 .. L + 1 /\ v'[k] = v[k] /\ v[k] \in Nat
      BY <1>1, <1>14
    <3>2. \E p \in v[k] .. cptr - 1 : list[p] = NUL
      BY <3>1 DEF Collected
    <3> QED BY <1>12, <3>1, <3>2
  <2>3. T[L + 1] = x
    <3>1. L + 1 \in 1 .. L + 1 /\ v'[L + 1] = a
      BY <1>1, <1>14
    <3> QED BY <1>11, <3>1
  <2>4. T = [k \in 1 .. L + 1 |-> T[k]] /\ S = [k \in 1 .. L |-> S[k]]
    OBVIOUS
  <2> DEFINE U == {T[k] : k \in 1 .. L + 1}
  <2> HIDE DEF L, S, T, x
  <2>5. /\ \A k \in 1 .. L + 1 : T[k] \in U
        /\ \A k \in 1 .. L : S[k] \in U
        /\ x \in U
    BY <2>1, <2>2, <2>3
  <2> HIDE DEF U
  <2>6. T \in Seq(U) /\ Len(T) = L + 1
    BY <2>1, <2>4, <2>5, SequenceIs
  <2>7. S \in Seq(U) /\ Len(S) = L
    BY <2>1, <2>4, <2>5, SequenceIs
  <2>8. T = Append(S, x)
    BY <2>2, <2>3, <2>5, <2>6, <2>7, AppendIs
  <2> QED BY <2>1, <2>8 DEF x
<1>16. ASSUME list[e] = c
       PROVE  /\ cptr' = e + 1 /\ cptr' \in 0 .. n
              /\ Reader(text)[cptr'] = Between(Strings')
  <2>1. e \in 0 .. n - 1
    <3>1. list[n] = NUL
      BY DEF SInv, StaysInString
    <3> QED BY <1>1, <1>2, <1>3, <1>5, <1>16, <3>1
  <2>2. text[e + 1] = c
    BY <1>1, <1>2, <1>3, <1>4, <1>16, <2>1
  <2>3. Reader(text)[e + 1] = Read(Reader(text)[e], text[e + 1])
    BY <1>1, <2>1, ReaderIs
  <2>4. Reader(text)[e + 1] = Between(Append(Strings, Piece(text, a, e)))
    <3>1. Reader(text)[e + 1] =
            Read(Inside(kind, Piece(text, a, e), Strings), c)
      BY <1>10, <2>2, <2>3
    <3> HIDE DEF c
    <3>2. Read(Inside(kind, Piece(text, a, e), Strings), c) =
            Between(Append(Strings, Piece(text, a, e)))
      BY ReadIn DEF c, Inside
    <3> QED BY <3>1, <3>2
  <2>5. cptr' = e + 1
    BY <1>7, <1>16 DEF Behind
  <2> QED BY <1>15, <2>1, <2>4, <2>5
<1>17. ASSUME list[e] # c PROVE cptr' = n /\ e = n
  <2>1. e = n
    <3>1. list[e] = NUL
      BY <1>3, <1>17
    <3>2. e < n => list[e] = text[e + 1] /\ e + 1 \in 1 .. n
      BY <1>1, <1>2, <1>3, <1>4
    <3> QED BY <1>1, <1>2, <1>3, <3>1, <3>2
  <2> QED BY <1>7, <1>17, <2>1 DEF Behind
<1>18. (SplitsIntoArguments)'
  <2> SUFFICES ASSUME done' PROVE Strings' = Arguments(text)
    BY <1>7 DEF SplitsIntoArguments, Strings
  <2>1. CASE list[e] = c
    <3>1. cptr' = n
      <4>1. cptr' >= n /\ cptr' \in 0 .. n
        BY <1>7, <1>16, <2>1
      <4> QED BY <1>1, <4>1
    <3>2. Reader(text)[n] = Between(Strings')
      BY <1>16, <2>1, <3>1
    <3> QED BY <3>2 DEF Arguments, Between
  <2>2. CASE list[e] # c
    <3>1. Reader(text)[n] = Inside(kind, Piece(text, a, n), Strings)
      BY <1>10, <1>17, <2>2
    <3>2. kind[1] # "gap"
      BY DEF Kinds
    <3>3. Arguments(text) = Append(Strings, Piece(text, a, n))
      BY <3>1, <3>2 DEF Arguments, Inside
    <3> QED BY <1>15, <1>17, <2>2, <3>3
  <2> QED BY <2>1, <2>2
<1>19. \A p \in cptr' .. n - 1 : list'[p] = text[p + 1]
  <2>1. CASE list[e] = c
    BY <1>1, <1>2, <1>3, <1>4, <1>9, <1>16, <2>1
  <2>2. CASE list[e] # c
    BY <1>1, <1>17, <2>2
  <2> QED BY <2>1, <2>2
<1>20. ASSUME ~done'
       PROVE  /\ \A k \in DOMAIN v' : \E p \in v'[k] .. cptr' - 1 : list'[p] = NUL
              /\ Reader(text)[cptr'] = Between(Strings')
  <2>1. list[e] = c
    <3>1. ~(cptr' >= n)
      BY <1>7, <1>20
    <3>2. list[e] # c => cptr' = n
      BY <1>17
    <3> QED BY <1>1, <3>1, <3>2
  <2>2. cptr' = e + 1 /\ Reader(text)[cptr'] = Between(Strings')
    BY <1>16, <2>1
  <2>3. ASSUME NEW k \in DOMAIN v'
        PROVE  \E p \in v'[k] .. cptr' - 1 : list'[p] = NUL
    <3>1. CASE k = Len(v) + 1
      BY <1>2, <1>3, <1>9, <1>14, <2>2, <3>1
    <3>2. CASE k # Len(v) + 1
      <4>1. k \in DOMAIN v /\ v'[k] = v[k] /\ v[k] \in Nat
        BY <1>1, <1>14, <3>2
      <4>2. PICK p \in v[k] .. cptr - 1 : list[p] = NUL
        BY <4>1 DEF Collected
      <4>3. p # e /\ p \in 0 .. n /\ p \in v[k] .. cptr' - 1
        BY <1>1, <1>2, <1>3, <2>2, <4>1, <4>2
      <4> QED BY <1>9, <4>1, <4>2, <4>3
    <3> QED BY <3>1, <3>2
  <2> QED BY <2>2, <2>3
<1> QED BY <1>7, <1>18, <1>19, <1>20 DEF Collected

\* A turn of the loop skips blanks, and collects an argument if there is one.
LEMMA CollectedNext ==
  ASSUME SInv, Collected, [Next]_vars
  PROVE  Collected'
<1> DEFINE n == Len(text)
           b == AfterBlanks
<1>1. /\ n \in Nat /\ cptr \in 0 .. n
      /\ \A k \in 1 .. n : text[k] # NUL
      /\ \A p \in cptr .. n - 1 : list[p] = text[p + 1]
      /\ list[n] = NUL
  BY TextIs DEF Collected, SInv, StaysInString
<1>2. /\ b \in cptr .. n /\ list[b] # Blank
      /\ \A q \in cptr .. b - 1 : list[q] = Blank
  BY SkipEnds
<1> HIDE DEF b
<1>3. ASSUME ~done PROVE Reader(text)[b] = Between(Strings)
  <2>1. Reader(text)[cptr] = Between(Strings)
    BY <1>3 DEF Collected
  <2>2. ASSUME NEW q \in cptr .. b - 1 PROVE text[q + 1] = Blank
    <3>1. q \in cptr .. n - 1
      BY <1>1, <1>2
    <3> QED BY <1>1, <1>2, <3>1
  <2>3. Len(text) \in Nat /\ cptr \in 0 .. Len(text) /\ b \in 0 .. Len(text) /\ cptr <= b
    BY <1>1, <1>2
  <2> QED BY <2>1, <2>2, <2>3, ReadBlanks
<1>4. ASSUME list[b] # NUL
      PROVE  /\ b \in 0 .. n - 1 /\ text[b + 1] = list[b]
             /\ Reader(text)[b + 1] = Read(Reader(text)[b], list[b])
  <2>1. b \in 0 .. n - 1 /\ b \in cptr .. n - 1
    BY <1>1, <1>2, <1>4
  <2> QED BY <1>1, <2>1, ReaderIs
<1>5. ASSUME Quoted PROVE Collected'
  <2> DEFINE kind == <<"quotes", Quote>>
             a == b + 1
  <2>1. ~done /\ list[b] = Quote /\ Argument(a, kind[2])
    BY <1>5 DEF Quoted, b
  <2>2. a \in cptr .. n /\ a \in a .. n /\ a \in Nat
    BY <1>1, <1>2, <1>4, <2>1, CharactersDiffer
  <2>3. Reader(text)[a] = Read(Between(Strings), Quote)
    BY <1>3, <1>4, <2>1, CharactersDiffer
  <2>4. Piece(text, a, a) = <<>>
    BY <2>2, PieceGrows
  <2>5. Reader(text)[a] = Inside(kind, Piece(text, a, a), Strings)
    BY <2>3, <2>4, ReadBetween DEF Inside
  <2>6. kind \in Kinds
    BY DEF Kinds
  <2>7. \A q \in a .. a - 1 : text[q + 1] # kind[2]
    BY <2>2
  <2> HIDE DEF kind, a
  <2> QED BY <2>1, <2>2, <2>5, <2>6, <2>7, ArgumentCollected
<1>6. ASSUME Word PROVE Collected'
  <2> DEFINE kind == <<"word", Blank>>
             m == b + 1
  <2>1. ~done /\ list[b] \notin {Quote, NUL} /\ Argument(b, kind[2])
    BY <1>6 DEF Word, b
  <2>2. b \in cptr .. n /\ b \in Nat /\ m \in b .. n
    BY <1>1, <1>2, <1>4, <2>1
  <2>3. Reader(text)[m] = Read(Between(Strings), list[b])
    BY <1>3, <1>4, <2>1
  <2>4. Piece(text, b, m) = Append(<<>>, list[b])
    <3>1. b \in Nat /\ b <= b
      BY <2>2
    <3>2. Piece(text, b, b) = <<>> /\ Append(Piece(text, b, b), text[b + 1]) = Piece(text, b, m)
      BY <3>1, PieceGrows
    <3> QED BY <1>4, <2>1, <3>2
  <2>5. Reader(text)[m] = Inside(kind, Piece(text, b, m), Strings)
    BY <1>2, <2>1, <2>3, <2>4, ReadBetween DEF Inside
  <2>6. kind \in Kinds
    BY DEF Kinds
  <2>7. \A q \in b .. m - 1 : text[q + 1] # kind[2]
    BY <1>2, <1>4, <2>1, <2>2
  <2> HIDE DEF kind, m
  <2> QED BY <2>1, <2>2, <2>5, <2>6, <2>7, ArgumentCollected
<1>7. ASSUME Nothing PROVE Collected'
  <2>1. /\ ~done /\ list[b] = NUL /\ cptr' = b /\ done'
        /\ text' = text /\ list' = list /\ v' = v
    BY <1>7 DEF Nothing, b
  <2>2. b = n
    BY <1>1, <1>2, <2>1
  <2>3. Reader(text)[n] = Between(Strings)
    BY <1>3, <2>1, <2>2
  <2>4. Arguments(text) = Strings
    BY <2>3 DEF Arguments, Between
  <2>5. Strings' = Strings
    BY <2>1 DEF Strings, StringAt, Find
  <2>6. (SplitsIntoArguments)'
    BY <2>1, <2>4, <2>5 DEF SplitsIntoArguments, Strings
  <2> QED BY <1>1, <2>1, <2>2, <2>6 DEF Collected
<1>8. CASE UNCHANGED vars
  BY <1>8 DEF vars, Collected, Strings, StringAt, Find, SplitsIntoArguments
<1> QED BY <1>5, <1>6, <1>7, <1>8 DEF Next, Returned

\* Cutting any string in place gives the arguments that reading it character by
\* character gives: no NUL is written into what has not been read yet, and no
\* string that has been handed out changes.
THEOREM SplitGivesArguments == Spec => []SplitsIntoArguments
<1>1. Init => SInv /\ Collected
  <2> SUFFICES ASSUME Init PROVE SInv /\ Collected
    OBVIOUS
  <2>1. SInv
    BY TextsAssumption DEF Init, SInv, StringType, StaysInString
  <2>2. Reader(text)[0] = Between(<<>>)
    BY TextIs, ReaderIs, <2>1
  <2>3. Strings = <<>>
    BY DEF Init, Strings
  <2> QED BY <2>1, <2>2, <2>3, TextIs DEF Init, Collected, SplitsIntoArguments
<1>2. SInv /\ Collected /\ [Next]_vars => (SInv /\ Collected)'
  BY SplitNext, CollectedNext
<1>3. Collected => SplitsIntoArguments
  BY DEF Collected
<1> QED BY <1>1, <1>2, <1>3, PTL DEF Spec
=============================================================================
