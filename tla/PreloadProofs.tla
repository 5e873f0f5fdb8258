--------------------------- MODULE PreloadProofs ---------------------------
(***************************************************************************)
(* Proofs about the parser of preload lists, for every list, whatever      *)
(* bytes it holds, every size of a page and every assumed length of lines. *)
(***************************************************************************)
EXTENDS Preload, SequenceTheorems, FiniteSetTheorems, WellFoundedInduction, TLAPS

----------------------------------------------------------------------------
(* Numbers *)

LEMMA LeastNumber ==
  ASSUME NEW S \in SUBSET Nat, S # {}
  PROVE  \E n \in S : \A m \in S : n <= m
<1>1. PICK n \in S : \A m \in S : <<m, n>> \notin OpToRel(<, Nat)
  BY NatLessThanWellFounded, WFMin
<1>2. ASSUME NEW m \in S PROVE n <= m
  <2>1. ~(m < n)
    BY <1>1 DEF OpToRel
  <2> QED BY <2>1
<1> QED BY <1>2

LEMMA RemainderIs ==
  ASSUME NEW n \in Nat, NEW s \in Nat \ {0}
  PROVE  n % s \in 0 .. s - 1 /\ (n < s => n % s = n)
OBVIOUS

\* The value in a signed type, which is the number itself if it fits.
LEMMA SignedIs ==
  ASSUME NEW n \in Nat, NEW max \in Nat
  PROVE  /\ Signed(n, max) \in -max - 1 .. max
         /\ n <= max => Signed(n, max) = n
<1>1. PICK s \in Nat \ {0} : s = 2 * (max + 1)
  OBVIOUS
<1>2. PICK low \in 0 .. s - 1 : low = n % s /\ (n < s => low = n)
  BY RemainderIs
<1>3. Signed(n, max) = IF low <= max THEN low ELSE low - s
  BY <1>1, <1>2 DEF Signed
<1> QED BY <1>1, <1>2, <1>3

\* As many pages as n bytes begin have room for them, and for a byte more
\* unless the last page is full.
LEMMA PagesHaveRoom ==
  ASSUME NEW n \in Nat, NEW p \in Nat \ {0}, NEW q, q = (n + p - 1) \div p
  PROVE  q \in Nat /\ q * p \in Nat /\ n <= q * p /\ (n % p # 0 => n < q * p)
<1>1. q \in Nat
  OBVIOUS
<1>2. q * p \in Nat
  BY <1>1
<1>3. n + p - 1 = q * p + ((n + p - 1) % p) /\ (n + p - 1) % p < p
  OBVIOUS
<1>4. n <= q * p
  BY <1>1, <1>2, <1>3
<1>5. n = q * p => n % p = 0
  BY <1>1
<1> QED BY <1>1, <1>2, <1>4, <1>5

LEMMA DivisionIsNat ==
  ASSUME NEW n \in Nat, NEW p \in Nat \ {0}
  PROVE  n \div p \in Nat /\ n \div 1 = n
OBVIOUS

----------------------------------------------------------------------------
(* nextToken *)

Bytes == STRING \cup {NUL}

LEMMA MappedIs ==
  ASSUME NEW f \in Files
  PROVE  /\ f.text \in Seq(STRING) /\ Len(f.text) \in Nat
         /\ \E n \in Nat : /\ DOMAIN Mapped(f) = 0 .. n - 1 /\ Len(f.text) <= n
                           /\ Len(f.text) % PageSize # 0 => Len(f.text) < n
         /\ \A a \in DOMAIN Mapped(f) : Mapped(f)[a] \in Bytes
         /\ \A a \in DOMAIN Mapped(f) : a >= Len(f.text) => Mapped(f)[a] = NUL
<1> DEFINE pages == (Len(f.text) + PageSize - 1) \div PageSize
           n == pages * PageSize
<1>1. f.text \in Seq(STRING) /\ Len(f.text) \in Nat /\ PageSize \in Nat \ {0}
  BY FilesAssumption
<1>2. n \in Nat /\ Len(f.text) <= n /\ (Len(f.text) % PageSize # 0 => Len(f.text) < n)
  BY <1>1, PagesHaveRoom
<1> HIDE DEF n
<1>3. Mapped(f) = [a \in 0 .. n - 1 |-> IF a < Len(f.text) THEN f.text[a + 1] ELSE NUL]
  BY DEF Mapped, n
<1>4. \A a \in 0 .. n - 1 : a < Len(f.text) => f.text[a + 1] \in Bytes
  BY <1>1, <1>2 DEF Bytes
<1>5. NUL \in Bytes
  BY DEF Bytes
<1>6. \A a \in DOMAIN Mapped(f) : /\ Mapped(f)[a] \in Bytes
                                  /\ a >= Len(f.text) => Mapped(f)[a] = NUL
  BY <1>1, <1>2, <1>3, <1>4, <1>5
<1>7. DOMAIN Mapped(f) = 0 .. n - 1
  BY <1>3
<1> QED BY <1>1, <1>2, <1>6, <1>7

\* The mapping keeps its size, and the two pointers are in the list.
Block ==
  /\ file \in Files
  /\ DOMAIN buf = DOMAIN Mapped(file) /\ \A a \in DOMAIN buf : buf[a] \in Bytes
  /\ dt_s \in Nat /\ dt_e \in Nat
  /\ StaysInBlock

LEMMA BlockIs ==
  ASSUME Block
  PROVE  /\ blk_e \in Nat /\ dt_s \in 0 .. blk_e /\ dt_e \in 0 .. blk_e
         /\ \A a \in DOMAIN buf : a \in Nat /\ (a >= blk_e => buf[a] = NUL)
         /\ \E n \in Nat : /\ DOMAIN buf = 0 .. n - 1 /\ blk_e <= n
                           /\ Len(file.text) % PageSize # 0 => blk_e < n
<1>1. /\ blk_e \in Nat
      /\ \E n \in Nat : /\ DOMAIN buf = 0 .. n - 1 /\ blk_e <= n
                        /\ Len(file.text) % PageSize # 0 => blk_e < n
  BY MappedIs DEF Block, blk_e
<1>2. dt_s \in 0 .. blk_e /\ dt_e \in 0 .. blk_e
  BY <1>1 DEF Block, StaysInBlock
<1>3. \A a \in DOMAIN buf : a \in Nat /\ (a >= blk_e => buf[a] = NUL)
  BY <1>1 DEF Block, StaysInBlock
<1> QED BY <1>1, <1>2, <1>3

LEMMA FindIsInBlock ==
  ASSUME Block, NEW a \in 0 .. blk_e, NEW stop
  PROVE  /\ Find(a, stop) \in a .. blk_e
         /\ Find(a, stop) # blk_e => buf[Find(a, stop)] \in stop
<1> DEFINE Ends == {p \in a .. blk_e : p = blk_e \/ buf[p] \in stop}
<1>1. Ends \in SUBSET Nat /\ blk_e \in Ends
  BY BlockIs
<1>2. PICK p \in Ends : \A m \in Ends : p <= m
  BY <1>1, LeastNumber
<1>3. \A q \in a .. p - 1 : buf[q] \notin stop
  BY <1>1, <1>2
<1> QED BY <1>2, <1>3 DEF Find

\* A token begins and ends in the block, whatever its delimiter, behind the one
\* before it; the search goes on behind the token, in the block too.  Nothing
\* is written behind the end of the list.
LEMMA TokenIsInBlock ==
  ASSUME Block, NEW delimiter, NEW t, t = NextToken(delimiter)
  PROVE  /\ DOMAIN t.buf = DOMAIN buf
         /\ \A a \in DOMAIN buf : a >= blk_e => t.buf[a] = NUL
         /\ \A a \in DOMAIN buf : t.buf[a] \in Bytes
         /\ t.dt_s \in 0 .. blk_e /\ t.dt_e \in 0 .. blk_e
         /\ t.token = Null \/ t.token \in 0 .. blk_e - 1
         /\ t.token # Null => t.dt_s < t.dt_e /\ dt_e < t.dt_e
<1> DEFINE start == Find(dt_e, {c \in ToSet(file.text) : ~Blank(c)})
           end == Find(start, {delimiter})
<1>1. /\ blk_e \in Nat /\ dt_e \in 0 .. blk_e
      /\ DOMAIN buf \subseteq Nat /\ 0 .. blk_e - 1 \subseteq DOMAIN buf
  BY BlockIs
<1>2. start \in dt_e .. blk_e
  BY <1>1, FindIsInBlock
<1>3. end \in start .. blk_e
  BY <1>1, <1>2, FindIsInBlock
<1>4. \A a \in DOMAIN buf : a >= blk_e => buf[a] = NUL
  BY BlockIs
<1>0. \A a \in DOMAIN buf : buf[a] \in Bytes
  BY DEF Block
<1> HIDE DEF start, end
<1>5. t = IF start = blk_e
          THEN [buf |-> buf, dt_s |-> start, dt_e |-> dt_e, token |-> Null]
          ELSE IF end # blk_e
          THEN [buf |-> Terminated(end), dt_s |-> start, dt_e |-> end + 1, token |-> start]
          ELSE IF start = 0
          THEN [buf |-> buf, dt_s |-> 0, dt_e |-> blk_e, token |-> Null]
          ELSE [buf |-> MovedDown(start), dt_s |-> start - 1, dt_e |-> CutEnd,
                token |-> start - 1]
  BY DEF NextToken, start, end
<1>6. CASE start = blk_e
  BY <1>0, <1>1, <1>2, <1>4, <1>5, <1>6
<1>7. CASE start # blk_e /\ end # blk_e
  <2>1. t = [buf |-> Terminated(end), dt_s |-> start, dt_e |-> end + 1, token |-> start]
    BY <1>5, <1>7
  <2> QED BY <1>0, <1>1, <1>2, <1>3, <1>4, <1>7, <2>1 DEF Terminated, Null, Bytes
<1>8. CASE start # blk_e /\ end = blk_e /\ start = 0
  BY <1>0, <1>1, <1>4, <1>5, <1>8
<1>9. CASE start # blk_e /\ end = blk_e /\ start # 0
  <2>1. t = [buf |-> MovedDown(start), dt_s |-> start - 1, dt_e |-> CutEnd,
             token |-> start - 1]
    BY <1>5, <1>9
  <2> QED BY <1>0, <1>1, <1>2, <1>4, <1>9, <2>1 DEF MovedDown, CutEnd, Null
<1> QED BY <1>6, <1>7, <1>8, <1>9

\* So it is for the call for the next field.
LEMMA FieldIsInBlock ==
  ASSUME Block
  PROVE  /\ DOMAIN Field.buf = DOMAIN buf
         /\ \A a \in DOMAIN buf : a >= blk_e => Field.buf[a] = NUL
         /\ \A a \in DOMAIN buf : Field.buf[a] \in Bytes
         /\ Field.dt_s \in 0 .. blk_e /\ Field.dt_e \in 0 .. blk_e
         /\ Field.token = Null \/ Field.token \in 0 .. blk_e - 1
         /\ Field.token # Null => Field.dt_s < Field.dt_e /\ dt_e < Field.dt_e
<1>1. \E delimiter : Field = NextToken(delimiter)
  BY Zenon DEF Field
<1> QED BY <1>1, TokenIsInBlock, Zenon

----------------------------------------------------------------------------
(* Strings in memory *)

LEMMA MemorySize ==
  ASSUME NEW n \in Nat, NEW b, DOMAIN b = 0 .. n - 1
  PROVE  Cardinality(DOMAIN b) = n
<1>1. Cardinality(0 .. n - 1) = n
  BY FS_Interval
<1> QED BY <1>1

\* A C string is a sequence of bytes, and a known one if a NUL follows it.
LEMMA StringIs ==
  ASSUME NEW n \in Nat, NEW b, DOMAIN b = 0 .. n - 1,
         \A p \in DOMAIN b : b[p] \in Bytes, NEW a \in 0 .. n - 1
  PROVE  /\ StringAt(b, a) \in Seq(Bytes)
         /\ (\E p \in DOMAIN b : p >= a /\ b[p] = NUL) => StringAt(b, a) # Unknown
<1>1. Cardinality(DOMAIN b) = n
  BY MemorySize
<1>2. CASE \A p \in a .. n - 1 : b[p] # NUL
  <2>1. StringAt(b, a) = Unknown
    BY <1>1, <1>2 DEF StringAt
  <2>2. Unknown \in Seq(Bytes)
    BY DEF Unknown, Bytes
  <2> QED BY <1>2, <2>1, <2>2
<1>3. CASE \E p \in a .. n - 1 : b[p] = NUL
  <2> DEFINE Ends == {p \in a .. n - 1 : b[p] = NUL}
             end == CHOOSE p \in DOMAIN b : /\ p >= a /\ b[p] = NUL
                                            /\ \A q \in a .. p - 1 : b[q] # NUL
  <2>1. Ends \in SUBSET Nat /\ Ends # {}
    BY <1>3
  <2>2. PICK p \in Ends : \A m \in Ends : p <= m
    BY <2>1, LeastNumber
  <2>3. \A q \in a .. p - 1 : b[q] # NUL
    BY <2>1, <2>2
  <2>4. p \in DOMAIN b /\ p >= a /\ b[p] = NUL
    BY <2>2
  <2>5. /\ end \in DOMAIN b /\ end >= a /\ b[end] = NUL
        /\ \A q \in a .. end - 1 : b[q] # NUL
    BY <2>3, <2>4
  <2> HIDE DEF end
  <2>6. StringAt(b, a) = [k \in 1 .. end - a |-> b[a + k - 1]]
    BY <1>1, <1>3 DEF StringAt, end
  <2>7. end \in Nat /\ end < n /\ end - a \in Nat
    BY <2>5
  <2>8. \A k \in 1 .. end - a : a + k - 1 \in a .. end - 1 /\ b[a + k - 1] \in Bytes
    BY <2>7
  <2>9. StringAt(b, a) \in Seq(Bytes)
    <3>1. PICK m \in Nat : m = end - a
      BY <2>7
    <3>2. StringAt(b, a) \in [1 .. m -> Bytes]
      BY <2>6, <2>8, <3>1, Zenon
    <3> QED BY <3>1, <3>2
  <2>10. ASSUME NEW k \in 1 .. end - a PROVE b[a + k - 1] # NUL
    <3>1. a + k - 1 \in a .. end - 1
      BY <2>8
    <3> QED BY <2>5, <3>1, Zenon
  <2>11. StringAt(b, a) # Unknown
    <3> SUFFICES ASSUME StringAt(b, a) = <<NUL>> PROVE FALSE
      BY DEF Unknown
    <3>1. DOMAIN StringAt(b, a) = 1 .. 1 /\ StringAt(b, a)[1] = NUL
      OBVIOUS
    <3>2. 1 \in 1 .. end - a
      BY <2>6, <3>1
    <3>3. StringAt(b, a)[1] = b[a + 1 - 1]
      BY <2>6, <3>2
    <3> QED BY <2>10, <3>1, <3>2, <3>3
  <2> QED BY <2>9, <2>11
<1> QED BY <1>2, <1>3

\* Digits have values, and a NUL is none.
LEMMA DigitsHaveValues ==
  /\ \A d \in DOMAIN DigitValue : DigitValue[d] \in Nat
  /\ NUL \notin DOMAIN DigitValue
<1>1. DOMAIN DigitValue = Range(Digits)
  BY DEF DigitValue
<1>2. ASSUME NEW d \in Range(Digits) PROVE DigitValue[d] \in Nat
  <2>1. \E n \in 0 .. 9 : Digits[n + 1] = d
    BY DEF Range, Digits
  <2>2. DigitValue[d] = CHOOSE n \in 0 .. 9 : Digits[n + 1] = d
    BY DEF DigitValue
  <2> HIDE DEF DigitValue
  <2> QED BY <2>1, <2>2
<1>3. NUL \notin Range(Digits)
  BY DEF NUL, Range, Digits
<1> QED BY <1>1, <1>2, <1>3

\* The recursion of Digital has a solution, in the numbers.
Recurrence(value, b, a, e) ==
  value = [p \in a .. e |->
             IF p = a THEN 0 ELSE 10 * value[p - 1] + DigitValue[b[p - 1]]]

LEMMA RecurrenceHasSolution ==
  ASSUME NEW a \in Nat, NEW e \in Nat, a <= e, NEW b,
         \A p \in a .. e - 1 : DigitValue[b[p]] \in Nat
  PROVE  \E v \in [a .. e -> Nat] : Recurrence(v, b, a, e)
<1> DEFINE Bad == {n \in a .. e : ~ \E v \in [a .. n -> Nat] : Recurrence(v, b, a, n)}
<1> SUFFICES ASSUME Bad # {} PROVE FALSE
  BY SMTT(40)
<1>1. /\ Bad \in SUBSET Nat /\ \A n \in Bad : n \in a .. e
      /\ \A n \in a .. e : n \in Bad <=>
           ~ \E v \in [a .. n -> Nat] : Recurrence(v, b, a, n)
  OBVIOUS
<1> HIDE DEF Bad
<1>2. PICK n \in Bad : \A m \in Bad : n <= m
  BY <1>1, LeastNumber
<1>3. n # a
  <2> DEFINE v == [p \in a .. a |-> 0]
  <2>1. v \in [a .. a -> Nat] /\ Recurrence(v, b, a, a)
    BY DEF Recurrence
  <2> QED BY <1>1, <1>2, <2>1
<1>4. n \in a .. e /\ n - 1 \in a .. e /\ n - 1 \notin Bad
  BY <1>1, <1>2, <1>3
<1>5. PICK v \in [a .. n - 1 -> Nat] : Recurrence(v, b, a, n - 1)
  BY <1>1, <1>4
<1>6. \A p \in a .. n - 1 :
        v[p] = IF p = a THEN 0 ELSE 10 * v[p - 1] + DigitValue[b[p - 1]]
  BY <1>5 DEF Recurrence
<1> DEFINE w == [p \in a .. n |-> IF p = n THEN 10 * v[n - 1] + DigitValue[b[n - 1]]
                                           ELSE v[p]]
<1>7. v[n - 1] \in Nat /\ DigitValue[b[n - 1]] \in Nat
  BY <1>4, <1>5
<1>8. w \in [a .. n -> Nat]
  BY <1>4, <1>5, <1>7
<1>9. ASSUME NEW p \in a .. n
      PROVE  w[p] = IF p = a THEN 0 ELSE 10 * w[p - 1] + DigitValue[b[p - 1]]
  <2>1. CASE p = n
    <3>1. w[n] = 10 * v[n - 1] + DigitValue[b[n - 1]] /\ w[n - 1] = v[n - 1]
      BY <1>4
    <3> QED BY <1>3, <2>1, <3>1
  <2>2. CASE p # n
    <3>1. p \in a .. n - 1 /\ w[p] = v[p]
      BY <1>4, <2>2
    <3>2. p # a => w[p - 1] = v[p - 1]
      BY <1>4, <3>1
    <3> QED BY <1>6, <3>1, <3>2
  <2> QED BY <2>1, <2>2
<1>10. Recurrence(w, b, a, n)
  BY <1>9 DEF Recurrence
<1> QED BY <1>1, <1>2, <1>4, <1>8, <1>10

LEMMA SolutionIsNat ==
  ASSUME NEW a \in Nat, NEW e \in Nat, a <= e, NEW b,
         \A p \in a .. e - 1 : DigitValue[b[p]] \in Nat,
         NEW v, Recurrence(v, b, a, e)
  PROVE  v[e] \in Nat
<1> DEFINE Bad == {n \in a .. e : v[n] \notin Nat}
<1>1. \A p \in a .. e : v[p] = IF p = a THEN 0 ELSE 10 * v[p - 1] + DigitValue[b[p - 1]]
  BY DEF Recurrence
<1>2. Bad \in SUBSET Nat /\ \A n \in a .. e : n \in Bad <=> v[n] \notin Nat
  OBVIOUS
<1> SUFFICES ASSUME Bad # {} PROVE FALSE
  BY <1>2
<1>3. PICK n \in Bad : \A m \in Bad : n <= m
  BY <1>2, LeastNumber
<1>4. n \in a .. e /\ v[n] \notin Nat
  BY <1>3
<1>5. n # a
  BY <1>1, <1>4
<1>6. n - 1 \in a .. e /\ n - 1 \notin Bad
  BY <1>3, <1>4, <1>5
<1>7. v[n - 1] \in Nat /\ DigitValue[b[n - 1]] \in Nat
  BY <1>2, <1>4, <1>5, <1>6
<1>8. v[n] = 10 * v[n - 1] + DigitValue[b[n - 1]]
  BY <1>1, <1>4, <1>5
<1> QED BY <1>4, <1>7, <1>8

\* Digits denote a number, also no digits at all.
LEMMA DigitalIsNat ==
  ASSUME NEW n \in Nat, NEW b, DOMAIN b = 0 .. n - 1, NEW a \in 0 .. n
  PROVE  Digital(b, a) \in Nat
<1> DEFINE Ends == {p \in a .. n : p \in DOMAIN b => b[p] \notin DOMAIN DigitValue}
           end == CHOOSE p \in a .. Cardinality(DOMAIN b) :
                    /\ p \in DOMAIN b => b[p] \notin DOMAIN DigitValue
                    /\ \A q \in a .. p - 1 : b[q] \in DOMAIN DigitValue
           value == CHOOSE value : value = [p \in a .. end |->
                      IF p = a THEN 0 ELSE 10 * value[p - 1] + DigitValue[b[p - 1]]]
<1>1. Cardinality(DOMAIN b) = n
  BY MemorySize
<1>2. Ends \in SUBSET Nat /\ n \in Ends
  OBVIOUS
<1>3. PICK p \in Ends : \A m \in Ends : p <= m
  BY <1>2, LeastNumber
<1>4. \A q \in a .. p - 1 : b[q] \in DOMAIN DigitValue
  BY <1>2, <1>3
<1>5. end \in a .. n /\ \A q \in a .. end - 1 : b[q] \in DOMAIN DigitValue
  BY <1>1, <1>3, <1>4
<1> HIDE DEF end
<1>6. end \in Nat /\ a <= end /\ \A q \in a .. end - 1 : DigitValue[b[q]] \in Nat
  BY <1>5, DigitsHaveValues
<1>7. \E v \in [a .. end -> Nat] : Recurrence(v, b, a, end)
  <2>1. ASSUME NEW e \in Nat, a <= e, \A p_1 \in a .. e - 1 : DigitValue[b[p_1]] \in Nat
        PROVE  \E v \in [a .. e -> Nat] : Recurrence(v, b, a, e)
    <3>1. a \in Nat
      OBVIOUS
    <3> QED BY <2>1, <3>1, RecurrenceHasSolution
  <2> QED BY <1>6, <2>1
<1>8. Recurrence(value, b, a, end)
  BY <1>7 DEF Recurrence
<1>9. Digital(b, a) = value[end]
  BY DEF Digital, end
<1> QED BY <1>6, <1>8, <1>9, SolutionIsNat

\* strtoul returns an unsigned long, whatever stands in place of the number.
LEMMA StrToULIs ==
  ASSUME NEW n \in Nat, NEW b, DOMAIN b = 0 .. n - 1, NEW a \in 0 .. n - 1
  PROVE  StrToUL(b, a) \in ULongs
<1>1. ULONG_MAX \in Nat
  BY FilesAssumption DEF ULONG_MAX
<1>2. DigitsAt(b, a) \in 0 .. n
  BY DEF DigitsAt
<1>3. PICK d \in Nat : d = Digital(b, DigitsAt(b, a))
  BY <1>2, DigitalIsNat
<1>4. StrToUL(b, a) = IF d > ULONG_MAX THEN ULONG_MAX
                      ELSE IF b[a] = "-" /\ d # 0 THEN ULONG_MAX + 1 - d ELSE d
  BY <1>3 DEF StrToUL
<1> QED BY <1>1, <1>3, <1>4 DEF ULongs

----------------------------------------------------------------------------
(* The inductive invariant *)

EntryType == [dev : Ints, inode : ULongs, block : Ints, path : 0 .. blk_e - 1]

Types ==
  /\ mode \in {"boot", "sort"}
  /\ pc \in {"open", "map", "assign", "readahead", "vector", "fill", "merge",
             "update", "write", "end", "done", "killed"}
  /\ opened \in BOOLEAN /\ mapped \in BOOLEAN
  /\ dt \in {Null} \cup 0 .. blk_e - 1
  /\ field \in 1 .. 3 /\ desc \in Ints \X ULongs
  /\ line_size \in Nat /\ room \in Nat /\ fail_count \in Nat
  /\ file_desc_ \in Seq(Seq(EntryType))

Starting == pc \in {"open", "map", "assign"}

\* Who holds the mapping, and when there is a list of entries.
Owning ==
  /\ owners \in {{}, IF pc = "assign" THEN {"temporary"} ELSE {"m"}}
  /\ pc \in {"open", "map"} => owners = {}
  /\ mapped <=> owners # {}
  /\ pc \in {"readahead", "vector", "fill"} => owners # {}
  /\ file_desc_ # <<>> => owners # {} /\ mode = "sort" /\ ~Starting
  /\ pc \in {"vector", "fill", "merge", "update", "write"} => mode = "sort"
  /\ pc = "readahead" => mode = "boot"
  /\ pc \in {"end", "done"} => file_desc_ = <<>>
  /\ pc = "done" => ~opened /\ owners = {}

\* Once the assumed length of a line is a single byte, the vector has at least
\* one entry for each byte of the rest, and more once there was a token.
Halving ==
  /\ Starting => /\ dt = Null /\ dt_s = 0 /\ dt_e = 0 /\ field = 1
                 /\ mode = "sort" => line_size > 0
  /\ pc \in {"vector", "fill"} => /\ line_size > 0
                                  /\ dt # Null => dt_s < dt_e
  /\ pc = "vector" /\ dt = Null => dt_s = dt_e
  /\ pc \in {"vector", "fill"} /\ field > 1 => dt # Null
  /\ pc = "fill" /\ line_size = 1 =>
       IF dt = Null THEN room = 0 \/ blk_e - dt_e <= room ELSE blk_e - dt_e < room

PInv == Block /\ Types /\ Owning /\ Halving

LEMMA TypesOfNumbers ==
  /\ Ints \subseteq Int /\ 0 \in Ints /\ 0 \in ULongs
  /\ INT_MAX \in Nat /\ LLONG_MAX \in Nat
BY FilesAssumption DEF Ints, ULongs, ULONG_MAX

LEMMA PInvInit ==
  ASSUME Init
  PROVE  PInv
<1>1. file \in Files /\ blk_e \in Nat
  BY MappedIs DEF Init, blk_e
<1>2. Block
  BY <1>1, MappedIs DEF Init, Block, StaysInBlock, blk_e
<1>3. line_size \in Nat /\ (mode = "sort" => line_size > 0)
  BY FilesAssumption DEF Init
<1>4. Types
  <2>1. file_desc_ \in Seq(Seq(EntryType)) /\ desc \in Ints \X ULongs
    BY TypesOfNumbers DEF Init
  <2>2. opened \in BOOLEAN /\ mapped \in BOOLEAN
    BY DEF Init
  <2>3. dt \in {Null} \cup 0 .. blk_e - 1 /\ field \in 1 .. 3
    BY DEF Init
  <2>4. room \in Nat /\ fail_count \in Nat
    BY DEF Init
  <2>5. mode \in {"boot", "sort"} /\ pc = "open"
    BY DEF Init
  <2> QED BY <1>3, <2>1, <2>2, <2>3, <2>4, <2>5 DEF Types
<1>5. Owning
  BY DEF Init, Owning
<1>6. Halving
  BY <1>3 DEF Init, Halving
<1> QED BY <1>2, <1>4, <1>5, <1>6 DEF PInv

\* Every step leaves the block alone or gets the next token.
LEMMA Advances ==
  ASSUME PInv, [Next]_vars
  PROVE  UNCHANGED file /\ (UNCHANGED memory \/ Advance)
BY DEF Next, vars, Open, GetFullMap, Assign, Destroy, SkipField, ReadaheadFile,
   ReadaheadEnd, NewVector, FillNumber, FillPath, OutOfData, EndVector, Merge,
   UpdateBlock, WriteEntry, NextVector, Fault, Ended, GotField, NoField, list, input

LEMMA BlockNext ==
  ASSUME PInv, [Next]_vars
  PROVE  Block'
<1>1. UNCHANGED file /\ blk_e' = blk_e
  BY Advances DEF blk_e
<1>2. CASE UNCHANGED memory
  BY <1>1, <1>2 DEF PInv, Block, StaysInBlock, memory
<1>3. CASE Advance
  <2>1. /\ DOMAIN buf' = DOMAIN buf
        /\ \A a \in DOMAIN buf : buf'[a] \in Bytes /\ (a >= blk_e => buf'[a] = NUL)
        /\ dt_s' \in 0 .. blk_e /\ dt_e' \in 0 .. blk_e
    BY <1>3, FieldIsInBlock DEF PInv, Advance
  <2>2. DOMAIN buf = DOMAIN Mapped(file) /\ DOMAIN Mapped(file)' = DOMAIN Mapped(file)
    BY <1>1 DEF PInv, Block, Mapped
  <2>3. blk_e \in Nat
    BY BlockIs DEF PInv
  <2> QED BY <1>1, <2>1, <2>2, <2>3 DEF PInv, Block, StaysInBlock
<1> QED BY <1>2, <1>3, Advances

LEMMA RemoveAtIs ==
  ASSUME NEW S, NEW s \in Seq(S), NEW i \in DOMAIN s
  PROVE  /\ RemoveAt(s, i) \in Seq(S) /\ Len(RemoveAt(s, i)) = Len(s) - 1
         /\ \A j \in 1 .. Len(s) - 1 : RemoveAt(s, i)[j] = IF j < i THEN s[j] ELSE s[j + 1]
         /\ \A j \in DOMAIN RemoveAt(s, i) : \E k \in DOMAIN s : RemoveAt(s, i)[j] = s[k]
<1>1. i \in 1 .. Len(s) /\ Len(s) \in Nat
  OBVIOUS
<1> DEFINE before == SubSeq(s, 1, i - 1)
           after == SubSeq(s, i + 1, Len(s))
<1>2. /\ before \in Seq(S) /\ Len(before) = i - 1
      /\ \A j \in 1 .. i - 1 : before[j] = s[j]
  BY <1>1, SubSeqProperties
<1>3. /\ after \in Seq(S) /\ Len(after) = Len(s) - i
      /\ \A j \in 1 .. Len(s) - i : after[j] = s[i + j]
  BY <1>1, SubSeqProperties
<1>4. RemoveAt(s, i) = before \o after
  BY DEF RemoveAt
<1> HIDE DEF before, after
<1>5. /\ before \o after \in Seq(S)
      /\ Len(before \o after) = Len(before) + Len(after)
      /\ \A j \in 1 .. Len(before) + Len(after) :
           (before \o after)[j] = IF j <= Len(before) THEN before[j]
                                                      ELSE after[j - Len(before)]
  BY <1>2, <1>3, ConcatProperties
<1> DEFINE joined == before \o after
<1>6. joined = RemoveAt(s, i) /\ joined \in Seq(S) /\ Len(joined) = Len(s) - 1
  BY <1>1, <1>2, <1>3, <1>4, <1>5
<1>7. ASSUME NEW j \in 1 .. Len(s) - 1
      PROVE  joined[j] = IF j < i THEN s[j] ELSE s[j + 1]
  <2>1. CASE j < i
    <3>1. joined[j] = s[j]
      BY <1>1, <1>2, <1>3, <1>5, <2>1, SMTT(40)
    <3> QED BY <2>1, <3>1
  <2>2. CASE ~(j < i)
    <3>1. Len(before) = i - 1 /\ Len(after) = Len(s) - i
      BY <1>2, <1>3
    <3>2. j \in 1 .. Len(before) + Len(after) /\ ~(j <= Len(before))
      BY <1>1, <2>2, <3>1
    <3>3. joined[j] = after[j - Len(before)]
      BY <1>5, <3>2
    <3>4. j - (i - 1) \in 1 .. Len(s) - i /\ i + (j - (i - 1)) = j + 1
      BY <1>1, <2>2
    <3>5. after[j - (i - 1)] = s[i + (j - (i - 1))]
      BY <1>3, <3>4
    <3> QED BY <2>2, <3>1, <3>3, <3>4, <3>5
  <2> QED BY <2>1, <2>2
<1>8. ASSUME NEW j \in DOMAIN joined PROVE \E k \in DOMAIN s : joined[j] = s[k]
  <2>1. j \in 1 .. Len(s) - 1
    BY <1>6, <1>8
  <2>2. j \in DOMAIN s /\ j + 1 \in DOMAIN s
    BY <1>1, <2>1
  <2>3. joined[j] = s[j] \/ joined[j] = s[j + 1]
    BY <1>7, <2>1
  <2> QED BY <2>2, <2>3
<1> HIDE DEF joined
<1> QED BY <1>6, <1>7, <1>8

\* Replacing an element of a sequence.
LEMMA ReplaceIs ==
  ASSUME NEW S, NEW s \in Seq(S), NEW i, NEW e, i \in DOMAIN s => e \in S
  PROVE  [s EXCEPT ![i] = e] \in Seq(S)
<1> DEFINE r == [s EXCEPT ![i] = e]
<1>1. DOMAIN s = 1 .. Len(s) /\ Len(s) \in Nat /\ \A k \in DOMAIN s : s[k] \in S
  OBVIOUS
<1>2. DOMAIN r = 1 .. Len(s) /\ \A k \in 1 .. Len(s) : r[k] \in S
  BY <1>1
<1>3. r = [k \in 1 .. Len(s) |-> r[k]]
  BY <1>1
<1> HIDE DEF r
<1>4. r \in Seq(S)
  BY <1>1, <1>2, <1>3
<1> QED BY <1>4 DEF r

LEMMA SequenceIs ==
  ASSUME NEW S, NEW s, NEW n \in Nat, s = [k \in 1 .. n |-> s[k]],
         \A k \in 1 .. n : s[k] \in S
  PROVE  s \in Seq(S)
OBVIOUS

LEMMA RestIs ==
  ASSUME NEW S, NEW s \in Seq(S), NEW e \in S, s # <<>>
  PROVE  <<e>> \o Tail(s) \in Seq(S) /\ Tail(s) \in Seq(S) /\ Head(s) \in S
<1>1. Tail(s) \in Seq(S) /\ Head(s) \in S
  BY HeadTailProperties
<1>2. <<e>> \in Seq(S)
  OBVIOUS
<1> QED BY <1>1, <1>2, ConcatProperties

LEMMA TailIs ==
  ASSUME NEW S, NEW s \in Seq(S), s # <<>>
  PROVE  Tail(s) \in Seq(S) /\ Head(s) \in S /\ Len(Tail(s)) = Len(s) - 1
BY HeadTailProperties

LEMMA NotEmpty ==
  ASSUME NEW S, NEW s \in Seq(S), Len(s) > 0
  PROVE  s # <<>>
OBVIOUS

\* The lists of entries that the steps make.
LEMMA EntriesNext ==
  ASSUME PInv, [Next]_vars
  PROVE  file_desc_' \in Seq(Seq(EntryType))
<1>1. file_desc_ \in Seq(Seq(EntryType))
  BY DEF PInv, Types
<1>2. ASSUME NewVector PROVE file_desc_' \in Seq(Seq(EntryType))
  <2>1. <<>> \in Seq(EntryType) /\ file_desc_' = Append(file_desc_, <<>>)
    BY <1>2 DEF NewVector
  <2> QED BY <1>1, <2>1, AppendProperties
<1>3. ASSUME FillPath PROVE file_desc_' \in Seq(Seq(EntryType))
  <2>1. Entry \in EntryType
    <3>1. Field.token \in 0 .. blk_e - 1
      BY <1>3, FieldIsInBlock DEF FillPath, GotField, PInv
    <3>2. desc[1] \in Ints /\ desc[2] \in ULongs /\ 0 \in Ints
      BY TypesOfNumbers DEF PInv, Types
    <3> QED BY <3>1, <3>2 DEF Entry, EntryType
  <2>2. file_desc_' = [file_desc_ EXCEPT ![Len(file_desc_)] = Append(@, Entry)]
    BY <1>3 DEF FillPath
  <2>3. ASSUME Len(file_desc_) \in DOMAIN file_desc_
        PROVE  Append(file_desc_[Len(file_desc_)], Entry) \in Seq(EntryType)
    BY <1>1, <2>1, <2>3
  <2> QED BY <1>1, <2>2, <2>3, ReplaceIs
<1>4. ASSUME Merge PROVE file_desc_' \in Seq(Seq(EntryType))
  <2>1. CASE Len(file_desc_) > 1
    <3>1. file_desc_[1] \o file_desc_[2] \in Seq(EntryType)
      BY <1>1, <2>1
    <3>2. Tail(file_desc_) \in Seq(Seq(EntryType)) /\ Len(Tail(file_desc_)) > 0
      BY <1>1, <2>1, TailIs
    <3>3. Tail(file_desc_) # <<>>
      BY <3>2, NotEmpty
    <3>4. Merged \in Seq(Seq(EntryType))
      <4>1. Tail(Tail(file_desc_)) \in Seq(Seq(EntryType))
        BY <3>2, <3>3, TailIs
      <4>2. <<file_desc_[1] \o file_desc_[2]>> \in Seq(Seq(EntryType))
        BY <3>1
      <4> QED BY <4>1, <4>2, ConcatProperties DEF Merged
    <3> QED BY <1>4, <2>1, <3>4 DEF Merge
  <2> QED BY <1>1, <1>4, <2>1 DEF Merge
<1>5. ASSUME UpdateBlock PROVE file_desc_' \in Seq(Seq(EntryType))
  <2>1. PICK b \in [Slots -> Blocks] :
          file_desc_' =
            [v \in DOMAIN file_desc_ |->
               [k \in DOMAIN file_desc_[v] |->
                  LET entry == file_desc_[v][k] IN
                  [entry EXCEPT !.block =
                     IF StringAt(buf, entry.path) \in Readable THEN b[<<v, k>>] ELSE 0]]]
    BY <1>5 DEF UpdateBlock
  <2>2. ASSUME NEW v \in DOMAIN file_desc_, NEW k \in DOMAIN file_desc_[v], NEW r
        PROVE  [file_desc_[v][k] EXCEPT !.block = IF r THEN b[<<v, k>>] ELSE 0] \in EntryType
    <3>1. <<v, k>> \in Slots
      BY DEF Slots
    <3>2. b[<<v, k>>] \in Ints /\ 0 \in Ints
      BY <3>1, FilesAssumption, TypesOfNumbers DEF Ints
    <3>3. file_desc_[v][k] \in EntryType
      BY <1>1
    <3> QED BY <3>2, <3>3 DEF EntryType
  <2>3. ASSUME NEW v \in DOMAIN file_desc_
        PROVE  file_desc_'[v] \in Seq(EntryType)
    <3>1. file_desc_'[v] =
            [k \in DOMAIN file_desc_[v] |->
               [file_desc_[v][k] EXCEPT !.block =
                 IF StringAt(buf, file_desc_[v][k].path) \in Readable
                 THEN b[<<v, k>>] ELSE 0]]
      BY <2>1
    <3>2. DOMAIN file_desc_[v] = 1 .. Len(file_desc_[v]) /\ Len(file_desc_[v]) \in Nat
      BY <1>1
    <3>3. ASSUME NEW k \in 1 .. Len(file_desc_[v]) PROVE file_desc_'[v][k] \in EntryType
      <4>1. k \in DOMAIN file_desc_[v]
        BY <3>2
      <4>2. file_desc_'[v][k] = [file_desc_[v][k] EXCEPT !.block =
              IF StringAt(buf, file_desc_[v][k].path) \in Readable THEN b[<<v, k>>] ELSE 0]
        BY <3>1, <4>1
      <4>3. PICK r \in BOOLEAN :
              r <=> StringAt(buf, file_desc_[v][k].path) \in Readable
        OBVIOUS
      <4>4. file_desc_'[v][k] =
              [file_desc_[v][k] EXCEPT !.block = IF r THEN b[<<v, k>>] ELSE 0]
        BY <4>2, <4>3
      <4>5. [file_desc_[v][k] EXCEPT !.block = IF r THEN b[<<v, k>>] ELSE 0] \in EntryType
        BY <2>2, <4>1
      <4> QED BY <4>4, <4>5
    <3>4. file_desc_'[v] = [k \in 1 .. Len(file_desc_[v]) |-> file_desc_'[v][k]]
      BY <3>1, <3>2
    <3> QED BY <3>2, <3>3, <3>4, SequenceIs
  <2>4. DOMAIN file_desc_ = 1 .. Len(file_desc_) /\ Len(file_desc_) \in Nat
    BY <1>1
  <2>5. file_desc_' = [v \in 1 .. Len(file_desc_) |-> file_desc_'[v]]
    BY <2>1, <2>4
  <2> HIDE DEF EntryType
  <2> QED BY <2>3, <2>4, <2>5, SequenceIs
<1>6. ASSUME WriteEntry PROVE file_desc_' \in Seq(Seq(EntryType))
  <2>1. PICK k \in First(Head(file_desc_)) :
          file_desc_' = <<RemoveAt(Head(file_desc_), k)>> \o Tail(file_desc_)
    BY <1>6 DEF WriteEntry
  <2>2. file_desc_ # <<>> /\ Head(file_desc_) \in Seq(EntryType)
    BY <1>1, <1>6, TailIs DEF WriteEntry
  <2>3. RemoveAt(Head(file_desc_), k) \in Seq(EntryType)
    BY <2>2, RemoveAtIs DEF First
  <2> QED BY <1>1, <2>1, <2>2, <2>3, RestIs
<1>7. ASSUME NextVector PROVE file_desc_' \in Seq(Seq(EntryType))
  BY <1>1, <1>7, TailIs DEF NextVector
<1>8. CASE UNCHANGED file_desc_
  BY <1>1, <1>8
<1> QED
  BY <1>2, <1>3, <1>4, <1>5, <1>6, <1>7, <1>8
     DEF Next, vars, Open, GetFullMap, Assign, Destroy, SkipField, ReadaheadFile,
         ReadaheadEnd, FillNumber, OutOfData, EndVector, Fault, Ended

\* A number that is read has the type of its field.
LEMMA NumberReadIs ==
  ASSUME PInv, Field.token # Null
  PROVE  NumberRead \in IF field = 1 THEN Ints ELSE ULongs
<1>1. PICK n \in Nat : DOMAIN buf = 0 .. n - 1 /\ blk_e <= n
  BY BlockIs DEF PInv
<1>2. Field.token \in 0 .. n - 1
  BY <1>1, FieldIsInBlock, BlockIs DEF PInv
<1>3. DOMAIN Field.buf = 0 .. n - 1
  BY <1>1, FieldIsInBlock DEF PInv
<1>4. PICK read \in ULongs : read = StrToUL(Field.buf, Field.token)
  BY <1>1, <1>2, <1>3, StrToULIs
<1>5. read \in Nat /\ INT_MAX \in Nat
  BY <1>4, FilesAssumption DEF ULongs, ULONG_MAX
<1>6. NumberRead = IF field = 1 THEN Signed(read, INT_MAX) ELSE read
  BY <1>4 DEF NumberRead
<1>7. Signed(read, INT_MAX) \in Ints
  BY <1>5, SignedIs DEF Ints
<1> QED BY <1>4, <1>6, <1>7

\* Every number that is read has its type, the divisor is positive.
LEMMA TypesNext ==
  ASSUME PInv, [Next]_vars
  PROVE  Types'
<1>1. blk_e' = blk_e /\ EntryType' = EntryType /\ UNCHANGED mode
  BY Advances DEF blk_e, EntryType, Next, vars, Open, GetFullMap, Assign, Destroy,
     SkipField, ReadaheadFile, ReadaheadEnd, NewVector, FillNumber, FillPath,
     OutOfData, EndVector, Merge, UpdateBlock, WriteEntry, NextVector, Fault, Ended,
     list, input
<1>2. (file_desc_ \in Seq(Seq(EntryType)))'
  BY <1>1, EntriesNext
<1>3. blk_e \in Nat /\ blk_e - dt_s \in Nat
  BY BlockIs DEF PInv
<1>4. Field.token = Null \/ Field.token \in 0 .. blk_e - 1
  BY FieldIsInBlock DEF PInv
<1>5. dt' \in {Null} \cup 0 .. blk_e - 1
  BY <1>4 DEF PInv, Types, Next, vars, Open, GetFullMap, Assign, Destroy,
     SkipField, ReadaheadFile, ReadaheadEnd, NewVector, FillNumber, FillPath,
     OutOfData, EndVector, Merge, UpdateBlock, WriteEntry, NextVector, Fault, Ended,
     filling, GotField
<1>6. desc' \in Ints \X ULongs
  <2>1. ASSUME FillNumber PROVE desc' \in Ints \X ULongs
    <3>1. PICK read : read = NumberRead
      OBVIOUS
    <3>2. desc' = [desc EXCEPT ![field] = read]
      BY <2>1, <3>1 DEF FillNumber
    <3>3. desc \in Ints \X ULongs /\ field \in 1 .. 2
      BY <2>1 DEF PInv, Types, FillNumber
    <3>4. read \in IF field = 1 THEN Ints ELSE ULongs
      BY <2>1, <3>1, NumberReadIs DEF FillNumber, GotField
    <3> QED BY <3>2, <3>3, <3>4
  <2>2. CASE UNCHANGED desc \/ desc' = <<0, 0>>
    BY <2>2, TypesOfNumbers DEF PInv, Types
  <2> QED BY <2>1, <2>2 DEF Next, vars, Open, GetFullMap, Assign, Destroy,
     SkipField, ReadaheadFile, ReadaheadEnd, NewVector, FillPath,
     OutOfData, EndVector, Merge, UpdateBlock, WriteEntry, NextVector, Fault, Ended,
     filling
<1>7. line_size' \in Nat /\ room' \in Nat
  <2>1. line_size \in Nat /\ room \in Nat
    BY DEF PInv, Types
  <2>2. ASSUME NewVector PROVE room' \in Nat /\ UNCHANGED line_size
    <3>1. line_size \in Nat \ {0}
      BY <2>2, <2>1 DEF NewVector, PInv, Halving
    <3> QED BY <1>3, <2>2, <3>1, DivisionIsNat DEF NewVector
  <2>3. ASSUME EndVector PROVE line_size' \in Nat /\ UNCHANGED room
    BY <2>1, <2>3 DEF EndVector
  <2>4. ASSUME FillPath PROVE room' \in Nat /\ UNCHANGED line_size
    BY <2>1, <2>4 DEF FillPath
  <2>5. CASE UNCHANGED line_size /\ (UNCHANGED room \/ room' = 0)
    BY <2>1, <2>5
  <2> QED BY <2>1, <2>2, <2>3, <2>4, <2>5 DEF Next, vars, Open, GetFullMap, Assign,
     Destroy, SkipField, ReadaheadFile, ReadaheadEnd, FillNumber,
     OutOfData, Merge, UpdateBlock, WriteEntry, NextVector, Fault, Ended, filling
<1>8. field' \in 1 .. 3 /\ fail_count' \in Nat
  BY DEF PInv, Types, Next, vars, Open, GetFullMap, Assign, Destroy,
     SkipField, ReadaheadFile, ReadaheadEnd, NewVector, FillNumber, FillPath,
     OutOfData, EndVector, Merge, UpdateBlock, WriteEntry, NextVector, Fault, Ended,
     filling, boot
<1>9. opened' \in BOOLEAN /\ mapped' \in BOOLEAN
  BY DEF PInv, Types, Next, vars, Open, GetFullMap, Assign, Destroy,
     SkipField, ReadaheadFile, ReadaheadEnd, NewVector, FillNumber, FillPath,
     OutOfData, EndVector, Merge, UpdateBlock, WriteEntry, NextVector, Fault, Ended,
     list, handles
<1>10. pc' \in {"open", "map", "assign", "readahead", "vector", "fill", "merge",
                "update", "write", "end", "done", "killed"}
  BY DEF PInv, Types, Next, vars, Open, GetFullMap, Assign, Destroy,
     SkipField, ReadaheadFile, ReadaheadEnd, NewVector, FillNumber, FillPath,
     OutOfData, EndVector, Merge, UpdateBlock, WriteEntry, NextVector, Fault, Ended,
     NotLoaded, AfterData
<1>11. mode' \in {"boot", "sort"}
  BY <1>1 DEF PInv, Types
<1> QED BY <1>1, <1>2, <1>5, <1>6, <1>7, <1>8, <1>9, <1>10, <1>11 DEF Types

\* A mapping is taken over from the temporary object, and kept while there are
\* entries.
LEMMA OwningNext ==
  ASSUME PInv, [Next]_vars
  PROVE  Owning'
<1>1. Owning /\ Types
  BY DEF PInv
<1>2. ASSUME Open PROVE Owning'
  BY <1>1, <1>2 DEF Open, Owning, Starting, NotLoaded, input, Types
<1>3. ASSUME GetFullMap PROVE Owning'
  BY <1>1, <1>3 DEF GetFullMap, Owning, Starting, input
<1>4. ASSUME Assign PROVE Owning'
  BY <1>1, <1>4 DEF Assign, Owning, Starting, NotLoaded, input, Holders, Types
<1>5. ASSUME Destroy PROVE Owning'
  BY <1>1, <1>5 DEF Destroy, Owning, Starting, input
<1>6. ASSUME SkipField \/ ReadaheadFile \/ ReadaheadEnd PROVE Owning'
  BY <1>1, <1>6 DEF SkipField, ReadaheadFile, ReadaheadEnd, Owning, Starting,
     AfterData, list, input, handles
<1>7. ASSUME NewVector PROVE Owning'
  BY <1>1, <1>7 DEF NewVector, Owning, Starting, list, input, handles
<1>8. ASSUME FillNumber \/ FillPath \/ OutOfData \/ EndVector PROVE Owning'
  BY <1>1, <1>8 DEF FillNumber, FillPath, OutOfData, EndVector, Owning, Starting,
     list, input, handles
<1>9. ASSUME Merge PROVE Owning'
  <2>1. file_desc_' # <<>> => file_desc_ # <<>>
    <3>1. file_desc_ = <<>> => ~(Len(file_desc_) > 1)
      OBVIOUS
    <3> QED BY <1>9, <3>1 DEF Merge
  <2> QED BY <1>1, <1>9, <2>1 DEF Merge, Owning, Starting, list, input, handles
<1>10. ASSUME UpdateBlock PROVE Owning'
  <2>1. file_desc_' # <<>> => file_desc_ # <<>>
    BY <1>10 DEF UpdateBlock
  <2> QED BY <1>1, <1>10, <2>1 DEF UpdateBlock, Owning, Starting, list, input, handles
<1>11. ASSUME WriteEntry \/ NextVector PROVE Owning'
  BY <1>1, <1>11 DEF WriteEntry, NextVector, Owning, Starting, list, input, handles
<1>12. ASSUME Fault PROVE Owning'
  BY <1>1, <1>12 DEF Fault, ReadsBehindMapping, Owning, Starting, list, input, handles
<1>13. CASE UNCHANGED vars
  BY <1>1, <1>13 DEF vars, Owning, Starting, list, input, handles
<1> QED
  BY <1>2, <1>3, <1>4, <1>5, <1>6, <1>7, <1>8, <1>9, <1>10, <1>11, <1>12, <1>13
     DEF Next, Ended

\* A vector for lines of one byte is not filled before the list ends.
LEMMA HalvingNext ==
  ASSUME PInv, [Next]_vars
  PROVE  Halving'
<1>1. /\ Halving /\ blk_e \in Nat /\ dt_s \in Nat /\ dt_e \in Nat
      /\ line_size \in Nat /\ room \in Nat /\ field \in 1 .. 3
      /\ dt_s <= blk_e /\ dt_e <= blk_e /\ mode \in {"boot", "sort"}
  BY BlockIs DEF PInv, Types
<1>2. blk_e' = blk_e
  BY Advances DEF blk_e
<1>3. /\ Field.dt_s \in 0 .. blk_e /\ Field.dt_e \in 0 .. blk_e
      /\ Field.token # Null => Field.dt_s < Field.dt_e /\ dt_e < Field.dt_e
  BY FieldIsInBlock DEF PInv
<1>4. ASSUME Open \/ GetFullMap \/ Assign PROVE Halving'
  BY <1>1, <1>4 DEF Open, GetFullMap, Assign, Halving, Starting, NotLoaded, input,
     memory, filling
<1>5. ASSUME \/ Destroy \/ SkipField \/ ReadaheadFile \/ ReadaheadEnd
             \/ Merge \/ UpdateBlock \/ WriteEntry \/ NextVector \/ Fault
      PROVE  Halving'
  BY <1>5 DEF Destroy, SkipField, ReadaheadFile, ReadaheadEnd, Merge, UpdateBlock,
     WriteEntry, NextVector, Fault, Halving, Starting, AfterData
<1>6. ASSUME NewVector PROVE Halving'
  <2>1. line_size > 0 /\ room' = (blk_e - dt_s) \div line_size
    BY <1>1, <1>6 DEF NewVector, Halving
  <2>2. line_size = 1 => room' = blk_e - dt_s
    <3>1. line_size = 1 => room' = (blk_e - dt_s) \div 1
      BY <2>1
    <3>2. blk_e - dt_s \in Nat
      BY <1>1
    <3> QED BY <3>1, <3>2, DivisionIsNat
  <2>3. pc' = "fill" /\ UNCHANGED <<memory, dt, field, line_size>>
    BY <1>6 DEF NewVector
  <2>4. pc = "vector" /\ (dt = Null => dt_s = dt_e) /\ (dt # Null => dt_s < dt_e)
    BY <1>1, <1>6 DEF NewVector, Halving
  <2>5. field > 1 => dt # Null
    BY <1>1, <1>6 DEF NewVector, Halving
  <2> QED BY <1>1, <1>2, <2>1, <2>2, <2>3, <2>4, <2>5 DEF Halving, Starting, memory
<1>7. ASSUME FillNumber PROVE Halving'
  <2>1. /\ pc = "fill" /\ pc' = "fill" /\ Field.token # Null /\ dt' = Field.token
        /\ dt_s' = Field.dt_s /\ dt_e' = Field.dt_e
        /\ line_size' = line_size /\ room' = room
    BY <1>7 DEF FillNumber, GotField, Advance
  <2>2. /\ line_size > 0 /\ dt_s' < dt_e' /\ dt_e < dt_e' /\ dt' # Null
        /\ dt_e' \in Nat /\ room > 0
    BY <1>1, <1>3, <1>7, <2>1 DEF Halving, FillNumber
  <2>3. line_size = 1 => blk_e - dt_e <= room
    BY <1>1, <2>1, <2>2 DEF Halving
  <2>4. line_size' = 1 => blk_e' - dt_e' < room'
    BY <1>1, <1>2, <2>1, <2>2, <2>3
  <2> QED BY <2>1, <2>2, <2>4 DEF Halving, Starting
<1>8. ASSUME FillPath PROVE Halving'
  <2>1. /\ pc = "fill" /\ pc' = "fill" /\ Field.token # Null /\ dt' = Field.token
        /\ dt_s' = Field.dt_s /\ dt_e' = Field.dt_e
        /\ line_size' = line_size /\ room' = room - 1 /\ room > 0
        /\ field = 3 /\ field' = 1
    BY <1>8 DEF FillPath, GotField, Advance
  <2> QED BY <1>1, <1>2, <1>3, <2>1 DEF Halving, Starting
<1>9. ASSUME OutOfData PROVE Halving'
  BY <1>1, <1>9 DEF OutOfData, Halving, Starting
<1>10. ASSUME EndVector PROVE Halving'
  <2>1. pc = "fill" /\ room = 0 /\ UNCHANGED <<memory, dt, field, room>>
    BY <1>10 DEF EndVector
  <2>2. CASE dt = Null
    BY <1>10, <2>2 DEF EndVector, MoreVectors, Halving, Starting
  <2>3. CASE dt # Null
    <3>1. pc' = "vector" /\ line_size' = line_size \div 2
      BY <1>10, <2>3 DEF EndVector, MoreVectors
    <3>2. line_size # 1 /\ line_size > 0 /\ dt_s < dt_e
      BY <1>1, <2>1, <2>3 DEF Halving
    <3>3. line_size' > 0
      BY <1>1, <3>1, <3>2
    <3> QED BY <1>1, <2>1, <2>3, <3>1, <3>2, <3>3 DEF Halving, Starting, memory
  <2> QED BY <2>2, <2>3
<1>11. CASE UNCHANGED vars
  BY <1>1, <1>2, <1>11 DEF vars, Halving, Starting, list, input, memory, filling
<1> QED
  BY <1>4, <1>5, <1>6, <1>7, <1>8, <1>9, <1>10, <1>11 DEF Next, Ended

----------------------------------------------------------------------------
(* Sorting and writing *)

LongLongs == -LLONG_MAX - 1 .. LLONG_MAX

OutputType == [dev : Ints, inode : LongLongs, block : Ints, path : Seq(Bytes)]

Writing == pc \in {"write", "end", "done", "killed"}

\* After the merge there is one vector, whose entries are not before those
\* that have been written.
Sorting ==
  /\ output \in Seq(OutputType)
  /\ ~Writing => output = <<>>
  /\ pc \in {"update", "write"} => Len(file_desc_) <= 1
  /\ pc = "write" => \A v \in DOMAIN file_desc_ : \A k \in DOMAIN file_desc_[v] :
                        \A j \in DOMAIN output : output[j].block <= file_desc_[v][k].block
  /\ SortedByBlock

\* If a part of the last page is left, a NUL ends every string.
AllTerminated ==
  Len(file.text) % PageSize # 0 =>
    /\ pc # "killed"
    /\ \A j \in DOMAIN output : output[j].path # Unknown

\* The entry that is written next.
LEMMA EntryIs ==
  ASSUME PInv, NEW k \in First(Head(file_desc_)), file_desc_ # <<>>,
         NEW entry, entry = Head(file_desc_)[k]
  PROVE  /\ entry \in EntryType /\ entry = file_desc_[1][k]
         /\ 1 \in DOMAIN file_desc_ /\ k \in DOMAIN file_desc_[1]
         /\ file_desc_[1] \in Seq(EntryType)
         /\ \A j \in DOMAIN file_desc_[1] : entry.block <= file_desc_[1][j].block
         /\ StringAt(buf, entry.path) \in Seq(Bytes)
         /\ Printed(entry) \in OutputType /\ Printed(entry).block = entry.block
         /\ Printed(entry).path = StringAt(buf, entry.path)
         /\ Len(file.text) % PageSize # 0 => StringAt(buf, entry.path) # Unknown
<1>1. file_desc_ \in Seq(Seq(EntryType))
  BY DEF PInv, Types
<1>2. 1 \in DOMAIN file_desc_ /\ Head(file_desc_) = file_desc_[1]
  BY <1>1
<1>3. file_desc_[1] \in Seq(EntryType)
  BY <1>1, <1>2
<1>4. k \in DOMAIN file_desc_[1] /\ entry = file_desc_[1][k]
  BY <1>2 DEF First
<1>5. entry \in EntryType
  BY <1>3, <1>4
<1>6. \A j \in DOMAIN file_desc_[1] : entry.block <= file_desc_[1][j].block
  BY <1>2, <1>4 DEF First
<1>7. PICK n \in Nat : /\ DOMAIN buf = 0 .. n - 1 /\ blk_e <= n
                       /\ Len(file.text) % PageSize # 0 => blk_e < n
  BY BlockIs DEF PInv
<1>8. entry.path \in 0 .. n - 1 /\ entry.path < blk_e /\ blk_e \in Nat
  BY <1>5, <1>7, BlockIs DEF EntryType, PInv
<1>9. \A p \in DOMAIN buf : buf[p] \in Bytes
  BY DEF PInv, Block
<1>10. Len(file.text) % PageSize # 0 => \E p \in DOMAIN buf : p >= entry.path /\ buf[p] = NUL
  BY <1>7, <1>8, BlockIs DEF PInv
<1>11. /\ StringAt(buf, entry.path) \in Seq(Bytes)
       /\ Len(file.text) % PageSize # 0 => StringAt(buf, entry.path) # Unknown
  BY <1>7, <1>8, <1>9, <1>10, StringIs
<1>12. /\ Printed(entry) \in OutputType /\ Printed(entry).block = entry.block
       /\ Printed(entry).path = StringAt(buf, entry.path)
  <2>1. PICK inode : inode = Signed(entry.inode, LLONG_MAX)
    OBVIOUS
  <2>2. PICK path \in Seq(Bytes) : path = StringAt(buf, entry.path)
    BY <1>11
  <2>3. Printed(entry) = [entry EXCEPT !.inode = inode, !.path = path]
    BY <2>1, <2>2 DEF Printed
  <2>4. entry.inode \in Nat
    BY <1>5, FilesAssumption DEF EntryType, ULongs, ULONG_MAX
  <2>5. inode \in LongLongs
    BY <2>1, <2>4, SignedIs, TypesOfNumbers DEF LongLongs
  <2> QED BY <1>5, <2>2, <2>3, <2>5 DEF EntryType, OutputType
<1> QED BY <1>1, <1>2, <1>3, <1>4, <1>5, <1>6, <1>11, <1>12

LEMMA SortingNext ==
  ASSUME PInv, Sorting, [Next]_vars
  PROVE  Sorting'
<1>1. file_desc_ \in Seq(Seq(EntryType))
  BY DEF PInv, Types
<1>3. ASSUME Open \/ GetFullMap \/ Assign PROVE Sorting'
  BY <1>3 DEF Open, GetFullMap, Assign, NotLoaded, Sorting, Writing, SortedByBlock
<1>4. ASSUME \/ SkipField \/ ReadaheadFile \/ ReadaheadEnd \/ NewVector \/ FillNumber
             \/ FillPath \/ OutOfData \/ EndVector
      PROVE  Sorting'
  BY <1>4 DEF SkipField, ReadaheadFile, ReadaheadEnd, NewVector, FillNumber, FillPath,
     OutOfData, EndVector, AfterData, Sorting, Writing, SortedByBlock
<1>5. ASSUME Destroy \/ Fault PROVE Sorting'
  BY <1>5 DEF Destroy, Fault, Sorting, Writing, SortedByBlock
<1>6. ASSUME Merge PROVE Sorting'
  <2>1. ~Writing /\ ~Writing' /\ output' = output
    BY <1>6 DEF Merge, Writing
  <2>2. pc' = "update" => Len(file_desc_') <= 1
    BY <1>1, <1>6 DEF Merge
  <2>3. pc' \in {"merge", "update"}
    BY <1>6 DEF Merge
  <2> QED BY <2>1, <2>2, <2>3 DEF Sorting, SortedByBlock
<1>7. ASSUME UpdateBlock PROVE Sorting'
  <2>1. output' = <<>> /\ pc' = "write" /\ Len(file_desc_) <= 1 /\ output = <<>>
    BY <1>7 DEF UpdateBlock, Sorting, Writing
  <2>2. Len(file_desc_') <= 1
    <3>1. file_desc_' \in Seq(Seq(EntryType))
      BY EntriesNext
    <3>2. DOMAIN file_desc_' = DOMAIN file_desc_
      BY <1>7 DEF UpdateBlock
    <3> QED BY <1>1, <2>1, <3>1, <3>2
  <2> QED BY <2>1, <2>2 DEF Sorting, Writing, SortedByBlock
<1>8. ASSUME WriteEntry PROVE Sorting'
  <2>1. PICK k \in First(Head(file_desc_)) :
          /\ file_desc_ # <<>> /\ pc = "write" /\ pc' = "write"
          /\ output' = Append(output, Printed(Head(file_desc_)[k]))
          /\ file_desc_' = <<RemoveAt(Head(file_desc_), k)>> \o Tail(file_desc_)
    BY <1>8 DEF WriteEntry
  <2> DEFINE entry == Head(file_desc_)[k]
             line == Printed(entry)
  <2>2. /\ entry \in EntryType /\ entry = file_desc_[1][k]
        /\ 1 \in DOMAIN file_desc_ /\ k \in DOMAIN file_desc_[1]
        /\ file_desc_[1] \in Seq(EntryType)
        /\ \A j \in DOMAIN file_desc_[1] : entry.block <= file_desc_[1][j].block
        /\ line \in OutputType /\ line.block = entry.block
    BY <2>1, EntryIs
  <2>3. output' = Append(output, line)
    BY <2>1
  <2> HIDE DEF entry, line
  <2>4. entry.block \in Int /\ line \in OutputType /\ line.block = entry.block
    BY <2>2, TypesOfNumbers DEF EntryType
  <2>5. output \in Seq(OutputType) /\ \A j \in DOMAIN output : output[j].block \in Int
    <3>1. output \in Seq(OutputType)
      BY DEF Sorting
    <3>2. \A j \in DOMAIN output : output[j] \in OutputType
      BY <3>1
    <3> QED BY <3>1, <3>2, TypesOfNumbers DEF OutputType
  <2>6. \A j \in DOMAIN output : output[j].block <= line.block
    BY <2>1, <2>2, <2>4 DEF Sorting
  <2>7. /\ output' \in Seq(OutputType)
        /\ DOMAIN output' = 1 .. Len(output) + 1 /\ DOMAIN output = 1 .. Len(output)
        /\ Len(output) \in Nat
        /\ output'[Len(output) + 1] = line
        /\ \A j \in 1 .. Len(output) : output'[j] = output[j]
    BY <2>4, <2>3, <2>5
  <2>8. ASSUME NEW i \in DOMAIN output', NEW j \in DOMAIN output', i < j
        PROVE  output'[i].block <= output'[j].block
    <3>1. CASE j = Len(output) + 1
      BY <2>6, <2>7, <2>8, <3>1
    <3>2. CASE j # Len(output) + 1
      <4>1. i \in DOMAIN output /\ j \in DOMAIN output
        BY <2>7, <2>8, <3>2
      <4> QED BY <2>7, <2>8, <4>1 DEF Sorting, SortedByBlock
    <3> QED BY <3>1, <3>2
  <2> DEFINE rest == RemoveAt(Head(file_desc_), k)
  <2>9. rest \in Seq(EntryType) /\ \A j \in DOMAIN rest : \E i \in DOMAIN file_desc_[1] :
                                       rest[j] = file_desc_[1][i]
    <3>1. Head(file_desc_) = file_desc_[1]
      BY <1>1, <2>1
    <3> QED BY <2>2, <3>1, RemoveAtIs
  <2> HIDE DEF rest
  <2>10. file_desc_' = <<rest>>
    <3>1. Tail(file_desc_) = <<>>
      <4>1. Len(file_desc_) <= 1
        BY <2>1 DEF Sorting
      <4>2. Tail(file_desc_) \in Seq(Seq(EntryType)) /\ Len(Tail(file_desc_)) = Len(file_desc_) - 1
        BY <1>1, <2>1, TailIs
      <4>3. Len(file_desc_) \in Nat
        BY <1>1
      <4> QED BY <4>1, <4>2, <4>3, NotEmpty
    <3>2. file_desc_' = <<rest>> \o <<>>
      BY <2>1, <3>1 DEF rest
    <3>3. <<rest>> \in Seq(Seq(EntryType))
      BY <2>9
    <3> QED BY <3>2, <3>3, ConcatEmptySeq
  <2>11. /\ DOMAIN file_desc_' = {1} /\ file_desc_'[1] = rest /\ Len(file_desc_') <= 1
    BY <2>10
  <2>12. ASSUME NEW i \in DOMAIN rest, NEW j \in DOMAIN output'
         PROVE  output'[j].block <= rest[i].block
    <3>1. PICK m \in DOMAIN file_desc_[1] : rest[i] = file_desc_[1][m]
      BY <2>9
    <3>2. CASE j = Len(output) + 1
      BY <2>2, <2>4, <2>7, <3>1, <3>2
    <3>3. CASE j # Len(output) + 1
      <4>1. j \in DOMAIN output /\ output'[j] = output[j]
        BY <2>7, <3>3
      <4> QED BY <2>1, <2>2, <3>1, <4>1 DEF Sorting
    <3> QED BY <3>2, <3>3
  <2>13. SortedByBlock'
    BY <2>8 DEF SortedByBlock
  <2> QED BY <2>1, <2>7, <2>11, <2>12, <2>13 DEF Sorting, Writing
<1>9. ASSUME NextVector PROVE Sorting'
  <2>1. pc = "write" /\ output' = output /\ pc' \in {"write", "end"}
    BY <1>9 DEF NextVector
  <2>2. CASE file_desc_ = <<>>
    BY <1>9, <2>1, <2>2 DEF NextVector, Sorting, Writing, SortedByBlock
  <2>3. CASE file_desc_ # <<>>
    <3>1. file_desc_' = Tail(file_desc_) /\ Len(file_desc_) <= 1
      BY <1>9, <2>1, <2>3 DEF NextVector, Sorting
    <3>2. file_desc_' \in Seq(Seq(EntryType)) /\ Len(file_desc_') = Len(file_desc_) - 1
      BY <1>1, <2>3, <3>1, TailIs
    <3>3. Len(file_desc_') <= 1 /\ DOMAIN file_desc_' = {}
      BY <1>1, <3>1, <3>2
    <3> QED BY <2>1, <3>3 DEF Sorting, Writing, SortedByBlock
  <2> QED BY <2>2, <2>3
<1>10. CASE UNCHANGED vars
  BY <1>10 DEF vars, Sorting, Writing, SortedByBlock
<1> QED
  BY <1>3, <1>4, <1>5, <1>6, <1>7, <1>8, <1>9, <1>10 DEF Next, Ended

LEMMA AllTerminatedNext ==
  ASSUME PInv, Sorting, AllTerminated, [Next]_vars
  PROVE  AllTerminated'
<1>1. UNCHANGED file
  BY Advances
<1> SUFFICES ASSUME Len(file.text) % PageSize # 0
             PROVE  /\ pc' # "killed"
                    /\ \A j \in DOMAIN output' : output'[j].path # Unknown
  BY <1>1 DEF AllTerminated
<1>2. pc # "killed" /\ \A j \in DOMAIN output : output[j].path # Unknown
  BY DEF AllTerminated
<1>3. ASSUME Fault PROVE FALSE
  <2>1. CASE pc = "fill"
    <3>1. /\ Field.token \in 0 .. blk_e - 1
          /\ \A a \in DOMAIN buf : a >= DigitsAt(Field.buf, Field.token) =>
                                    Field.buf[a] \in DOMAIN DigitValue
      BY <1>3, <2>1, FieldIsInBlock DEF Fault, ReadsBehindMapping, PInv
    <3>2. blk_e \in DOMAIN buf /\ blk_e >= DigitsAt(Field.buf, Field.token)
      BY <3>1, BlockIs DEF PInv, DigitsAt
    <3>3. Field.buf[blk_e] = NUL
      BY <3>2, BlockIs, FieldIsInBlock DEF PInv
    <3> QED BY <3>1, <3>2, <3>3, DigitsHaveValues
  <2>2. CASE pc # "fill"
    <3>1. file_desc_ # <<>> /\ \E k \in First(Head(file_desc_)) :
            StringAt(buf, Head(file_desc_)[k].path) = Unknown
      BY <1>3, <2>2 DEF Fault, ReadsBehindMapping
    <3> QED BY <3>1, EntryIs
  <2> QED BY <2>1, <2>2
<1>4. ASSUME WriteEntry
      PROVE  \A j \in DOMAIN output' : output'[j].path # Unknown
  <2>1. PICK k \in First(Head(file_desc_)) :
          /\ file_desc_ # <<>>
          /\ output' = Append(output, Printed(Head(file_desc_)[k]))
    BY <1>4 DEF WriteEntry
  <2> DEFINE entry == Head(file_desc_)[k]
             line == Printed(entry)
  <2>2. line.path # Unknown
    BY <2>1, EntryIs
  <2>3. output' = Append(output, line)
    BY <2>1
  <2> HIDE DEF line
  <2>4. output \in Seq(OutputType)
    BY DEF Sorting
  <2> QED BY <1>2, <2>3, <2>2, <2>4
<1>5. CASE UNCHANGED output /\ pc' # "killed"
  BY <1>2, <1>5
<1> QED
  BY <1>2, <1>3, <1>4, <1>5
     DEF Next, vars, Open, GetFullMap, Assign, Destroy, SkipField, ReadaheadFile,
         ReadaheadEnd, NewVector, FillNumber, FillPath, OutOfData, EndVector, Merge,
         UpdateBlock, WriteEntry, NextVector, Ended, NotLoaded, AfterData

----------------------------------------------------------------------------
(* Theorems *)

\* The inductive invariant of the parser: its pointers, the types of what it
\* stores, the owner of the mapping and the length of lines it assumes.
THEOREM PreloadInvariant == Spec => []PInv
<1>1. Init => PInv
  BY PInvInit
<1>2. PInv /\ [Next]_vars => PInv'
  BY BlockNext, TypesNext, OwningNext, HalvingNext DEF PInv
<1> QED BY <1>1, <1>2, PTL DEF Spec

\* No token of any list, whatever bytes it holds, lies outside of the list, and
\* nothing behind its end is overwritten.
THEOREM PreloadStaysInBlock == Spec => []StaysInBlock
<1>1. PInv => StaysInBlock
  BY DEF PInv, Block
<1> QED BY <1>1, PreloadInvariant, PTL

\* Entries point into the list, and each number in them is one of its field's
\* type, whatever the list has in its place: digits without end, a sign, none.
THEOREM PreloadTypes == Spec => []TypeOK
<1>1. ASSUME PInv PROVE TypeOK
  <2>1. blk_e \in Nat /\ blk_e - 1 \in DOMAIN buf \cup {-1}
    BY <1>1, BlockIs DEF PInv
  <2>2. ASSUME NEW v \in DOMAIN file_desc_, NEW k \in DOMAIN file_desc_[v]
        PROVE  file_desc_[v][k] \in [dev : Ints, inode : ULongs, block : Ints,
                                      path : 0 .. blk_e - 1]
    <3>1. file_desc_[v] \in Seq(EntryType)
      BY <1>1 DEF PInv, Types
    <3>2. file_desc_[v][k] \in EntryType
      BY <3>1
    <3> QED BY <3>2 DEF EntryType
  <2>3. file \in Files /\ owners \subseteq {"m", "temporary"}
    BY <1>1 DEF PInv, Block, Owning
  <2> QED BY <1>1, <2>1, <2>2, <2>3 DEF PInv, Types, TypeOK
<1> QED BY <1>1, PreloadInvariant, PTL

\* The length of a line that is assumed is never halved to 0: a vector for
\* lines of one byte has room for more entries than the rest of the list.
THEOREM PreloadNeverDividesByZero == Spec => []NeverDividesByZero
<1>1. PInv => NeverDividesByZero
  BY DEF PInv, Halving, NeverDividesByZero
<1> QED BY <1>1, PreloadInvariant, PTL

\* The list stays mapped as long as an entry points into it, and is unmapped
\* and closed in the end.
THEOREM PreloadMappedWhileUsed == Spec => []MappedWhileUsed
<1>1. ASSUME PInv PROVE MappedWhileUsed
  <2>1. file_desc_ = <<>> => Slots = {}
    BY DEF Slots
  <2>2. owners # {} /\ ~Starting => owners = {"m"}
    BY <1>1 DEF PInv, Owning, Starting
  <2> QED BY <1>1, <2>1, <2>2 DEF PInv, Owning, MappedWhileUsed, Loaded
<1> QED BY <1>1, PreloadInvariant, PTL

\* After the merge there is a single vector, and the lines come out of it in
\* the order of their blocks.
THEOREM PreloadSorting == Spec => []Sorting
<1>1. Init => Sorting
  BY DEF Init, Sorting, Writing, SortedByBlock
<1>2. PInv /\ Sorting /\ [Next]_vars => Sorting'
  BY SortingNext
<1> QED BY <1>1, <1>2, PreloadInvariant, PTL DEF Spec

\* The list is written sorted, however many vectors it was read into and
\* whatever blocks FIBMAP reports.
THEOREM PreloadSorted == Spec => []SortedByBlock
<1>1. Sorting => SortedByBlock
  BY DEF Sorting
<1> QED BY <1>1, PreloadSorting, PTL

\* Unless the list is as long as whole pages, the NULs that fill the last page
\* end every number and every path that is read: the program is never killed.
THEOREM PreloadTerminated == Spec => []AllTerminated
<1>1. Init => AllTerminated
  BY DEF Init, AllTerminated
<1>2. PInv /\ Sorting /\ AllTerminated /\ [Next]_vars => AllTerminated'
  BY AllTerminatedNext
<1> QED BY <1>1, <1>2, PreloadInvariant, PreloadSorting, PTL DEF Spec
=============================================================================
