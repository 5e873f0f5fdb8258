------------------------- MODULE PreloadListProofs -------------------------
(***************************************************************************)
(* Proofs that the parser of preload lists finds every line of a list, and *)
(* that the boot program reads each of them ahead and sorting keeps each,  *)
(* for every list that holds nothing but its lines: any number of lines,   *)
(* of any length, with any blanks between their fields.                    *)
(***************************************************************************)
EXTENDS PreloadProofs

----------------------------------------------------------------------------
(* The lines of a list *)

\* The lists that are said to list something hold nothing but that.
AllDescribed == \A f \in Files : f.lines # <<>> => \E at : Describes(f, at)

N == Len(file.lines)
At == CHOOSE at : Describes(file, at)

\* Where field i of line k begins and ends, and where it is looked for.
From(i, k) == IF i = 1 THEN At[k].dev ELSE IF i = 2 THEN At[k].inode ELSE At[k].path
To(i, k) == IF i = 1 THEN At[k].dev_end ELSE IF i = 2 THEN At[k].inode_end ELSE At[k].end
Look(i, k) == IF i = 1 THEN Behind(At, k - 1) ELSE To(i - 1, k) + 1
Delimiter(i) == IF i < 3 THEN Space ELSE "\n"

LEMMA ListIs ==
  ASSUME AllDescribed, file \in Files, file.lines # <<>>
  PROVE  /\ Describes(file, At)
         /\ N \in Nat \ {0} /\ DOMAIN file.lines = 1 .. N /\ DOMAIN At = 1 .. N
         /\ file.text \in Seq(STRING) /\ blk_e = Len(file.text) /\ blk_e \in Nat
<1>1. Describes(file, At)
  BY DEF AllDescribed, At
<1>2. file.lines \in Seq([dev : Nat, inode : Nat, path : Seq(STRING)])
  BY FilesAssumption
<1>3. N \in Nat \ {0} /\ DOMAIN file.lines = 1 .. N
  BY <1>2 DEF N
<1>4. DOMAIN At = 1 .. N
  BY <1>1, <1>3 DEF Describes
<1>5. file.text \in Seq(STRING) /\ blk_e = Len(file.text) /\ blk_e \in Nat
  BY FilesAssumption DEF blk_e
<1> QED BY <1>1, <1>3, <1>4, <1>5

\* A digit is neither a blank nor a sign.
LEMMA DigitsAreNoBlanks ==
  \A d \in DOMAIN DigitValue : ~Blank(d) /\ d \notin Signs
<1>1. DOMAIN DigitValue = Range(Digits)
  BY DEF DigitValue
<1>2. ASSUME NEW n \in 1 .. 10, Digits[n] \in Range(Digits)
      PROVE  ~Blank(Digits[n]) /\ Digits[n] \notin Signs
  <2>1. \A d \in {"0", "1", "2", "3", "4", "5", "6", "7", "8", "9"} :
          d # Space /\ d \notin Signs
    BY Zenon DEF Space, Signs
  <2>2. Digits[n] \in {"0", "1", "2", "3", "4", "5", "6", "7", "8", "9"}
    BY DEF Digits
  <2>3. Digits[n] # "\n" /\ Digits[n] # NUL
    BY DEF Digits, NUL
  <2>4. Digits[n] \notin Control
    BY <1>2, BytesAssumption
  <2> QED BY <2>1, <2>2, <2>3, <2>4 DEF Blank
<1>3. DOMAIN Digits = 1 .. 10
  BY DEF Digits
<1>4. \A d \in Range(Digits) : ~Blank(d) /\ d \notin Signs
  BY <1>2, <1>3 DEF Range
<1> QED BY <1>1, <1>4

\* Field i is looked for from l on, begins at f and ends at t.
IsField(i, l, f, t) ==
  /\ l \in Nat /\ f \in Nat /\ t \in Nat
  /\ l <= f /\ f < t /\ t < blk_e
  /\ \A a \in l .. f - 1 : Blank(file.text[a + 1])
  /\ ~Blank(file.text[f + 1])
  /\ \A a \in f .. t - 1 : /\ file.text[a + 1] \notin {Delimiter(i), NUL}
                           /\ i < 3 => file.text[a + 1] \in DOMAIN DigitValue
  /\ file.text[t + 1] = Delimiter(i)

\* A field begins behind the one before it, after nothing but blanks; its
\* delimiter is the first one.
LEMMA FieldsAre ==
  ASSUME AllDescribed, file \in Files, file.lines # <<>>,
         NEW k \in 1 .. N, NEW i \in 1 .. 3
  PROVE  IsField(i, Look(i, k), From(i, k), To(i, k))
<1> DEFINE p == At[k]
<1>0. /\ Describes(file, At) /\ k \in DOMAIN At /\ blk_e = Len(file.text) /\ blk_e \in Nat
      /\ k - 1 \in Nat /\ (k # 1 => k - 1 \in DOMAIN At)
  BY ListIs
<1>1. /\ {p.dev, p.dev_end, p.inode, p.inode_end, p.path, p.end} \subseteq Nat
      /\ Behind(At, k - 1) <= p.dev /\ AllBlank(file.text, Behind(At, k - 1), p.dev)
      /\ IsNumber(file.text, p.dev, p.dev_end)
      /\ p.dev_end < p.inode /\ AllBlank(file.text, p.dev_end, p.inode)
      /\ IsNumber(file.text, p.inode, p.inode_end)
      /\ p.inode_end < p.path /\ AllBlank(file.text, p.inode_end, p.path)
      /\ IsPath(file.text, p.path, p.end) /\ p.end < blk_e
  BY <1>0 DEF Describes
<1>2. Behind(At, k - 1) \in Nat
  <2>1. k # 1 => At[k - 1].end \in Nat
    BY <1>0 DEF Describes
  <2> QED BY <1>0, <2>1 DEF Behind
<1> HIDE DEF p
<1>3. ASSUME NEW d \in DOMAIN DigitValue PROVE ~Blank(d) /\ d \notin {Space, NUL}
  BY DigitsAreNoBlanks DEF Blank
<1>4. /\ p.dev \in Nat /\ p.dev_end \in Nat /\ p.inode \in Nat /\ p.inode_end \in Nat
      /\ p.path \in Nat /\ p.end \in Nat
      /\ p.dev < p.dev_end /\ p.inode < p.inode_end /\ p.path < p.end
  BY <1>1 DEF IsNumber, IsPath
<1>5. ASSUME NEW n \in {1, 2}, NEW l \in Nat, NEW f \in Nat, NEW t \in Nat, l <= f,
             AllBlank(file.text, l, f), IsNumber(file.text, f, t), t < blk_e
      PROVE  IsField(n, l, f, t)
  <2>1. f < t /\ file.text[t + 1] = Space
    BY <1>5 DEF IsNumber
  <2>2. \A a \in l .. f - 1 : Blank(file.text[a + 1])
    BY <1>5 DEF AllBlank
  <2>3. ASSUME NEW a \in f .. t - 1
        PROVE  /\ file.text[a + 1] \in DOMAIN DigitValue
               /\ ~Blank(file.text[a + 1]) /\ file.text[a + 1] \notin {Space, NUL}
    BY <1>3, <1>5 DEF IsNumber
  <2>4. f \in f .. t - 1
    BY <2>1
  <2>5. Delimiter(n) = Space
    BY DEF Delimiter
  <2> QED BY <1>5, <2>1, <2>2, <2>3, <2>4, <2>5 DEF IsField
<1>6. ASSUME NEW l \in Nat, NEW f \in Nat, AllBlank(file.text, l, f), l < f
      PROVE  AllBlank(file.text, l + 1, f) /\ l + 1 \in Nat /\ l + 1 <= f
  BY <1>6 DEF AllBlank
<1>7. CASE i = 1
  <2>1. Look(i, k) = Behind(At, k - 1) /\ From(i, k) = p.dev /\ To(i, k) = p.dev_end
    BY <1>7 DEF Look, From, To, p
  <2>2. p.dev_end < blk_e
    BY <1>0, <1>1, <1>4
  <2> QED BY <1>1, <1>2, <1>4, <1>5, <1>7, <2>1, <2>2
<1>8. CASE i = 2
  <2>1. Look(i, k) = p.dev_end + 1 /\ From(i, k) = p.inode /\ To(i, k) = p.inode_end
    BY <1>8 DEF Look, From, To, p
  <2>2. p.inode_end < blk_e
    BY <1>0, <1>1, <1>4
  <2> QED BY <1>1, <1>4, <1>5, <1>6, <1>8, <2>1, <2>2
<1>9. CASE i = 3
  <2>1. Look(i, k) = p.inode_end + 1 /\ From(i, k) = p.path /\ To(i, k) = p.end
    BY <1>9 DEF Look, From, To, p
  <2>2. AllBlank(file.text, p.inode_end + 1, p.path) /\ p.inode_end + 1 \in Nat
    BY <1>1, <1>4, <1>6
  <2>3. IsField(3, p.inode_end + 1, p.path, p.end)
    <3>1. Delimiter(3) = "\n"
      BY DEF Delimiter
    <3> QED BY <1>0, <1>1, <1>4, <2>2, <3>1 DEF IsField, IsPath, AllBlank
  <2> QED BY <1>9, <2>1, <2>3
<1> QED BY <1>7, <1>8, <1>9

----------------------------------------------------------------------------
(* The next token of a text *)

LEMMA FindIs ==
  ASSUME Block, NEW a \in 0 .. blk_e, NEW stop, NEW p \in a .. blk_e,
         p = blk_e \/ buf[p] \in stop, \A q \in a .. p - 1 : buf[q] \notin stop
  PROVE  Find(a, stop) = p
<1>1. ASSUME NEW r \in a .. blk_e, r = blk_e \/ buf[r] \in stop,
             \A q \in a .. r - 1 : buf[q] \notin stop
      PROVE  r = p
  BY <1>1, BlockIs
<1> QED BY <1>1 DEF Find

\* What is left of the text has not been touched.
Untouched == \A a \in dt_e .. blk_e - 1 : buf[a] = file.text[a + 1]

LEMMA TokenIs ==
  ASSUME Block, Untouched, NEW i \in 1 .. 3, NEW t, NEW e, IsField(i, dt_e, t, e)
  PROVE  NextToken(Delimiter(i)) =
           [buf |-> [buf EXCEPT ![e] = NUL], dt_s |-> t, dt_e |-> e + 1, token |-> t]
<1> DEFINE stop == {c \in ToSet(file.text) : ~Blank(c)}
<1>1. /\ blk_e \in Nat /\ dt_e \in 0 .. blk_e /\ t \in dt_e .. blk_e /\ e \in t .. blk_e
      /\ file.text \in Seq(STRING) /\ blk_e = Len(file.text) /\ t \in 0 .. blk_e
      /\ t # blk_e /\ e # blk_e
  BY BlockIs, FilesAssumption DEF blk_e, Block, IsField
<1>2. t + 1 \in DOMAIN file.text
  BY <1>1
<1>3. file.text[t + 1] \in ToSet(file.text)
  BY <1>2 DEF ToSet
<1>4. \A a \in dt_e .. blk_e - 1 : buf[a] = file.text[a + 1]
  BY DEF Untouched
<1>5. buf[t] \in stop
  BY <1>1, <1>3, <1>4 DEF IsField
<1>6. \A q \in dt_e .. t - 1 : buf[q] \notin stop
  BY <1>1, <1>4 DEF IsField
<1> HIDE DEF stop
<1>7. Find(dt_e, stop) = t
  BY <1>1, <1>5, <1>6, FindIs
<1>8. Find(t, {Delimiter(i)}) = e
  <2>1. ASSUME NEW q \in t .. e - 1 PROVE buf[q] \notin {Delimiter(i)}
    <3>1. buf[q] = file.text[q + 1]
      BY <1>1, <1>4
    <3>2. file.text[q + 1] \notin {Delimiter(i), NUL}
      BY DEF IsField
    <3> QED BY <3>1, <3>2
  <2>2. buf[e] \in {Delimiter(i)}
    BY <1>1, <1>4 DEF IsField
  <2> QED BY <1>1, <2>1, <2>2, FindIs
<1> QED BY <1>1, <1>7, <1>8 DEF NextToken, Terminated, stop

LEMMA NoTokenIs ==
  ASSUME Block, Untouched, NEW delimiter,
         \A a \in dt_e .. blk_e - 1 : Blank(file.text[a + 1])
  PROVE  NextToken(delimiter) =
           [buf |-> buf, dt_s |-> blk_e, dt_e |-> dt_e, token |-> Null]
<1> DEFINE stop == {c \in ToSet(file.text) : ~Blank(c)}
<1>1. blk_e \in Nat /\ dt_e \in 0 .. blk_e /\ blk_e \in dt_e .. blk_e
  BY BlockIs
<1>2. \A q \in dt_e .. blk_e - 1 : buf[q] \notin stop
  BY DEF Untouched
<1> HIDE DEF stop
<1>3. Find(dt_e, stop) = blk_e
  BY <1>1, <1>2, FindIs
<1> QED BY <1>3 DEF NextToken, stop
----------------------------------------------------------------------------
(* Reading the lines *)

\* The paths of the first m lines are in the buffer, ended by NULs.
PathsKept(m) ==
  \A k \in 1 .. m : /\ \A a \in At[k].path .. At[k].end - 1 : buf[a] = file.text[a + 1]
                    /\ buf[At[k].end] = NUL

\* The first m lines have been read, and the fields before the one at hand.
Parsed(m) ==
  /\ m \in 0 .. N
  /\ m = N => field = 1
  /\ dt_e = Look(field, m + 1)
  /\ Untouched
  /\ PathsKept(m)
  /\ \A k \in 1 .. m : At[k].end < dt_e

LEMMA ParsedInit ==
  ASSUME Block, dt_e = 0, field = 1, buf = Mapped(file),
         AllDescribed, file.lines # <<>>
  PROVE  Parsed(0)
<1>1. N \in Nat \ {0} /\ file \in Files
  BY ListIs DEF Block
<1>2. Look(1, 1) = 0
  BY DEF Look, Behind
<1>3. 0 .. blk_e - 1 \subseteq DOMAIN buf /\ blk_e = Len(file.text)
  BY BlockIs DEF blk_e
<1>4. ASSUME NEW a \in 0 .. blk_e - 1 PROVE buf[a] = file.text[a + 1]
  BY <1>3, <1>4 DEF Mapped
<1> QED BY <1>1, <1>2, <1>4 DEF Parsed, Untouched, PathsKept

\* As long as there are lines left, the next field is found.
LEMMA FieldIs ==
  ASSUME AllDescribed, file.lines # <<>>, Block, field \in 1 .. 3, NEW m, Parsed(m), m < N
  PROVE  /\ IsField(field, dt_e, From(field, m + 1), To(field, m + 1))
         /\ Field = [buf |-> [buf EXCEPT ![To(field, m + 1)] = NUL],
                     dt_s |-> From(field, m + 1), dt_e |-> To(field, m + 1) + 1,
                     token |-> From(field, m + 1)]
<1>1. N \in Nat /\ m + 1 \in 1 .. N /\ file \in Files
  BY ListIs DEF Parsed, Block
<1>2. IsField(field, dt_e, From(field, m + 1), To(field, m + 1))
  BY <1>1, FieldsAre DEF Parsed
<1>3. Field = NextToken(Delimiter(field))
  BY Zenon DEF Field, Delimiter
<1> QED BY <1>2, <1>3, TokenIs DEF Parsed

\* After the last line nothing is found.
LEMMA NoFieldIs ==
  ASSUME AllDescribed, file.lines # <<>>, Block, Parsed(N)
  PROVE  Field.token = Null /\ Field.buf = buf /\ Field.dt_e = dt_e
<1>1. N \in Nat /\ file \in Files /\ Describes(file, At) /\ blk_e = Len(file.text)
  BY ListIs DEF Parsed, Block
<1>2. dt_e = Behind(At, N)
  <2>1. field = 1 /\ dt_e = Look(1, N + 1) /\ (N + 1) - 1 = N
    BY <1>1 DEF Parsed
  <2> QED BY <2>1 DEF Look
<1>3. \A a \in dt_e .. blk_e - 1 : Blank(file.text[a + 1])
  BY <1>1, <1>2 DEF Describes, AllBlank, N
<1>4. Field = NextToken(Delimiter(field))
  BY Zenon DEF Field, Delimiter
<1>5. Field = [buf |-> buf, dt_s |-> blk_e, dt_e |-> dt_e, token |-> Null]
  BY <1>3, <1>4, NoTokenIs DEF Parsed
<1> QED BY <1>5

LEMMA SameList ==
  ASSUME file' = file
  PROVE  /\ At' = At /\ N' = N /\ blk_e' = blk_e
         /\ \A i, k : Look(i, k)' = Look(i, k)
<1>1. At' = At /\ N' = N /\ blk_e' = blk_e
  BY DEF At, N, blk_e
<1> QED BY <1>1 DEF Look, To, Behind

\* Where the lines stand after the next field.
LEMMA ParsedNext ==
  ASSUME AllDescribed, file.lines # <<>>, Block, field \in 1 .. 3, NEW m, Parsed(m),
         GotField, field' = (IF field < 3 THEN field + 1 ELSE 1), file' = file,
         NEW n, n = (IF field < 3 THEN m ELSE m + 1)
  PROVE  m < N /\ Parsed(n)'
<1>1. N \in Nat /\ m \in 0 .. N
  BY ListIs DEF Parsed, Block
<1>2. m < N
  BY <1>1, NoFieldIs DEF GotField
<1> DEFINE t == From(field, m + 1)
           e == To(field, m + 1)
<1>3. /\ IsField(field, dt_e, t, e)
      /\ buf' = [buf EXCEPT ![e] = NUL] /\ dt_e' = e + 1
  BY <1>2, FieldIs DEF GotField, Advance
<1>4. /\ t \in Nat /\ e \in Nat /\ dt_e \in Nat /\ blk_e \in Nat
      /\ dt_e <= t /\ t < e /\ e < blk_e /\ e \in DOMAIN buf
      /\ 0 .. blk_e - 1 \subseteq DOMAIN buf
  BY <1>3, BlockIs DEF IsField
<1>5. dt_e' = Look(field', n + 1)
  <2>1. CASE field < 3
    <3>1. field' # 1 /\ field' - 1 = field
      BY <2>1
    <3> QED BY <1>3, <2>1, <3>1 DEF Look
  <2>2. CASE field = 3
    <3>1. (n + 1) - 1 = m + 1 /\ m + 1 # 0
      BY <1>1, <2>2
    <3> QED BY <1>3, <2>2, <3>1 DEF Look, To, Behind
  <2> QED BY <2>1, <2>2
<1>8. field = 3 => t = At[m + 1].path /\ e = At[m + 1].end
  BY DEF From, To
<1> HIDE DEF t, e
<1>6. \A a \in dt_e' .. blk_e - 1 : buf'[a] = file.text[a + 1]
  BY <1>3, <1>4 DEF Parsed, Untouched
<1>7. ASSUME NEW k \in 1 .. m
      PROVE  /\ \A a \in At[k].path .. At[k].end - 1 : buf'[a] = file.text[a + 1]
             /\ buf'[At[k].end] = NUL
             /\ At[k].end < dt_e'
  <2>1. At[k].path \in Nat /\ At[k].end \in Nat
    <3>1. file \in Files /\ k \in DOMAIN At
      BY <1>1, ListIs DEF Block
    <3> QED BY <3>1, ListIs DEF Describes
  <2>2. At[k].end < dt_e
    BY DEF Parsed
  <2>3. /\ \A a \in At[k].path .. At[k].end - 1 : buf[a] = file.text[a + 1]
        /\ buf[At[k].end] = NUL
    BY DEF Parsed, PathsKept
  <2> QED BY <1>3, <1>4, <2>1, <2>2, <2>3
<1>9. ASSUME field = 3
      PROVE  /\ \A a \in At[m + 1].path .. At[m + 1].end - 1 : buf'[a] = file.text[a + 1]
             /\ buf'[At[m + 1].end] = NUL
             /\ At[m + 1].end < dt_e'
  <2>1. \A a \in t .. e - 1 : buf[a] = file.text[a + 1]
    BY <1>4 DEF Parsed, Untouched
  <2> QED BY <1>3, <1>4, <1>8, <1>9, <2>1
<1>10. \A k \in 1 .. n :
        /\ \A a \in At[k].path .. At[k].end - 1 : buf'[a] = file.text[a + 1]
        /\ buf'[At[k].end] = NUL
        /\ At[k].end < dt_e'
  <2>1. CASE field < 3
    BY <1>7, <2>1
  <2>2. CASE field = 3
    <3>1. \A k \in 1 .. n : k \in 1 .. m \/ k = m + 1
      BY <1>1, <2>2
    <3> QED BY <1>7, <1>9, <2>2, <3>1
  <2> QED BY <2>1, <2>2
<1>11. n \in 0 .. N /\ (n = N => field' = 1)
  BY <1>1, <1>2
<1>12. /\ At' = At /\ N' = N /\ blk_e' = blk_e
       /\ Look(field, n + 1)' = Look(field', n + 1)
  BY SameList DEF Look, To, Behind
<1> QED
  BY <1>2, <1>5, <1>6, <1>10, <1>11, <1>12 DEF Parsed, Untouched, PathsKept

\* Without a token all lines have been read.
LEMMA AllRead ==
  ASSUME AllDescribed, file.lines # <<>>, Block, field \in 1 .. 3, NEW m, Parsed(m),
         NoField
  PROVE  m = N /\ field = 1 /\ buf' = buf /\ dt_e' = dt_e
<1>1. N \in Nat /\ m \in 0 .. N
  BY ListIs DEF Parsed, Block
<1>2. m = N
  <2>1. m < N => From(field, m + 1) \in Nat /\ Field.token = From(field, m + 1)
    BY FieldIs DEF IsField
  <2> QED BY <1>1, <2>1 DEF NoField, Null
<1> QED BY <1>2, NoFieldIs DEF NoField, Advance, Parsed

LEMMA ParsedStays ==
  ASSUME NEW m, Parsed(m), file' = file, buf' = buf, dt_e' = dt_e, field' = field
  PROVE  Parsed(m)'
<1>1. /\ At' = At /\ N' = N /\ blk_e' = blk_e
      /\ Look(field, m + 1)' = Look(field', m + 1)
  BY SameList DEF Look, To, Behind
<1> QED BY <1>1 DEF Parsed, Untouched, PathsKept

----------------------------------------------------------------------------
(* Fields in memory *)

LEMMA PieceIs ==
  ASSUME NEW text \in Seq(STRING), NEW i \in Nat, NEW j \in Nat, i < j, j <= Len(text)
  PROVE  Piece(text, i, j) = [n \in 1 .. j - i |-> text[i + n]]
<1> DEFINE s == Piece(text, i, j)
<1>1. i + 1 \in 1 .. Len(text) + 1 /\ j \in i + 1 - 1 .. Len(text)
  OBVIOUS
<1>2. /\ s \in Seq(STRING) /\ Len(s) = j - i
      /\ \A n \in 1 .. j - i : s[n] = text[i + n]
  <2>1. /\ s \in Seq(STRING) /\ Len(s) = j - (i + 1) + 1
        /\ \A n \in 1 .. j - (i + 1) + 1 : s[n] = text[i + 1 + n - 1]
    BY <1>1, SubSeqProperties DEF Piece
  <2>2. j - (i + 1) + 1 = j - i /\ \A n \in 1 .. j - i : i + 1 + n - 1 = i + n
    OBVIOUS
  <2> QED BY <2>1, <2>2
<1> HIDE DEF s
<1>3. s = [n \in 1 .. j - i |-> text[i + n]]
  BY <1>2
<1> QED BY <1>3 DEF s

\* A part of the text is still in memory, ended by a NUL.
Held(b, text, i, j) == b[j] = NUL /\ \A a \in i .. j - 1 : b[a] = text[a + 1]
WithoutNUL(text, i, j) == \A a \in i .. j - 1 : text[a + 1] # NUL
OfDigits(text, i, j) == \A a \in i .. j - 1 : text[a + 1] \in DOMAIN DigitValue

\* Then it is a string.
LEMMA StringIsPiece ==
  ASSUME NEW n \in Nat, NEW b, DOMAIN b = 0 .. n - 1, NEW text \in Seq(STRING),
         NEW i \in Nat, NEW j \in Nat, i < j, j < Len(text), j < n,
         Held(b, text, i, j), WithoutNUL(text, i, j)
  PROVE  StringAt(b, i) = Piece(text, i, j) /\ StringAt(b, i) # Unknown
<1> DEFINE end == CHOOSE p \in DOMAIN b : /\ p >= i /\ b[p] = NUL
                                         /\ \A q \in i .. p - 1 : b[q] # NUL
<1>1. j \in DOMAIN b /\ j >= i /\ b[j] = NUL /\ \A q \in i .. j - 1 : b[q] # NUL
  BY DEF Held, WithoutNUL
<1>2. \A p \in DOMAIN b : p >= i /\ b[p] = NUL /\ (\A q \in i .. p - 1 : b[q] # NUL) => p = j
  BY <1>1
<1>3. end = j
  BY <1>1, <1>2
<1>4. ~ \A p \in i .. Cardinality(DOMAIN b) - 1 : b[p] # NUL
  <2>1. Cardinality(DOMAIN b) = n
    BY MemorySize
  <2>2. j \in i .. n - 1
    OBVIOUS
  <2> QED BY <1>1, <2>1, <2>2
<1> HIDE DEF end
<1>5. StringAt(b, i) = [k \in 1 .. j - i |-> b[i + k - 1]]
  BY <1>3, <1>4 DEF StringAt, end
<1>6. ASSUME NEW k \in 1 .. j - i PROVE b[i + k - 1] = text[i + k] /\ text[i + k] # NUL
  <2>1. i + k - 1 \in i .. j - 1 /\ (i + k - 1) + 1 = i + k
    OBVIOUS
  <2> QED BY <2>1 DEF Held, WithoutNUL
<1>7. StringAt(b, i) = [k \in 1 .. j - i |-> text[i + k]]
  BY <1>5, <1>6
<1>8. StringAt(b, i) # Unknown
  <2>1. 1 \in 1 .. j - i
    OBVIOUS
  <2>2. StringAt(b, i)[1] # NUL
    BY <1>6, <1>7, <2>1
  <2>3. Unknown[1] = NUL
    BY DEF Unknown
  <2> QED BY <2>2, <2>3
<1>9. Piece(text, i, j) = [k \in 1 .. j - i |-> text[i + k]]
  <2>1. j <= Len(text)
    OBVIOUS
  <2> QED BY <2>1, PieceIs
<1> QED BY <1>7, <1>8, <1>9

\* The recursion of Number.
Counting(u, digits) ==
  u = [n \in 0 .. Len(digits) |->
         IF n = 0 THEN 0 ELSE 10 * u[n - 1] + DigitValue[digits[n]]]

LEMMA NumberCounts ==
  ASSUME NEW digits \in Seq(STRING), \A n \in 1 .. Len(digits) : digits[n] \in DOMAIN DigitValue
  PROVE  \E u : Counting(u, digits) /\ Number(digits) = u[Len(digits)]
<1> DEFINE b == [a \in 0 .. Len(digits) - 1 |-> digits[a + 1]]
           len == Len(digits)
<1>1. len \in Nat
  OBVIOUS
<1>2. \A p \in 0 .. len - 1 : DigitValue[b[p]] \in Nat
  BY DigitsHaveValues
<1>3. \A p \in 1 .. len : b[p - 1] = digits[p]
  OBVIOUS
<1> HIDE DEF b
<1>4. PICK v \in [0 .. len -> Nat] : Recurrence(v, b, 0, len)
  <2>1. 0 \in Nat /\ 0 <= len
    BY <1>1
  <2> QED BY <1>1, <1>2, <2>1, RecurrenceHasSolution
<1>5. \A n \in 0 .. len : v[n] = IF n = 0 THEN 0 ELSE 10 * v[n - 1] + DigitValue[digits[n]]
  <2>1. \A n \in 0 .. len : v[n] = IF n = 0 THEN 0 ELSE 10 * v[n - 1] + DigitValue[b[n - 1]]
    BY <1>4 DEF Recurrence
  <2>2. ASSUME NEW n \in 0 .. len, n # 0 PROVE b[n - 1] = digits[n]
    BY <1>1, <1>3, <2>2
  <2> QED BY <2>1, <2>2
<1>6. Counting(v, digits)
  BY <1>5 DEF Counting
<1>7. Number(digits) = (CHOOSE u : Counting(u, digits))[Len(digits)]
  BY DEF Number, Counting
<1>8. Counting(CHOOSE u : Counting(u, digits), digits)
  BY <1>6
<1> QED BY <1>7, <1>8

\* Both recursions give the same number.
LEMMA CountsAgree ==
  ASSUME NEW i \in Nat, NEW j \in Nat, i <= j, NEW b, NEW v, Recurrence(v, b, i, j),
         NEW digits, Len(digits) = j - i, NEW u, Counting(u, digits),
         \A n \in 1 .. j - i : digits[n] = b[i + n - 1]
  PROVE  v[j] = u[j - i]
<1> DEFINE Bad == {n \in 0 .. j - i : v[i + n] # u[n]}
<1>1. Bad \in SUBSET Nat /\ \A n \in 0 .. j - i : n \in Bad <=> v[i + n] # u[n]
  OBVIOUS
<1>2. i + (j - i) = j /\ j - i \in 0 .. j - i
  OBVIOUS
<1> SUFFICES ASSUME Bad # {} PROVE FALSE
  BY <1>1, <1>2
<1>3. PICK n \in Bad : \A m \in Bad : n <= m
  BY <1>1, LeastNumber
<1>4. n \in 0 .. j - i /\ v[i + n] # u[n]
  BY <1>3
<1> HIDE DEF Bad
<1>5. \A p \in i .. j : v[p] = IF p = i THEN 0 ELSE 10 * v[p - 1] + DigitValue[b[p - 1]]
  BY DEF Recurrence
<1>6. \A m \in 0 .. j - i : u[m] = IF m = 0 THEN 0 ELSE 10 * u[m - 1] + DigitValue[digits[m]]
  BY DEF Counting
<1>7. n # 0
  <2>1. v[i] = 0 /\ u[0] = 0
    BY <1>5, <1>6
  <2> QED BY <1>4, <2>1
<1>8. /\ n - 1 \in 0 .. j - i /\ n - 1 \notin Bad
      /\ i + n \in i .. j /\ (i + n) - 1 = i + (n - 1) /\ i + n # i
  BY <1>3, <1>4, <1>7
<1>9. v[i + (n - 1)] = u[n - 1]
  BY <1>1, <1>8
<1>10. digits[n] = b[(i + n) - 1]
  BY <1>4, <1>7
<1>11. v[i + n] = 10 * v[(i + n) - 1] + DigitValue[b[(i + n) - 1]]
  BY <1>5, <1>8
<1>12. u[n] = 10 * u[n - 1] + DigitValue[digits[n]]
  BY <1>4, <1>6, <1>7
<1> QED BY <1>4, <1>8, <1>9, <1>10, <1>11, <1>12

\* The digits of the text are read, up to the NUL behind them.
LEMMA NumberIsPiece ==
  ASSUME NEW n \in Nat, NEW b, DOMAIN b = 0 .. n - 1, NEW text \in Seq(STRING),
         NEW i \in Nat, NEW j \in Nat, i < j, j < Len(text), j < n,
         Held(b, text, i, j), OfDigits(text, i, j)
  PROVE  Digital(b, i) = Number(Piece(text, i, j))
<1> DEFINE digits == Piece(text, i, j)
           end == CHOOSE p \in i .. Cardinality(DOMAIN b) :
                    /\ p \in DOMAIN b => b[p] \notin DOMAIN DigitValue
                    /\ \A q \in i .. p - 1 : b[q] \in DOMAIN DigitValue
           value == CHOOSE value : value = [p \in i .. end |->
                      IF p = i THEN 0 ELSE 10 * value[p - 1] + DigitValue[b[p - 1]]]
<1>1. /\ Cardinality(DOMAIN b) = n /\ j \in i .. n /\ b[j] \notin DOMAIN DigitValue
      /\ \A q \in i .. j - 1 : b[q] \in DOMAIN DigitValue
  BY MemorySize, DigitsHaveValues DEF Held, OfDigits
<1>2. ASSUME NEW p \in i .. n, p \in DOMAIN b => b[p] \notin DOMAIN DigitValue,
             \A q \in i .. p - 1 : b[q] \in DOMAIN DigitValue
      PROVE  p = j
  BY <1>1, <1>2
<1>3. end = j
  BY <1>1, <1>2
<1> HIDE DEF end
<1>4. \A q \in i .. j - 1 : DigitValue[b[q]] \in Nat
  BY <1>1, DigitsHaveValues
<1>5. \E v : Recurrence(v, b, i, j)
  <2>1. i <= j
    OBVIOUS
  <2> QED BY <1>4, <2>1, RecurrenceHasSolution
<1>6. value = CHOOSE v : Recurrence(v, b, i, end)
  BY DEF Recurrence
<1> HIDE DEF value
<1>7. Recurrence(value, b, i, j)
  BY <1>3, <1>5, <1>6
<1>8. Digital(b, i) = value[j]
  BY <1>3 DEF Digital, end, value
<1>9. digits = [m \in 1 .. j - i |-> text[i + m]]
  BY PieceIs
<1>10. j - i \in Nat /\ \A m \in 1 .. j - i : text[i + m] \in STRING
  OBVIOUS
<1> HIDE DEF digits
<1>11. digits \in Seq(STRING) /\ Len(digits) = j - i
  BY <1>9, <1>10
<1>12. ASSUME NEW m \in 1 .. j - i
       PROVE  digits[m] = b[i + m - 1] /\ digits[m] \in DOMAIN DigitValue
  <2>1. i + m - 1 \in i .. j - 1 /\ (i + m - 1) + 1 = i + m
    OBVIOUS
  <2> QED BY <1>9, <2>1 DEF Held, OfDigits
<1>13. PICK u : Counting(u, digits) /\ Number(digits) = u[Len(digits)]
  BY <1>11, <1>12, NumberCounts
<1>14. value[j] = u[j - i]
  <2>1. i <= j
    OBVIOUS
  <2> QED BY <1>7, <1>11, <1>12, <1>13, <2>1, CountsAgree
<1> QED BY <1>8, <1>11, <1>13, <1>14 DEF digits

\* strtoul returns a number that is not too large as it is.
LEMMA SmallNumberIs ==
  ASSUME NEW b, NEW a, b[a] \in DOMAIN DigitValue,
         NEW d \in Nat, d = Digital(b, a), d <= LLONG_MAX
  PROVE  StrToUL(b, a) = d
<1>1. b[a] \notin Signs /\ b[a] # "-"
  BY DigitsAreNoBlanks DEF Signs
<1>2. DigitsAt(b, a) = a
  BY <1>1 DEF DigitsAt
<1>3. LLONG_MAX \in Nat /\ ~(d > ULONG_MAX)
  BY TypesOfNumbers DEF ULONG_MAX
<1> QED BY <1>1, <1>2, <1>3 DEF StrToUL

\* The number of a line is in its field, if it fits.
HeldDev(line, dev) == line.dev <= INT_MAX => dev = line.dev
HeldInode(line, inode) == line.inode <= LLONG_MAX => inode = line.inode

LEMMA ElementIs ==
  ASSUME NEW S, NEW s \in Seq(S), NEW k \in DOMAIN s
  PROVE  s[k] \in S
OBVIOUS

\* What Describes says of a line.
LEMMA LineIs ==
  ASSUME AllDescribed, file \in Files, file.lines # <<>>, NEW k \in 1 .. N
  PROVE  /\ file.lines[k] = [dev |-> Number(Piece(file.text, At[k].dev, At[k].dev_end)),
                             inode |-> Number(Piece(file.text, At[k].inode, At[k].inode_end)),
                             path |-> Piece(file.text, At[k].path, At[k].end)]
         /\ file.lines[k].path \in Seq(STRING)
         /\ file.lines[k].dev \in Nat /\ file.lines[k].inode \in Nat
         /\ At[k].path \in Nat /\ At[k].end \in Nat
         /\ At[k].path < At[k].end /\ At[k].end < blk_e
         /\ \A a \in At[k].path .. At[k].end - 1 : file.text[a + 1] # NUL
<1>1. Describes(file, At) /\ k \in DOMAIN At
  BY ListIs
<1>2. file.lines[k] = [dev |-> Number(Piece(file.text, At[k].dev, At[k].dev_end)),
                       inode |-> Number(Piece(file.text, At[k].inode, At[k].inode_end)),
                       path |-> Piece(file.text, At[k].path, At[k].end)]
  BY <1>1 DEF Describes
<1>3. IsField(3, Look(3, k), At[k].path, At[k].end)
  <2>1. From(3, k) = At[k].path /\ To(3, k) = At[k].end
    BY DEF From, To
  <2> QED BY <2>1, FieldsAre
<1>4. \A a \in At[k].path .. At[k].end - 1 : file.text[a + 1] # NUL
  BY <1>3 DEF IsField
<1>5. /\ file.lines[k].path \in Seq(STRING)
      /\ file.lines[k].dev \in Nat /\ file.lines[k].inode \in Nat
  <2>1. file.lines \in Seq([dev : Nat, inode : Nat, path : Seq(STRING)])
    BY FilesAssumption
  <2>2. k \in DOMAIN file.lines
    BY ListIs
  <2>3. file.lines[k] \in [dev : Nat, inode : Nat, path : Seq(STRING)]
    BY <2>1, <2>2, ElementIs, Zenon
  <2> QED BY <2>3
<1> QED BY <1>2, <1>3, <1>4, <1>5 DEF IsField

\* What is read at the field at hand: the numbers and the path of the line.
LEMMA FieldHolds ==
  ASSUME AllDescribed, file.lines # <<>>, Block, field \in 1 .. 3, NEW m, Parsed(m), m < N
  PROVE  /\ field = 1 => HeldDev(file.lines[m + 1], NumberRead)
         /\ field = 2 => HeldInode(file.lines[m + 1], NumberRead)
         /\ field = 3 => /\ Field.token = At[m + 1].path
                         /\ StringAt(Field.buf, Field.token) = file.lines[m + 1].path
         /\ \E a \in DOMAIN buf : a > Field.token /\ Field.buf[a] = NUL
<1> DEFINE t == From(field, m + 1)
           e == To(field, m + 1)
           b == Field.buf
<1>1. /\ IsField(field, dt_e, t, e)
      /\ b = [buf EXCEPT ![e] = NUL] /\ Field.token = t
  BY FieldIs
<1>2. PICK n \in Nat : DOMAIN buf = 0 .. n - 1 /\ blk_e <= n
  BY BlockIs
<1>3. /\ file \in Files /\ file.text \in Seq(STRING) /\ blk_e = Len(file.text)
      /\ blk_e \in Nat /\ dt_e \in Nat
  BY BlockIs, FilesAssumption DEF Block, blk_e
<1>4. m + 1 \in 1 .. N
  BY <1>3, ListIs DEF Parsed
<1>5. field = 1 => t = At[m + 1].dev /\ e = At[m + 1].dev_end
  BY DEF From, To
<1>6. field = 2 => t = At[m + 1].inode /\ e = At[m + 1].inode_end
  BY DEF From, To
<1>7. field = 3 => t = At[m + 1].path /\ e = At[m + 1].end
  BY DEF From, To
<1> HIDE DEF t, e, b
<1>8. /\ t \in Nat /\ e \in Nat /\ t < e /\ e < Len(file.text) /\ e < n
      /\ DOMAIN b = 0 .. n - 1 /\ b[e] = NUL
  BY <1>1, <1>2, <1>3 DEF IsField
<1>9. ASSUME NEW a \in t .. e - 1
      PROVE  /\ b[a] = file.text[a + 1] /\ file.text[a + 1] # NUL
             /\ field < 3 => file.text[a + 1] \in DOMAIN DigitValue
  <2>1. b[a] = buf[a]
    BY <1>1, <1>2, <1>3, <1>8
  <2>2. a \in dt_e .. blk_e - 1
    BY <1>1, <1>3 DEF IsField
  <2>3. buf[a] = file.text[a + 1]
    BY <2>2 DEF Parsed, Untouched
  <2> QED BY <1>1, <2>1, <2>3 DEF IsField
<1>10. field < 3 => /\ Digital(b, t) = Number(Piece(file.text, t, e))
                    /\ b[t] \in DOMAIN DigitValue
  <2> SUFFICES ASSUME field < 3
               PROVE  /\ Digital(b, t) = Number(Piece(file.text, t, e))
                      /\ b[t] \in DOMAIN DigitValue
    OBVIOUS
  <2>1. Held(b, file.text, t, e) /\ OfDigits(file.text, t, e)
    BY <1>8, <1>9 DEF Held, OfDigits
  <2>2. PICK text, i, j, c : text = file.text /\ i = t /\ j = e /\ c = b
    OBVIOUS
  <2>3. /\ i \in Nat /\ j \in Nat /\ i < j /\ j < Len(text) /\ j < n
        /\ DOMAIN c = 0 .. n - 1 /\ text \in Seq(STRING)
    BY <1>3, <1>8, <2>2
  <2>4. Held(c, text, i, j) /\ OfDigits(text, i, j)
    BY <2>1, <2>2
  <2>5. Digital(c, i) = Number(Piece(text, i, j))
    BY <2>3, <2>4, NumberIsPiece
  <2>6. b[t] \in DOMAIN DigitValue
    BY <1>8, <1>9
  <2> QED BY <2>2, <2>5, <2>6
<1>11. StringAt(b, t) = Piece(file.text, t, e)
  <2>1. Held(b, file.text, t, e) /\ WithoutNUL(file.text, t, e)
    BY <1>8, <1>9 DEF Held, WithoutNUL
  <2> QED BY <1>3, <1>8, <2>1, StringIsPiece
<1>12. file.lines[m + 1] =
         [dev |-> Number(Piece(file.text, At[m + 1].dev, At[m + 1].dev_end)),
          inode |-> Number(Piece(file.text, At[m + 1].inode, At[m + 1].inode_end)),
          path |-> Piece(file.text, At[m + 1].path, At[m + 1].end)]
  BY <1>3, <1>4, LineIs
<1>13. e \in DOMAIN buf /\ e > t
  BY <1>2, <1>8
<1>14. /\ file.lines[m + 1].dev = Number(Piece(file.text, At[m + 1].dev, At[m + 1].dev_end))
       /\ file.lines[m + 1].inode =
            Number(Piece(file.text, At[m + 1].inode, At[m + 1].inode_end))
       /\ file.lines[m + 1].path = Piece(file.text, At[m + 1].path, At[m + 1].end)
  BY <1>12
<1> DEFINE line == file.lines[m + 1]
<1>0. /\ line.dev \in Nat /\ line.inode \in Nat
      /\ INT_MAX \in Nat /\ LLONG_MAX \in Nat /\ INT_MAX <= LLONG_MAX
  BY <1>3, <1>4, LineIs, FilesAssumption
<1>15. field = 1 => HeldDev(line, NumberRead)
  <2> SUFFICES ASSUME field = 1, line.dev <= INT_MAX PROVE NumberRead = line.dev
    BY DEF HeldDev
  <2>1. PICK d \in Nat : d = line.dev
    BY <1>0
  <2>2. d = Digital(b, t) /\ b[t] \in DOMAIN DigitValue /\ d <= INT_MAX /\ d <= LLONG_MAX
    BY <1>0, <1>5, <1>10, <1>14, <2>1
  <2>3. StrToUL(b, t) = d
    BY <2>2, SmallNumberIs
  <2>4. Signed(d, INT_MAX) = d
    BY <1>0, <2>2, SignedIs
  <2> QED BY <1>1, <2>1, <2>3, <2>4 DEF NumberRead, b
<1>16. field = 2 => HeldInode(line, NumberRead)
  <2> SUFFICES ASSUME field = 2, line.inode <= LLONG_MAX PROVE NumberRead = line.inode
    BY DEF HeldInode
  <2>1. PICK d \in Nat : d = line.inode
    BY <1>0
  <2>2. d = Digital(b, t) /\ b[t] \in DOMAIN DigitValue /\ d <= LLONG_MAX
    BY <1>6, <1>10, <1>14, <2>1
  <2>3. StrToUL(b, t) = d
    BY <2>2, SmallNumberIs
  <2> QED BY <1>1, <2>1, <2>3 DEF NumberRead, b
<1>17. field = 3 => t = At[m + 1].path /\ StringAt(b, t) = file.lines[m + 1].path
  BY <1>7, <1>11, <1>14
<1> QED BY <1>1, <1>8, <1>13, <1>15, <1>16, <1>17 DEF b

\* A path that has been read can be read again.
LEMMA KeptPathIs ==
  ASSUME AllDescribed, file.lines # <<>>, Block,
         NEW m \in 0 .. N, NEW k \in 1 .. m, PathsKept(m)
  PROVE  StringAt(buf, At[k].path) = file.lines[k].path /\ StringAt(buf, At[k].path) # Unknown
<1>1. PICK n \in Nat : DOMAIN buf = 0 .. n - 1 /\ blk_e <= n
  BY BlockIs
<1>2. /\ file \in Files /\ file.text \in Seq(STRING) /\ blk_e = Len(file.text) /\ blk_e \in Nat
  BY BlockIs, FilesAssumption DEF Block, blk_e
<1>3. /\ At[k].path \in Nat /\ At[k].end \in Nat
      /\ At[k].path < At[k].end /\ At[k].end < Len(file.text) /\ At[k].end < n
      /\ \A a \in At[k].path .. At[k].end - 1 : file.text[a + 1] # NUL
      /\ file.lines[k].path = Piece(file.text, At[k].path, At[k].end)
  <2>0. k \in 1 .. N
    BY <1>2, ListIs
  <2>1. file.lines[k] = [dev |-> Number(Piece(file.text, At[k].dev, At[k].dev_end)),
                         inode |-> Number(Piece(file.text, At[k].inode, At[k].inode_end)),
                         path |-> Piece(file.text, At[k].path, At[k].end)]
    BY <1>2, <2>0, LineIs
  <2>2. file.lines[k].path = Piece(file.text, At[k].path, At[k].end)
    BY <2>1
  <2>3. /\ At[k].path \in Nat /\ At[k].end \in Nat
        /\ At[k].path < At[k].end /\ At[k].end < blk_e
        /\ \A a \in At[k].path .. At[k].end - 1 : file.text[a + 1] # NUL
    BY <1>2, <2>0, LineIs, Zenon
  <2> QED BY <1>1, <1>2, <2>2, <2>3
<1>4. /\ \A a \in At[k].path .. At[k].end - 1 : buf[a] = file.text[a + 1]
      /\ buf[At[k].end] = NUL
  BY DEF PathsKept
<1>5. Held(buf, file.text, At[k].path, At[k].end)
  BY <1>4 DEF Held
<1>6. WithoutNUL(file.text, At[k].path, At[k].end)
  BY <1>3 DEF WithoutNUL
<1>7. At[k].path \in Nat /\ At[k].end \in Nat /\ At[k].path < At[k].end
      /\ At[k].end < Len(file.text) /\ At[k].end < n
      /\ file.lines[k].path = Piece(file.text, At[k].path, At[k].end)
  BY <1>3
<1>8. DOMAIN buf = 0 .. n - 1 /\ file.text \in Seq(STRING)
  BY <1>1, <1>2
<1> QED BY <1>5, <1>6, <1>7, <1>8, StringIsPiece, SMTT(30)

----------------------------------------------------------------------------
(* The boot program *)

\* The recursion of Existing, up to m paths.
Selecting(s, paths, m) ==
  s = [n \in 0 .. m |->
         IF n = 0 THEN <<>>
         ELSE IF paths[n] \in Readable THEN Append(s[n - 1], paths[n]) ELSE s[n - 1]]

LEMMA SelectingExists ==
  ASSUME NEW paths, NEW n \in Nat
  PROVE  \E s : Selecting(s, paths, n)
<1> DEFINE Bad == {m \in 0 .. n : ~ \E s : Selecting(s, paths, m)}
<1> SUFFICES ASSUME Bad # {} PROVE FALSE
  OBVIOUS
<1>1. /\ Bad \in SUBSET Nat
      /\ \A m \in 0 .. n : m \in Bad <=> ~ \E s : Selecting(s, paths, m)
      /\ \A m \in Bad : m \in 0 .. n
  OBVIOUS
<1> HIDE DEF Bad
<1>2. PICK m \in Bad : \A l \in Bad : m <= l
  BY <1>1, LeastNumber
<1>3. m # 0
  <2> DEFINE s == [k \in 0 .. 0 |-> <<>>]
  <2>1. Selecting(s, paths, 0)
    BY DEF Selecting
  <2> QED BY <1>1, <1>2, <2>1
<1>4. m \in 0 .. n /\ m - 1 \in 0 .. n /\ m - 1 \notin Bad
  BY <1>1, <1>2, <1>3
<1>5. PICK s : Selecting(s, paths, m - 1)
  BY <1>1, <1>4
<1> DEFINE last == IF paths[m] \in Readable THEN Append(s[m - 1], paths[m]) ELSE s[m - 1]
           longer == [k \in 0 .. m |-> IF k = m THEN last ELSE s[k]]
<1>6. ASSUME NEW k \in 0 .. m
      PROVE  longer[k] = IF k = 0 THEN <<>>
                         ELSE IF paths[k] \in Readable
                         THEN Append(longer[k - 1], paths[k]) ELSE longer[k - 1]
  <2>1. CASE k = m
    <3>1. longer[m] = last /\ longer[m - 1] = s[m - 1]
      BY <1>4
    <3> QED BY <1>3, <2>1, <3>1
  <2>2. CASE k # m
    <3>1. k \in 0 .. m - 1 /\ longer[k] = s[k]
      BY <1>4, <2>2
    <3>2. k # 0 => longer[k - 1] = s[k - 1]
      BY <1>4, <3>1
    <3>3. s[k] = IF k = 0 THEN <<>>
                 ELSE IF paths[k] \in Readable THEN Append(s[k - 1], paths[k]) ELSE s[k - 1]
      BY <1>5, <3>1 DEF Selecting
    <3> QED BY <3>1, <3>2, <3>3
  <2> QED BY <2>1, <2>2
<1>7. Selecting(longer, paths, m)
  BY <1>6 DEF Selecting
<1> QED BY <1>1, <1>2, <1>4, <1>7

LEMMA ExistingIs ==
  ASSUME NEW paths, Len(paths) \in Nat
  PROVE  /\ Existing(paths)[0] = <<>>
         /\ \A n \in 0 .. Len(paths) - 1 :
              Existing(paths)[n + 1] = IF paths[n + 1] \in Readable
                                       THEN Append(Existing(paths)[n], paths[n + 1])
                                       ELSE Existing(paths)[n]
<1>1. Existing(paths) = CHOOSE s : Selecting(s, paths, Len(paths))
  BY DEF Existing, Selecting
<1>2. Selecting(Existing(paths), paths, Len(paths))
  BY <1>1, SelectingExists
<1>3. \A n \in 0 .. Len(paths) :
        Existing(paths)[n] = IF n = 0 THEN <<>>
                             ELSE IF paths[n] \in Readable
                             THEN Append(Existing(paths)[n - 1], paths[n])
                             ELSE Existing(paths)[n - 1]
  BY <1>2 DEF Selecting
<1>4. ASSUME NEW n \in 0 .. Len(paths) - 1
      PROVE  n + 1 \in 0 .. Len(paths) /\ n + 1 # 0 /\ (n + 1) - 1 = n
  OBVIOUS
<1> QED BY <1>3, <1>4

\* How many paths the boot program has tried.
Tried == fail_count + Len(advised)

\* The paths read ahead are those of the lines parsed so far that can be opened.
Ahead ==
  /\ advised \in Seq(Seq(STRING)) /\ Tried \in 0 .. N
  /\ advised = Existing(ListedPaths)[Tried]
  /\ Starting => buf = Mapped(file) /\ Tried = 0
  /\ pc = "readahead" => Parsed(Tried)
  /\ pc = "end" /\ Loaded => Tried = N

AheadInv == mode = "boot" /\ file.lines # <<>> => Ahead

LEMMA PathsAre ==
  ASSUME AllDescribed, file \in Files, file.lines # <<>>
  PROVE  /\ Len(ListedPaths) = N
         /\ \A k \in 1 .. N : ListedPaths[k] = file.lines[k].path
<1>1. N \in Nat /\ DOMAIN file.lines = 1 .. N
  BY ListIs
<1>2. ListedPaths = [k \in 1 .. N |-> file.lines[k].path]
  BY <1>1 DEF ListedPaths
<1> QED BY <1>1, <1>2

LEMMA AheadInit ==
  ASSUME AllDescribed, Init
  PROVE  AheadInv
<1> SUFFICES ASSUME file.lines # <<>> PROVE Ahead
  BY DEF AheadInv
<1>1. file \in Files /\ advised = <<>> /\ fail_count = 0 /\ pc = "open" /\ buf = Mapped(file)
  BY DEF Init
<1>2. N \in Nat /\ Len(ListedPaths) = N
  BY <1>1, ListIs, PathsAre
<1>3. Tried = 0 /\ advised \in Seq(Seq(STRING))
  BY <1>1 DEF Tried
<1>4. Existing(ListedPaths)[0] = <<>>
  BY <1>2, ExistingIs
<1> QED BY <1>1, <1>2, <1>3, <1>4 DEF Ahead

LEMMA AheadNext ==
  ASSUME AllDescribed, PInv, AheadInv, [Next]_vars
  PROVE  AheadInv'
<1>1. UNCHANGED <<file, mode>>
  BY DEF Next, vars, Open, GetFullMap, Assign, Destroy, SkipField, ReadaheadFile,
     ReadaheadEnd, NewVector, FillNumber, FillPath, OutOfData, EndVector, Merge,
     UpdateBlock, WriteEntry, NextVector, Fault, Ended, list, input
<1> SUFFICES ASSUME mode = "boot", file.lines # <<>> PROVE Ahead'
  BY <1>1 DEF AheadInv
<1>2. Ahead /\ Block /\ file \in Files /\ field \in 1 .. 3 /\ fail_count \in Nat
  BY DEF AheadInv, PInv, Types, Block
<1>3. N \in Nat \ {0} /\ Len(ListedPaths) = N /\ Tried \in 0 .. N
  BY <1>2, ListIs, PathsAre DEF Ahead
<1>4. N' = N /\ Mapped(file)' = Mapped(file)
      /\ \A m : Existing(ListedPaths)[m]' = Existing(ListedPaths)[m]
  BY <1>1 DEF N, ListedPaths
<1>5. ASSUME UNCHANGED <<boot, memory>>, pc' \in {"map", "assign"}, Starting PROVE Ahead'
  BY <1>2, <1>4, <1>5 DEF Ahead, Tried, Starting, boot, memory
<1>6. ASSUME UNCHANGED boot, pc' \notin {"open", "map", "assign", "readahead"},
             pc' = "end" => "m" \notin owners'
      PROVE  Ahead'
  BY <1>2, <1>4, <1>6 DEF Ahead, Tried, Starting, boot, Loaded
<1>7. CASE Open
  BY <1>5, <1>6, <1>7 DEF Open, NotLoaded, Starting, PInv, Owning, boot
<1>8. CASE GetFullMap
  BY <1>5, <1>8 DEF GetFullMap, Starting
<1>9. CASE Assign
  <2>1. CASE owners' = {}
    BY <1>6, <1>9, <2>1 DEF Assign, NotLoaded
  <2>2. CASE owners' # {}
    <3>1. pc' = "readahead" /\ UNCHANGED <<boot, memory, field>> /\ Starting
      BY <1>9, <2>2 DEF Assign, Starting, filling
    <3>2. dt_e = 0 /\ field = 1 /\ buf = Mapped(file) /\ Tried = 0
      BY <1>2, <3>1 DEF PInv, Halving, Ahead
    <3>3. Parsed(0)
      BY <1>2, <3>2, ParsedInit
    <3>4. Parsed(0)'
      BY <1>1, <3>1, <3>3, ParsedStays DEF memory
    <3>5. Tried' = 0
      BY <3>1, <3>2 DEF Tried, boot
    <3> QED BY <1>2, <1>4, <3>1, <3>2, <3>4, <3>5 DEF Ahead, Starting, boot
  <2> QED BY <2>1, <2>2
<1>10. CASE Destroy
  BY <1>6, <1>10 DEF Destroy
<1>11. CASE SkipField
  <2>1. Parsed(Tried) /\ field < 3
    BY <1>2, <1>11 DEF SkipField, Ahead
  <2>2. UNCHANGED boot /\ pc' = "readahead" /\ GotField /\ field' = field + 1
    BY <1>11 DEF SkipField
  <2>3. PICK m : m = Tried
    OBVIOUS
  <2>4. Parsed(m)'
    BY <1>1, <1>2, <2>1, <2>2, <2>3, ParsedNext
  <2>5. Tried' = m
    BY <2>2, <2>3 DEF Tried, boot
  <2> QED BY <1>2, <1>4, <2>2, <2>3, <2>4, <2>5 DEF Ahead, Starting, boot
<1>12. CASE ReadaheadFile
  <2>1. Parsed(Tried) /\ field = 3
    BY <1>2, <1>12 DEF ReadaheadFile, Ahead
  <2>2. pc' = "readahead" /\ GotField /\ field' = 1
    BY <1>12 DEF ReadaheadFile
  <2>3. PICK m : m = Tried
    OBVIOUS
  <2>4. m < N /\ Parsed(m + 1)'
    BY <1>1, <1>2, <2>1, <2>2, <2>3, ParsedNext
  <2> DEFINE path == StringAt(Field.buf, Field.token)
  <2>5. path = file.lines[m + 1].path
    BY <1>2, <2>1, <2>3, <2>4, FieldHolds
  <2>6. m + 1 \in 1 .. N /\ m \in 0 .. N - 1
    BY <1>3, <2>3, <2>4
  <2>7. path = ListedPaths[m + 1] /\ path \in Seq(STRING)
    BY <1>2, <2>5, <2>6, PathsAre, LineIs
  <2>8. IF path \in Readable
        THEN advised' = Append(advised, path) /\ UNCHANGED fail_count
        ELSE fail_count' = fail_count + 1 /\ UNCHANGED advised
    BY <1>12 DEF ReadaheadFile
  <2> HIDE DEF path
  <2>9. Existing(ListedPaths)[m + 1] = IF path \in Readable
                                       THEN Append(Existing(ListedPaths)[m], path)
                                       ELSE Existing(ListedPaths)[m]
    BY <1>3, <2>6, <2>7, ExistingIs
  <2>10. advised' = Existing(ListedPaths)[m + 1]
    BY <1>2, <2>3, <2>8, <2>9 DEF Ahead
  <2>11. advised' \in Seq(Seq(STRING)) /\ Tried' = m + 1
    <3>1. advised \in Seq(Seq(STRING)) /\ Len(advised) \in Nat
      BY <1>2 DEF Ahead
    <3>2. /\ Append(advised, path) \in Seq(Seq(STRING))
          /\ Len(Append(advised, path)) = Len(advised) + 1
      BY <2>7, <3>1, AppendProperties
    <3>3. fail_count \in Nat /\ m = fail_count + Len(advised)
      BY <1>2, <2>3 DEF Tried
    <3>4. CASE path \in Readable
      <4>1. advised' = Append(advised, path) /\ fail_count' = fail_count
        BY <2>8, <3>4
      <4> QED BY <3>1, <3>2, <3>3, <4>1 DEF Tried
    <3>5. CASE path \notin Readable
      <4>1. advised' = advised /\ fail_count' = fail_count + 1
        BY <2>8, <3>5
      <4> QED BY <3>1, <3>3, <4>1 DEF Tried
    <3> QED BY <3>4, <3>5
  <2> QED BY <1>4, <2>2, <2>4, <2>6, <2>10, <2>11 DEF Ahead, Starting
<1>13. CASE ReadaheadEnd
  <2>1. Parsed(Tried) /\ NoField /\ UNCHANGED boot /\ pc' = "end"
    BY <1>2, <1>13 DEF ReadaheadEnd, Ahead, AfterData
  <2>2. PICK m : m = Tried
    OBVIOUS
  <2>3. m = N
    BY <1>2, <2>1, <2>2, AllRead
  <2>4. Tried' = Tried
    BY <2>1 DEF Tried, boot
  <2> QED BY <1>2, <1>4, <2>1, <2>2, <2>3, <2>4 DEF Ahead, Starting, boot
<1>14. CASE UNCHANGED vars
  <2>1. UNCHANGED <<boot, buf, dt_e, field, pc, owners>>
    BY <1>14 DEF vars, memory, filling, list, handles
  <2>2. PICK m : m = Tried
    OBVIOUS
  <2>3. Tried' = m
    BY <2>1, <2>2 DEF Tried, boot
  <2>4. pc = "readahead" => Parsed(m)'
    BY <1>1, <1>2, <2>1, <2>2, ParsedStays DEF Ahead
  <2> QED BY <1>2, <1>4, <2>1, <2>2, <2>3, <2>4 DEF Ahead, Starting, boot, Loaded
<1>15. pc \notin {"vector", "fill", "merge", "update", "write"}
  BY DEF PInv, Owning
<1> QED
  BY <1>7, <1>8, <1>9, <1>10, <1>11, <1>12, <1>13, <1>14, <1>15
  DEF Next, NewVector, FillNumber, FillPath, OutOfData, EndVector, Merge, UpdateBlock,
      WriteEntry, NextVector, Fault, ReadsBehindMapping, Ended

\* Every file of the list that exists is read ahead, in the order of the list,
\* and the others are counted, however long the list is and whatever blanks it
\* has.
THEOREM PreloadReadsAhead ==
  ASSUME AllDescribed
  PROVE  Spec => []ReadsAheadWhatIsListed
<1>1. Init => AheadInv
  BY AheadInit
<1>2. PInv /\ AheadInv /\ [Next]_vars => AheadInv'
  BY AheadNext
<1>3. PInv /\ AheadInv => ReadsAheadWhatIsListed
  <2> SUFFICES ASSUME PInv, AheadInv, pc = "end", mode = "boot", Loaded, file.lines # <<>>
               PROVE  /\ advised = Existing(ListedPaths)[Len(ListedPaths)]
                      /\ fail_count + Len(advised) = Len(ListedPaths)
    BY DEF ReadsAheadWhatIsListed
  <2>1. Ahead /\ file \in Files
    BY DEF AheadInv, PInv, Block
  <2>2. Len(ListedPaths) = N
    BY <2>1, PathsAre
  <2> QED BY <2>1, <2>2 DEF Ahead, Tried
<1> QED BY <1>1, <1>2, <1>3, PreloadInvariant, PTL DEF Spec

----------------------------------------------------------------------------
(* Where the lines are *)

\* An entry is at position i of vector v of fd, or of the output out, which
\* counts as vector 0.
IsSpot(v, i, fd, out) ==
  \/ v = 0 /\ i \in DOMAIN out
  \/ v # 0 /\ v \in DOMAIN fd /\ i \in DOMAIN fd[v]

\* It is the entry of line k.
LineAt(v, i, k, fd, out) ==
  IF v = 0
  THEN /\ HeldDev(file.lines[k], out[i].dev) /\ HeldInode(file.lines[k], out[i].inode)
       /\ out[i].path = file.lines[k].path
  ELSE /\ HeldDev(file.lines[k], fd[v][i].dev) /\ HeldInode(file.lines[k], fd[v][i].inode)
       /\ fd[v][i].path = At[k].path

\* The entries are those of the first m lines, one for each: that of line k is
\* at position pos[k] of vector vec[k].
Tally(m, vec, pos, fd, out) ==
  /\ \A k \in 1 .. m : /\ vec[k] \in Nat /\ pos[k] \in Nat
                       /\ IsSpot(vec[k], pos[k], fd, out)
                       /\ LineAt(vec[k], pos[k], k, fd, out)
  /\ \A j, k \in 1 .. m : vec[j] = vec[k] /\ pos[j] = pos[k] => j = k
  /\ \A v, i \in Nat : IsSpot(v, i, fd, out) => \E k \in 1 .. m : vec[k] = v /\ pos[k] = i

Tallied(m, fd, out) == \E vec, pos : Tally(m, vec, pos, fd, out)

\* Nothing has been read.
LEMMA TalliedNothing ==
  ASSUME NEW fd, NEW out, \A v, i \in Nat : ~IsSpot(v, i, fd, out)
  PROVE  Tallied(0, fd, out)
BY DEF Tallied, Tally

\* The entries stay where they are, and are those of the same lines.
Unmoved(fd, fd_2, out) ==
  \A v, i \in Nat :
    /\ IsSpot(v, i, fd_2, out) <=> IsSpot(v, i, fd, out)
    /\ v # 0 /\ IsSpot(v, i, fd, out) =>
         /\ fd_2[v][i].dev = fd[v][i].dev /\ fd_2[v][i].inode = fd[v][i].inode
         /\ fd_2[v][i].path = fd[v][i].path

LEMMA TalliedSame ==
  ASSUME NEW m, NEW fd, NEW out, NEW fd_2, Tallied(m, fd, out), Unmoved(fd, fd_2, out)
  PROVE  Tallied(m, fd_2, out)
<1>1. PICK vec, pos : Tally(m, vec, pos, fd, out)
  BY DEF Tallied
<1>2. ASSUME NEW k \in 1 .. m
      PROVE  /\ vec[k] \in Nat /\ pos[k] \in Nat
             /\ IsSpot(vec[k], pos[k], fd_2, out)
             /\ LineAt(vec[k], pos[k], k, fd_2, out)
  <2>1. /\ vec[k] \in Nat /\ pos[k] \in Nat /\ IsSpot(vec[k], pos[k], fd, out)
        /\ LineAt(vec[k], pos[k], k, fd, out)
    BY <1>1 DEF Tally
  <2> QED BY <2>1 DEF LineAt, Unmoved
<1>3. Tally(m, vec, pos, fd_2, out)
  BY <1>1, <1>2 DEF Tally, Unmoved
<1> QED BY <1>3 DEF Tallied

\* The entry at position i of vector v is moved to position at[v][i] of vector
\* to[v][i], and is that of the same line.
Moved(m, to, at, fd, out, fd_2, out_2) ==
  \A v, i \in Nat : IsSpot(v, i, fd, out) =>
    /\ IsSpot(to[v][i], at[v][i], fd_2, out_2)
    /\ \A k \in 1 .. m : LineAt(v, i, k, fd, out) =>
         LineAt(to[v][i], at[v][i], k, fd_2, out_2)

\* No two entries are moved to the same position.
Apart(to, at, fd, out) ==
  \A v, i, w, j \in Nat :
    IsSpot(v, i, fd, out) /\ IsSpot(w, j, fd, out)
      /\ to[v][i] = to[w][j] /\ at[v][i] = at[w][j] => v = w /\ i = j

\* No other entry is there afterwards.
Reached(to, at, fd, out, fd_2, out_2) ==
  \A w, j \in Nat : IsSpot(w, j, fd_2, out_2) =>
    \E v, i \in Nat : IsSpot(v, i, fd, out) /\ to[v][i] = w /\ at[v][i] = j

LEMMA TalliedMoved ==
  ASSUME NEW m, NEW fd, NEW out, NEW fd_2, NEW out_2, Tallied(m, fd, out),
         NEW to \in [Nat -> [Nat -> Nat]], NEW at \in [Nat -> [Nat -> Nat]],
         Moved(m, to, at, fd, out, fd_2, out_2), Apart(to, at, fd, out),
         Reached(to, at, fd, out, fd_2, out_2)
  PROVE  Tallied(m, fd_2, out_2)
<1>1. PICK vec, pos : Tally(m, vec, pos, fd, out)
  BY DEF Tallied
<1> DEFINE vec_2 == [k \in 1 .. m |-> to[vec[k]][pos[k]]]
           pos_2 == [k \in 1 .. m |-> at[vec[k]][pos[k]]]
<1>2. ASSUME NEW k \in 1 .. m
      PROVE  /\ vec[k] \in Nat /\ pos[k] \in Nat /\ IsSpot(vec[k], pos[k], fd, out)
             /\ LineAt(vec[k], pos[k], k, fd, out)
             /\ vec_2[k] = to[vec[k]][pos[k]] /\ pos_2[k] = at[vec[k]][pos[k]]
  BY <1>1 DEF Tally
<1> HIDE DEF vec_2, pos_2
<1>3. ASSUME NEW k \in 1 .. m
      PROVE  /\ vec_2[k] \in Nat /\ pos_2[k] \in Nat
             /\ IsSpot(vec_2[k], pos_2[k], fd_2, out_2)
             /\ LineAt(vec_2[k], pos_2[k], k, fd_2, out_2)
  <2>1. vec[k] \in Nat /\ pos[k] \in Nat
    BY <1>2
  <2>3. to[vec[k]] \in [Nat -> Nat] /\ at[vec[k]] \in [Nat -> Nat]
    BY <2>1
  <2>2. to[vec[k]][pos[k]] \in Nat /\ at[vec[k]][pos[k]] \in Nat
    BY <2>1, <2>3
  <2>4. /\ IsSpot(to[vec[k]][pos[k]], at[vec[k]][pos[k]], fd_2, out_2)
        /\ LineAt(to[vec[k]][pos[k]], at[vec[k]][pos[k]], k, fd_2, out_2)
    BY <1>2 DEF Moved
  <2> QED BY <1>2, <2>2, <2>4
<1>4. ASSUME NEW j \in 1 .. m, NEW k \in 1 .. m, vec_2[j] = vec_2[k], pos_2[j] = pos_2[k]
      PROVE  j = k
  <2>2. /\ vec[j] \in Nat /\ pos[j] \in Nat /\ IsSpot(vec[j], pos[j], fd, out)
        /\ vec[k] \in Nat /\ pos[k] \in Nat /\ IsSpot(vec[k], pos[k], fd, out)
        /\ to[vec[j]][pos[j]] = to[vec[k]][pos[k]] /\ at[vec[j]][pos[j]] = at[vec[k]][pos[k]]
    BY <1>2, <1>4
  <2>1. vec[j] = vec[k] /\ pos[j] = pos[k]
    BY <2>2 DEF Apart
  <2> QED BY <1>1, <2>1 DEF Tally
<1>5. ASSUME NEW w \in Nat, NEW j \in Nat, IsSpot(w, j, fd_2, out_2)
      PROVE  \E k \in 1 .. m : vec_2[k] = w /\ pos_2[k] = j
  <2>1. PICK v \in Nat, i \in Nat :
          IsSpot(v, i, fd, out) /\ to[v][i] = w /\ at[v][i] = j
    BY <1>5 DEF Reached
  <2>2. PICK k \in 1 .. m : vec[k] = v /\ pos[k] = i
    BY <1>1, <2>1 DEF Tally
  <2> QED BY <1>2, <2>1, <2>2
<1>6. Tally(m, vec_2, pos_2, fd_2, out_2)
  BY <1>3, <1>4, <1>5 DEF Tally
<1> QED BY <1>6 DEF Tallied

\* An entry is added at position x of vector u, the others stay.
Added(u, x, fd, fd_2, out) ==
  \A v, i \in Nat :
    /\ IsSpot(v, i, fd_2, out) <=> IsSpot(v, i, fd, out) \/ (v = u /\ i = x)
    /\ v # 0 /\ IsSpot(v, i, fd, out) => fd_2[v][i] = fd[v][i]

\* The added entry is that of line m + 1.
LEMMA TalliedMore ==
  ASSUME NEW m \in Nat, NEW fd, NEW out, NEW fd_2, Tallied(m, fd, out),
         NEW u \in Nat \ {0}, NEW x \in Nat,
         ~IsSpot(u, x, fd, out), LineAt(u, x, m + 1, fd_2, out),
         Added(u, x, fd, fd_2, out)
  PROVE  Tallied(m + 1, fd_2, out)
<1>1. PICK vec, pos : Tally(m, vec, pos, fd, out)
  BY DEF Tallied
<1> DEFINE vec_2 == [k \in 1 .. m + 1 |-> IF k = m + 1 THEN u ELSE vec[k]]
           pos_2 == [k \in 1 .. m + 1 |-> IF k = m + 1 THEN x ELSE pos[k]]
<1>2. ASSUME NEW k \in 1 .. m
      PROVE  /\ vec[k] \in Nat /\ pos[k] \in Nat /\ IsSpot(vec[k], pos[k], fd, out)
             /\ LineAt(vec[k], pos[k], k, fd, out)
             /\ vec_2[k] = vec[k] /\ pos_2[k] = pos[k] /\ k \in 1 .. m + 1
  BY <1>1 DEF Tally
<1>3. vec_2[m + 1] = u /\ pos_2[m + 1] = x /\ m + 1 \in 1 .. m + 1
  OBVIOUS
<1>4. \A k \in 1 .. m + 1 : k = m + 1 \/ k \in 1 .. m
  OBVIOUS
<1> HIDE DEF vec_2, pos_2
<1>5. ASSUME NEW k \in 1 .. m
      PROVE  /\ vec_2[k] \in Nat /\ pos_2[k] \in Nat
             /\ IsSpot(vec_2[k], pos_2[k], fd_2, out)
             /\ LineAt(vec_2[k], pos_2[k], k, fd_2, out)
  BY <1>2 DEF LineAt, Added
<1>6. IsSpot(u, x, fd_2, out)
  BY DEF Added
<1>7. ASSUME NEW j \in 1 .. m + 1, NEW k \in 1 .. m + 1,
             vec_2[j] = vec_2[k], pos_2[j] = pos_2[k]
      PROVE  j = k
  <2>1. ASSUME NEW l \in 1 .. m PROVE ~(vec_2[l] = u /\ pos_2[l] = x)
    BY <1>2
  <2>2. CASE j \in 1 .. m /\ k \in 1 .. m
    BY <1>1, <1>2, <1>7, <2>2 DEF Tally
  <2> QED BY <1>3, <1>4, <1>7, <2>1, <2>2
<1>8. ASSUME NEW v \in Nat, NEW i \in Nat, IsSpot(v, i, fd_2, out)
      PROVE  \E k \in 1 .. m + 1 : vec_2[k] = v /\ pos_2[k] = i
  <2>1. CASE v = u /\ i = x
    BY <1>3, <2>1
  <2>2. CASE IsSpot(v, i, fd, out)
    <3>1. PICK k \in 1 .. m : vec[k] = v /\ pos[k] = i
      BY <1>1, <2>2 DEF Tally
    <3> QED BY <1>2, <3>1
  <2> QED BY <1>8, <2>1, <2>2 DEF Added
<1>9. Tally(m + 1, vec_2, pos_2, fd_2, out)
  BY <1>3, <1>4, <1>5, <1>6, <1>7, <1>8 DEF Tally
<1> QED BY <1>9 DEF Tallied

\* FillPath: the entry is appended to the last vector.
LEMMA EntryAdded ==
  ASSUME NEW m \in Nat, NEW S, NEW fd \in Seq(Seq(S)), NEW out, Tallied(m, fd, out),
         fd # <<>>, NEW e \in S,
         HeldDev(file.lines[m + 1], e.dev), HeldInode(file.lines[m + 1], e.inode),
         e.path = At[m + 1].path,
         NEW fd_2, fd_2 = [fd EXCEPT ![Len(fd)] = Append(@, e)]
  PROVE  Tallied(m + 1, fd_2, out)
<1> DEFINE u == Len(fd)
           x == Len(fd[u]) + 1
           longer == Append(fd[u], e)
<1>1. u \in Nat \ {0} /\ DOMAIN fd = 1 .. u /\ fd[u] \in Seq(S)
  OBVIOUS
<1>2. /\ x \in Nat /\ DOMAIN fd[u] = 1 .. x - 1 /\ DOMAIN longer = 1 .. x
      /\ longer[x] = e /\ \A i \in 1 .. x - 1 : longer[i] = fd[u][i]
  BY <1>1
<1> HIDE DEF longer, x
<1>3. fd_2 = [fd EXCEPT ![u] = longer]
  BY DEF longer
<1> HIDE DEF u
<1>4. DOMAIN fd_2 = 1 .. u /\ fd_2[u] = longer /\ \A v \in 1 .. u : v # u => fd_2[v] = fd[v]
  BY <1>1, <1>3
<1>5. ~IsSpot(u, x, fd, out)
  BY <1>1, <1>2 DEF IsSpot
<1>6. LineAt(u, x, m + 1, fd_2, out)
  BY <1>1, <1>2, <1>4 DEF LineAt
<1>7. ASSUME NEW v \in Nat, NEW i \in Nat
      PROVE  IsSpot(v, i, fd_2, out) <=> IsSpot(v, i, fd, out) \/ (v = u /\ i = x)
  <2>1. CASE v = u
    BY <1>1, <1>2, <1>4, <2>1 DEF IsSpot
  <2>2. CASE v # u
    BY <1>1, <1>4, <2>2 DEF IsSpot
  <2> QED BY <2>1, <2>2
<1>8. ASSUME NEW v \in Nat, NEW i \in Nat, v # 0, IsSpot(v, i, fd, out)
      PROVE  fd_2[v][i] = fd[v][i]
  <2>1. v \in 1 .. u /\ i \in DOMAIN fd[v]
    BY <1>1, <1>8 DEF IsSpot
  <2> QED BY <1>2, <1>4, <2>1
<1>9. Added(u, x, fd, fd_2, out)
  BY <1>7, <1>8 DEF Added
<1> QED BY <1>1, <1>2, <1>5, <1>6, <1>9, TalliedMore

\* NewVector: a vector is appended, without an entry.
LEMMA VectorAdded ==
  ASSUME NEW m, NEW S, NEW fd \in Seq(Seq(S)), NEW out, Tallied(m, fd, out),
         NEW fd_2, fd_2 = Append(fd, <<>>)
  PROVE  Tallied(m, fd_2, out)
<1>1. /\ DOMAIN fd = 1 .. Len(fd) /\ Len(fd) \in Nat /\ DOMAIN fd_2 = 1 .. Len(fd) + 1
      /\ fd_2[Len(fd) + 1] = <<>> /\ \A v \in 1 .. Len(fd) : fd_2[v] = fd[v]
  OBVIOUS
<1>2. ASSUME NEW v \in Nat, NEW i \in Nat
      PROVE  IsSpot(v, i, fd_2, out) <=> IsSpot(v, i, fd, out)
  <2>1. CASE v = Len(fd) + 1
    <3>1. DOMAIN fd_2[v] = {}
      BY <1>1, <2>1
    <3> QED BY <1>1, <2>1, <3>1 DEF IsSpot
  <2>2. CASE v # Len(fd) + 1
    BY <1>1, <2>2 DEF IsSpot
  <2> QED BY <2>1, <2>2
<1>3. ASSUME NEW v \in Nat, NEW i \in Nat, v # 0, IsSpot(v, i, fd, out)
      PROVE  fd_2[v][i] = fd[v][i]
  BY <1>1, <1>3 DEF IsSpot
<1>4. Unmoved(fd, fd_2, out)
  BY <1>2, <1>3 DEF Unmoved
<1> QED BY <1>4, TalliedSame

\* The first two elements of a sequence are replaced by one.
LEMMA TwoReplaced ==
  ASSUME NEW S, NEW s \in Seq(S), Len(s) > 1, NEW one \in Seq(S), Len(one) = 1
  PROVE  /\ Len(one \o Tail(Tail(s))) = Len(s) - 1
         /\ one \o Tail(Tail(s)) \in Seq(S)
         /\ (one \o Tail(Tail(s)))[1] = one[1]
         /\ \A v \in 2 .. Len(s) - 1 : (one \o Tail(Tail(s)))[v] = s[v + 1]
<1> DEFINE rest == Tail(Tail(s))
           joined == one \o rest
<1>1. Len(s) \in Nat /\ Tail(s) \in Seq(S) /\ Len(Tail(s)) = Len(s) - 1
      /\ \A v \in 1 .. Len(s) - 1 : Tail(s)[v] = s[v + 1]
  BY HeadTailProperties, NotEmpty
<1>2. Tail(s) # <<>>
  <2>1. Len(Tail(s)) > 0
    BY <1>1
  <2> QED BY <1>1, <2>1, NotEmpty
<1>3. /\ rest \in Seq(S) /\ Len(rest) = Len(Tail(s)) - 1
      /\ \A v \in 1 .. Len(Tail(s)) - 1 : rest[v] = Tail(s)[v + 1]
  BY <1>1, <1>2, HeadTailProperties
<1> HIDE DEF rest
<1>4. rest \in Seq(S) /\ one \in Seq(S)
  BY <1>3
<1>5. /\ joined \in Seq(S) /\ Len(joined) = Len(one) + Len(rest)
      /\ \A v \in 1 .. Len(one) + Len(rest) :
           joined[v] = IF v <= Len(one) THEN one[v] ELSE rest[v - Len(one)]
  BY <1>4, ConcatProperties
<1> HIDE DEF joined
<1>6. Len(joined) = Len(s) - 1 /\ joined[1] = one[1]
  <2>1. Len(rest) = Len(s) - 2 /\ Len(s) \in Nat
    BY <1>1, <1>3
  <2>2. Len(joined) = 1 + Len(rest) /\ 1 \in 1 .. Len(one) + Len(rest)
    BY <1>5, <2>1
  <2>3. joined[1] = one[1]
    BY <1>5, <2>2
  <2> QED BY <2>1, <2>2, <2>3
<1>7. ASSUME NEW v \in 2 .. Len(s) - 1 PROVE joined[v] = s[v + 1]
  <2>0. /\ Len(s) \in Nat /\ Len(one) = 1 /\ Len(rest) = Len(s) - 2
        /\ v \in 1 .. Len(one) + Len(rest) /\ ~(v <= Len(one)) /\ v - Len(one) = v - 1
    <3>1. Len(s) \in Nat /\ Len(rest) = Len(s) - 2
      BY <1>1, <1>3
    <3> QED BY <3>1
  <2>1. joined[v] = rest[v - 1]
    BY <2>0, <1>5
  <2>2. rest[v - 1] = Tail(s)[(v - 1) + 1] /\ Tail(s)[v] = s[v + 1] /\ (v - 1) + 1 = v
    BY <1>1, <1>3
  <2> QED BY <2>1, <2>2
<1> QED BY <1>5, <1>6, <1>7 DEF joined, rest

\* Merge: the entries of the second vector are behind those of the first.
LEMMA VectorsMerged ==
  \A m, S, fd, out, fd_2 :
    /\ fd \in Seq(Seq(S)) /\ Len(fd) > 1 /\ Tallied(m, fd, out)
    /\ fd_2 = <<fd[1] \o fd[2]>> \o Tail(Tail(fd))
    => Tallied(m, fd_2, out)
<1>0. SUFFICES ASSUME NEW m, NEW S, NEW fd, NEW out, NEW fd_2,
                      fd \in Seq(Seq(S)), Len(fd) > 1, Tallied(m, fd, out),
                      fd_2 = <<fd[1] \o fd[2]>> \o Tail(Tail(fd))
               PROVE  Tallied(m, fd_2, out)
  OBVIOUS
<1> DEFINE n == Len(fd[1])
           joined == fd[1] \o fd[2]
           to == [v \in Nat |-> [i \in Nat |-> IF v <= 1 THEN v ELSE v - 1]]
           at == [v \in Nat |-> [i \in Nat |-> IF v = 2 THEN n + i ELSE i]]
<1>1. /\ Len(fd) \in Nat /\ DOMAIN fd = 1 .. Len(fd) /\ 1 \in DOMAIN fd /\ 2 \in DOMAIN fd
      /\ fd[1] \in Seq(S) /\ fd[2] \in Seq(S) /\ n \in Nat /\ Len(fd[2]) \in Nat
      /\ DOMAIN fd[1] = 1 .. n /\ DOMAIN fd[2] = 1 .. Len(fd[2])
  BY <1>0
<1>2. /\ DOMAIN joined = 1 .. n + Len(fd[2])
      /\ \A i \in 1 .. n : joined[i] = fd[1][i]
      /\ \A i \in 1 .. Len(fd[2]) : joined[n + i] = fd[2][i]
      /\ joined \in Seq(S)
  BY <1>1
<1> HIDE DEF joined, n
<1>3. fd_2 = <<joined>> \o Tail(Tail(fd))
  BY <1>0 DEF joined
<1>4. /\ Len(fd_2) = Len(fd) - 1 /\ fd_2 \in Seq(Seq(S)) /\ fd_2[1] = joined
      /\ \A v \in 2 .. Len(fd) - 1 : fd_2[v] = fd[v + 1]
  <2>1. PICK T, one : T = Seq(S) /\ one = <<joined>>
    OBVIOUS
  <2>2. one \in Seq(T) /\ Len(one) = 1 /\ one[1] = joined
    BY <1>2, <2>1
  <2>3. fd \in Seq(T) /\ Len(fd) > 1 /\ fd_2 = one \o Tail(Tail(fd))
    BY <1>0, <1>3, <2>1
  <2>4. /\ Len(fd_2) = Len(fd) - 1 /\ fd_2 \in Seq(T) /\ fd_2[1] = one[1]
        /\ \A v \in 2 .. Len(fd) - 1 : fd_2[v] = fd[v + 1]
    BY <2>2, <2>3, TwoReplaced
  <2> QED BY <2>1, <2>2, <2>4
<1>5. DOMAIN fd_2 = 1 .. Len(fd) - 1
  BY <1>4
<1>6. to \in [Nat -> [Nat -> Nat]] /\ at \in [Nat -> [Nat -> Nat]]
  BY <1>1
<1>7. \A v, i \in Nat : /\ v <= 1 => to[v][i] = v
                        /\ v > 1 => to[v][i] = v - 1
                        /\ v = 2 => at[v][i] = n + i
                        /\ v # 2 => at[v][i] = i
  OBVIOUS
<1> HIDE DEF to, at
<1>a. \A i \in Nat : IsSpot(1, i, fd, out) <=> i \in 1 .. n
  BY <1>1 DEF IsSpot
<1>b. \A i \in Nat : IsSpot(2, i, fd, out) <=> i \in 1 .. Len(fd[2])
  BY <1>1 DEF IsSpot
<1>c. \A i \in Nat : IsSpot(1, i, fd_2, out) <=> i \in 1 .. n + Len(fd[2])
  BY <1>1, <1>2, <1>4, <1>5 DEF IsSpot
<1>d. ASSUME NEW v \in Nat, NEW i \in Nat, v > 2
      PROVE  /\ IsSpot(v, i, fd, out) <=> IsSpot(v - 1, i, fd_2, out)
             /\ IsSpot(v, i, fd, out) => fd_2[v - 1] = fd[v]
  <2>1. v \in 1 .. Len(fd) <=> v - 1 \in 1 .. Len(fd) - 1
    BY <1>1, <1>d
  <2>2. v \in 1 .. Len(fd) => fd_2[v - 1] = fd[v]
    <3> SUFFICES ASSUME v \in 1 .. Len(fd) PROVE fd_2[v - 1] = fd[v]
      OBVIOUS
    <3>1. v - 1 \in 2 .. Len(fd) - 1 /\ (v - 1) + 1 = v
      BY <1>1, <1>d
    <3>2. fd_2[v - 1] = fd[(v - 1) + 1]
      BY <1>4, <3>1
    <3> QED BY <3>1, <3>2
  <2>3. v # 0 /\ v - 1 # 0
    BY <1>d
  <2> QED BY <1>1, <1>5, <2>1, <2>2, <2>3 DEF IsSpot
<1>8. ASSUME NEW v \in Nat, NEW i \in Nat, IsSpot(v, i, fd, out),
             NEW w, NEW j, w = to[v][i], j = at[v][i]
      PROVE  /\ IsSpot(w, j, fd_2, out)
             /\ v = 0 => w = 0 /\ j = i
             /\ v # 0 => w # 0 /\ fd_2[w][j] = fd[v][i]
  <2>1. CASE v = 0
    <3>1. w = 0 /\ j = i
      BY <1>7, <1>8, <2>1
    <3> QED BY <1>8, <2>1, <3>1 DEF IsSpot
  <2>2. CASE v = 1
    <3>1. i \in 1 .. n /\ w = 1 /\ j = i
      BY <1>7, <1>8, <1>a, <2>2
    <3>2. i \in 1 .. n + Len(fd[2])
      BY <1>1, <3>1
    <3>3. IsSpot(1, i, fd_2, out) /\ fd_2[1][i] = fd[1][i]
      BY <1>2, <1>4, <1>c, <3>1, <3>2
    <3> QED BY <2>2, <3>1, <3>3
  <2>3. CASE v = 2
    <3>1. i \in 1 .. Len(fd[2]) /\ w = 1 /\ j = n + i
      BY <1>7, <1>8, <1>b, <2>3
    <3>2. n + i \in 1 .. n + Len(fd[2]) /\ n + i \in Nat
      BY <1>1, <3>1
    <3>3. IsSpot(w, j, fd_2, out)
      BY <1>c, <3>1, <3>2
    <3>4. fd_2[w][j] = fd[2][i]
      BY <1>2, <1>4, <3>1
    <3> QED BY <2>3, <3>1, <3>3, <3>4
  <2>4. CASE v > 2
    <3>1. w = v - 1 /\ j = i /\ v - 1 # 0
      BY <1>7, <1>8, <2>4
    <3>2. IsSpot(v - 1, i, fd_2, out) /\ fd_2[v - 1] = fd[v]
      BY <1>8, <1>d, <2>4
    <3>3. IsSpot(w, j, fd_2, out) /\ fd_2[w][j] = fd[v][i] /\ w # 0
      BY <3>1, <3>2, Zenon
    <3> QED BY <2>4, <3>3
  <2> QED BY <2>1, <2>2, <2>3, <2>4
<1>9. Moved(m, to, at, fd, out, fd_2, out)
  <2> SUFFICES ASSUME NEW v \in Nat, NEW i \in Nat, IsSpot(v, i, fd, out)
               PROVE  /\ IsSpot(to[v][i], at[v][i], fd_2, out)
                      /\ \A k \in 1 .. m : LineAt(v, i, k, fd, out) =>
                           LineAt(to[v][i], at[v][i], k, fd_2, out)
    BY DEF Moved
  <2>1. PICK w, j : w = to[v][i] /\ j = at[v][i]
    OBVIOUS
  <2>2. /\ IsSpot(w, j, fd_2, out)
        /\ v = 0 => w = 0 /\ j = i
        /\ v # 0 => w # 0 /\ fd_2[w][j] = fd[v][i]
    BY <1>8, <2>1
  <2>3. ASSUME NEW k \in 1 .. m, LineAt(v, i, k, fd, out) PROVE LineAt(w, j, k, fd_2, out)
    BY <2>2, <2>3 DEF LineAt
  <2> QED BY <2>1, <2>2, <2>3
<1>10. Apart(to, at, fd, out)
  <2> SUFFICES ASSUME NEW v \in Nat, NEW i \in Nat, NEW w \in Nat, NEW j \in Nat,
                      IsSpot(v, i, fd, out), IsSpot(w, j, fd, out),
                      to[v][i] = to[w][j], at[v][i] = at[w][j]
               PROVE  v = w /\ i = j
    BY DEF Apart
  <2>1. v = 1 => i \in 1 .. n
    BY <1>a
  <2>2. w = 1 => j \in 1 .. n
    BY <1>a
  <2>3. v = 2 => i \in 1 .. Len(fd[2])
    BY <1>b
  <2>4. w = 2 => j \in 1 .. Len(fd[2])
    BY <1>b
  <2>5. PICK w_2, j_2 : w_2 = to[v][i] /\ w_2 = to[w][j] /\ j_2 = at[v][i] /\ j_2 = at[w][j]
    OBVIOUS
  <2>6. /\ v <= 1 => w_2 = v
        /\ v > 1 => w_2 = v - 1
        /\ v = 2 => j_2 = n + i
        /\ v # 2 => j_2 = i
    BY <1>7, <2>5
  <2>7. /\ w <= 1 => w_2 = w
        /\ w > 1 => w_2 = w - 1
        /\ w = 2 => j_2 = n + j
        /\ w # 2 => j_2 = j
    BY <1>7, <2>5
  <2>8. CASE v = w
    BY <1>1, <2>6, <2>7, <2>8
  <2>9. CASE v < w
    <3>1. v = 1 /\ w = 2
      BY <2>6, <2>7, <2>9
    <3> QED BY <1>1, <2>1, <2>4, <2>6, <2>7, <3>1
  <2>10. CASE w < v
    <3>1. w = 1 /\ v = 2
      BY <2>6, <2>7, <2>10
    <3> QED BY <1>1, <2>2, <2>3, <2>6, <2>7, <3>1
  <2> QED BY <2>8, <2>9, <2>10
<1>11. Reached(to, at, fd, out, fd_2, out)
  <2> SUFFICES ASSUME NEW w \in Nat, NEW j \in Nat, IsSpot(w, j, fd_2, out)
               PROVE  \E v, i \in Nat : IsSpot(v, i, fd, out) /\ to[v][i] = w /\ at[v][i] = j
    BY DEF Reached
  <2>1. CASE w = 0
    <3>1. IsSpot(0, j, fd, out) /\ to[0][j] = 0 /\ at[0][j] = j
      BY <1>7, <2>1 DEF IsSpot
    <3> QED BY <2>1, <3>1
  <2>2. CASE w = 1 /\ j <= n
    <3>3. IsSpot(1, j, fd_2, out)
      BY <2>2, Zenon
    <3>4. j \in 1 .. n + Len(fd[2])
      BY <1>c, <3>3
    <3>1. j \in 1 .. n
      BY <1>1, <2>2, <3>4
    <3>2. IsSpot(1, j, fd, out) /\ to[1][j] = 1 /\ at[1][j] = j
      BY <1>7, <1>a, <3>1
    <3> QED BY <2>2, <3>2
  <2>3. CASE w = 1 /\ j > n
    <3>1. IsSpot(1, j, fd_2, out)
      BY <2>3, Zenon
    <3>2. j \in 1 .. n + Len(fd[2])
      BY <1>c, <3>1
    <3>3. PICK i \in 1 .. Len(fd[2]) : n + i = j
      <4>1. j - n \in 1 .. Len(fd[2]) /\ n + (j - n) = j
        BY <1>1, <2>3, <3>2
      <4> QED BY <4>1
    <3>4. i \in Nat
      BY <1>1
    <3>5. IsSpot(2, i, fd, out)
      BY <1>b, <3>4
    <3>6. to[2][i] = 1 /\ at[2][i] = n + i
      BY <1>7, <3>4
    <3> QED BY <2>3, <3>3, <3>4, <3>5, <3>6
  <2>4. CASE w > 1
    <3>1. w + 1 \in Nat /\ w + 1 > 2 /\ (w + 1) - 1 = w
      BY <2>4
    <3>2. IsSpot(w + 1, j, fd, out)
      BY <1>d, <3>1
    <3>3. to[w + 1][j] = w /\ at[w + 1][j] = j
      BY <1>7, <3>1
    <3> QED BY <3>1, <3>2, <3>3
  <2> QED BY <1>1, <2>1, <2>2, <2>3, <2>4
<1> QED BY <1>0, <1>6, <1>9, <1>10, <1>11, TalliedMoved

\* The first element of a sequence is replaced.
LEMMA HeadReplaced ==
  ASSUME NEW S, NEW s \in Seq(S), s # <<>>, NEW one \in Seq(S), Len(one) = 1
  PROVE  /\ Len(one \o Tail(s)) = Len(s)
         /\ one \o Tail(s) \in Seq(S)
         /\ (one \o Tail(s))[1] = one[1]
         /\ \A v \in 2 .. Len(s) : (one \o Tail(s))[v] = s[v]
<1> DEFINE rest == Tail(s)
           joined == one \o rest
<1>1. /\ Len(s) \in Nat /\ rest \in Seq(S) /\ Len(rest) = Len(s) - 1
      /\ \A v \in 1 .. Len(s) - 1 : rest[v] = s[v + 1]
  BY HeadTailProperties
<1> HIDE DEF rest
<1>2. rest \in Seq(S) /\ one \in Seq(S)
  BY <1>1
<1>3. /\ joined \in Seq(S) /\ Len(joined) = Len(one) + Len(rest)
      /\ \A v \in 1 .. Len(one) + Len(rest) :
           joined[v] = IF v <= Len(one) THEN one[v] ELSE rest[v - Len(one)]
  BY <1>2, ConcatProperties
<1> HIDE DEF joined
<1>4. Len(joined) = Len(s) /\ joined[1] = one[1]
  BY <1>1, <1>3
<1>5. ASSUME NEW v \in 2 .. Len(s) PROVE joined[v] = s[v]
  <2>1. joined[v] = rest[v - 1]
    BY <1>1, <1>3
  <2>2. rest[v - 1] = s[(v - 1) + 1] /\ (v - 1) + 1 = v
    BY <1>1
  <2> QED BY <2>1, <2>2
<1> QED BY <1>3, <1>4, <1>5 DEF joined, rest

\* The output e for an entry: its path is read from the buffer.
IsOutput(m, e, entry) ==
  /\ e.dev = entry.dev /\ (entry.inode <= LLONG_MAX => e.inode = entry.inode)
  /\ \A k \in 1 .. m : entry.path = At[k].path => e.path = file.lines[k].path

\* WriteEntry: the entry x of the first vector is written as e.
IsWritten(m, S, T, fd, out, x, e, fd_2, out_2) ==
  /\ fd \in Seq(Seq(S)) /\ fd # <<>> /\ out \in Seq(T) /\ x \in DOMAIN fd[1] /\ e \in T
  /\ Tallied(m, fd, out) /\ IsOutput(m, e, fd[1][x])
  /\ fd_2 = <<RemoveAt(fd[1], x)>> \o Tail(fd) /\ out_2 = Append(out, e)

LEMMA EntryWritten ==
  ASSUME NEW m, NEW S, NEW T, NEW fd, NEW out, NEW x, NEW e, NEW fd_2, NEW out_2,
         IsWritten(m, S, T, fd, out, x, e, fd_2, out_2)
  PROVE  Tallied(m, fd_2, out_2)
<1>0. /\ fd \in Seq(Seq(S)) /\ fd # <<>> /\ out \in Seq(T) /\ x \in DOMAIN fd[1] /\ e \in T
      /\ Tallied(m, fd, out) /\ IsOutput(m, e, fd[1][x])
      /\ fd_2 = <<RemoveAt(fd[1], x)>> \o Tail(fd) /\ out_2 = Append(out, e)
  BY DEF IsWritten
<1> DEFINE n == Len(fd[1])
           left == RemoveAt(fd[1], x)
           to == [v \in Nat |-> [i \in Nat |-> IF v = 1 /\ i = x THEN 0 ELSE v]]
           at == [v \in Nat |-> [i \in Nat |->
                    IF v = 1 /\ i = x THEN Len(out) + 1
                    ELSE IF v = 1 /\ i > x THEN i - 1 ELSE i]]
<1>1. /\ Len(fd) \in Nat /\ DOMAIN fd = 1 .. Len(fd) /\ 1 \in DOMAIN fd
      /\ fd[1] \in Seq(S) /\ n \in Nat /\ DOMAIN fd[1] = 1 .. n /\ x \in 1 .. n
      /\ Len(out) \in Nat /\ DOMAIN out = 1 .. Len(out)
  BY <1>0
<1>2. /\ left \in Seq(S) /\ Len(left) = n - 1
      /\ \A j \in 1 .. n - 1 : left[j] = IF j < x THEN fd[1][j] ELSE fd[1][j + 1]
  <2>1. fd[1] \in Seq(S) /\ x \in DOMAIN fd[1]
    BY <1>1
  <2> QED BY <2>1, RemoveAtIs
<1>3. /\ DOMAIN left = 1 .. n - 1
      /\ \A j \in 1 .. n - 1 : j < x => left[j] = fd[1][j]
      /\ \A j \in 1 .. n - 1 : j >= x => left[j] = fd[1][j + 1]
  BY <1>1, <1>2
<1> HIDE DEF left, n
<1>4. /\ DOMAIN fd_2 = 1 .. Len(fd) /\ fd_2[1] = left
      /\ \A v \in 2 .. Len(fd) : fd_2[v] = fd[v]
  <2>1. PICK U, one : U = Seq(S) /\ one = <<left>>
    OBVIOUS
  <2>2. one \in Seq(U) /\ Len(one) = 1 /\ one[1] = left
    BY <1>2, <2>1
  <2>3. fd \in Seq(U) /\ fd # <<>> /\ fd_2 = one \o Tail(fd)
    BY <1>0, <2>1 DEF left
  <2>4. /\ Len(fd_2) = Len(fd) /\ fd_2 \in Seq(U) /\ fd_2[1] = one[1]
        /\ \A v \in 2 .. Len(fd) : fd_2[v] = fd[v]
    BY <2>2, <2>3, HeadReplaced
  <2>5. DOMAIN fd_2 = 1 .. Len(fd)
    BY <2>4
  <2> QED BY <2>2, <2>4, <2>5
<1>5. /\ DOMAIN out_2 = 1 .. Len(out) + 1 /\ out_2[Len(out) + 1] = e
      /\ \A j \in 1 .. Len(out) : out_2[j] = out[j]
  BY <1>0
<1>6. to \in [Nat -> [Nat -> Nat]] /\ at \in [Nat -> [Nat -> Nat]]
  <2>1. to \in [Nat -> [Nat -> Nat]]
    OBVIOUS
  <2>2. ASSUME NEW v \in Nat, NEW i \in Nat PROVE at[v][i] \in Nat
    <3>1. /\ v = 1 /\ i = x => at[v][i] = Len(out) + 1
          /\ v = 1 /\ i > x => at[v][i] = i - 1
          /\ v # 1 \/ i < x => at[v][i] = i
      BY <1>1
    <3> QED BY <1>1, <3>1
  <2>3. at = [v \in Nat |-> [i \in Nat |-> at[v][i]]]
    OBVIOUS
  <2> HIDE DEF at
  <2>4. at \in [Nat -> [Nat -> Nat]]
    BY <2>2, <2>3
  <2> QED BY <2>1, <2>4
<1>7. \A v, i \in Nat : /\ v = 1 /\ i = x => to[v][i] = 0 /\ at[v][i] = Len(out) + 1
                        /\ v = 1 /\ i > x => to[v][i] = 1 /\ at[v][i] = i - 1
                        /\ v # 1 \/ i < x => to[v][i] = v /\ at[v][i] = i
  BY <1>1
<1> HIDE DEF to, at
<1>a. \A i \in Nat : IsSpot(1, i, fd, out) <=> i \in 1 .. n
  BY <1>1 DEF IsSpot, n
<1>b. \A i \in Nat : IsSpot(1, i, fd_2, out_2) <=> i \in 1 .. n - 1
  BY <1>1, <1>3, <1>4 DEF IsSpot
<1>c. \A i \in Nat : IsSpot(0, i, fd_2, out_2) <=> IsSpot(0, i, fd, out) \/ i = Len(out) + 1
  BY <1>1, <1>5 DEF IsSpot
<1>d. \A i \in Nat : IsSpot(0, i, fd, out) => i \in 1 .. Len(out) /\ out_2[i] = out[i]
  BY <1>1, <1>5 DEF IsSpot
<1>e. ASSUME NEW v \in Nat, NEW i \in Nat, v > 1
      PROVE  /\ IsSpot(v, i, fd, out) <=> IsSpot(v, i, fd_2, out_2)
             /\ IsSpot(v, i, fd, out) => fd_2[v] = fd[v]
  <2>1. v \in 1 .. Len(fd) => fd_2[v] = fd[v]
    BY <1>1, <1>4, <1>e
  <2> QED BY <1>1, <1>4, <1>e, <2>1 DEF IsSpot
<1>8. ASSUME NEW v \in Nat, NEW i \in Nat, IsSpot(v, i, fd, out),
             NEW w, NEW j, w = to[v][i], j = at[v][i],
             NEW k \in 1 .. m
      PROVE  /\ IsSpot(w, j, fd_2, out_2)
             /\ LineAt(v, i, k, fd, out) => LineAt(w, j, k, fd_2, out_2)
  <2>1. CASE v = 0
    <3>1. w = 0 /\ j = i
      BY <1>7, <1>8, <2>1
    <3>2. IsSpot(0, i, fd, out)
      BY <1>8, <2>1, Zenon
    <3>3. IsSpot(0, i, fd_2, out_2) /\ out_2[i] = out[i]
      BY <1>c, <1>d, <3>2
    <3> QED BY <2>1, <3>1, <3>3 DEF LineAt
  <2>2. CASE v = 1 /\ i < x
    <3>1. i \in 1 .. n /\ w = 1 /\ j = i
      BY <1>7, <1>8, <1>a, <2>2
    <3>2. i \in 1 .. n - 1
      BY <1>1, <2>2, <3>1
    <3>3. IsSpot(1, i, fd_2, out_2) /\ fd_2[1][i] = fd[1][i]
      BY <1>3, <1>4, <1>b, <2>2, <3>2
    <3> QED BY <2>2, <3>1, <3>3 DEF LineAt
  <2>3. CASE v = 1 /\ i > x
    <3>1. i \in 1 .. n /\ w = 1 /\ j = i - 1
      BY <1>7, <1>8, <1>a, <2>3
    <3>2. i - 1 \in 1 .. n - 1 /\ i - 1 >= x /\ (i - 1) + 1 = i /\ i - 1 \in Nat
      BY <1>1, <2>3, <3>1
    <3>3. IsSpot(1, i - 1, fd_2, out_2)
      BY <1>b, <3>2
    <3>4. left[i - 1] = fd[1][(i - 1) + 1]
      BY <1>3, <3>2
    <3>5. IsSpot(w, j, fd_2, out_2) /\ fd_2[w][j] = fd[v][i] /\ w = 1 /\ v = 1
      BY <1>4, <2>3, <3>1, <3>2, <3>3, <3>4
    <3> QED BY <3>5 DEF LineAt
  <2>4. CASE v = 1 /\ i = x
    <3>1. w = 0 /\ j = Len(out) + 1
      BY <1>7, <1>8, <2>4
    <3>2. IsSpot(0, Len(out) + 1, fd_2, out_2) /\ out_2[Len(out) + 1] = e
      BY <1>1, <1>5, <1>c
    <3>3. LineAt(1, x, k, fd, out) => LineAt(0, Len(out) + 1, k, fd_2, out_2)
      <4> SUFFICES ASSUME LineAt(1, x, k, fd, out)
                   PROVE  LineAt(0, Len(out) + 1, k, fd_2, out_2)
        OBVIOUS
      <4>1. HeldDev(file.lines[k], e.dev) /\ e.path = file.lines[k].path
        BY <1>0 DEF LineAt, IsOutput, HeldDev
      <4>2. HeldInode(file.lines[k], e.inode)
        BY <1>0 DEF LineAt, IsOutput, HeldInode
      <4> QED BY <3>2, <4>1, <4>2 DEF LineAt
    <3> QED BY <2>4, <3>1, <3>2, <3>3
  <2>5. CASE v > 1
    <3>1. w = v /\ j = i /\ v # 0
      BY <1>7, <1>8, <2>5
    <3>2. IsSpot(v, i, fd_2, out_2) /\ fd_2[v] = fd[v]
      BY <1>8, <1>e, <2>5
    <3> QED BY <3>1, <3>2 DEF LineAt
  <2> QED BY <1>1, <2>1, <2>2, <2>3, <2>4, <2>5
<1>9. Moved(m, to, at, fd, out, fd_2, out_2)
  <2> SUFFICES ASSUME NEW v \in Nat, NEW i \in Nat, IsSpot(v, i, fd, out)
               PROVE  /\ IsSpot(to[v][i], at[v][i], fd_2, out_2)
                      /\ \A k \in 1 .. m : LineAt(v, i, k, fd, out) =>
                           LineAt(to[v][i], at[v][i], k, fd_2, out_2)
    BY DEF Moved
  <2>1. PICK l \in 1 .. m : TRUE
    BY <1>0 DEF Tallied, Tally
  <2>2. PICK w, j : w = to[v][i] /\ j = at[v][i]
    OBVIOUS
  <2>3. IsSpot(w, j, fd_2, out_2)
    BY <1>8, <2>1, <2>2
  <2>4. ASSUME NEW k \in 1 .. m, LineAt(v, i, k, fd, out) PROVE LineAt(w, j, k, fd_2, out_2)
    BY <1>8, <2>2, <2>4
  <2> QED BY <2>2, <2>3, <2>4
<1>10. Apart(to, at, fd, out)
  <2> SUFFICES ASSUME NEW v \in Nat, NEW i \in Nat, NEW w \in Nat, NEW j \in Nat,
                      IsSpot(v, i, fd, out), IsSpot(w, j, fd, out),
                      to[v][i] = to[w][j], at[v][i] = at[w][j]
               PROVE  v = w /\ i = j
    BY DEF Apart
  <2>1. v = 0 => i \in 1 .. Len(out)
    BY <1>d
  <2>2. w = 0 => j \in 1 .. Len(out)
    BY <1>d
  <2>3. PICK w_2, j_2 : w_2 = to[v][i] /\ w_2 = to[w][j] /\ j_2 = at[v][i] /\ j_2 = at[w][j]
    OBVIOUS
  <2>4. /\ v = 1 /\ i = x => w_2 = 0 /\ j_2 = Len(out) + 1
        /\ v = 1 /\ i > x => w_2 = 1 /\ j_2 = i - 1
        /\ v # 1 \/ i < x => w_2 = v /\ j_2 = i
    BY <1>7, <2>3
  <2>5. /\ w = 1 /\ j = x => w_2 = 0 /\ j_2 = Len(out) + 1
        /\ w = 1 /\ j > x => w_2 = 1 /\ j_2 = j - 1
        /\ w # 1 \/ j < x => w_2 = w /\ j_2 = j
    BY <1>7, <2>3
  <2>6. v = w
    BY <1>1, <2>1, <2>2, <2>4, <2>5
  <2>7. i = j
    BY <1>1, <2>4, <2>5, <2>6
  <2> QED BY <2>6, <2>7
<1>11. Reached(to, at, fd, out, fd_2, out_2)
  <2> SUFFICES ASSUME NEW w \in Nat, NEW j \in Nat, IsSpot(w, j, fd_2, out_2)
               PROVE  \E v, i \in Nat : IsSpot(v, i, fd, out) /\ to[v][i] = w /\ at[v][i] = j
    BY DEF Reached
  <2>1. CASE w = 0
    <3>1. IsSpot(0, j, fd_2, out_2)
      BY <2>1, Zenon
    <3>2. CASE IsSpot(0, j, fd, out)
      <4>1. to[0][j] = 0 /\ at[0][j] = j
        BY <1>7
      <4> QED BY <2>1, <3>2, <4>1
    <3>3. CASE j = Len(out) + 1
      <4>1. to[1][x] = 0 /\ at[1][x] = Len(out) + 1 /\ x \in Nat
        BY <1>1, <1>7
      <4>2. IsSpot(1, x, fd, out)
        BY <1>1, <1>a
      <4> QED BY <2>1, <3>3, <4>1, <4>2
    <3> QED BY <1>c, <3>1, <3>2, <3>3
  <2>2. CASE w = 1
    <3>1. IsSpot(1, j, fd_2, out_2)
      BY <2>2, Zenon
    <3>2. j \in 1 .. n - 1
      BY <1>b, <3>1
    <3>3. CASE j < x
      <4>1. to[1][j] = 1 /\ at[1][j] = j
        BY <1>7, <3>3
      <4>2. j \in 1 .. n
        BY <1>1, <3>2
      <4>3. IsSpot(1, j, fd, out)
        BY <1>a, <4>2
      <4> QED BY <2>2, <4>1, <4>3
    <3>4. CASE j >= x
      <4>1. j + 1 \in 1 .. n /\ j + 1 \in Nat /\ j + 1 > x /\ (j + 1) - 1 = j
        BY <1>1, <3>2, <3>4
      <4>2. to[1][j + 1] = 1 /\ at[1][j + 1] = j
        BY <1>7, <4>1
      <4>3. IsSpot(1, j + 1, fd, out)
        BY <1>a, <4>1
      <4> QED BY <2>2, <4>1, <4>2, <4>3
    <3> QED BY <1>1, <3>3, <3>4
  <2>3. CASE w > 1
    <3>1. IsSpot(w, j, fd, out)
      BY <1>e, <2>3
    <3>2. to[w][j] = w /\ at[w][j] = j
      BY <1>7, <2>3
    <3> QED BY <3>1, <3>2
  <2> QED BY <2>1, <2>2, <2>3
<1> QED BY <1>0, <1>6, <1>9, <1>10, <1>11, TalliedMoved

----------------------------------------------------------------------------
(* Sorting the lines *)

\* The lines have been read up to the fields before the one at hand.
Reading(m) ==
  /\ Parsed(m) /\ Tallied(m, file_desc_, output)
  /\ field > 1 => HeldDev(file.lines[m + 1], desc[1])
  /\ field > 2 => HeldInode(file.lines[m + 1], desc[2])
  /\ pc = "vector" /\ dt = Null => dt_s = 0
  /\ pc = "fill" => file_desc_ # <<>>
  /\ pc = "fill" /\ room = 0 /\ dt = Null /\ line_size <= blk_e => m = N

\* The lines that have been read are there, in the vectors or in the output.
Having(m) ==
  /\ m \in 0 .. N /\ PathsKept(m) /\ Tallied(m, file_desc_, output)
  /\ Loaded /\ line_size <= blk_e => m = N

Kept ==
  /\ pc # "killed"
  /\ mode = "boot" => output = <<>>
  /\ Starting => buf = Mapped(file)
  /\ pc \in {"vector", "fill"} => \E m : Reading(m)
  /\ mode = "sort" /\ pc \in {"merge", "update", "write", "end", "done"} => \E m : Having(m)

KeptInv == file.lines # <<>> => Kept

LEMMA TalliedStays ==
  ASSUME NEW m, file' = file, Tallied(m, file_desc_', output')
  PROVE  Tallied(m, file_desc_, output)'
<1>1. At' = At
  BY SameList
<1>2. PICK vec, pos : Tally(m, vec, pos, file_desc_', output')
  BY DEF Tallied
<1>3. Tally(m, vec, pos, file_desc_, output)'
  BY <1>1, <1>2 DEF Tally, LineAt, IsSpot
<1> QED BY <1>3 DEF Tallied

LEMMA PathsKeptStay ==
  ASSUME NEW m, file' = file, buf' = buf, PathsKept(m)
  PROVE  PathsKept(m)'
BY SameList DEF PathsKept

\* What is used of the invariants.
LEMMA ListFacts ==
  ASSUME AllDescribed, PInv, file.lines # <<>>
  PROVE  /\ Block /\ field \in 1 .. 3 /\ file \in Files
         /\ N \in Nat \ {0} /\ file_desc_ \in Seq(Seq(EntryType))
BY ListIs DEF PInv, Types, Block

LEMMA KeptInit ==
  ASSUME Init
  PROVE  KeptInv
BY DEF Init, KeptInv, Kept, Starting

\* Nothing has been loaded.
LEMMA NothingLoaded ==
  ASSUME AllDescribed, PInv, Sorting, file.lines # <<>>, Starting, file' = file,
         UNCHANGED <<file_desc_, output>>, owners' = {}
  PROVE  Having(0)'
<1>1. file_desc_ = <<>> /\ output = <<>>
  BY DEF PInv, Owning, Sorting, Writing, Starting
<1>2. \A v, i \in Nat : ~IsSpot(v, i, file_desc_', output')
  BY <1>1 DEF IsSpot
<1>3. Tallied(0, file_desc_', output')
  BY <1>2, TalliedNothing
<1>4. Tallied(0, file_desc_, output)'
  BY <1>3, TalliedStays
<1>5. N' = N /\ N \in Nat
  BY ListFacts, SameList
<1> QED BY <1>4, <1>5 DEF Having, PathsKept, Loaded

LEMMA ReadingBegins ==
  ASSUME AllDescribed, PInv, Sorting, Kept, file.lines # <<>>, mode = "sort",
         Assign, owners' # {}
  PROVE  Reading(0)' /\ pc' = "vector"
<1>1. /\ pc' = "vector" /\ file' = file
      /\ UNCHANGED <<memory, filling, file_desc_, output>> /\ Starting
  BY DEF Assign, Starting, input
<1>2. file_desc_ = <<>> /\ output = <<>>
  BY <1>1 DEF PInv, Owning, Sorting, Writing, Starting
<1>3. \A v, i \in Nat : ~IsSpot(v, i, file_desc_', output')
  BY <1>1, <1>2 DEF IsSpot
<1>4. Tallied(0, file_desc_', output')
  BY <1>3, TalliedNothing
<1>5. Tallied(0, file_desc_, output)'
  BY <1>1, <1>4, TalliedStays
<1>6. dt_e = 0 /\ field = 1 /\ buf = Mapped(file) /\ dt = Null /\ dt_s = 0
  BY <1>1 DEF PInv, Halving, Kept
<1>7. Parsed(0)
  BY <1>6, ParsedInit DEF PInv
<1>8. Parsed(0)'
  BY <1>1, <1>7, ParsedStays DEF memory, filling
<1> QED BY <1>1, <1>5, <1>6, <1>8 DEF Reading, memory, filling

LEMMA RoomForOne ==
  ASSUME NEW n \in Nat, NEW l \in Nat \ {0}, l <= n
  PROVE  (n - 0) \div l # 0
OBVIOUS

LEMMA ReadingVector ==
  ASSUME AllDescribed, PInv, Kept, file.lines # <<>>, NEW m, Reading(m), NewVector
  PROVE  Reading(m)'
<1>1. /\ pc = "vector" /\ pc' = "fill" /\ file' = file
      /\ UNCHANGED <<memory, dt, field, desc, line_size, output>>
      /\ room' = (blk_e - dt_s) \div line_size
      /\ file_desc_' = Append(file_desc_, <<>>)
  BY DEF NewVector, list, input
<1>2. file_desc_ \in Seq(Seq(EntryType))
  BY ListFacts
<1>3. Tallied(m, file_desc_', output')
  BY <1>1, <1>2, VectorAdded DEF Reading
<1>4. Tallied(m, file_desc_, output)'
  BY <1>1, <1>3, TalliedStays
<1>5. Parsed(m)'
  BY <1>1, ParsedStays DEF Reading, memory
<1>6. file_desc_' # <<>>
  BY <1>1, <1>2
<1>7. dt = Null /\ line_size <= blk_e => room' # 0
  <2> SUFFICES ASSUME dt = Null, line_size <= blk_e PROVE room' # 0
    OBVIOUS
  <2>1. dt_s = 0
    BY <1>1 DEF Reading
  <2>2. line_size \in Nat \ {0}
    BY <1>1 DEF PInv, Types, Halving
  <2>3. blk_e \in Nat
    BY ListFacts, ListIs
  <2> QED BY <1>1, <2>1, <2>2, <2>3, RoomForOne
<1>8. /\ field' > 1 => HeldDev(file'.lines[m + 1], desc'[1])
      /\ field' > 2 => HeldInode(file'.lines[m + 1], desc'[2])
  BY <1>1 DEF Reading
<1>9. blk_e' = blk_e
  BY <1>1, SameList
<1> QED BY <1>1, <1>4, <1>5, <1>6, <1>7, <1>8, <1>9 DEF Reading

LEMMA ReadingNumber ==
  ASSUME AllDescribed, PInv, file.lines # <<>>, NEW m, Reading(m), FillNumber
  PROVE  Reading(m)'
<1>1. /\ pc = "fill" /\ pc' = "fill" /\ file' = file /\ field < 3 /\ field' = field + 1
      /\ GotField /\ dt' = Field.token
      /\ desc' = [desc EXCEPT ![field] = NumberRead]
      /\ UNCHANGED <<file_desc_, output>>
  BY DEF FillNumber, list, input
<1>2. Block /\ field \in 1 .. 3 /\ file \in Files /\ Parsed(m) /\ desc \in Ints \X ULongs
  BY ListFacts DEF Reading, PInv, Types
<1>3. m < N /\ Parsed(m)'
  BY <1>1, <1>2, ParsedNext
<1>4. /\ field = 1 => HeldDev(file.lines[m + 1], NumberRead)
      /\ field = 2 => HeldInode(file.lines[m + 1], NumberRead)
  BY <1>2, <1>3, FieldHolds
<1>5. Tallied(m, file_desc_, output)'
  BY <1>1, TalliedStays DEF Reading
<1>6. /\ field' > 1 => HeldDev(file.lines[m + 1], desc'[1])
      /\ field' > 2 => HeldInode(file.lines[m + 1], desc'[2])
  <2>1. CASE field = 1
    BY <1>1, <1>2, <1>4, <2>1
  <2>2. CASE field = 2
    BY <1>1, <1>2, <1>4, <2>2 DEF Reading
  <2> QED BY <1>1, <1>2, <2>1, <2>2
<1>7. dt' # Null
  BY <1>1 DEF GotField
<1> QED BY <1>1, <1>3, <1>5, <1>6, <1>7 DEF Reading

LEMMA ReadingPath ==
  ASSUME AllDescribed, PInv, file.lines # <<>>, NEW m, Reading(m), FillPath
  PROVE  Reading(m + 1)'
<1>1. /\ pc = "fill" /\ pc' = "fill" /\ file' = file /\ field = 3 /\ field' = 1
      /\ GotField /\ dt' = Field.token
      /\ file_desc_' = [file_desc_ EXCEPT ![Len(file_desc_)] = Append(@, Entry)]
      /\ output' = output
  BY DEF FillPath, list, input
<1>2. /\ Block /\ field \in 1 .. 3 /\ file \in Files /\ Parsed(m)
      /\ file_desc_ \in Seq(Seq(EntryType)) /\ file_desc_ # <<>>
      /\ HeldDev(file.lines[m + 1], desc[1]) /\ HeldInode(file.lines[m + 1], desc[2])
      /\ desc \in Ints \X ULongs /\ m \in Nat
  BY <1>1, ListFacts DEF Reading, PInv, Types, Parsed
<1>3. m < N /\ Parsed(m + 1)'
  BY <1>1, <1>2, ParsedNext
<1>4. Field.token = At[m + 1].path
  BY <1>1, <1>2, <1>3, FieldHolds
<1>5. /\ HeldDev(file.lines[m + 1], Entry.dev) /\ HeldInode(file.lines[m + 1], Entry.inode)
      /\ Entry.path = At[m + 1].path
  BY <1>2, <1>4 DEF Entry
<1>6. Entry \in EntryType
  <2>1. Field.token \in 0 .. blk_e - 1
    BY <1>1, <1>2, FieldIsInBlock DEF GotField
  <2> QED BY <1>2, <2>1, TypesOfNumbers DEF Entry, EntryType
<1>7. Tallied(m + 1, file_desc_', output')
  <2>1. PICK e : e = Entry
    OBVIOUS
  <2>2. /\ e \in EntryType /\ HeldDev(file.lines[m + 1], e.dev)
        /\ HeldInode(file.lines[m + 1], e.inode) /\ e.path = At[m + 1].path
    BY <1>5, <1>6, <2>1
  <2>3. file_desc_' = [file_desc_ EXCEPT ![Len(file_desc_)] = Append(@, e)]
    BY <1>1, <2>1
  <2>4. Tallied(m, file_desc_, output)
    BY DEF Reading
  <2>5. PICK S, fd, fd_2 : S = EntryType /\ fd = file_desc_ /\ fd_2 = file_desc_'
    OBVIOUS
  <2>6. /\ fd \in Seq(Seq(S)) /\ fd # <<>> /\ e \in S /\ Tallied(m, fd, output)
        /\ fd_2 = [fd EXCEPT ![Len(fd)] = Append(@, e)]
    BY <1>2, <2>2, <2>3, <2>4, <2>5
  <2>7. Tallied(m + 1, fd_2, output)
    BY <1>2, <2>2, <2>6, EntryAdded
  <2> QED BY <1>1, <2>5, <2>7
<1>8. Tallied(m + 1, file_desc_, output)'
  BY <1>1, <1>7, TalliedStays
<1>9. file_desc_' # <<>>
  BY <1>1, <1>2
<1>10. dt' # Null
  BY <1>1 DEF GotField
<1> QED BY <1>1, <1>3, <1>8, <1>9, <1>10 DEF Reading

LEMMA ReadingEnds ==
  ASSUME AllDescribed, PInv, file.lines # <<>>, NEW m, Reading(m), OutOfData
  PROVE  Reading(m)'
<1>1. /\ pc = "fill" /\ pc' = "fill" /\ file' = file /\ NoField /\ dt' = Null
      /\ field' = 1 /\ UNCHANGED <<file_desc_, output>>
  BY DEF OutOfData, list, input
<1>2. Block /\ field \in 1 .. 3 /\ Parsed(m)
  BY ListFacts DEF Reading
<1>3. m = N /\ field = 1 /\ buf' = buf /\ dt_e' = dt_e
  BY <1>1, <1>2, AllRead
<1>4. Parsed(m)'
  BY <1>1, <1>2, <1>3, ParsedStays
<1>5. Tallied(m, file_desc_, output)'
  BY <1>1, TalliedStays DEF Reading
<1>6. N' = N /\ file_desc_' # <<>>
  BY <1>1, SameList DEF Reading
<1> QED BY <1>1, <1>3, <1>4, <1>5, <1>6 DEF Reading

\* EndVector, when another vector follows.
LEMMA ReadingGoesOn ==
  ASSUME AllDescribed, PInv, file.lines # <<>>, NEW m, Reading(m), EndVector, dt # Null
  PROVE  Reading(m)' /\ pc' = "vector"
<1>1. /\ pc' = "vector" /\ file' = file
      /\ UNCHANGED <<memory, dt, field, desc, file_desc_, output>>
  BY DEF EndVector, MoreVectors, list, input
<1>2. Parsed(m)'
  BY <1>1, ParsedStays DEF Reading, memory
<1>3. Tallied(m, file_desc_, output)'
  BY <1>1, TalliedStays DEF Reading
<1> QED BY <1>1, <1>2, <1>3 DEF Reading

LEMMA ReadingIsOver ==
  ASSUME AllDescribed, PInv, file.lines # <<>>, NEW m, Reading(m), EndVector, dt = Null
  PROVE  Having(m)' /\ pc' = "merge"
<1>1. /\ pc = "fill" /\ room = 0 /\ pc' = "merge" /\ file' = file
      /\ UNCHANGED <<memory, file_desc_, output, line_size>>
  BY DEF EndVector, MoreVectors, list, input
<1>2. /\ m \in 0 .. N /\ PathsKept(m) /\ Tallied(m, file_desc_, output)
      /\ line_size <= blk_e => m = N
  BY <1>1 DEF Reading, Parsed
<1>3. Tallied(m, file_desc_, output)'
  BY <1>1, <1>2, TalliedStays
<1>4. PathsKept(m)' /\ N' = N /\ blk_e' = blk_e
  BY <1>1, <1>2, PathsKeptStay, SameList DEF memory
<1> QED BY <1>1, <1>2, <1>3, <1>4 DEF Having

\* The steps after reading leave the buffer alone.
LEMMA HavingStays ==
  ASSUME file.lines # <<>>, NEW m, Having(m), UNCHANGED <<list, memory, filling>>,
         Tallied(m, file_desc_', output')
  PROVE  Having(m)'
<1>1. file' = file /\ buf' = buf /\ owners' = owners /\ line_size' = line_size
  BY DEF list, input, handles, memory, filling
<1>2. Tallied(m, file_desc_, output)'
  BY <1>1, TalliedStays
<1>3. PathsKept(m)' /\ N' = N /\ blk_e' = blk_e
  BY <1>1, PathsKeptStay, SameList DEF Having
<1> QED BY <1>1, <1>2, <1>3 DEF Having, Loaded

LEMMA HavingMerged ==
  ASSUME AllDescribed, PInv, file.lines # <<>>, NEW m, Having(m), Merge
  PROVE  Having(m)'
<1>1. UNCHANGED <<list, memory, filling, output>> /\ Tallied(m, file_desc_, output)
  BY DEF Merge, Having
<1>2. CASE Len(file_desc_) > 1
  <2>1. file_desc_' = <<file_desc_[1] \o file_desc_[2]>> \o Tail(Tail(file_desc_))
    BY <1>2 DEF Merge, Merged
  <2>2. PICK S, fd, fd_2, out : /\ S = EntryType /\ fd = file_desc_ /\ fd_2 = file_desc_'
                                /\ out = output
    OBVIOUS
  <2>3. /\ fd \in Seq(Seq(S)) /\ Len(fd) > 1 /\ Tallied(m, fd, out)
        /\ fd_2 = <<fd[1] \o fd[2]>> \o Tail(Tail(fd))
    BY <1>1, <1>2, <2>1, <2>2, ListFacts
  <2>4. Tallied(m, fd_2, out)
    BY <2>3, VectorsMerged
  <2> QED BY <1>1, <2>2, <2>4, HavingStays
<1>3. CASE ~(Len(file_desc_) > 1)
  <2>1. file_desc_' = file_desc_
    BY <1>3 DEF Merge
  <2> QED BY <1>1, <2>1, HavingStays
<1> QED BY <1>2, <1>3

LEMMA HavingUpdated ==
  ASSUME AllDescribed, PInv, file.lines # <<>>, NEW m, Having(m), UpdateBlock
  PROVE  Having(m)'
<1>1. UNCHANGED <<list, memory, filling, output>> /\ Tallied(m, file_desc_, output)
  BY DEF UpdateBlock, Having
<1>2. PICK b \in [Slots -> Blocks] :
        file_desc_' =
          [v \in DOMAIN file_desc_ |->
             [k \in DOMAIN file_desc_[v] |->
                LET entry == file_desc_[v][k] IN
                [entry EXCEPT !.block =
                   IF StringAt(buf, entry.path) \in Readable THEN b[<<v, k>>] ELSE 0]]]
  BY DEF UpdateBlock
<1>3. file_desc_ \in Seq(Seq(EntryType))
  BY ListFacts
<1>4. ASSUME NEW v \in DOMAIN file_desc_
      PROVE  DOMAIN file_desc_'[v] = DOMAIN file_desc_[v]
  BY <1>2
<1>5. ASSUME NEW v \in DOMAIN file_desc_, NEW k \in DOMAIN file_desc_[v]
      PROVE  /\ file_desc_'[v][k].dev = file_desc_[v][k].dev
             /\ file_desc_'[v][k].inode = file_desc_[v][k].inode
             /\ file_desc_'[v][k].path = file_desc_[v][k].path
  <2>1. PICK n : file_desc_'[v][k] = [file_desc_[v][k] EXCEPT !.block = n]
    BY <1>2
  <2>2. file_desc_[v][k] \in EntryType
    BY <1>3
  <2> QED BY <2>1, <2>2 DEF EntryType
<1>6. DOMAIN file_desc_' = DOMAIN file_desc_
  BY <1>2
<1>7. ASSUME NEW v \in Nat, NEW i \in Nat
      PROVE  IsSpot(v, i, file_desc_', output) <=> IsSpot(v, i, file_desc_, output)
  BY <1>4, <1>6 DEF IsSpot
<1>8. ASSUME NEW v \in Nat, NEW i \in Nat, v # 0, IsSpot(v, i, file_desc_, output)
      PROVE  /\ file_desc_'[v][i].dev = file_desc_[v][i].dev
             /\ file_desc_'[v][i].inode = file_desc_[v][i].inode
             /\ file_desc_'[v][i].path = file_desc_[v][i].path
  BY <1>5, <1>8 DEF IsSpot
<1>9. Unmoved(file_desc_, file_desc_', output)
  BY <1>7, <1>8 DEF Unmoved
<1>10. Tallied(m, file_desc_', output)
  BY <1>1, <1>9, TalliedSame
<1> QED BY <1>1, <1>10, HavingStays

\* The path of an entry that is in a vector can be read.
LEMMA PathOfEntry ==
  ASSUME AllDescribed, Block, file.lines # <<>>, NEW m, Having(m),
         NEW v \in Nat \ {0}, NEW i \in Nat, IsSpot(v, i, file_desc_, output),
         NEW path, path = file_desc_[v][i].path
  PROVE  /\ StringAt(buf, path) # Unknown
         /\ \A k \in 1 .. m : path = At[k].path => StringAt(buf, path) = file.lines[k].path
<1>1. PICK vec, pos : Tally(m, vec, pos, file_desc_, output)
  BY DEF Having, Tallied
<1>2. PICK k \in 1 .. m : vec[k] = v /\ pos[k] = i
  BY <1>1 DEF Tally
<1>3. LineAt(v, i, k, file_desc_, output)
  BY <1>1, <1>2 DEF Tally
<1>4. path = At[k].path
  BY <1>3 DEF LineAt
<1>5. m \in 0 .. N /\ PathsKept(m)
  BY DEF Having
<1> QED BY <1>4, <1>5, KeptPathIs

\* No path that has been written was read beyond the mapping.
LEMMA PathOfOutput ==
  ASSUME AllDescribed, Block, file.lines # <<>>, NEW m, Having(m),
         NEW i \in Nat, i \in DOMAIN output
  PROVE  output[i].path # Unknown
<1>1. PICK vec, pos : Tally(m, vec, pos, file_desc_, output)
  BY DEF Having, Tallied
<1>2. IsSpot(0, i, file_desc_, output)
  BY DEF IsSpot
<1>3. PICK k \in 1 .. m : vec[k] = 0 /\ pos[k] = i
  BY <1>1, <1>2 DEF Tally
<1>4. LineAt(0, i, k, file_desc_, output)
  BY <1>1, <1>3 DEF Tally
<1>5. output[i].path = file.lines[k].path
  BY <1>4 DEF LineAt
<1>6. m \in 0 .. N /\ PathsKept(m)
  BY DEF Having
<1> QED BY <1>5, <1>6, KeptPathIs

LEMMA HavingWritten ==
  ASSUME AllDescribed, PInv, Sorting, file.lines # <<>>, NEW m, Having(m), WriteEntry
  PROVE  Having(m)'
<1>1. UNCHANGED <<list, memory, filling>> /\ Tallied(m, file_desc_, output) /\ file_desc_ # <<>>
  BY DEF WriteEntry, Having
<1>2. PICK x \in First(Head(file_desc_)) :
        /\ output' = Append(output, Printed(Head(file_desc_)[x]))
        /\ file_desc_' = <<RemoveAt(Head(file_desc_), x)>> \o Tail(file_desc_)
  BY DEF WriteEntry
<1> DEFINE entry == file_desc_[1][x]
           path == StringAt(buf, entry.path)
           e == Printed(entry)
<1>3. /\ Head(file_desc_) = file_desc_[1] /\ entry = Head(file_desc_)[x]
      /\ 1 \in DOMAIN file_desc_ /\ file_desc_[1] \in Seq(EntryType)
      /\ x \in DOMAIN file_desc_[1]
  <2>1. file_desc_ \in Seq(Seq(EntryType))
    BY ListFacts
  <2>2. Head(file_desc_) = file_desc_[1] /\ 1 \in DOMAIN file_desc_
    BY <1>1, <2>1
  <2> QED BY <2>1, <2>2 DEF First
<1>4. entry \in EntryType /\ e \in OutputType /\ e.path = path
  BY <1>1, <1>3, EntryIs
<1>5. e.dev = entry.dev /\ (entry.inode <= LLONG_MAX => e.inode = entry.inode)
  <2>1. PICK inode \in Nat : inode = entry.inode
    BY <1>4, TypesOfNumbers DEF EntryType, ULongs, ULONG_MAX
  <2>2. inode <= LLONG_MAX => Signed(inode, LLONG_MAX) = inode
    BY TypesOfNumbers, SignedIs
  <2>3. PICK printed : printed = Signed(inode, LLONG_MAX)
    OBVIOUS
  <2>4. e = [entry EXCEPT !.inode = printed, !.path = path]
    BY <2>1, <2>3 DEF Printed
  <2> HIDE DEF e, path
  <2>5. e.dev = entry.dev /\ e.inode = printed
    BY <1>4, <2>4 DEF EntryType
  <2> QED BY <2>1, <2>2, <2>3, <2>5
<1>6. x \in Nat /\ IsSpot(1, x, file_desc_, output)
  BY <1>3 DEF IsSpot
<1>7. \A k \in 1 .. m : entry.path = At[k].path => path = file.lines[k].path
  BY <1>6, PathOfEntry, ListFacts
<1>8. IsOutput(m, e, entry)
  BY <1>4, <1>5, <1>7 DEF IsOutput
<1>9. Tallied(m, file_desc_', output')
  <2>1. PICK S, T, fd, fd_2, out, out_2, f :
          /\ S = EntryType /\ T = OutputType /\ fd = file_desc_ /\ fd_2 = file_desc_'
          /\ out = output /\ out_2 = output' /\ f = e
    OBVIOUS
  <2>2. /\ fd \in Seq(Seq(S)) /\ fd # <<>> /\ out \in Seq(T) /\ x \in DOMAIN fd[1] /\ f \in T
        /\ Tallied(m, fd, out) /\ IsOutput(m, f, fd[1][x])
    BY <1>1, <1>3, <1>4, <1>8, <2>1, ListFacts DEF Sorting
  <2>3. fd_2 = <<RemoveAt(fd[1], x)>> \o Tail(fd) /\ out_2 = Append(out, f)
    BY <1>2, <1>3, <2>1
  <2>4. IsWritten(m, S, T, fd, out, x, f, fd_2, out_2)
    BY <2>2, <2>3 DEF IsWritten
  <2>5. Tallied(m, fd_2, out_2)
    BY <2>4, EntryWritten
  <2> QED BY <2>1, <2>5
<1> QED BY <1>1, <1>9, HavingStays

LEMMA HavingNext ==
  ASSUME AllDescribed, PInv, Sorting, file.lines # <<>>, NEW m, Having(m), NextVector
  PROVE  Having(m)'
<1>1. UNCHANGED <<list, memory, filling, output>> /\ Tallied(m, file_desc_, output) /\ pc = "write"
  BY DEF NextVector, Having
<1>2. file_desc_ \in Seq(Seq(EntryType)) /\ Len(file_desc_) <= 1
  BY <1>1, ListFacts DEF Sorting
<1>3. CASE file_desc_ = <<>>
  BY <1>1, <1>3, HavingStays DEF NextVector
<1>4. CASE file_desc_ # <<>>
  <2>1. Head(file_desc_) = <<>> /\ file_desc_' = Tail(file_desc_)
    BY <1>4 DEF NextVector
  <2>2. DOMAIN file_desc_ = {1} /\ file_desc_[1] = <<>> /\ Len(file_desc_) = 1
    <3>1. Len(file_desc_) = 1
      <4>1. PICK n \in Nat \ {0} : n = Len(file_desc_)
        BY <1>2, <1>4, EmptySeq
      <4>2. n <= 1
        BY <1>2, <4>1
      <4>3. n = 1
        BY <4>2
      <4> QED BY <4>1, <4>3
    <3>2. DOMAIN file_desc_ = 1 .. 1 /\ Head(file_desc_) = file_desc_[1]
      BY <1>2, <3>1
    <3> QED BY <2>1, <3>1, <3>2
  <2>3. Len(file_desc_') = 0 /\ DOMAIN file_desc_' = 1 .. Len(file_desc_')
    BY <1>2, <1>4, <2>1, <2>2, TailIs
  <2>4. ASSUME NEW v \in Nat, NEW i \in Nat
        PROVE  /\ IsSpot(v, i, file_desc_', output) <=> IsSpot(v, i, file_desc_, output)
               /\ ~(v # 0 /\ IsSpot(v, i, file_desc_, output))
    <3>1. DOMAIN file_desc_[1] = {} /\ DOMAIN file_desc_' = {}
      BY <2>2, <2>3
    <3> QED BY <2>2, <3>1 DEF IsSpot
  <2>5. Unmoved(file_desc_, file_desc_', output)
    BY <2>4 DEF Unmoved
  <2>6. Tallied(m, file_desc_', output)
    BY <1>1, <2>5, TalliedSame
  <2> QED BY <1>1, <2>6, HavingStays
<1> QED BY <1>3, <1>4

LEMMA HavingInTheEnd ==
  ASSUME AllDescribed, PInv, file.lines # <<>>, NEW m, Having(m), Destroy
  PROVE  Having(m)'
<1>1. /\ file' = file /\ buf' = buf /\ owners' = {}
      /\ Tallied(m, file_desc_', output') /\ m \in 0 .. N /\ PathsKept(m)
  BY DEF Destroy, Having, input, memory
<1>2. Tallied(m, file_desc_, output)'
  BY <1>1, TalliedStays
<1>3. PathsKept(m)' /\ N' = N
  BY <1>1, PathsKeptStay, SameList
<1> QED BY <1>1, <1>2, <1>3 DEF Having, Loaded

\* Neither strtoul nor printf reads beyond the mapping.
LEMMA NoFault ==
  ASSUME AllDescribed, PInv, Sorting, Kept, file.lines # <<>>
  PROVE  ~Fault
<1>1. Block /\ field \in 1 .. 3
  BY ListFacts
<1>2. ASSUME pc = "fill", Field.token # Null, field < 3,
             \A a \in DOMAIN buf : a >= DigitsAt(Field.buf, Field.token) =>
                                   Field.buf[a] \in DOMAIN DigitValue
      PROVE  FALSE
  <2>1. PICK m : Reading(m)
    BY <1>2 DEF Kept
  <2>2. Parsed(m) /\ m \in 0 .. N /\ N \in Nat
    BY <2>1, ListFacts DEF Reading, Parsed
  <2>3. m < N
    BY <1>1, <1>2, <2>2, NoFieldIs
  <2>4. PICK a \in DOMAIN buf : a > Field.token /\ Field.buf[a] = NUL
    BY <1>1, <2>2, <2>3, FieldHolds
  <2>5. Field.token \in Nat /\ a \in Nat
    BY <1>1, <1>2, BlockIs, FieldIsInBlock
  <2>6. a >= DigitsAt(Field.buf, Field.token)
    BY <2>4, <2>5 DEF DigitsAt
  <2>7. NUL \in DOMAIN DigitValue
    BY <1>2, <2>4, <2>6
  <2> QED BY <2>7, DigitsAreNoBlanks DEF Blank
<1>3. ASSUME pc = "write", file_desc_ # <<>>, NEW x \in First(Head(file_desc_)),
             StringAt(buf, Head(file_desc_)[x].path) = Unknown
      PROVE  FALSE
  <2>1. PICK m : Having(m)
    BY <1>3 DEF Kept, PInv, Owning
  <2>2. /\ Head(file_desc_)[x] = file_desc_[1][x] /\ 1 \in DOMAIN file_desc_
        /\ x \in DOMAIN file_desc_[1] /\ file_desc_[1] \in Seq(EntryType)
    BY <1>3, EntryIs
  <2>3. x \in Nat /\ IsSpot(1, x, file_desc_, output)
    BY <2>2 DEF IsSpot
  <2> QED BY <1>1, <1>3, <2>1, <2>2, <2>3, PathOfEntry
<1> QED BY <1>2, <1>3 DEF Fault, ReadsBehindMapping

LEMMA KeptNext ==
  ASSUME AllDescribed, PInv, Sorting, KeptInv, [Next]_vars
  PROVE  KeptInv'
<1>1. UNCHANGED <<file, mode>>
  BY DEF Next, vars, Open, GetFullMap, Assign, Destroy, SkipField, ReadaheadFile,
     ReadaheadEnd, NewVector, FillNumber, FillPath, OutOfData, EndVector, Merge,
     UpdateBlock, WriteEntry, NextVector, Fault, Ended, list, input
<1> SUFFICES ASSUME file.lines # <<>> PROVE Kept'
  BY <1>1 DEF KeptInv
<1>2. Kept
  BY DEF KeptInv
<1>3. Mapped(file)' = Mapped(file)
  BY <1>1
<1>4. ASSUME NEW m, Reading(m)', pc' \in {"vector", "fill"}, mode = "sort" PROVE Kept'
  BY <1>1, <1>4 DEF Kept, Starting
<1>5. ASSUME NEW m, Having(m)', pc' \in {"merge", "update", "write", "end", "done"},
             mode = "sort"
      PROVE  Kept'
  BY <1>1, <1>5 DEF Kept, Starting
<1>6. ASSUME mode = "boot", output' = output, pc' \in {"readahead", "end", "done"}
      PROVE  Kept'
  BY <1>1, <1>2, <1>6 DEF Kept, Starting
<1>7. ASSUME UNCHANGED <<buf, line_size, output>>, pc' \in {"map", "assign"}, Starting
      PROVE  Kept'
  BY <1>1, <1>2, <1>3, <1>7 DEF Kept, Starting
<1>8. mode \in {"boot", "sort"}
  BY DEF PInv, Types
<1>9. ASSUME Starting, UNCHANGED <<file_desc_, output>>, owners' = {}, pc' = NotLoaded
      PROVE  Kept'
  <2>1. Having(0)'
    BY <1>1, <1>9, NothingLoaded
  <2> QED BY <1>5, <1>6, <1>8, <1>9, <2>1 DEF NotLoaded
<1>10. CASE Open
  <2>1. Starting /\ UNCHANGED <<buf, line_size, output, file_desc_>> /\ owners' = {}
    BY <1>10 DEF Open, Starting, PInv, Owning, memory, filling
  <2> QED BY <1>7, <1>9, <1>10, <2>1 DEF Open
<1>11. CASE GetFullMap
  BY <1>7, <1>11 DEF GetFullMap, Starting, memory, filling
<1>12. CASE Assign
  <2>1. CASE owners' = {}
    BY <1>9, <1>12, <2>1 DEF Assign, Starting
  <2>2. CASE owners' # {} /\ mode = "sort"
    <3>1. Reading(0)' /\ pc' = "vector"
      BY <1>2, <1>12, <2>2, ReadingBegins
    <3> QED BY <1>4, <2>2, <3>1
  <2>3. CASE owners' # {} /\ mode = "boot"
    BY <1>6, <1>12, <2>3 DEF Assign
  <2> QED BY <1>8, <2>1, <2>2, <2>3
<1>13. CASE Destroy
  <2>1. pc = "end" /\ pc' = "done" /\ output' = output
    BY <1>13 DEF Destroy
  <2>2. CASE mode = "sort"
    <3>1. PICK m : Having(m)
      BY <1>2, <2>1, <2>2 DEF Kept
    <3>2. Having(m)'
      BY <1>13, <3>1, HavingInTheEnd
    <3> QED BY <1>5, <2>1, <2>2, <3>2
  <2> QED BY <1>6, <1>8, <2>1, <2>2
<1>14. CASE SkipField \/ ReadaheadFile \/ ReadaheadEnd
  <2>1. mode = "boot" /\ output' = output
    BY <1>14 DEF SkipField, ReadaheadFile, ReadaheadEnd, PInv, Owning
  <2>2. pc' \in {"readahead", "end"}
    BY <1>14 DEF SkipField, ReadaheadFile, ReadaheadEnd, AfterData
  <2> QED BY <1>6, <2>1, <2>2
<1>15. ASSUME pc \in {"vector", "fill", "merge", "update", "write"} PROVE mode = "sort"
  BY <1>15 DEF PInv, Owning
<1>16. CASE NewVector \/ FillNumber \/ FillPath \/ OutOfData \/ EndVector
  <2>1. pc \in {"vector", "fill"} /\ mode = "sort"
    BY <1>15, <1>16 DEF NewVector, FillNumber, FillPath, OutOfData, EndVector
  <2>2. PICK m : Reading(m)
    BY <1>2, <2>1 DEF Kept
  <2>3. CASE NewVector
    BY <1>2, <1>4, <2>1, <2>2, <2>3, ReadingVector DEF NewVector
  <2>4. CASE FillNumber
    BY <1>4, <2>1, <2>2, <2>4, ReadingNumber DEF FillNumber
  <2>5. CASE FillPath
    BY <1>4, <2>1, <2>2, <2>5, ReadingPath DEF FillPath
  <2>6. CASE OutOfData
    BY <1>4, <2>1, <2>2, <2>6, ReadingEnds DEF OutOfData
  <2>7. CASE EndVector
    <3>1. CASE dt = Null
      BY <1>5, <2>1, <2>2, <2>7, <3>1, ReadingIsOver
    <3>2. CASE dt # Null
      BY <1>4, <2>1, <2>2, <2>7, <3>2, ReadingGoesOn
    <3> QED BY <3>1, <3>2
  <2> QED BY <1>16, <2>3, <2>4, <2>5, <2>6, <2>7
<1>17. CASE Merge \/ UpdateBlock \/ WriteEntry \/ NextVector
  <2>1. pc \in {"merge", "update", "write"} /\ mode = "sort"
    BY <1>15, <1>17 DEF Merge, UpdateBlock, WriteEntry, NextVector
  <2>2. PICK m : Having(m)
    BY <1>2, <2>1 DEF Kept
  <2>3. Having(m)'
    BY <1>17, <2>2, HavingMerged, HavingUpdated, HavingWritten, HavingNext
  <2>4. pc' \in {"merge", "update", "write", "end"}
    BY <1>17 DEF Merge, UpdateBlock, WriteEntry, NextVector
  <2> QED BY <1>5, <2>1, <2>3, <2>4
<1>18. CASE UNCHANGED vars
  <2>1. /\ UNCHANGED <<buf, dt_s, dt_e, dt, field, desc, line_size, room, pc, output,
                      file_desc_, owners>>
        /\ UNCHANGED <<list, memory, filling>>
    BY <1>18 DEF vars, memory, filling, list, handles
  <2>2. ASSUME NEW m, Reading(m) PROVE Reading(m)'
    <3>1. Parsed(m)'
      BY <1>1, <2>1, <2>2, ParsedStays DEF Reading
    <3>2. Tallied(m, file_desc_, output)'
      BY <1>1, <2>1, <2>2, TalliedStays DEF Reading
    <3>3. N' = N /\ blk_e' = blk_e
      BY <1>1, SameList
    <3> QED BY <1>1, <2>1, <2>2, <3>1, <3>2, <3>3 DEF Reading
  <2>3. ASSUME NEW m, Having(m) PROVE Having(m)'
    BY <2>1, <2>3, HavingStays DEF Having
  <2> QED BY <1>1, <1>2, <1>3, <2>1, <2>2, <2>3 DEF Kept, Starting
<1>19. ~Fault
  BY <1>2, NoFault
<1> QED
  BY <1>10, <1>11, <1>12, <1>13, <1>14, <1>16, <1>17, <1>18, <1>19 DEF Next, Ended

----------------------------------------------------------------------------
(* The lines of the output *)

\* When the output has an entry for each of the lines, it has the lines.
LEMMA LinesAreWritten ==
  ASSUME AllDescribed, Sorting, file \in Files, file.lines # <<>>,
         Tallied(N, <<>>, output)
  PROVE  EveryLineIsWritten
<1>1. PICK vec, pos : Tally(N, vec, pos, <<>>, output)
  BY DEF Tallied
<1>2. DOMAIN file.lines = 1 .. N /\ DOMAIN output \subseteq Nat
  BY ListIs DEF Sorting
<1> DEFINE place == [k \in 1 .. N |-> pos[k]]
<1>3. ASSUME NEW k \in 1 .. N
      PROVE  /\ vec[k] = 0 /\ pos[k] \in DOMAIN output
             /\ SameLine(file.lines[k], output[pos[k]])
  <2>1. /\ IsSpot(vec[k], pos[k], <<>>, output) /\ LineAt(vec[k], pos[k], k, <<>>, output)
    BY <1>1 DEF Tally
  <2>2. vec[k] = 0 /\ pos[k] \in DOMAIN output
    BY <2>1 DEF IsSpot
  <2> QED BY <2>1, <2>2 DEF LineAt, SameLine, HeldDev, HeldInode
<1>4. ASSUME NEW j \in 1 .. N, NEW k \in 1 .. N, pos[j] = pos[k] PROVE j = k
  BY <1>1, <1>3, <1>4 DEF Tally
<1>5. ASSUME NEW i \in DOMAIN output PROVE \E k \in 1 .. N : pos[k] = i
  <2>1. i \in Nat /\ IsSpot(0, i, <<>>, output)
    BY <1>2 DEF IsSpot
  <2> QED BY <1>1, <2>1 DEF Tally
<1>6. place \in Bijection(1 .. N, DOMAIN output)
  <2>1. place \in [1 .. N -> DOMAIN output]
    BY <1>3
  <2>2. \A j, k \in 1 .. N : place[j] = place[k] => j = k
    BY <1>4
  <2>3. \A i \in DOMAIN output : \E k \in 1 .. N : place[k] = i
    BY <1>5
  <2> HIDE DEF place
  <2> QED BY <2>1, <2>2, <2>3 DEF Bijection, Injection, Surjection, IsInjective
<1>7. \A k \in 1 .. N : SameLine(file.lines[k], output[place[k]])
  BY <1>3
<1> HIDE DEF place
<1> QED BY <1>2, <1>6, <1>7 DEF EveryLineIsWritten

THEOREM PreloadKept ==
  ASSUME AllDescribed
  PROVE  Spec => []KeptInv
<1>1. Init => KeptInv
  BY KeptInit
<1>2. PInv /\ Sorting /\ KeptInv /\ [Next]_vars => KeptInv'
  BY KeptNext
<1> QED BY <1>1, <1>2, PreloadInvariant, PreloadSorting, PTL DEF Spec

\* Each line of the list comes out of the sort once, with its path and with the
\* numbers that fit in their fields, and nothing else does: however many lines
\* the list has, into how many vectors they are read, in whatever order they
\* are written, and however wide the fields are, provided that the list is not
\* shorter than a line is assumed to be.
THEOREM PreloadSortKeeps ==
  ASSUME AllDescribed
  PROVE  Spec => []SortKeepsEveryLine
<1>1. PInv /\ Sorting /\ KeptInv => SortKeepsEveryLine
  <2> SUFFICES ASSUME PInv, Sorting, KeptInv, SortsAList, line_size <= blk_e
               PROVE  EveryLineIsWritten
    BY DEF SortKeepsEveryLine
  <2>0. pc = "end" /\ mode = "sort" /\ Loaded /\ file.lines # <<>>
    BY DEF SortsAList
  <2>1. PICK m : Having(m)
    BY <2>0 DEF KeptInv, Kept
  <2>2. m = N /\ Tallied(N, file_desc_, output)
    BY <2>0, <2>1 DEF Having
  <2>3. file_desc_ = <<>> /\ file \in Files
    BY <2>0 DEF PInv, Owning, Block
  <2>4. Tallied(N, <<>>, output)
    BY <2>2, <2>3, Zenon
  <2> QED BY <2>0, <2>3, <2>4, LinesAreWritten
<1> QED BY <1>1, PreloadInvariant, PreloadSorting, PreloadKept, PTL

\* The strings of every list that holds nothing but its lines end inside of the
\* mapping, also when the list fills its last page; those of other lists do
\* unless they fill it.
THEOREM PreloadStringsEnd ==
  ASSUME AllDescribed
  PROVE  Spec => []StringsEndInMapping
<1>1. PInv /\ Sorting /\ AllTerminated /\ KeptInv => StringsEndInMapping
  <2> SUFFICES ASSUME PInv, Sorting, AllTerminated, KeptInv,
                      pc = "killed" \/ Unknown \in {output[k].path : k \in DOMAIN output}
               PROVE  Len(file.text) % PageSize = 0 /\ file.lines = <<>>
    BY DEF StringsEndInMapping
  <2>1. Len(file.text) % PageSize = 0
    BY DEF AllTerminated
  <2>2. ASSUME file.lines # <<>> PROVE FALSE
    <3>1. Kept /\ Block /\ output \in Seq(OutputType)
      BY <2>2 DEF KeptInv, PInv, Sorting
    <3>2. PICK k \in DOMAIN output : output[k].path = Unknown
      BY <3>1 DEF Kept
    <3>3. k \in Nat /\ output # <<>>
      BY <3>1
    <3>4. mode = "sort" /\ pc \in {"write", "end", "done"}
      BY <3>1, <3>3 DEF Kept, Sorting, Writing, PInv, Types
    <3>5. PICK m : Having(m)
      BY <3>1, <3>4 DEF Kept
    <3> QED BY <2>2, <3>1, <3>2, <3>3, <3>5, PathOfOutput
  <2> QED BY <2>1, <2>2
<1> QED BY <1>1, PreloadInvariant, PreloadSorting, PreloadTerminated, PreloadKept, PTL
=============================================================================
