------------------------------ MODULE Preload ------------------------------
(***************************************************************************)
(* The preload list of root/preload.h: class preload_parser.               *)
(*                                                                         *)
(* The list is a text file with one line `dev inode path` per file.  The   *)
(* parser maps the file privately into memory and cuts it into tokens in   *)
(* place: nextToken overwrites the delimiter after a token with a NUL and  *)
(* hands out a pointer, so a path is whatever the buffer holds at that     *)
(* address when the path is used.                                          *)
(*                                                                         *)
(* The boot program only reads ahead every file of the list (mode "boot",  *)
(* readahead); run by hand it loads the list, sorts it by the position of  *)
(* the files on disk and writes it to the console (mode "sort": loadFile,  *)
(* Merge, UpdateBlock, WriteOut).                                          *)
(*                                                                         *)
(* An operator whose name starts with Mut is the definition after it with  *)
(* a plausible mistake in it; no specification uses it.                    *)
(***************************************************************************)
EXTENDS Integers, Sequences, FiniteSets, SequencesExt

CONSTANTS
  Files,        \* the list files: records [text, lines], see FilesAssumption
  Readable,     \* the paths that open() succeeds for
  Blocks,       \* the block numbers that FIBMAP may report
  LineSizes,    \* processBlock first assumes lines of such a length (50)
  PageSize,     \* a mapping is as long as a number of pages
  Control,      \* what else a signed char has that is not above a blank
  INT_MAX,      \* dev and block are of type int, 2^31 - 1 at most;
  LLONG_MAX     \* inode is an unsigned long, written as a long long

\* text is what the file holds, lines is what it lists: the entries that
\* whoever wrote it meant, as records [dev, inode, path].
ASSUME FilesAssumption ==
  /\ \A f \in Files : /\ f.text \in Seq(STRING)
                      /\ f.lines \in Seq([dev : Nat, inode : Nat, path : Seq(STRING)])
  /\ LineSizes \subseteq Nat \ {0} /\ PageSize \in Nat \ {0}
  /\ INT_MAX \in Nat /\ LLONG_MAX \in Nat /\ INT_MAX <= LLONG_MAX
  /\ Blocks \subseteq -INT_MAX - 1 .. INT_MAX

NUL == "NUL"
Null == -1                          \* the null char pointer
Space == " "
Blank(c) == c \in {Space, "\n", NUL} \cup Control      \* *dt_s <= ' '

VARIABLES
  mode,         \* "boot" or "sort"
  file,         \* the list
  opened,       \* the descriptor of the list is open
  mapped,       \* the mapping of the list exists
  owners,       \* the map objects that hold its address: those whose
                \* destructor removes it
  buf,          \* the mapped bytes, a function on addresses; blk_s is 0
  dt_s, dt_e,   \* start of the last token, where to look for the next
  dt,           \* the last token that processBlock got, or Null
  pc,           \* what is executed next
  field,        \* which field of the line is read next: 1, 2 or 3
  desc,         \* dev and inode of the entry being filled
  line_size,    \* assumed length of a line
  room,         \* entries of the current vector still to be filled
  file_desc_,   \* the vectors of entries
  advised,      \* boot: the paths read ahead, in order
  fail_count,   \* boot: how many paths could not be opened
  output        \* sort: the lines written, in order

input == <<mode, file>>
handles == <<opened, mapped, owners>>
list == <<input, handles>>
memory == <<buf, dt_s, dt_e>>
filling == <<dt, field, desc, line_size, room>>
boot == <<advised, fail_count>>
vars == <<list, memory, filling, pc, file_desc_, boot, output>>

blk_e == Len(file.text)

----------------------------------------------------------------------------
(* nextToken() *)

\* The first address from a on that ends the search: the end of the block,
\* or a byte that is one of stop.
Find(a, stop) ==
  CHOOSE p \in a .. blk_e : /\ p = blk_e \/ buf[p] \in stop
                            /\ \A q \in a .. p - 1 : buf[q] \notin stop

\* The delimiter is not overwritten.
MutTerminated(end) == buf
Terminated(end) == [buf EXCEPT ![end] = NUL]

\* Where to look for the next token after one that the end of the block cuts
\* off: one too far.
MutCutEnd == blk_e + 1
CutEnd == blk_e

\* A token that the end of the block cuts off is moved down by a byte, to
\* have room for a terminator (which nobody writes).
MovedDown(start) ==
  [a \in DOMAIN buf |-> IF a \in start - 1 .. blk_e - 2 THEN buf[a + 1] ELSE buf[a]]

NextToken(delimiter) ==
  LET start == Find(dt_e, {c \in ToSet(file.text) : ~Blank(c)})
      end == Find(start, {delimiter})
  IN  IF start = blk_e
      THEN [buf |-> buf, dt_s |-> start, dt_e |-> dt_e, token |-> Null]
      ELSE IF end # blk_e
      THEN [buf |-> Terminated(end), dt_s |-> start, dt_e |-> end + 1, token |-> start]
      ELSE IF start = 0
      THEN [buf |-> buf, dt_s |-> 0, dt_e |-> blk_e, token |-> Null]
      ELSE [buf |-> MovedDown(start), dt_s |-> start - 1, dt_e |-> CutEnd,
            token |-> start - 1]

\* The call of nextToken for the next field: " ", " ", "\n".
Field == NextToken(IF field < 3 THEN Space ELSE "\n")

Advance == buf' = Field.buf /\ dt_s' = Field.dt_s /\ dt_e' = Field.dt_e
GotField == Field.token # Null /\ Advance
NoField == Field.token = Null /\ Advance

----------------------------------------------------------------------------
(* C strings *)

\* What lies behind the mapping is not known; no string of it holds a NUL.
Unknown == <<NUL>>

\* The C string at address a.
StringAt(b, a) ==
  IF \A p \in a .. Cardinality(DOMAIN b) - 1 : b[p] # NUL THEN Unknown
  ELSE LET end == CHOOSE p \in DOMAIN b : /\ p >= a /\ b[p] = NUL
                                          /\ \A q \in a .. p - 1 : b[q] # NUL
       IN  [k \in 1 .. end - a |-> b[a + k - 1]]

Digits == << "0", "1", "2", "3", "4", "5", "6", "7", "8", "9" >>
DigitValue == [d \in Range(Digits) |-> CHOOSE n \in 0 .. 9 : Digits[n + 1] = d]

Signs == {"+", "-"}
ASSUME BytesAssumption == Control \cap (Range(Digits) \cup Signs) = {}

\* Where the digits of the string at a begin.
DigitsAt(b, a) == IF b[a] \in Signs THEN a + 1 ELSE a

\* The value of the digits from a on; 0 if there are none.
Digital(b, a) ==
  LET end == CHOOSE p \in a .. Cardinality(DOMAIN b) :
               /\ p \in DOMAIN b => b[p] \notin DOMAIN DigitValue
               /\ \A q \in a .. p - 1 : b[q] \in DOMAIN DigitValue
      value[p \in a .. end] ==
        IF p = a THEN 0 ELSE 10 * value[p - 1] + DigitValue[b[p - 1]]
  IN  value[end]

ULONG_MAX == 2 * LLONG_MAX + 1

\* strtoul: what is too large becomes ULONG_MAX, a minus sign makes it the
\* complement.
StrToUL(b, a) ==
  LET n == Digital(b, DigitsAt(b, a))
  IN  IF n > ULONG_MAX THEN ULONG_MAX
      ELSE IF b[a] = "-" /\ n # 0 THEN ULONG_MAX + 1 - n
      ELSE n

\* The value of an unsigned number in a signed type that goes up to max.
Signed(n, max) ==
  LET low == n % (2 * (max + 1)) IN IF low <= max THEN low ELSE low - 2 * (max + 1)

----------------------------------------------------------------------------
\* The rest of the last page is filled with NULs.
Mapped(f) ==
  LET pages == (Len(f.text) + PageSize - 1) \div PageSize
  IN  [a \in 0 .. pages * PageSize - 1 |->
         IF a < Len(f.text) THEN f.text[a + 1] ELSE NUL]

Init ==
  /\ mode \in {"boot", "sort"}
  /\ file \in Files
  /\ opened = FALSE /\ mapped = FALSE /\ owners = {}
  /\ buf = Mapped(file) /\ dt_s = 0 /\ dt_e = 0
  /\ pc = "open"
  /\ dt = Null /\ field = 1 /\ desc = <<0, 0>>
  /\ line_size \in IF mode = "sort" THEN LineSizes ELSE {0}
  /\ room = 0
  /\ file_desc_ = <<>>
  /\ advised = <<>> /\ fail_count = 0
  /\ output = <<>>

----------------------------------------------------------------------------
(* readahead() and loadFile(): get the list into memory *)

\* Where to go on without the list.
NotLoaded == IF mode = "boot" THEN "end" ELSE "merge"

Open ==
  /\ pc = "open"
  /\ \/ opened' = TRUE /\ pc' = "map"
     \/ UNCHANGED opened /\ pc' = NotLoaded
  /\ UNCHANGED <<input, mapped, owners, memory, filling, file_desc_, boot, output>>

\* mmap may fail, for an empty file it always does.
GetFullMap ==
  /\ pc = "map"
  /\ \/ file.text # <<>> /\ mapped' = TRUE /\ owners' = {"temporary"}
     \/ UNCHANGED <<mapped, owners>>
  /\ pc' = "assign"
  /\ UNCHANGED <<input, opened, memory, filling, file_desc_, boot, output>>

\* Who holds the address after the move assignment: in the first form the
\* object moved from keeps it.
MutHolders == {"m", "temporary"}
Holders == {"m"}

\* m = file.getFullMap(), and the destructor of the temporary.
Assign ==
  /\ pc = "assign"
  /\ owners' = IF owners = {} THEN {} ELSE Holders
  /\ mapped' = (mapped /\ "temporary" \notin owners')
  /\ pc' = IF owners' = {} THEN NotLoaded
           ELSE IF mode = "boot" THEN "readahead" ELSE "vector"
  /\ UNCHANGED <<input, opened, memory, filling, file_desc_, boot, output>>

\* The destructor of the parser.
Destroy ==
  /\ pc = "end"
  /\ opened' = FALSE
  /\ mapped' = (mapped /\ "m" \notin owners) /\ owners' = {}
  /\ pc' = "done"
  /\ UNCHANGED <<input, memory, filling, file_desc_, boot, output>>

----------------------------------------------------------------------------
(* readahead(): the boot program *)

\* dev and inode are not used.
SkipField ==
  /\ pc = "readahead" /\ field < 3
  /\ GotField
  /\ field' = field + 1
  /\ UNCHANGED <<list, pc, dt, desc, line_size, room, file_desc_, boot, output>>

\* open never returns 0, which the code takes for a failure: if nothing else
\* has that descriptor then the list has.
ReadaheadFile ==
  /\ pc = "readahead" /\ field = 3
  /\ GotField
  /\ field' = 1
  /\ LET path == StringAt(Field.buf, Field.token) IN
       IF path \in Readable
       THEN advised' = Append(advised, path) /\ UNCHANGED fail_count
       ELSE fail_count' = fail_count + 1 /\ UNCHANGED advised
  /\ UNCHANGED <<list, pc, dt, desc, line_size, room, file_desc_, output>>

\* What follows when there is no token: look again.
MutAfterData == "readahead"
AfterData == "end"

\* No more data: an incomplete line at the end is dropped.
ReadaheadEnd ==
  /\ pc = "readahead"
  /\ NoField
  /\ pc' = AfterData
  /\ UNCHANGED <<list, filling, file_desc_, boot, output>>

----------------------------------------------------------------------------
(* processBlock(), called by loadFile() *)

\* A new vector, as long as the rest of the file has room for lines.
NewVector ==
  /\ pc = "vector"
  /\ room' = (blk_e - dt_s) \div line_size
  /\ file_desc_' = Append(file_desc_, <<>>)
  /\ pc' = "fill"
  /\ UNCHANGED <<list, memory, dt, field, desc, line_size, boot, output>>

\* The int dev or the unsigned inode of the next entry.
NumberRead ==
  LET n == StrToUL(Field.buf, Field.token)
  IN  IF field = 1 THEN Signed(n, INT_MAX) ELSE n

FillNumber ==
  /\ pc = "fill" /\ room > 0 /\ field < 3
  /\ GotField
  /\ dt' = Field.token
  /\ desc' = [desc EXCEPT ![field] = NumberRead]
  /\ field' = field + 1
  /\ UNCHANGED <<list, pc, line_size, room, file_desc_, boot, output>>

\* The entry points behind its path.
MutEntry == [dev |-> desc[1], inode |-> desc[2], block |-> 0, path |-> Field.dt_e]
Entry == [dev |-> desc[1], inode |-> desc[2], block |-> 0, path |-> Field.token]

\* The path completes an entry of the current vector.
FillPath ==
  /\ pc = "fill" /\ room > 0 /\ field = 3
  /\ GotField
  /\ dt' = Field.token
  /\ file_desc_' = [file_desc_ EXCEPT ![Len(file_desc_)] = Append(@, Entry)]
  /\ desc' = <<0, 0>> /\ field' = 1
  /\ room' = room - 1
  /\ UNCHANGED <<list, pc, line_size, boot, output>>

\* break: the entry that was begun is not kept.
OutOfData ==
  /\ pc = "fill" /\ room > 0
  /\ NoField
  /\ dt' = Null /\ desc' = <<0, 0>> /\ field' = 1
  /\ room' = 0
  /\ UNCHANGED <<list, pc, line_size, file_desc_, boot, output>>

\* The end of the file is taken for a reason to assume shorter lines.
MutMoreVectors == TRUE
MoreVectors == dt # Null

\* The vector is full, or there is no more data.
EndVector ==
  /\ pc = "fill" /\ room = 0
  /\ IF MoreVectors THEN line_size' = line_size \div 2 /\ pc' = "vector"
                    ELSE pc' = "merge" /\ UNCHANGED line_size
  /\ UNCHANGED <<list, memory, dt, field, desc, room, file_desc_, boot, output>>

----------------------------------------------------------------------------
(* main() in sort mode: Merge(), UpdateBlock(), WriteOut() *)

\* The next vector is erased without having been appended to the first one.
MutMerged == <<Head(file_desc_)>> \o Tail(Tail(file_desc_))
Merged == <<file_desc_[1] \o file_desc_[2]>> \o Tail(Tail(file_desc_))

Merge ==
  /\ pc = "merge"
  /\ IF Len(file_desc_) > 1
     THEN file_desc_' = Merged /\ UNCHANGED pc
     ELSE pc' = "update" /\ UNCHANGED file_desc_
  /\ UNCHANGED <<list, memory, filling, boot, output>>

\* The entries, by vector and position.
Slots == UNION {{v} \X DOMAIN file_desc_[v] : v \in DOMAIN file_desc_}

\* Block 0 for a file that cannot be opened.
UpdateBlock ==
  /\ pc = "update"
  /\ \E b \in [Slots -> Blocks] :
       file_desc_' =
         [v \in DOMAIN file_desc_ |->
            [k \in DOMAIN file_desc_[v] |->
               LET entry == file_desc_[v][k] IN
               [entry EXCEPT !.block =
                  IF StringAt(buf, entry.path) \in Readable THEN b[<<v, k>>] ELSE 0]]]
  /\ pc' = "write"
  /\ UNCHANGED <<list, memory, filling, boot, output>>

\* The entries are written in the order they were loaded.
MutFirst(v) == DOMAIN v \cap {1}

\* std::sort orders a vector by block, entries of one block in any order.
First(v) == {k \in DOMAIN v : \A j \in DOMAIN v : v[k].block <= v[j].block}

\* What printf writes of an entry.  The block is kept for the properties.
Printed(entry) == [entry EXCEPT !.inode = Signed(@, LLONG_MAX),
                                !.path = StringAt(buf, @)]

WriteEntry ==
  /\ pc = "write" /\ file_desc_ # <<>>
  /\ \E k \in First(Head(file_desc_)) :
       /\ output' = Append(output, Printed(Head(file_desc_)[k]))
       /\ file_desc_' = <<RemoveAt(Head(file_desc_), k)>> \o Tail(file_desc_)
  /\ UNCHANGED <<list, memory, filling, pc, boot>>

\* The next vector, or the end of WriteOut.
NextVector ==
  /\ pc = "write"
  /\ IF file_desc_ = <<>>
     THEN pc' = "end" /\ UNCHANGED file_desc_
     ELSE Head(file_desc_) = <<>> /\ file_desc_' = Tail(file_desc_) /\ UNCHANGED pc
  /\ UNCHANGED <<list, memory, filling, boot, output>>

----------------------------------------------------------------------------
\* strtoul and printf read bytes behind the mapping, if neither a NUL nor,
\* in a number, something else than a digit comes first.  open() does not
\* fault: it fails.
ReadsBehindMapping ==
  \/ /\ pc = "fill" /\ room > 0 /\ field < 3 /\ Field.token # Null
     /\ \A a \in DOMAIN buf : a >= DigitsAt(Field.buf, Field.token) =>
                               Field.buf[a] \in DOMAIN DigitValue
  \/ /\ pc = "write" /\ file_desc_ # <<>>
     /\ \E k \in First(Head(file_desc_)) :
          StringAt(buf, Head(file_desc_)[k].path) = Unknown

\* No page follows: the program is killed.  (Else it reads what is there.)
Fault ==
  /\ ReadsBehindMapping
  /\ pc' = "killed"
  /\ UNCHANGED <<list, memory, filling, file_desc_, boot, output>>

Ended == pc \in {"done", "killed"} /\ UNCHANGED vars

Next ==
  \/ Open \/ GetFullMap \/ Assign \/ Destroy
  \/ SkipField \/ ReadaheadFile \/ ReadaheadEnd
  \/ NewVector \/ FillNumber \/ FillPath \/ OutOfData \/ EndVector
  \/ Merge \/ UpdateBlock \/ WriteEntry \/ NextVector
  \/ Fault
  \/ Ended

Spec == Init /\ [][Next]_vars

FairSpec == Spec /\ WF_vars(Next)

----------------------------------------------------------------------------
(* What a list is *)

\* The number that digits denote.
Number(digits) ==
  LET upTo[n \in 0 .. Len(digits)] ==
        IF n = 0 THEN 0 ELSE 10 * upTo[n - 1] + DigitValue[digits[n]]
  IN  upTo[Len(digits)]

\* What text has at the addresses from i to j - 1.
Piece(text, i, j) == SubSeq(text, i + 1, j)
AllBlank(text, i, j) == \A a \in i .. j - 1 : Blank(text[a + 1])

\* A number, and the blank after it.
IsNumber(text, i, j) ==
  /\ i < j /\ \A a \in i .. j - 1 : text[a + 1] \in DOMAIN DigitValue
  /\ text[j + 1] = Space

\* A path, blanks in it included, and the newline after it.
IsPath(text, i, j) ==
  /\ i < j /\ ~Blank(text[i + 1])
  /\ \A a \in i .. j - 1 : text[a + 1] \notin {"\n", NUL}
  /\ text[j + 1] = "\n"

\* Where the line after the first k lines may begin.
Behind(at, k) == IF k = 0 THEN 0 ELSE at[k].end + 1

\* The text of f holds nothing but its lines: the fields of line k begin at
\* the addresses at[k].dev, at[k].inode and at[k].path, and end where at[k]
\* says, with blanks between them.
Describes(f, at) ==
  /\ DOMAIN at = DOMAIN f.lines
  /\ \A k \in DOMAIN at :
       LET p == at[k] IN
       /\ {p.dev, p.dev_end, p.inode, p.inode_end, p.path, p.end} \subseteq Nat
       /\ Behind(at, k - 1) <= p.dev /\ AllBlank(f.text, Behind(at, k - 1), p.dev)
       /\ IsNumber(f.text, p.dev, p.dev_end)
       /\ p.dev_end < p.inode /\ AllBlank(f.text, p.dev_end, p.inode)
       /\ IsNumber(f.text, p.inode, p.inode_end)
       /\ p.inode_end < p.path /\ AllBlank(f.text, p.inode_end, p.path)
       /\ IsPath(f.text, p.path, p.end) /\ p.end < Len(f.text)
       /\ f.lines[k] = [dev |-> Number(Piece(f.text, p.dev, p.dev_end)),
                         inode |-> Number(Piece(f.text, p.inode, p.inode_end)),
                         path |-> Piece(f.text, p.path, p.end)]
  /\ AllBlank(f.text, Behind(at, Len(f.lines)), Len(f.text))

----------------------------------------------------------------------------
(* Properties *)

Ints == -INT_MAX - 1 .. INT_MAX
ULongs == 0 .. ULONG_MAX

\* The parser's token and the paths of all entries point into the block; the
\* fields of an entry keep the types of struct file_desc_t, whatever number
\* the list has in their place, and the sizes of the vectors are unsigned.
TypeOK ==
  /\ mode \in {"boot", "sort"}
  /\ file \in Files
  /\ blk_e - 1 \in DOMAIN buf \cup {-1}
  /\ pc \in {"open", "map", "assign", "readahead", "vector", "fill", "merge",
             "update", "write", "end", "done", "killed"}
  /\ opened \in BOOLEAN /\ mapped \in BOOLEAN /\ owners \subseteq {"m", "temporary"}
  /\ dt \in {Null} \cup 0 .. blk_e - 1
  /\ field \in 1 .. 3 /\ desc \in Ints \X ULongs
  /\ line_size \in Nat /\ room \in Nat /\ fail_count \in Nat
  /\ \A v \in DOMAIN file_desc_ : \A k \in DOMAIN file_desc_[v] :
       file_desc_[v][k] \in [dev : Ints, inode : ULongs, block : Ints,
                             path : 0 .. blk_e - 1]

\* The parser never looks or writes behind the end of the list, whatever bytes
\* it holds, and leaves the NULs behind it alone.
StaysInBlock ==
  /\ 0 <= dt_s /\ dt_s <= blk_e
  /\ 0 <= dt_e /\ dt_e <= blk_e
  /\ \A a \in DOMAIN buf : a >= blk_e => buf[a] = NUL

\* The strings that strtoul and printf are given to read end inside of the
\* mapping, also when the list fills its last page and no NUL follows it; the
\* exceptions are such lists that end in an incomplete line, which is moved
\* down over the NUL of the path before it, or lack the last newline.
StringsEndInMapping ==
  pc = "killed" \/ Unknown \in {output[k].path : k \in DOMAIN output} =>
    /\ Len(file.text) % PageSize = 0
    /\ file.lines = <<>> \/ Last(file.text) # "\n"

Loaded == "m" \in owners

\* The mapping lasts as long as the entries that point into it, and is removed
\* with the parser, like the descriptor.
MappedWhileUsed ==
  /\ Loaded => mapped
  /\ Slots # {} => Loaded
  /\ pc = "done" => ~mapped /\ ~opened

\* Halving the assumed line length never reaches the division by zero.
NeverDividesByZero == pc = "vector" => line_size > 0

ListedPaths == [k \in DOMAIN file.lines |-> file.lines[k].path]

\* The paths that can be opened, of the first n of some.
Existing(paths) ==
  LET upTo[n \in 0 .. Len(paths)] ==
        IF n = 0 THEN <<>>
        ELSE IF paths[n] \in Readable THEN Append(upTo[n - 1], paths[n]) ELSE upTo[n - 1]
  IN  upTo

\* The boot program reads ahead every file of the list that exists, in the
\* order of the list, and counts the others.
ReadsAheadWhatIsListed ==
  pc = "end" /\ mode = "boot" /\ Loaded /\ file.lines # <<>> =>
    /\ advised = Existing(ListedPaths)[Len(ListedPaths)]
    /\ fail_count + Len(advised) = Len(ListedPaths)

\* What is written of a line: the path as it is, and each number that fits in
\* its field; dev and inode wrap around if they do not.
SameLine(line, entry) ==
  /\ entry.path = line.path
  /\ line.dev <= INT_MAX => entry.dev = line.dev
  /\ line.inode <= LLONG_MAX => entry.inode = line.inode

SortsAList == pc = "end" /\ mode = "sort" /\ Loaded /\ file.lines # <<>>

EveryLineIsWritten ==
  \E place \in Bijection(DOMAIN file.lines, DOMAIN output) :
    \A k \in DOMAIN file.lines : SameLine(file.lines[k], output[place[k]])

\* No line is lost, doubled or mixed with another on the way through the
\* shrinking vectors, the merge and the sort to the console, provided that the
\* list is not shorter than one line is assumed to be: of such a list nothing
\* is read (then the assumed length has not changed, and is still too large).
SortKeepsEveryLine == SortsAList /\ line_size <= blk_e => EveryLineIsWritten

\* The lines come out in the order of their blocks on disk, all vectors
\* of the parser taken together.
SortedByBlock ==
  \A j, k \in DOMAIN output : j < k => output[j].block <= output[k].block

\* Every list is parsed to its end, malformed ones too.
ParserTerminates == <>(pc \in {"done", "killed"})
============================================================================
