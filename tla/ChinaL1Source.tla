----------------------------- MODULE ChinaL1Source -----------------------------
(****************************************************************************)
(* ide/chinal1source.c: the Python type lmice.ChinaL1Source, which loads    *)
(* the quotes of a capture file into m_list and steps through them.         *)
(*                                                                          *)
(* The interpreter runs one call at a time; load, the only long one, is     *)
(* taken package by package, because it need not end.  Its instrument       *)
(* filter is the set of names check() of InstrumentFilter lets through,     *)
(* the empty set standing for all.  A message is the number its package has *)
(* in the file.                                                             *)
(*                                                                          *)
(* Where the interpreter may crash, or memory that is not the source's may  *)
(* be overwritten, the model ends: what such a program does next is not     *)
(* said.  Memory that is only read out of place holds anything.             *)
(****************************************************************************)
EXTENDS Integers, Sequences, SequencesExt

CONSTANTS
  Names,         (* instrument names                                         *)
  Captures,      (* files: sequences of packages [inst, priced, at, bytes],  *)
                 (* of which at is where the package begins, in bytes        *)
  FileHeader,    (* bytes of the file header: 24                             *)
  QuoteBytes,    (* bytes of a package that holds a quote, with its header   *)
  MaxPos,        (* bound on what a program writes into msg_pos              *)
  Counts         (* bound: the integers a program writes into msg_size       *)

Quote(p) == p.bytes = QuoteBytes

ASSUME SourceAssumption ==
  /\ FileHeader \in Nat /\ QuoteBytes \in Nat \ {0} /\ FileHeader < QuoteBytes
  /\ \A f \in Captures :
       /\ f \in Seq([inst : Names, priced : BOOLEAN, at : Nat, bytes : Nat \ {0}])
       /\ \A i \in DOMAIN f : FileHeader <= f[i].at
       /\ \A i, j \in DOMAIN f : i < j => f[i].at + f[i].bytes <= f[j].at
  /\ MaxPos \in Nat
  /\ Counts \subseteq Int

NoData == 0                 \* m_data after new
Junk == -1                  \* any other data

VARIABLES
  filter,        (* m_ifilter: the names it lets through, {} for all, and    *)
                 (* whether it is a filter at all                            *)
  block,         (* m_list: "null", "block" or "freed", when it points to a  *)
                 (* block given back                                         *)
  room,          (* messages the block has room for                          *)
  items,         (* messages written from m_list on                          *)
  fsize,         (* m_fsize                                                  *)
  fpos,          (* m_fpos                                                   *)
  data,          (* m_data                                                   *)
  file,          (* the capture load reads, or has read last                 *)
  pos,           (* packages load has read                                   *)
  quoteHdr,      (* whether buf holds the header of a quote                  *)
  loading,       (* whether load is in its loop                              *)
  defined,       (* FALSE once a call has crashed or spoilt the memory       *)
  used,          (* history: the filter when load was called                 *)
  edited,        (* history: the program wrote msg_pos or a field of the     *)
                 (* message since m_data was set                             *)
  counted        (* history: the program wrote msg_size since the last load  *)

reader == <<file, pos, quoteHdr, used>>
cursor == <<fpos, data, edited>>
loaded == <<block, room, items>>
size == <<fsize, counted>>
vars == <<filter, reader, cursor, loaded, size, loading, defined>>

\* ChinaL1Source_new.  m_fpos is zero, as tp_alloc leaves it.
Init ==
  /\ filter = [names |-> {}, real |-> TRUE]
  /\ block = "null"
  /\ room = 0
  /\ items = << >>
  /\ fsize = 0
  /\ fpos = 0
  /\ data = NoData
  /\ file = << >>
  /\ pos = 0
  /\ quoteHdr = FALSE
  /\ loading = FALSE
  /\ defined = TRUE
  /\ used = [names |-> {}, real |-> TRUE]
  /\ edited = FALSE
  /\ counted = FALSE

Idle == defined /\ ~loading

\* What may be found at an index counted from zero, as m_list + index reads it.
\* Behind the block a message that was written there may still be found.
MessagesAt(i) ==
  IF block = "block" /\ i + 1 \in DOMAIN items
    THEN {items[i + 1]} \cup (IF i < room THEN {} ELSE {Junk})
    ELSE {Junk}

\* Reading there: out of place, a read that the system may not allow.
ReadAt(i) ==
  /\ data' \in MessagesAt(i)
  /\ defined' \in IF block = "block" /\ i < room THEN {TRUE} ELSE BOOLEAN
  /\ fpos' = i
  /\ edited' = FALSE

-------------------------------------------------------------------------------
(* load *)

\* The bytes of a file, up to the end of its last package.
Size(f) == IF f = << >> THEN FileHeader ELSE f[Len(f)].at + f[Len(f)].bytes

\* The messages readall_guava2 makes room for: the size of the file by that of
\* a quote.
Room(f) == Size(f) \div QuoteBytes

\* Defect for mutation: m_fsize keeps its value until the file is open.
SizeKept == fsize

\* m_fsize when readall_guava2 begins.
SizeAtStart == 0

\* readall_guava2 gives the block back before it looks at the file: a pointer
\* that a load without a file left behind is given back again, and the allocator
\* may find what a message behind the block destroyed.
FreeBlock ==
  defined' \in IF block = "freed" THEN {FALSE}
               ELSE IF Len(items) > room THEN BOOLEAN ELSE {TRUE}

\* load of a name with "_guava2" in it, up to the first package.  The header of
\* the file, read into the same buffer, is not the header of a quote.
LoadOpen(f) ==
  /\ Idle
  /\ FreeBlock
  /\ block' = "block"
  /\ room' = Room(f)
  /\ items' = << >>
  /\ fsize' = 0
  /\ counted' = FALSE
  /\ file' = f
  /\ pos' = 0
  /\ quoteHdr' = FALSE
  /\ loading' = TRUE
  /\ used' = filter
  /\ UNCHANGED <<filter, cursor>>

\* The same for a file that is not there or not readable.  load_file takes the
\* pointer for a block, for nothing put it to NULL, and copies from the memory
\* that was just given back: what it now holds, or nothing that can be read.
LoadMissing ==
  /\ Idle
  /\ fsize' = SizeAtStart
  /\ counted' = FALSE
  /\ \/ block = "null" /\ UNCHANGED <<block, cursor, defined>>
     \/ /\ block # "null"
        /\ defined' \in IF block = "freed" THEN {FALSE} ELSE BOOLEAN
        /\ block' = "freed"
        /\ data' = Junk
        /\ fpos' = 0
        /\ edited' = FALSE
  /\ UNCHANGED <<filter, reader, room, items, loading>>

\* Defect for mutation: quotes without a price are kept.
PassesUnpriced(p) == filter.names = {} \/ p.inst \in filter.names

\* The filter, and the three prices that must not be the largest double.
Passes(p) == (filter.names = {} \/ p.inst \in filter.names) /\ p.priced

\* What check() may say of a package: anything, when it reads what is no filter.
Verdicts(p) == {Passes(p)} \cup (IF filter.real THEN {} ELSE {FALSE})

\* What the loop does with the package number k in the buffer.  A message with
\* no room for it is written behind the block, where it may be found again, or
\* may have destroyed the heap.
Take(k) ==
  \E kept \in Verdicts(file[k]) :
    /\ IF kept THEN items' = Append(items, k) /\ fsize' = fsize + 1
              ELSE UNCHANGED <<items, fsize>>
    /\ defined' \in IF filter.real /\ (kept => fsize < room) THEN {TRUE} ELSE BOOLEAN

\* One round of the loop: a package is read, or skipped for its size.
ReadPackage ==
  /\ defined /\ loading
  /\ pos < Len(file)
  /\ pos' = pos + 1
  /\ quoteHdr' = Quote(file[pos + 1])
  /\ IF Quote(file[pos + 1]) THEN Take(pos + 1) ELSE UNCHANGED <<items, fsize, defined>>
  /\ UNCHANGED <<filter, file, used, block, room, counted, cursor, loading>>

\* Defect for mutation: the buffer is cleared before a header is read.
HeaderCleared == FALSE

\* A failed fread leaves the buffer as it was.
HeaderAtEnd == quoteHdr

\* The round after the last package, when the buffer holds a quote: it is taken
\* again, feof ends the loop, and load_file copies the first message.
ReadEnd ==
  /\ defined /\ loading
  /\ pos = Len(file)
  /\ HeaderAtEnd
  /\ Take(pos)
  /\ loading' = FALSE
  /\ data' = IF items' = << >> THEN Junk ELSE items'[1]
  /\ fpos' = 0
  /\ edited' = FALSE
  /\ UNCHANGED <<filter, reader, block, room, counted>>

\* The same when the buffer holds another header: fseek skips once more, and
\* clears the mark that the end was reached.  The round changes nothing.
ReadEndAgain ==
  /\ defined /\ loading
  /\ pos = Len(file)
  /\ ~HeaderAtEnd
  /\ UNCHANGED vars

-------------------------------------------------------------------------------
(* The other calls *)

\* Assignments to, and deletions of, inst_filter.m_inst, and of another filter
\* to inst_filter.
SetFilter ==
  /\ Idle
  /\ filter' \in [names : SUBSET Names, real : {TRUE}]
  /\ UNCHANGED <<reader, cursor, loaded, size, loading, defined>>

\* The attribute takes any other object as well, and can be deleted; nothing
\* looks at its type.
DropFilter ==
  /\ Idle
  /\ filter' = [names |-> {}, real |-> FALSE]
  /\ UNCHANGED <<reader, cursor, loaded, size, loading, defined>>

\* at(i); another index, or an empty source, only returns.
At(i) ==
  /\ Idle
  /\ i >= 0 /\ i < fsize
  /\ ReadAt(i)
  /\ UNCHANGED <<filter, reader, loaded, size, loading>>

\* The position kept from running past the end.
NotPastEnd(i) == IF i + 1 >= fsize THEN fsize - 1 ELSE i + 1

\* The position next goes to from position i: then from lying before the first.
NextPos(i) == IF NotPastEnd(i) < 0 THEN 0 ELSE NotPastEnd(i)

\* next(); on an empty source it only returns.
NextMessage ==
  /\ Idle
  /\ fsize # 0
  /\ ReadAt(NextPos(fpos))
  /\ UNCHANGED <<filter, reader, loaded, size, loading>>

\* A program writes the attribute msg_pos.
SetPos(i) ==
  /\ Idle
  /\ fpos' = i
  /\ edited' = TRUE
  /\ UNCHANGED <<filter, reader, loaded, size, data, loading, defined>>

\* It writes msg_size.
SetCount(n) ==
  /\ Idle
  /\ fsize' = n
  /\ counted' = TRUE
  /\ UNCHANGED <<filter, reader, cursor, loaded, loading, defined>>

\* It writes a field of the message: a price, a time, an instrument that fits.
SetField ==
  /\ Idle
  /\ data' = Junk
  /\ edited' = TRUE
  /\ UNCHANGED <<filter, reader, loaded, size, fpos, loading, defined>>

\* Assignment of more text than m_inst or data_path has room for: all of it is
\* copied, over the fields behind and what follows the object.
SetLongText ==
  /\ Idle
  /\ defined' = FALSE
  /\ UNCHANGED <<filter, reader, cursor, loaded, size, loading>>

\* A name is copied over the last one without its end, so that the file looked
\* for may be another than the one named: any file, or none.
Load == \/ \E f \in Captures : LoadOpen(f)
        \/ LoadMissing

Reading == ReadPackage \/ ReadEnd \/ ReadEndAgain

Next ==
  \/ Load
  \/ Reading
  \/ SetFilter
  \/ DropFilter
  \/ \E i \in 0 .. fsize : At(i)
  \/ NextMessage
  \/ \E i \in (0 - MaxPos) .. MaxPos : SetPos(i)
  \/ \E n \in Counts : SetCount(n)
  \/ SetField
  \/ SetLongText

\* A call that was made runs on.
Fairness == WF_vars(Reading)

Spec == Init /\ [][Next]_vars /\ Fairness

-------------------------------------------------------------------------------
(* Properties *)

\* The numbers, up to k, of the packages that are quotes with a price, of an
\* instrument the filter had when load was called.
Passing(k) ==
  {i \in 1 .. k : /\ Quote(file[i]) /\ file[i].priced
                  /\ used.names = {} \/ file[i].inst \in used.names}

\* The sequence s holds the numbers of S, each once, from the least on.
Lists(s, S) ==
  /\ {s[n] : n \in DOMAIN s} = S
  /\ \A m, n \in DOMAIN s : m < n => s[m] < s[n]

\* The load is over, and its last package was a quote that passes.
EndedOnQuote == ~loading /\ Len(file) \in Passing(Len(file))

FlagsOK ==
  /\ quoteHdr \in BOOLEAN /\ loading \in BOOLEAN
  /\ defined \in BOOLEAN /\ edited \in BOOLEAN /\ counted \in BOOLEAN

\* Types.  A message is a place in the file; room is what Room gives.
TypeOK ==
  /\ FlagsOK
  /\ filter \in [names : SUBSET Names, real : BOOLEAN]
  /\ used \in [names : SUBSET Names, real : BOOLEAN]
  /\ block \in {"null", "block", "freed"}
  /\ fsize \in Int
  /\ items \in Seq(1 .. Len(file))
  /\ fpos \in Int /\ data \in Int
  /\ file \in Captures \cup {<< >>}
  /\ pos \in 0 .. Len(file)

\* With a filter in place, what load has put into the list are the quotes that
\* pass, in the order of the file, each once and none left out, up to the end of
\* the file.  When the last package is such a quote, and only then, the end of
\* the load adds it a second time.
LoadedInOrder ==
  block = "block" /\ used.real =>
    IF EndedOnQuote
      THEN /\ items # << >>
           /\ items[Len(items)] = Len(file)
           /\ Lists(Front(items), Passing(pos))
      ELSE Lists(items, Passing(pos))

\* Whatever was loaded before and whichever loads failed: as long as m_fsize is
\* what load made it, and not zero, it counts the messages written into a block
\* that was not given back.  They fit into the block, all but one at most, the
\* last quote of a file, taken a second time.
CursorBacked ==
  fsize # 0 /\ ~counted =>
    /\ block = "block" /\ fsize = Len(items)
    /\ fsize <= room \/ (fsize = room + 1 /\ EndedOnQuote)

\* m_data is the message at m_fpos, and m_fpos one of those there are, as long as
\* the program wrote none of m_data, m_fpos and m_fsize since they were set.
\* Nothing is said of a message behind the block.
DataAtCursor ==
  Idle /\ fsize # 0 /\ ~counted /\ ~edited =>
    /\ fpos + 1 \in DOMAIN items
    /\ fpos < room => data = items[fpos + 1]

\* A file that ends with a quote is loaded.
LoadEnds == (loading /\ file # << >> /\ Quote(Last(file))) ~> ~(defined /\ loading)
===============================================================================
