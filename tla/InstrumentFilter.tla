---------------------------- MODULE InstrumentFilter ----------------------------
(****************************************************************************)
(* ide/instrumentfilter.c: the Python type lmice.InstrumentFilter, a list   *)
(* of instrument names kept in two places: the first Primary of them inside *)
(* the object, in m_inst, the others in a block of its own, m_list.  The    *)
(* block is replaced only when a longer list arrives, so both places keep   *)
(* names of earlier lists; m_ssize says how many count, m_lsize how many    *)
(* the block holds.                                                         *)
(*                                                                          *)
(* The interpreter runs one call at a time: a step is a call.  A name in    *)
(* Names has at most seven characters.  Some calls leave memory in a state  *)
(* the code does not define: a name that is longer, an operand of `+' that  *)
(* is no filter, the method check.  There the model ends, as it does in a   *)
(* crash; what such a program does next, crash or not, is not said.         *)
(****************************************************************************)
EXTENDS Integers, Sequences, FiniteSets

CONSTANTS
  Filters,       (* variables of the program that hold a filter              *)
  Names,         (* instrument names                                         *)
  Primary,       (* Primary_Instruments_Size: 8 in the code                  *)
  MaxLen,        (* bound on the length of a list                            *)
  WrittenSizes   (* bound: the integers the program writes to "size"         *)

Blank == "blank"            \* eight zero bytes
NotString == "not a string" \* an item that fails PyString_Check

ASSUME FilterAssumption ==
  /\ Primary \in Nat \ {0}
  /\ MaxLen \in Nat \ {0}
  /\ WrittenSizes \subseteq Int
  /\ {Blank, NotString} \cap Names = {}

VARIABLES
  live,          (* the variables that do                                    *)
  ssize,         (* m_ssize                                                  *)
  lsize,         (* m_lsize                                                  *)
  inst,          (* m_inst                                                   *)
  list,          (* the block at m_list; << >> for NULL or a block of size 0 *)
  defined,       (* FALSE once a call has crashed or spoilt the memory       *)
  written,       (* history: the objects whose "size" the program wrote last *)
  want,          (* history: the names the calls so far ask for              *)
  sum            (* history: the objects that `+' made                       *)

sizes == <<ssize, lsize>>
storage == <<inst, list>>
history == <<want, sum, written>>
vars == <<live, sizes, storage, defined, history>>

\* The lists and tuples a program assigns.  What follows a refused item is never
\* looked at, and taken to be refused too.
Lists ==
  {items \in UNION {[1 .. n -> Names \cup {NotString}] : n \in 0 .. MaxLen} :
     \A i, j \in DOMAIN items : i < j /\ items[i] = NotString => items[j] = NotString}

Blanks(n) == [i \in 1 .. n |-> Blank]

Init ==
  /\ live = {}
  /\ ssize = [o \in Filters |-> 0]
  /\ lsize = [o \in Filters |-> 0]
  /\ inst = [o \in Filters |-> Blanks(Primary)]
  /\ list = [o \in Filters |-> << >>]
  /\ defined = TRUE
  /\ want = [o \in Filters |-> << >>]
  /\ sum = {}
  /\ written = {}

-------------------------------------------------------------------------------
(* Reading *)

\* The name at a position, as every loop of the file finds it.
Stored(o, i) == IF i <= Primary THEN inst[o][i] ELSE list[o][i - Primary]

\* LS_InstrumentFilter_get_inst, and at() for each position.
Contents(o) == [i \in 1 .. ssize[o] |-> Stored(o, i)]

\* The in operator.
Contains(o, name) == \E i \in 1 .. ssize[o] : Stored(o, i) = name

\* There is storage behind every name counted.
Sound(o) == ssize[o] \in 0 .. Primary + Len(list[o])

\* LS_InstrumentFilter_check: the filter lets everything through as long as
\* nothing was put into it.
Check(o, name) == ssize[o] = 0 \/ Contains(o, name)

-------------------------------------------------------------------------------
(* Calls *)

\* LS_InstrumentFilter_new, and _init without arguments.  (With a name init
\* fails in the argument parser; without, it returns a variable nobody set, so
\* that the object may be thrown away, as if the call had not been made.)
New(o) ==
  /\ defined
  /\ o \notin live
  /\ live' = live \cup {o}
  /\ UNCHANGED <<sizes, storage, defined, history>>

\* Assignment of a string to m_inst.
SetString(o, name) ==
  /\ defined
  /\ o \in live
  /\ ssize' = [ssize EXCEPT ![o] = 1]
  /\ inst' = [inst EXCEPT ![o][1] = name]
  /\ want' = [want EXCEPT ![o] = <<name>>]
  /\ written' = written \ {o}
  /\ UNCHANGED <<live, lsize, list, defined, sum>>

\* Defect for mutation: the test for a longer list counts the inner names twice.
LateGrowth(o, n) == lsize[o] + 2 * Primary < n

\* Defect for mutation: a block that is too long is replaced as well.
EagerGrowth(o, n) == lsize[o] + Primary # n

\* Whether the list does not fit the storage there is.
Grows(o, n) == lsize[o] + Primary < n

\* The block as set_inst leaves it before it copies names.
Room(o, n) == IF Grows(o, n) THEN Blanks(n - Primary) ELSE list[o]

\* The items copied: those before the first that is not a string.
Copied(items) ==
  {i \in DOMAIN items : \A j \in 1 .. i : items[j] # NotString}

\* Defect for mutation: after a bad item the names before it count.
SizeOfPrefix(items) == Cardinality(Copied(items))

\* The size after the copy: zero when an item was refused.
SizeAfter(items) == IF Copied(items) = DOMAIN items THEN Len(items) ELSE 0

\* Assignment of a list or a tuple to m_inst.
SetList(o, items) ==
  /\ defined
  /\ o \in live
  /\ Grows(o, Len(items)) => Len(items) >= Primary
  /\ lsize' = [lsize EXCEPT ![o] = IF Grows(o, Len(items)) THEN Len(items) - Primary ELSE @]
  /\ ssize' = [ssize EXCEPT ![o] = SizeAfter(items)]
  /\ inst' = [inst EXCEPT ![o] =
                [i \in 1 .. Primary |-> IF i \in Copied(items) THEN items[i] ELSE @[i]]]
  /\ list' = [list EXCEPT ![o] =
                [i \in DOMAIN Room(o, Len(items)) |->
                   IF i + Primary \in Copied(items) THEN items[i + Primary]
                   ELSE Room(o, Len(items))[i]]]
  /\ want' = [want EXCEPT ![o] =
                IF \E i \in DOMAIN items : items[i] = NotString THEN << >> ELSE items]
  /\ written' = written \ {o}
  /\ UNCHANGED <<live, defined, sum>>

\* The same for a list that does not fit, but that needs no block: malloc is
\* asked for a negative number of names, as an unsigned number of bytes, and
\* memset clears what it returned, NULL.
SetListCrash(o, items) ==
  /\ defined
  /\ o \in live
  /\ Grows(o, Len(items)) /\ Len(items) < Primary
  /\ defined' = FALSE
  /\ UNCHANGED <<live, sizes, storage, history>>

\* Deletion of m_inst.
DeleteInst(o) ==
  /\ defined
  /\ o \in live
  /\ ssize[o] > 0
  /\ ssize' = [ssize EXCEPT ![o] = 0]
  /\ lsize' = [lsize EXCEPT ![o] = 0]
  /\ list' = [list EXCEPT ![o] = << >>]
  /\ want' = [want EXCEPT ![o] = << >>]
  /\ written' = written \ {o}
  /\ UNCHANGED <<live, inst, defined, sum>>

\* The names of a sum, in the order of the two loops.
Joined(a, b) == Contents(a) \o Contents(b)

\* m_lsize of a sum: the length less what fits inside, whatever that is.
SumBlock(n) == n - Primary

\* LS_InstrumentFilter_concat: o = a + b, where a and b may be the same object
\* and o a variable that held one: the old object goes once the sum is there.
Concat(a, b, o) ==
  /\ defined
  /\ a \in live /\ b \in live
  /\ Sound(a) /\ Sound(b)
  /\ ssize[a] + ssize[b] <= MaxLen
  /\ LET names == Joined(a, b)
     IN /\ ssize' = [ssize EXCEPT ![o] = Len(names)]
        /\ lsize' = [lsize EXCEPT ![o] = SumBlock(Len(names))]
        /\ inst' = [inst EXCEPT ![o] =
                      [i \in 1 .. Primary |-> IF i <= Len(names) THEN names[i] ELSE Blank]]
        /\ list' = [list EXCEPT ![o] =
                      [i \in 1 .. Len(names) - Primary |-> names[i + Primary]]]
  /\ live' = live \cup {o}
  /\ want' = [want EXCEPT ![o] = want[a] \o want[b]]
  /\ sum' = sum \cup {o}
  /\ written' = written \ {o}
  /\ UNCHANGED defined

\* LS_InstrumentFilter_dealloc and _clear.
Dealloc(o) ==
  /\ defined
  /\ o \in live
  /\ live' = live \ {o}
  /\ ssize' = [ssize EXCEPT ![o] = 0]
  /\ lsize' = [lsize EXCEPT ![o] = 0]
  /\ inst' = [inst EXCEPT ![o] = Blanks(Primary)]
  /\ list' = [list EXCEPT ![o] = << >>]
  /\ want' = [want EXCEPT ![o] = << >>]
  /\ sum' = sum \ {o}
  /\ written' = written \ {o}
  /\ UNCHANGED defined

\* Assignment of the attribute "size", a plain integer of the object: the names
\* that show afterwards are those that happen to lie there.
WriteSize(o, n) ==
  /\ defined
  /\ o \in live
  /\ ssize' = [ssize EXCEPT ![o] = n]
  /\ written' = written \cup {o}
  /\ UNCHANGED <<live, lsize, storage, defined, sum>>
  /\ want' = IF Sound(o)' THEN [want EXCEPT ![o] = Contents(o)'] ELSE want

\* Assignment of a name of more than seven characters, alone or in a list: all
\* of it is copied, over the places behind, the pointer m_list and what follows
\* the object or the block.
CopyLong(o) ==
  /\ defined
  /\ o \in live
  /\ defined' = FALSE
  /\ UNCHANGED <<live, sizes, storage, history>>

\* A sum with any other object, whose memory is taken for a filter's, or with a
\* filter whose written size is not covered by its storage.
ConcatBlindly(a) ==
  /\ defined
  /\ a \in live
  /\ defined' = FALSE
  /\ UNCHANGED <<live, sizes, storage, history>>

\* The method check of Python, bound to the function that returns an int: 0, for
\* an empty filter, reads as an error without a message; otherwise the tuple of
\* arguments is compared as if it were a name, and the -1 taken for an object.
CallCheck(o) ==
  /\ defined
  /\ o \in live
  /\ ssize[o] # 0
  /\ defined' = FALSE
  /\ UNCHANGED <<live, sizes, storage, history>>

Next ==
  \E o \in Filters :
    \/ New(o)
    \/ \E name \in Names : SetString(o, name)
    \/ \E items \in Lists : SetList(o, items)
    \/ \E items \in Lists : SetListCrash(o, items)
    \/ DeleteInst(o)
    \/ \E a, b \in Filters : Concat(a, b, o)
    \/ Dealloc(o)
    \/ \E n \in WrittenSizes : WriteSize(o, n)
    \/ CopyLong(o)
    \/ ConcatBlindly(o)
    \/ CallCheck(o)

Spec == Init /\ [][Next]_vars

-------------------------------------------------------------------------------
(* Properties *)

\* Types: in particular a size is that of a list or a sum, or one written.
TypeOK ==
  /\ live \subseteq Filters
  /\ ssize \in [Filters -> (0 .. MaxLen) \cup WrittenSizes]
  /\ lsize \in [Filters -> (0 - Primary) .. MaxLen]
  /\ inst \in [Filters -> [1 .. Primary -> Names \cup {Blank}]]
  /\ list \in [Filters -> Seq(Names \cup {Blank})]
  /\ defined \in BOOLEAN
  /\ sum \subseteq live
  /\ written \subseteq live

\* Storage behind every name, as long as memory is intact: the loops of get_inst,
\* at, check, in and + run up to m_ssize and take whatever is beyond the inner
\* names from m_list, and set_inst trusts m_lsize to say how many names the block
\* holds.  No order of calls undoes that but an assignment of the size itself,
\* and the next list, string or deletion repairs it.
Backed ==
  defined =>
    \A o \in Filters :
      /\ o \notin written => Sound(o)
      /\ lsize[o] <= Len(list[o])

\* A filter holds the names it was last given, in their order, whichever list
\* was there before and however long it was: names left over in the object or
\* in the block never show, a refused list leaves nothing, a sum holds the
\* names of its operands and shares nothing with them.  So check() lets through
\* the names asked for, or every name when none was.  For names that fit, and
\* where the program did not write the size.
ReadsBack ==
  defined =>
    \A o \in live \ written :
      /\ Contents(o) = want[o]
      /\ \A name \in Names :
           Check(o, name) <=> want[o] = << >> \/ \E i \in DOMAIN want[o] : want[o][i] = name

\* A list makes malloc take a negative number of names only in an object that `+'
\* made and that still holds fewer names than fit inside, or whose size was
\* written since: a filter that began empty finds room for every list, in
\* whatever order lists, strings and deletions come.
ShortOnlyBySum ==
  defined =>
    \A o \in live, n \in 0 .. MaxLen :
      Grows(o, n) /\ n < Primary => o \in sum /\ (ssize[o] < Primary \/ o \in written)
===============================================================================
