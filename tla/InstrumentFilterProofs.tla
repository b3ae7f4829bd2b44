------------------------ MODULE InstrumentFilterProofs ------------------------
(****************************************************************************)
(* InstrumentFilter for every number of inner places and every list: there  *)
(* is storage behind every name, a filter reads back what it was given, and *)
(* a list asks for a negative block only in a short sum.                    *)
(****************************************************************************)
EXTENDS InstrumentFilter, TLAPS

\* Backed, whether memory is intact or not: where the model ends, the storage is
\* as it was.
Stocked ==
  \A o \in Filters :
    /\ o \notin written => Sound(o)
    /\ lsize[o] <= Len(list[o])

Inv == TypeOK /\ Stocked

\* What a filter holds is what was asked for, variables without one included, as
\* long as there is storage for as many names.
Kept ==
  /\ DOMAIN want = Filters
  /\ \A o \in Filters : Sound(o) => Contents(o) = want[o]

\* An assigned list has a length within the bound, and names or refused items.
LEMMA ListShape ==
  ASSUME NEW items \in Lists
  PROVE  /\ items \in Seq(Names \cup {NotString})
         /\ Len(items) \in 0 .. MaxLen
         /\ DOMAIN items = 1 .. Len(items)
         /\ \A i \in DOMAIN items : items[i] \in Names \cup {NotString}
         /\ Copied(items) \subseteq DOMAIN items
         /\ \A i \in Copied(items) : items[i] \in Names
<1>1. PICK n \in 0 .. MaxLen : items \in [1 .. n -> Names \cup {NotString}]
  BY DEF Lists
<1>2. n \in Nat
  BY FilterAssumption
<1>3. items \in Seq(Names \cup {NotString}) /\ Len(items) = n
  BY <1>1, <1>2
<1>4. \A i \in Copied(items) : i \in DOMAIN items /\ items[i] # NotString
  BY <1>1, <1>2 DEF Copied
<1> QED
  BY <1>1, <1>2, <1>3, <1>4 DEF Copied

\* Where the names of a filter are.
LEMMA StoredTyped ==
  ASSUME Inv, NEW o \in Filters, Sound(o), NEW i \in 1 .. ssize[o]
  PROVE  Stored(o, i) \in Names \cup {Blank}
<1>1. ssize[o] \in Nat /\ ssize[o] <= Primary + Len(list[o])
  BY FilterAssumption DEF Inv, TypeOK, Sound
<1>2. inst[o] \in [1 .. Primary -> Names \cup {Blank}] /\ list[o] \in Seq(Names \cup {Blank})
  BY DEF Inv, TypeOK
<1>3. CASE i <= Primary
  BY <1>1, <1>2, <1>3, FilterAssumption DEF Stored
<1>4. CASE i > Primary
  <2>1. i - Primary \in 1 .. Len(list[o])
    BY <1>1, <1>2, <1>4, FilterAssumption
  <2> QED
    BY <1>2, <1>4, <2>1, FilterAssumption DEF Stored
<1> QED
  BY <1>3, <1>4, FilterAssumption

\* The first state satisfies the invariant.
LEMMA InitInv == Init => Inv
<1> SUFFICES ASSUME Init PROVE Inv
  OBVIOUS
<1>1. inst \in [Filters -> [1 .. Primary -> Names \cup {Blank}]]
  BY DEF Init, Blanks
<1>2. list \in [Filters -> Seq(Names \cup {Blank})] /\ \A o \in Filters : Len(list[o]) = 0
  BY DEF Init
<1>3. /\ lsize \in [Filters -> (0 - Primary) .. MaxLen]
      /\ ssize \in [Filters -> (0 .. MaxLen) \cup WrittenSizes]
  BY FilterAssumption DEF Init
<1>4. TypeOK
  BY <1>1, <1>2, <1>3 DEF Init, TypeOK
<1>5. Stocked
  BY <1>2, FilterAssumption DEF Init, Stocked, Sound
<1> QED
  BY <1>4, <1>5 DEF Inv

\* There is room for the whole list, in the object and in the block.
LEMMA SetListRoom ==
  ASSUME Inv, NEW o \in Filters, NEW items \in Lists, SetList(o, items)
  PROVE  /\ Room(o, Len(items)) \in Seq(Names \cup {Blank})
         /\ Len(Room(o, Len(items))) >= lsize'[o]
         /\ Len(items) <= Primary + Len(Room(o, Len(items)))
<1> DEFINE n == Len(items)
           room == Room(o, n)
<1>1. n \in Nat
  BY ListShape, FilterAssumption
<1>2. lsize[o] \in Int /\ list[o] \in Seq(Names \cup {Blank}) /\ lsize[o] <= Len(list[o])
  BY FilterAssumption DEF Inv, TypeOK, Stocked, Sound
<1>3. CASE Grows(o, n)
  <2>1. n - Primary \in Nat
    BY <1>1, <1>3, FilterAssumption DEF SetList
  <2>2. room = [i \in 1 .. n - Primary |-> Blank]
    BY <1>3 DEF Room, Blanks
  <2>3. lsize'[o] = n - Primary
    BY <1>3 DEF SetList, Inv, TypeOK
  <2> QED
    BY <1>1, <2>1, <2>2, <2>3, FilterAssumption
<1>4. CASE ~Grows(o, n)
  <2>1. room = list[o] /\ lsize'[o] = lsize[o]
    BY <1>4 DEF Room, SetList, Inv, TypeOK
  <2>2. n <= lsize[o] + Primary
    BY <1>1, <1>2, <1>4, FilterAssumption DEF Grows
  <2> QED
    BY <1>1, <1>2, <2>1, <2>2, FilterAssumption
<1> QED
  BY <1>3, <1>4

\* The assignment of a list keeps the storage in step with the sizes.
LEMMA SetListInv ==
  ASSUME Inv, NEW o \in Filters, NEW items \in Lists, SetList(o, items)
  PROVE  Inv'
<1> DEFINE n == Len(items)
           room == Room(o, n)
<1>1. /\ n \in 0 .. MaxLen /\ n \in Nat
      /\ Copied(items) \subseteq 1 .. n
      /\ \A i \in Copied(items) : items[i] \in Names
  BY ListShape, FilterAssumption
<1>2. /\ lsize[o] \in Int /\ lsize[o] \in (0 - Primary) .. MaxLen
      /\ inst[o] \in [1 .. Primary -> Names \cup {Blank}]
      /\ list[o] \in Seq(Names \cup {Blank})
      /\ lsize[o] <= Len(list[o])
  BY FilterAssumption DEF Inv, TypeOK, Stocked, Sound
<1>3. room \in Seq(Names \cup {Blank}) /\ Len(room) >= lsize'[o] /\ n <= Primary + Len(room)
  BY SetListRoom
<1>4. /\ inst'[o] \in [1 .. Primary -> Names \cup {Blank}]
      /\ inst' \in [Filters -> [1 .. Primary -> Names \cup {Blank}]]
  BY <1>1, <1>2 DEF SetList, Inv, TypeOK
<1>5. list'[o] \in Seq(Names \cup {Blank}) /\ Len(list'[o]) = Len(room)
  <2>1. list'[o] = [i \in DOMAIN room |->
                      IF i + Primary \in Copied(items) THEN items[i + Primary] ELSE room[i]]
    BY DEF SetList, Inv, TypeOK
  <2>2. list'[o] \in [1 .. Len(room) -> Names \cup {Blank}] /\ Len(room) \in Nat
    BY <1>1, <1>3, <2>1
  <2> QED
    BY <2>2
<1>6. list' \in [Filters -> Seq(Names \cup {Blank})]
  BY <1>5 DEF SetList, Inv, TypeOK
<1>7. lsize'[o] \in (0 - Primary) .. MaxLen
  BY <1>1, <1>2, FilterAssumption DEF SetList, Inv, TypeOK
<1>8. ssize'[o] \in {0, n}
  BY DEF SetList, SizeAfter, Inv, TypeOK
<1>9. TypeOK'
  BY <1>1, <1>4, <1>6, <1>7, <1>8, FilterAssumption DEF SetList, Inv, TypeOK
<1>10. Stocked'
  <2> SUFFICES ASSUME NEW p \in Filters
               PROVE  /\ p \notin written' => ssize'[p] \in 0 .. Primary + Len(list'[p])
                      /\ lsize'[p] <= Len(list'[p])
    BY DEF Stocked, Sound
  <2>1. CASE p = o
    BY <1>1, <1>3, <1>5, <1>8, <2>1, FilterAssumption
  <2>2. CASE p # o
    BY <2>2 DEF SetList, Inv, TypeOK, Stocked, Sound
  <2> QED
    BY <2>1, <2>2
<1> QED
  BY <1>9, <1>10 DEF Inv

\* So does a sum: what does not fit inside is what the block is made for.
LEMMA ConcatInv ==
  ASSUME Inv, NEW a \in Filters, NEW b \in Filters, NEW o \in Filters, Concat(a, b, o)
  PROVE  Inv'
<1> DEFINE names == Joined(a, b)
           n == Len(names)
<1>1. /\ ssize[a] \in Nat /\ ssize[b] \in Nat /\ MaxLen \in Nat /\ Primary \in Nat
      /\ a \in live /\ b \in live /\ Sound(a) /\ Sound(b) /\ ssize[a] + ssize[b] <= MaxLen
  BY FilterAssumption DEF Inv, TypeOK, Concat, Sound
<1>2. /\ Contents(a) \in Seq(Names \cup {Blank}) /\ Len(Contents(a)) = ssize[a]
      /\ Contents(b) \in Seq(Names \cup {Blank}) /\ Len(Contents(b)) = ssize[b]
  BY <1>1, StoredTyped DEF Contents
<1>3. names \in Seq(Names \cup {Blank}) /\ n = ssize[a] + ssize[b] /\ n \in 0 .. MaxLen
  <2>1. names \in Seq(Names \cup {Blank}) /\ n = ssize[a] + ssize[b]
    BY <1>2 DEF Joined
  <2> QED
    BY <1>1, <2>1
<1>4. inst'[o] \in [1 .. Primary -> Names \cup {Blank}]
  <2>1. inst'[o] = [i \in 1 .. Primary |-> IF i <= n THEN names[i] ELSE Blank]
    BY DEF Concat, Inv, TypeOK
  <2> QED
    BY <1>1, <1>3, <2>1
<1>5. list'[o] \in Seq(Names \cup {Blank}) /\ ssize'[o] = n /\ n <= Primary + Len(list'[o])
      /\ lsize'[o] <= Len(list'[o])
  <2>1. list'[o] = [i \in 1 .. n - Primary |-> names[i + Primary]]
    BY DEF Concat, Inv, TypeOK
  <2>2. ssize'[o] = n /\ lsize'[o] = n - Primary
    BY DEF Concat, SumBlock, Inv, TypeOK
  <2>3. CASE n >= Primary
    <3>1. n - Primary \in Nat /\ \A i \in 1 .. n - Primary : names[i + Primary] \in Names \cup {Blank}
      <4>1. n - Primary \in Nat /\ \A i \in 1 .. n - Primary : i + Primary \in 1 .. n
        BY <1>1, <1>3, <2>3
      <4> QED
        BY <1>3, <4>1
    <3>2. list'[o] \in Seq(Names \cup {Blank}) /\ Len(list'[o]) = n - Primary
      BY <2>1, <3>1
    <3> QED
      BY <1>1, <2>2, <3>1, <3>2
  <2>4. CASE n < Primary
    <3>1. 1 .. n - Primary = {}
      BY <1>1, <1>3, <2>4
    <3>2. list'[o] = << >>
      BY <2>1, <3>1
    <3> QED
      BY <1>1, <1>3, <2>2, <2>4, <3>2
  <2> QED
    BY <1>1, <1>3, <2>3, <2>4
<1>6. TypeOK'
  <2>1. inst' \in [Filters -> [1 .. Primary -> Names \cup {Blank}]]
    BY <1>4 DEF Concat, Inv, TypeOK
  <2>2. list' \in [Filters -> Seq(Names \cup {Blank})]
    BY <1>5 DEF Concat, Inv, TypeOK
  <2>3. ssize' \in [Filters -> (0 .. MaxLen) \cup WrittenSizes]
    BY <1>3, <1>5 DEF Concat, Inv, TypeOK
  <2>4. lsize' \in [Filters -> (0 - Primary) .. MaxLen]
    <3>1. n - Primary \in (0 - Primary) .. MaxLen
      BY <1>1, <1>3
    <3>2. lsize' = [lsize EXCEPT ![o] = n - Primary]
      BY DEF Concat, SumBlock
    <3>3. lsize \in [Filters -> (0 - Primary) .. MaxLen]
      BY DEF Inv, TypeOK
    <3> HIDE DEF n
    <3> QED
      BY <3>1, <3>2, <3>3
  <2> QED
    BY <2>1, <2>2, <2>3, <2>4 DEF Concat, Inv, TypeOK
<1>7. Stocked'
  <2> SUFFICES ASSUME NEW p \in Filters
               PROVE  /\ p \notin written' => ssize'[p] \in 0 .. Primary + Len(list'[p])
                      /\ lsize'[p] <= Len(list'[p])
    BY DEF Stocked, Sound
  <2>1. CASE p = o
    BY <1>5, <2>1
  <2>2. CASE p # o
    BY <2>2 DEF Concat, Inv, TypeOK, Stocked, Sound
  <2> QED
    BY <2>1, <2>2
<1> QED
  BY <1>6, <1>7 DEF Inv

\* The calls that do not touch the block, or give it up.
LEMMA SmallStepInv ==
  ASSUME Inv, NEW o \in Filters,
         \/ New(o)
         \/ \E name \in Names : SetString(o, name)
         \/ \E items \in Lists : SetListCrash(o, items)
         \/ DeleteInst(o)
         \/ Dealloc(o)
         \/ \E n \in WrittenSizes : WriteSize(o, n)
         \/ CopyLong(o) \/ ConcatBlindly(o) \/ CallCheck(o)
  PROVE  Inv'
<1>1. CASE New(o)
  BY <1>1 DEF New, Inv, TypeOK, Stocked, Sound, sizes, storage, history
<1>2. ASSUME NEW name \in Names, SetString(o, name) PROVE Inv'
  <2>1. ssize' = [ssize EXCEPT ![o] = 1] /\ inst' = [inst EXCEPT ![o][1] = name]
    BY <1>2 DEF SetString
  <2>2. inst' \in [Filters -> [1 .. Primary -> Names \cup {Blank}]]
    BY <2>1, FilterAssumption DEF Inv, TypeOK
  <2>3. TypeOK'
    BY <1>2, <2>1, <2>2, FilterAssumption DEF SetString, Inv, TypeOK
  <2>4. Stocked'
    <3> SUFFICES ASSUME NEW p \in Filters
                 PROVE  /\ p \notin written' => ssize'[p] \in 0 .. Primary + Len(list'[p])
                        /\ lsize'[p] <= Len(list'[p])
      BY DEF Stocked, Sound
    <3>1. /\ list' = list /\ lsize' = lsize /\ Len(list[p]) \in Nat
          /\ written' = written \ {o}
      BY <1>2 DEF SetString, Inv, TypeOK
    <3>2. CASE p = o
      <4>1. ssize'[p] = 1
        BY <2>1, <3>2 DEF Inv, TypeOK
      <4> QED
        BY <3>1, <4>1, FilterAssumption DEF Inv, Stocked
    <3>3. CASE p # o
      BY <2>1, <3>1, <3>3 DEF Inv, TypeOK, Stocked, Sound
    <3> QED
      BY <3>2, <3>3
  <2> QED
    BY <2>3, <2>4 DEF Inv
<1>3. CASE \E items \in Lists : SetListCrash(o, items)
  BY <1>3 DEF SetListCrash, Inv, TypeOK, Stocked, Sound, sizes, storage, history
<1>4. CASE DeleteInst(o)
  <2>1. /\ ssize' = [ssize EXCEPT ![o] = 0] /\ lsize' = [lsize EXCEPT ![o] = 0]
        /\ list' = [list EXCEPT ![o] = << >>]
    BY <1>4 DEF DeleteInst
  <2>2. TypeOK'
    BY <1>4, <2>1, FilterAssumption DEF DeleteInst, Inv, TypeOK
  <2>3. Stocked'
    <3> SUFFICES ASSUME NEW p \in Filters
                 PROVE  /\ p \notin written' => ssize'[p] \in 0 .. Primary + Len(list'[p])
                        /\ lsize'[p] <= Len(list'[p])
      BY DEF Stocked, Sound
    <3>1. CASE p = o
      <4>1. ssize'[p] = 0 /\ lsize'[p] = 0 /\ list'[p] = << >>
        BY <2>1, <3>1 DEF Inv, TypeOK
      <4> QED
        BY <4>1, FilterAssumption
    <3>2. CASE p # o
      <4>1. ssize'[p] = ssize[p] /\ lsize'[p] = lsize[p] /\ list'[p] = list[p]
        BY <2>1, <3>2 DEF Inv, TypeOK
      <4>2. p \in written <=> p \in written'
        BY <1>4, <3>2 DEF DeleteInst
      <4> QED
        BY <4>1, <4>2 DEF Inv, Stocked, Sound
    <3> QED
      BY <3>1, <3>2
  <2> QED
    BY <2>2, <2>3 DEF Inv
<1>5. CASE Dealloc(o)
  <2>1. /\ ssize' = [ssize EXCEPT ![o] = 0] /\ lsize' = [lsize EXCEPT ![o] = 0]
        /\ list' = [list EXCEPT ![o] = << >>]
        /\ inst' = [inst EXCEPT ![o] = [i \in 1 .. Primary |-> Blank]]
    BY <1>5 DEF Dealloc, Blanks
  <2>2. inst' \in [Filters -> [1 .. Primary -> Names \cup {Blank}]]
    BY <2>1 DEF Inv, TypeOK
  <2>3. TypeOK'
    BY <1>5, <2>1, <2>2, FilterAssumption DEF Dealloc, Inv, TypeOK
  <2>4. Stocked'
    <3> SUFFICES ASSUME NEW p \in Filters
                 PROVE  /\ p \notin written' => ssize'[p] \in 0 .. Primary + Len(list'[p])
                        /\ lsize'[p] <= Len(list'[p])
      BY DEF Stocked, Sound
    <3>1. CASE p = o
      <4>1. ssize'[p] = 0 /\ lsize'[p] = 0 /\ list'[p] = << >>
        BY <2>1, <3>1 DEF Inv, TypeOK
      <4> QED
        BY <4>1, FilterAssumption
    <3>2. CASE p # o
      <4>1. ssize'[p] = ssize[p] /\ lsize'[p] = lsize[p] /\ list'[p] = list[p]
        BY <2>1, <3>2 DEF Inv, TypeOK
      <4>2. p \in written <=> p \in written'
        BY <1>5, <3>2 DEF Dealloc
      <4> QED
        BY <4>1, <4>2 DEF Inv, Stocked, Sound
    <3> QED
      BY <3>1, <3>2
  <2> QED
    BY <2>3, <2>4 DEF Inv
<1>6. ASSUME NEW n \in WrittenSizes, WriteSize(o, n) PROVE Inv'
  <2>1. /\ ssize' = [ssize EXCEPT ![o] = n] /\ written' = written \cup {o} /\ o \in live
        /\ UNCHANGED <<live, lsize, inst, list, defined, sum>>
    BY <1>6 DEF WriteSize, storage
  <2>2. TypeOK'
    BY <2>1 DEF Inv, TypeOK
  <2>3. Stocked'
    BY <2>1 DEF Inv, TypeOK, Stocked, Sound
  <2> QED
    BY <2>2, <2>3 DEF Inv
<1>7. CASE CopyLong(o) \/ ConcatBlindly(o) \/ CallCheck(o)
  BY <1>7 DEF CopyLong, ConcatBlindly, CallCheck, Inv, TypeOK, Stocked, Sound, sizes, storage, history
<1> QED
  BY <1>1, <1>2, <1>3, <1>4, <1>5, <1>6, <1>7

\* Every call keeps the invariant.
LEMMA NextInv == Inv /\ [Next]_vars => Inv'
<1> SUFFICES ASSUME Inv, [Next]_vars PROVE Inv'
  OBVIOUS
<1>1. CASE UNCHANGED vars
  BY <1>1 DEF vars, sizes, storage, history, Inv, TypeOK, Stocked, Sound
<1>2. ASSUME NEW o \in Filters, NEW items \in Lists, SetList(o, items) PROVE Inv'
  BY <1>2, SetListInv
<1>3. ASSUME NEW o \in Filters, NEW a \in Filters, NEW b \in Filters, Concat(a, b, o) PROVE Inv'
  BY <1>3, ConcatInv
<1> QED
  BY <1>1, <1>2, <1>3, SmallStepInv DEF Next

\* Every name a filter counts has storage: m_ssize never exceeds the inner
\* places and the block, m_lsize never the block, in whatever order lists,
\* strings, deletions and sums come; but for a size the program writes.
THEOREM StorageBacked == Spec => []Backed
<1>1. Inv => Backed
  BY DEF Inv, Stocked, Backed
<1> QED
  BY <1>1, InitInv, NextInv, PTL DEF Spec

-------------------------------------------------------------------------------
(* What a filter reads back *)

\* A filter whose fields a step leaves alone reads back the same names.
LEMMA SameFields ==
  ASSUME NEW p \in Filters,
         ssize'[p] = ssize[p], inst'[p] = inst[p], list'[p] = list[p]
  PROVE  Contents(p)' = Contents(p) /\ (Sound(p)' <=> Sound(p))
BY DEF Contents, Stored, Sound

\* A list that fits, or that found a block, is read back as it was given;
\* one with a refused item leaves nothing.
LEMMA SetListKept ==
  ASSUME Inv, Kept, NEW o \in Filters, NEW items \in Lists, SetList(o, items)
  PROVE  Kept'
<1> DEFINE n == Len(items)
           room == Room(o, n)
<1> SUFFICES ASSUME NEW p \in Filters PROVE Sound(p)' => Contents(p)' = want'[p]
  BY DEF Kept, SetList, Concat
<1>1. CASE p # o
  <2>1. /\ ssize'[p] = ssize[p] /\ inst'[p] = inst[p] /\ list'[p] = list[p]
        /\ want'[p] = want[p]
    BY <1>1 DEF SetList, Inv, TypeOK, Kept
  <2> QED
    BY <2>1, SameFields DEF Kept
<1>2. ASSUME Copied(items) # 1 .. n PROVE Contents(o)' = want'[o]
  <2>1. ssize'[o] = 0
    BY <1>2, ListShape DEF SetList, SizeAfter, Inv, TypeOK
  <2>2. PICK i \in 1 .. n : i \notin Copied(items)
    BY <1>2, ListShape
  <2>3. \E j \in DOMAIN items : items[j] = NotString
    <3>1. n \in Nat /\ DOMAIN items = 1 .. n
      BY ListShape, FilterAssumption
    <3>2. PICK j \in 1 .. i : items[j] = NotString
      BY <2>2, <3>1 DEF Copied
    <3> QED
      BY <2>2, <3>1, <3>2
  <2>4. want'[o] = << >>
    BY <2>3 DEF SetList, Kept
  <2> QED
    BY <2>1, <2>4 DEF Contents
<1>3. ASSUME Copied(items) = 1 .. n PROVE Contents(o)' = want'[o]
  <2>1. n \in Nat /\ items \in Seq(Names \cup {NotString}) /\ \A i \in 1 .. n : items[i] \in Names
    BY <1>3, ListShape, FilterAssumption
  <2>2. ssize'[o] = n
    BY <1>3, ListShape DEF SetList, SizeAfter, Inv, TypeOK
  <2>3. ~\E j \in DOMAIN items : items[j] = NotString
    BY <2>1, FilterAssumption
  <2>4. want'[o] = items
    BY <2>3 DEF SetList, Kept
  <2>5. \A i \in 1 .. n : Stored(o, i)' = items[i]
    <3> SUFFICES ASSUME NEW i \in 1 .. n PROVE Stored(o, i)' = items[i]
      OBVIOUS
    <3>1. CASE i <= Primary
      <4>1. i \in 1 .. Primary /\ i \in Copied(items)
        BY <1>3, <2>1, <3>1, FilterAssumption
      <4> QED
        BY <3>1, <4>1 DEF SetList, Stored, Inv, TypeOK
    <3>2. CASE i > Primary
      <4>1. i - Primary \in DOMAIN room
        BY <2>1, <3>2, SetListRoom, FilterAssumption
      <4>2. (i - Primary) + Primary = i /\ i \in Copied(items) /\ ~(i <= Primary)
        BY <1>3, <2>1, <3>2, FilterAssumption
      <4>3. list'[o][i - Primary] = items[i]
        BY <4>1, <4>2 DEF SetList, Inv, TypeOK
      <4> QED
        BY <4>2, <4>3 DEF Stored
    <3> QED
      BY <2>1, <3>1, <3>2, FilterAssumption
  <2> QED
    BY <2>1, <2>2, <2>4, <2>5 DEF Contents
<1> QED
  BY <1>1, <1>2, <1>3

\* A sum reads back as its operands one after the other.
LEMMA ConcatKept ==
  ASSUME Inv, Kept, NEW a \in Filters, NEW b \in Filters, NEW o \in Filters, Concat(a, b, o)
  PROVE  Kept'
<1> DEFINE names == Joined(a, b)
           n == Len(names)
<1> SUFFICES ASSUME NEW p \in Filters PROVE Sound(p)' => Contents(p)' = want'[p]
  BY DEF Kept, SetList, Concat
<1>1. CASE p # o
  <2>1. /\ ssize'[p] = ssize[p] /\ inst'[p] = inst[p] /\ list'[p] = list[p]
        /\ want'[p] = want[p]
    BY <1>1 DEF Concat, Inv, TypeOK, Kept
  <2> QED
    BY <2>1, SameFields DEF Kept
<1>2. names \in Seq(Names \cup {Blank}) /\ n \in Nat
  <2>1. Sound(a) /\ Sound(b) /\ ssize[a] \in Nat /\ ssize[b] \in Nat
    BY FilterAssumption DEF Concat, Sound, Inv, TypeOK
  <2>2. /\ Contents(a) \in Seq(Names \cup {Blank})
        /\ Contents(b) \in Seq(Names \cup {Blank})
    BY <2>1, StoredTyped DEF Contents
  <2> QED
    BY <2>2 DEF Joined
<1>3. want'[o] = names
  <2>1. want'[o] = want[a] \o want[b]
    BY DEF Concat, Kept
  <2> QED
    BY <2>1 DEF Concat, Kept, Joined
<1>4. ssize'[o] = n
  BY DEF Concat, Inv, TypeOK
<1>5. \A i \in 1 .. n : Stored(o, i)' = names[i]
  <2> SUFFICES ASSUME NEW i \in 1 .. n PROVE Stored(o, i)' = names[i]
    OBVIOUS
  <2>1. CASE i <= Primary
    <3>1. i \in 1 .. Primary /\ i <= n
      BY <1>2, <2>1, FilterAssumption
    <3> QED
      BY <2>1, <3>1 DEF Concat, Stored, Inv, TypeOK
  <2>2. CASE i > Primary
    <3>1. i - Primary \in 1 .. n - Primary /\ (i - Primary) + Primary = i /\ ~(i <= Primary)
      BY <1>2, <2>2, FilterAssumption
    <3>2. list'[o][i - Primary] = names[i]
      BY <3>1 DEF Concat, Inv, TypeOK
    <3> QED
      BY <3>1, <3>2 DEF Stored
  <2> QED
    BY <1>2, <2>1, <2>2, FilterAssumption
<1>6. Contents(o)' = want'[o]
  BY <1>2, <1>3, <1>4, <1>5 DEF Contents
<1> QED
  BY <1>1, <1>6

\* Every call leaves in each filter what it asks for.
LEMMA NextKept == Inv /\ Kept /\ [Next]_vars => Kept'
<1> SUFFICES ASSUME Inv, Kept, [Next]_vars PROVE Kept'
  OBVIOUS
<1>1. CASE UNCHANGED vars
  BY <1>1, SameFields DEF vars, sizes, storage, history, Kept
<1>2. ASSUME NEW o \in Filters, New(o) PROVE Kept'
  BY <1>2, SameFields DEF New, sizes, storage, history, Kept
<1>3. ASSUME NEW o \in Filters, NEW items \in Lists, SetListCrash(o, items) PROVE Kept'
  BY <1>3, SameFields DEF SetListCrash, sizes, storage, history, Kept
<1>4. ASSUME NEW o \in Filters, NEW name \in Names, SetString(o, name) PROVE Kept'
  <2> SUFFICES ASSUME NEW p \in Filters PROVE Sound(p)' => Contents(p)' = want'[p]
    BY <1>4 DEF Kept, SetString
  <2>1. CASE p # o
    BY <1>4, <2>1, SameFields DEF SetString, Inv, TypeOK, Kept
  <2>2. CASE p = o
    <3>1. ssize'[o] = 1 /\ want'[o] = <<name>> /\ inst'[o][1] = name
      BY <1>4, FilterAssumption DEF SetString, Inv, TypeOK, Kept
    <3>2. Contents(o)' = [i \in 1 .. 1 |-> Stored(o, i)']
      BY <3>1 DEF Contents
    <3>3. Stored(o, 1)' = name
      BY <3>1, FilterAssumption DEF Stored
    <3> QED
      BY <2>2, <3>1, <3>2, <3>3
  <2> QED
    BY <2>1, <2>2
<1>5. ASSUME NEW o \in Filters, DeleteInst(o) \/ Dealloc(o) PROVE Kept'
  <2>1. /\ ssize' = [ssize EXCEPT ![o] = 0] /\ want' = [want EXCEPT ![o] = << >>]
        /\ list' = [list EXCEPT ![o] = << >>]
        /\ \A p \in Filters : p # o => inst'[p] = inst[p]
    BY <1>5 DEF DeleteInst, Dealloc, Inv, TypeOK
  <2> SUFFICES ASSUME NEW p \in Filters PROVE Sound(p)' => Contents(p)' = want'[p]
    BY <2>1 DEF Kept
  <2>2. CASE p # o
    BY <2>1, <2>2, SameFields DEF Inv, TypeOK, Kept
  <2>3. CASE p = o
    <3>1. ssize'[o] = 0 /\ want'[o] = << >>
      BY <2>1 DEF Inv, TypeOK, Kept
    <3>2. Contents(o)' = [i \in 1 .. 0 |-> Stored(o, i)']
      BY <3>1 DEF Contents
    <3> QED
      BY <2>3, <3>1, <3>2
  <2> QED
    BY <2>2, <2>3
<1>6. ASSUME NEW o \in Filters, NEW n \in WrittenSizes, WriteSize(o, n) PROVE Kept'
  <2>1. /\ ssize' = [ssize EXCEPT ![o] = n] /\ inst' = inst /\ list' = list
        /\ want' = IF Sound(o)' THEN [want EXCEPT ![o] = Contents(o)'] ELSE want
    BY <1>6 DEF WriteSize, storage
  <2>2. DOMAIN want' = Filters
    BY <2>1 DEF Kept
  <2> SUFFICES ASSUME NEW p \in Filters, Sound(p)' PROVE Contents(p)' = want'[p]
    BY <2>2 DEF Kept
  <2>3. CASE p # o
    <3>1. ssize'[p] = ssize[p] /\ want'[p] = want[p]
      BY <2>1, <2>3 DEF Inv, TypeOK, Kept
    <3> QED
      BY <2>1, <3>1, SameFields DEF Kept
  <2>4. CASE p = o
    BY <2>1, <2>4 DEF Kept
  <2> QED
    BY <2>3, <2>4
<1>7. ASSUME NEW o \in Filters, CopyLong(o) \/ ConcatBlindly(o) \/ CallCheck(o) PROVE Kept'
  BY <1>7, SameFields DEF CopyLong, ConcatBlindly, CallCheck, sizes, storage, history, Kept
<1> QED
  BY <1>1, <1>2, <1>3, <1>4, <1>5, <1>6, <1>7, SetListKept, ConcatKept DEF Next

\* Holding the names asked for is passing exactly those, or all if there is none.
LEMMA KeptReads == Inv /\ Kept => ReadsBack
<1> SUFFICES ASSUME Inv, Kept, NEW o \in live \ written PROVE
               /\ Contents(o) = want[o]
               /\ \A name \in Names :
                    Check(o, name) <=>
                      want[o] = << >> \/ \E i \in DOMAIN want[o] : want[o][i] = name
  BY DEF ReadsBack
<1>1. o \in Filters /\ Contents(o) = want[o] /\ ssize[o] \in Nat
  BY FilterAssumption DEF Inv, TypeOK, Stocked, Sound, Kept
<1>2. DOMAIN want[o] = 1 .. ssize[o] /\ \A i \in 1 .. ssize[o] : want[o][i] = Stored(o, i)
  BY <1>1 DEF Contents
<1>3. (want[o] = << >>) <=> (ssize[o] = 0)
  <2>1. ssize[o] # 0 => 1 \in DOMAIN want[o]
    BY <1>1, <1>2
  <2>2. ssize[o] = 0 => want[o] = << >>
    BY <1>1 DEF Contents
  <2>3. DOMAIN << >> = {}
    OBVIOUS
  <2> QED
    BY <2>1, <2>2, <2>3
<1> QED
  BY <1>1, <1>2, <1>3 DEF Check, Contains

\* A filter reads back the names it was last given, in order, for every number
\* of inner places and whatever was stored before.
THEOREM FilterReadsBack == Spec => []ReadsBack
<1>1. Init => Kept
  BY DEF Init, Kept, Contents
<1> QED
  BY <1>1, InitInv, NextInv, NextKept, KeptReads, PTL DEF Spec

\* The variables have their types in every reachable state.
THEOREM TypeCorrect == Spec => []TypeOK
<1>1. Inv => TypeOK
  BY DEF Inv
<1> QED
  BY InitInv, NextInv, <1>1, PTL DEF Spec

-------------------------------------------------------------------------------
(* Where a list asks for a negative block *)

\* A block of less than no names is that of a sum, and what was put into it
\* since still leaves an inner place free.  (With one inner place a string fills
\* it; then no list is short enough to ask for a negative block.)
ShortBlocks ==
  \A o \in Filters :
    lsize[o] < 0 => o \in sum /\ (ssize[o] < Primary \/ o \in written \/ Primary = 1)

\* An assigned list makes the block one of no less than no names, or is no
\* longer than the sum whose block is kept.
LEMMA SetListShort ==
  ASSUME Inv, ShortBlocks, NEW o \in Filters, NEW items \in Lists, SetList(o, items)
  PROVE  ShortBlocks'
<1> DEFINE n == Len(items)
<1>1. n \in Nat /\ Primary \in Nat \ {0}
  BY ListShape, FilterAssumption
<1>2. /\ ssize'[o] = SizeAfter(items)
      /\ lsize'[o] = IF Grows(o, n) THEN n - Primary ELSE lsize[o]
      /\ Grows(o, n) => n >= Primary
      /\ lsize[o] \in Int /\ sum' = sum /\ written' = written \ {o}
      /\ \A p \in Filters : p # o => ssize'[p] = ssize[p] /\ lsize'[p] = lsize[p]
  BY FilterAssumption DEF SetList, Inv, TypeOK
<1>3. SizeAfter(items) \in {0, n}
  BY DEF SizeAfter
<1> SUFFICES ASSUME NEW p \in Filters, lsize'[p] < 0
             PROVE  p \in sum' /\ (ssize'[p] < Primary \/ p \in written' \/ Primary = 1)
  BY DEF ShortBlocks
<1>4. CASE p # o
  BY <1>2, <1>4 DEF ShortBlocks
<1>5. CASE p = o
  <2>1. ~Grows(o, n) /\ lsize[o] < 0
    BY <1>1, <1>2, <1>5
  <2>2. o \in sum /\ n < Primary
    BY <1>1, <1>2, <2>1 DEF Grows, ShortBlocks
  <2> QED
    BY <1>1, <1>2, <1>3, <1>5, <2>2
<1> QED
  BY <1>4, <1>5

\* A sum has such a block only when it holds fewer names than fit inside.
LEMMA ConcatShort ==
  ASSUME Inv, ShortBlocks, NEW a \in Filters, NEW b \in Filters, NEW o \in Filters,
         Concat(a, b, o)
  PROVE  ShortBlocks'
<1> DEFINE n == Len(Joined(a, b))
<1>1. /\ ssize'[o] = n /\ lsize'[o] = n - Primary /\ sum' = sum \cup {o}
      /\ written' = written \ {o}
      /\ \A p \in Filters : p # o => ssize'[p] = ssize[p] /\ lsize'[p] = lsize[p]
  BY DEF Concat, SumBlock, Inv, TypeOK
<1>2. n \in Int
  <2>1. ssize' \in [Filters -> (0 .. MaxLen) \cup WrittenSizes]
    BY ConcatInv DEF Inv, TypeOK
  <2> QED
    BY <1>1, <2>1, FilterAssumption
<1> HIDE DEF n
<1> QED
  BY <1>1, <1>2, FilterAssumption DEF ShortBlocks

\* Every call keeps short blocks to sums.
LEMMA NextShort == Inv /\ ShortBlocks /\ [Next]_vars => ShortBlocks'
<1> SUFFICES ASSUME Inv, ShortBlocks, [Next]_vars PROVE ShortBlocks'
  OBVIOUS
<1>1. ASSUME UNCHANGED <<sizes, history>> PROVE ShortBlocks'
  BY <1>1 DEF sizes, history, ShortBlocks
<1>2. ASSUME NEW o \in Filters,
             \/ New(o) \/ (\E items \in Lists : SetListCrash(o, items))
             \/ CopyLong(o) \/ ConcatBlindly(o) \/ CallCheck(o)
      PROVE  ShortBlocks'
  BY <1>1, <1>2 DEF New, SetListCrash, CopyLong, ConcatBlindly, CallCheck
<1>3. ASSUME NEW o \in Filters, NEW name \in Names, SetString(o, name)
      PROVE  ShortBlocks'
  BY <1>3, FilterAssumption DEF SetString, ShortBlocks, Inv, TypeOK
<1>4. ASSUME NEW o \in Filters, DeleteInst(o) \/ Dealloc(o) PROVE ShortBlocks'
  <2>1. /\ lsize' = [lsize EXCEPT ![o] = 0] /\ ssize' = [ssize EXCEPT ![o] = 0]
        /\ sum \ {o} \subseteq sum' /\ written' = written \ {o}
    BY <1>4 DEF DeleteInst, Dealloc
  <2>2. lsize'[o] = 0 /\ \A p \in Filters \ {o} :
                          lsize'[p] = lsize[p] /\ ssize'[p] = ssize[p]
    BY <2>1 DEF Inv, TypeOK
  <2> QED
    BY <2>1, <2>2 DEF ShortBlocks
<1>5. ASSUME NEW o \in Filters, NEW n \in WrittenSizes, WriteSize(o, n) PROVE ShortBlocks'
  BY <1>5 DEF WriteSize, ShortBlocks, Inv, TypeOK
<1>6. CASE UNCHANGED vars
  BY <1>1, <1>6 DEF vars
<1> QED
  BY <1>1, <1>2, <1>3, <1>4, <1>5, <1>6, SetListShort, ConcatShort DEF Next

\* A list asks malloc for a negative size only in a sum of fewer names than fit
\* inside, or one whose size was written, for every number of inner places.
THEOREM NegativeBlockOfSum == Spec => []ShortOnlyBySum
<1>1. Init => ShortBlocks
  BY FilterAssumption DEF Init, ShortBlocks
<1>2. Inv /\ ShortBlocks => ShortOnlyBySum
  <2> SUFFICES ASSUME Inv, ShortBlocks, NEW o \in live, NEW n \in 0 .. MaxLen,
                      Grows(o, n), n < Primary
               PROVE  o \in sum /\ (ssize[o] < Primary \/ o \in written)
    BY DEF ShortOnlyBySum
  <2>1. n \in Nat /\ Primary \in Nat \ {0} /\ lsize[o] \in Int /\ lsize[o] >= 0 - Primary
        /\ o \in Filters
    BY FilterAssumption DEF Inv, TypeOK
  <2>2. lsize[o] < 0 /\ Primary # 1
    BY <2>1 DEF Grows
  <2> QED
    BY <2>1, <2>2 DEF ShortBlocks
<1>3. Inv /\ ShortBlocks /\ [Next]_vars => Inv' /\ ShortBlocks'
  BY NextInv, NextShort
<1> QED
  BY <1>1, <1>2, <1>3, InitInv, PTL DEF Spec
===============================================================================
