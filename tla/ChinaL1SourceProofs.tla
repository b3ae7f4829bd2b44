-------------------------- MODULE ChinaL1SourceProofs --------------------------
(****************************************************************************)
(* ChinaL1Source for captures of any length and any sequence of calls: the  *)
(* list holds the quotes that pass, in order, in a block with room for all  *)
(* of them but a last one taken twice, and the cursor stands on a message.  *)
(****************************************************************************)
EXTENDS ChinaL1Source, SequenceTheorems, TLAPS

\* Unless the program wrote it, the size counts the messages of a block that is
\* there; load reads only into such a block, with the filter it began with, and
\* the header of a quote is that of the package it has read last.
SizeCounts ==
  /\ ~counted => fsize = IF block = "block" THEN Len(items) ELSE 0
  /\ loading => block = "block" /\ ~counted /\ used = filter
  /\ quoteHdr => pos > 0 /\ Quote(file[pos])

\* What load has read takes no more of the file than there is before a package
\* it has not read, or before the end: a message for every QuoteBytes of it.
RoomLeft ==
  loading =>
    /\ room = Room(file)
    /\ Len(items) * QuoteBytes <= Size(file)
    /\ \A j \in pos + 1 .. Len(file) : Len(items) * QuoteBytes <= file[j].at

\* While load reads with a filter, no package has been taken twice.
OnceEach == loading /\ used.real => Lists(items, Passing(pos))

\* At most one message is behind the block.
OneBehind ==
  block = "block" => Len(items) <= room \/ (Len(items) = room + 1 /\ EndedOnQuote)

Inv == TypeOK /\ SizeCounts /\ DataAtCursor

FullInv == Inv /\ RoomLeft /\ OnceEach /\ OneBehind /\ LoadedInOrder

\* A source just made satisfies the invariant.
LEMMA InitInv == Init => Inv
<1> SUFFICES ASSUME Init PROVE Inv
  OBVIOUS
<1>1. /\ file = << >> /\ items \in Seq(1 .. Len(file)) /\ pos \in 0 .. Len(file)
      /\ fsize = 0 /\ Len(items) = 0
  BY DEF Init
<1>2. TypeOK
  <2>1. FlagsOK
    BY DEF Init, FlagsOK
  <2>2. filter \in [names : SUBSET Names, real : BOOLEAN] /\ used = filter
    BY DEF Init
  <2> QED
    BY <1>1, <2>1, <2>2 DEF Init, TypeOK, NoData
<1> QED
  BY <1>1, <1>2 DEF Init, Inv, SizeCounts, DataAtCursor

\* A package is kept, or left; only one that passes is kept, and with a filter
\* every one that does.
LEMMA TakeCases ==
  ASSUME NEW k, Take(k)
  PROVE  /\ \/ items' = Append(items, k) /\ fsize' = fsize + 1 /\ Passes(file[k])
            \/ items' = items /\ fsize' = fsize /\ (filter.real => ~Passes(file[k]))
         /\ defined' \in BOOLEAN
<1>1. PICK kept \in Verdicts(file[k]) :
        /\ IF kept THEN items' = Append(items, k) /\ fsize' = fsize + 1
                  ELSE UNCHANGED <<items, fsize>>
        /\ defined' \in IF filter.real /\ (kept => fsize < room) THEN {TRUE} ELSE BOOLEAN
  BY DEF Take
<1>2. defined' \in BOOLEAN
  BY <1>1
<1>3. Passes(file[k]) \in BOOLEAN
  BY DEF Passes
<1>4. /\ kept = Passes(file[k]) \/ (~filter.real /\ kept = FALSE)
  BY <1>1 DEF Verdicts
<1> QED
  BY <1>1, <1>2, <1>3, <1>4

\* Taking a package, or leaving it, keeps the list and its size in step.
LEMMA TakeKeeps ==
  ASSUME Inv, loading, NEW k \in 1 .. Len(file), Take(k)
  PROVE  /\ items' \in Seq(1 .. Len(file)) /\ fsize' = Len(items') /\ fsize' \in Nat
         /\ defined' \in BOOLEAN
<1>1. items \in Seq(1 .. Len(file)) /\ fsize = Len(items)
  BY DEF Inv, TypeOK, FlagsOK, SizeCounts
<1>2. CASE items' = Append(items, k) /\ fsize' = fsize + 1
  BY <1>1, <1>2, TakeCases
<1>3. CASE items' = items /\ fsize' = fsize
  BY <1>1, <1>3, TakeCases
<1> QED
  BY <1>2, <1>3, TakeCases

\* A message that is read keeps type and cursor right.
LEMMA ReadKeeps ==
  ASSUME Inv, Idle, NEW i \in Int, 0 <= i, ~counted => i < fsize, ReadAt(i),
         UNCHANGED <<filter, reader, loaded, size, loading>>
  PROVE  Inv'
<1> USE DEF reader, loaded, size
<1>1. items \in Seq(1 .. Len(file)) /\ Len(items) \in Nat /\ loading = FALSE
  BY DEF Inv, TypeOK, Idle, FlagsOK
<1>2. data' \in Int
  <2>1. CASE block = "block" /\ i + 1 \in DOMAIN items
    BY <1>1, <2>1 DEF ReadAt, MessagesAt, Junk
  <2>2. CASE ~(block = "block" /\ i + 1 \in DOMAIN items)
    BY <2>2 DEF ReadAt, MessagesAt, Junk
  <2> QED
    BY <2>1, <2>2
<1>3. defined' \in BOOLEAN /\ fpos' = i /\ edited' = FALSE
  BY DEF ReadAt
<1>4. TypeOK'
  BY <1>1, <1>2, <1>3 DEF Inv, TypeOK, FlagsOK
<1>5. SizeCounts'
  BY DEF Inv, SizeCounts
<1>6. ASSUME fsize # 0, ~counted
      PROVE  i + 1 \in DOMAIN items /\ (i < room => data' = items[i + 1])
  <2>1. block = "block" /\ fsize = Len(items)
    BY <1>6 DEF Inv, SizeCounts
  <2>2. i + 1 \in DOMAIN items
    BY <1>1, <1>6, <2>1
  <2> QED
    BY <2>1, <2>2 DEF ReadAt, MessagesAt
<1> QED
  BY <1>3, <1>4, <1>5, <1>6 DEF Inv, DataAtCursor

\* Every call, and every round of load, keeps it.
LEMMA StepInv == Inv /\ [Next]_vars => Inv'
<1> SUFFICES ASSUME Inv, [Next]_vars PROVE Inv'
  OBVIOUS
<1> USE DEF Inv, reader, cursor, loaded, size
<1>1. ASSUME NEW f \in Captures, LoadOpen(f) PROVE Inv'
  <2>1. /\ file' = f /\ items' = << >> /\ items' \in Seq(1 .. Len(file'))
        /\ pos' = 0 /\ fsize' = 0 /\ Len(items') = 0 /\ Len(f) \in Nat
    BY <1>1, SourceAssumption DEF LoadOpen
  <2>2. TypeOK'
    <3>1. FlagsOK'
      BY <1>1 DEF LoadOpen, FreeBlock, TypeOK, FlagsOK
    <3>2. /\ fpos' \in Int /\ data' \in Int /\ filter' = filter /\ used' = filter
      BY <1>1 DEF LoadOpen, TypeOK
    <3> QED
      BY <1>1, <2>1, <3>1, <3>2 DEF LoadOpen, TypeOK
  <2> QED
    BY <1>1, <2>1, <2>2 DEF LoadOpen, SizeCounts, DataAtCursor
<1>2. CASE LoadMissing
  <2>1. /\ fsize' = 0 /\ counted' = FALSE /\ defined' \in BOOLEAN
        /\ block' \in {"null", "freed"} /\ fpos' \in Int /\ data' \in Int
        /\ edited' \in BOOLEAN
    <3>0. fsize' = 0 /\ counted' = FALSE
      BY <1>2 DEF LoadMissing, SizeAtStart
    <3>1. CASE block = "null" /\ UNCHANGED <<block, cursor, defined>>
      BY <3>0, <3>1 DEF TypeOK, FlagsOK
    <3>2. CASE /\ block # "null"
               /\ defined' \in IF block = "freed" THEN {FALSE} ELSE BOOLEAN
               /\ block' = "freed" /\ data' = Junk /\ fpos' = 0 /\ edited' = FALSE
      <4>1. defined' \in BOOLEAN /\ edited' \in BOOLEAN
        BY <3>2
      <4>2. block' = "freed" /\ fpos' = 0 /\ data' = -1
        BY <3>2 DEF Junk
      <4> QED
        BY <3>0, <4>1, <4>2
    <3> QED
      BY <1>2, <3>1, <3>2 DEF LoadMissing
  <2>2. UNCHANGED <<filter, reader, items, loading>> /\ loading = FALSE
    BY <1>2 DEF LoadMissing, Idle, TypeOK, FlagsOK
  <2>3. TypeOK'
    <3>1. FlagsOK'
      BY <2>1, <2>2 DEF TypeOK, FlagsOK
    <3> QED
      BY <2>1, <2>2, <3>1 DEF TypeOK
  <2> QED
    BY <2>1, <2>2, <2>3 DEF SizeCounts, DataAtCursor, Quote
<1>3. CASE ReadPackage
  <2>1. pos \in Nat /\ Len(file) \in Nat /\ pos + 1 \in 1 .. Len(file)
    BY <1>3 DEF ReadPackage, TypeOK
  <2>2. /\ items' \in Seq(1 .. Len(file)) /\ fsize' = Len(items') /\ fsize' \in Nat
        /\ defined' \in BOOLEAN
    <3>1. CASE Quote(file[pos + 1])
      BY <1>3, <2>1, <3>1, TakeKeeps DEF ReadPackage
    <3>2. CASE ~Quote(file[pos + 1])
      BY <1>3, <3>2 DEF ReadPackage, TypeOK, SizeCounts
    <3> QED
      BY <3>1, <3>2
  <2>3. /\ pos' = pos + 1 /\ quoteHdr' = Quote(file[pos + 1]) /\ loading
        /\ UNCHANGED <<filter, file, used, block, room, counted, cursor, loading>>
    BY <1>3 DEF ReadPackage
  <2>4. TypeOK'
    <3>1. FlagsOK'
      BY <2>2, <2>3 DEF TypeOK, FlagsOK, Quote
    <3> QED
      BY <2>1, <2>2, <2>3, <3>1 DEF TypeOK
  <2>5. SizeCounts'
    <3>1. used = filter /\ block = "block" /\ ~counted
      BY <2>3 DEF SizeCounts
    <3>2. quoteHdr' => pos' > 0 /\ Quote(file[pos'])
      BY <2>1, <2>3
    <3>3. quoteHdr' => pos' > 0 /\ Quote(file[pos])'
      BY <2>3, <3>2 DEF Quote
    <3> QED
      BY <2>2, <2>3, <3>1, <3>3 DEF SizeCounts
  <2> QED
    BY <2>3, <2>4, <2>5 DEF DataAtCursor, Idle
<1>4. CASE ReadEnd
  <2>1. pos = Len(file) /\ loading /\ pos \in 1 .. Len(file) /\ Take(pos)
    BY <1>4 DEF ReadEnd, HeaderAtEnd, TypeOK, SizeCounts
  <2>2. /\ items' \in Seq(1 .. Len(file)) /\ fsize' = Len(items') /\ fsize' \in Nat
        /\ defined' \in BOOLEAN
    BY <2>1, TakeKeeps
  <2>3. /\ data' = IF items' = << >> THEN Junk ELSE items'[1]
        /\ fpos' = 0 /\ edited' = FALSE /\ loading' = FALSE
        /\ UNCHANGED <<filter, file, pos, quoteHdr, used, block, room, counted>>
    BY <1>4 DEF ReadEnd
  <2>4. items' # << >> => items'[1] \in 1 .. Len(file) /\ 1 \in DOMAIN items'
    BY <2>2, EmptySeq
  <2>5. data' \in Int
    BY <2>3, <2>4 DEF Junk
  <2>6. TypeOK'
    <3>1. FlagsOK'
      BY <2>2, <2>3 DEF TypeOK, FlagsOK
    <3> QED
      BY <2>1, <2>2, <2>3, <2>5, <3>1 DEF TypeOK
  <2>7. SizeCounts'
    BY <2>1, <2>2, <2>3 DEF SizeCounts, Quote
  <2>8. ASSUME fsize' # 0 PROVE fpos' + 1 \in DOMAIN items' /\ data' = items'[fpos' + 1]
    <3>1. items' # << >>
      BY <2>2, <2>8
    <3> QED
      BY <2>3, <2>4, <3>1
  <2> QED
    BY <2>6, <2>7, <2>8 DEF DataAtCursor
<1>5. CASE ReadEndAgain \/ UNCHANGED vars
  BY <1>5 DEF ReadEndAgain, vars, TypeOK, FlagsOK, SizeCounts, DataAtCursor, Idle, Quote
<1>6. CASE SetFilter \/ DropFilter
  <2>1. filter' \in [names : SUBSET Names, real : BOOLEAN]
    <3>1. CASE SetFilter
      BY <3>1 DEF SetFilter
    <3>2. CASE DropFilter
      BY <3>2 DEF DropFilter
    <3> QED
      BY <1>6, <3>1, <3>2
  <2>2. loading = FALSE /\ UNCHANGED <<reader, cursor, loaded, size, loading, defined>>
    BY <1>6 DEF SetFilter, DropFilter, Idle, TypeOK, FlagsOK
  <2> QED
    BY <2>1, <2>2 DEF TypeOK, FlagsOK, SizeCounts, DataAtCursor, Idle, Quote
<1>7. ASSUME NEW i \in 0 .. fsize, At(i) PROVE Inv'
  <2>1. i \in Int /\ 0 <= i /\ i < fsize
    BY <1>7 DEF At, TypeOK
  <2> QED
    BY <1>7, <2>1, ReadKeeps DEF At
<1>8. CASE NextMessage
  <2>1. fsize \in Int /\ fpos \in Int /\ (~counted => fsize \in Nat)
    BY DEF TypeOK, SizeCounts
  <2>2. /\ NextPos(fpos) \in Int /\ 0 <= NextPos(fpos)
        /\ ~counted => NextPos(fpos) < fsize
    BY <1>8, <2>1 DEF NextMessage, NextPos, NotPastEnd
  <2> QED
    BY <1>8, <2>2, ReadKeeps DEF NextMessage
<1>9. ASSUME NEW i \in (0 - MaxPos) .. MaxPos, SetPos(i) PROVE Inv'
  <2>1. i \in Int /\ fpos' = i /\ edited' /\ edited' \in BOOLEAN
    BY <1>9, SourceAssumption DEF SetPos
  <2>2. UNCHANGED <<filter, reader, loaded, size, data, loading, defined>>
    BY <1>9 DEF SetPos
  <2>3. TypeOK'
    BY <2>1, <2>2 DEF TypeOK, FlagsOK
  <2> QED
    BY <2>1, <2>2, <2>3 DEF SizeCounts, DataAtCursor, Quote
<1>10. ASSUME NEW n \in Counts, SetCount(n) PROVE Inv'
  <2>1. n \in Int /\ fsize' = n /\ counted' /\ counted' \in BOOLEAN /\ ~loading
    BY <1>10, SourceAssumption DEF SetCount, Idle
  <2>2. UNCHANGED <<filter, reader, cursor, loaded, loading, defined>>
    BY <1>10 DEF SetCount
  <2>3. TypeOK'
    BY <2>1, <2>2 DEF TypeOK, FlagsOK
  <2> QED
    BY <2>1, <2>2, <2>3 DEF SizeCounts, DataAtCursor, Quote
<1>11. CASE SetField
  <2>1. data' = -1 /\ edited' /\ edited' \in BOOLEAN
    BY <1>11 DEF SetField, Junk
  <2>2. UNCHANGED <<filter, reader, loaded, size, fpos, loading, defined>>
    BY <1>11 DEF SetField
  <2>3. TypeOK'
    BY <2>1, <2>2 DEF TypeOK, FlagsOK
  <2> QED
    BY <2>1, <2>2, <2>3 DEF SizeCounts, DataAtCursor, Quote
<1>12. CASE SetLongText
  <2>1. ~defined' /\ defined' \in BOOLEAN
    BY <1>12 DEF SetLongText
  <2>2. UNCHANGED <<filter, reader, cursor, loaded, size, loading>>
    BY <1>12 DEF SetLongText
  <2>3. TypeOK'
    BY <2>1, <2>2 DEF TypeOK, FlagsOK
  <2> QED
    BY <2>1, <2>2, <2>3 DEF SizeCounts, DataAtCursor, Idle, Quote
<1> QED
  BY <1>1, <1>2, <1>3, <1>4, <1>5, <1>6, <1>7, <1>8, <1>9, <1>10, <1>11, <1>12
     DEF Next, Load, Reading

\* The invariant of the source holds in every reachable state.
THEOREM Invariance == Spec => []Inv
BY InitInv, StepInv, PTL DEF Spec

\* The variables have their types in every reachable state.
THEOREM TypeCorrect == Spec => []TypeOK
<1>1. Inv => TypeOK
  BY DEF Inv
<1> QED
  BY Invariance, <1>1, PTL

\* m_data is the message at m_fpos, one of those m_fsize counts, unless the
\* program wrote one of the three; of a position behind the block nothing is said
\* of what is found there.
THEOREM MessageOfCursor == Spec => []DataAtCursor
<1>1. Inv => DataAtCursor
  BY DEF Inv
<1> QED
  BY Invariance, <1>1, PTL

-------------------------------------------------------------------------------
(* What load puts into the list *)

\* The packages of a capture: their fields, and where they lie.
LEMMA Packages ==
  ASSUME NEW f \in Captures \cup {<< >>}
  PROVE  /\ f \in Seq([inst : Names, priced : BOOLEAN, at : Nat, bytes : Nat \ {0}])
         /\ Len(f) \in Nat /\ DOMAIN f = 1 .. Len(f)
         /\ \A i \in 1 .. Len(f) : f[i].at \in Nat /\ f[i].bytes \in Nat
         /\ \A i, j \in 1 .. Len(f) :
              i < j => f[i].at + f[i].bytes <= f[j].at
         /\ Size(f) \in Nat
<1> DEFINE P == [inst : Names, priced : BOOLEAN, at : Nat, bytes : Nat \ {0}]
<1>2. f \in Seq(P)
  <2>1. \A g \in Captures : g \in Seq(P)
    BY SourceAssumption, Zenon
  <2> HIDE DEF P
  <2>2. << >> \in Seq(P)
    OBVIOUS
  <2> QED
    BY <2>1, <2>2
<1>3. \A p \in P : p.at \in Nat /\ p.bytes \in Nat
  OBVIOUS
<1>4. Len(f) \in Nat /\ DOMAIN f = 1 .. Len(f)
      /\ \A i \in 1 .. Len(f) : f[i] \in P
  <2> HIDE DEF P
  <2> QED
    BY <1>2
<1>5. \A i \in 1 .. Len(f) : f[i].at \in Nat /\ f[i].bytes \in Nat
  BY <1>3, <1>4
<1>6. \A i, j \in 1 .. Len(f) :
        i < j => f[i].at + f[i].bytes <= f[j].at
  <2>1. CASE f \in Captures
    BY <1>4, <2>1, SourceAssumption
  <2>2. CASE f = << >>
    BY <2>2
  <2> QED
    BY <2>1, <2>2
<1>7. Size(f) \in Nat
  <2>1. CASE f = << >>
    BY <2>1, SourceAssumption DEF Size
  <2>2. CASE f # << >>
    <3>1. Len(f) \in 1 .. Len(f)
      <4> HIDE DEF P
      <4> QED
        BY <1>2, <1>4, <2>2, EmptySeq
    <3> QED
      BY <1>5, <2>2, <3>1 DEF Size
  <2> QED
    BY <2>1, <2>2
<1> QED
  BY <1>2, <1>4, <1>5, <1>6, <1>7

\* What fits as often as its length allows.
LEMMA Fits ==
  ASSUME NEW n \in Nat, NEW d \in Nat \ {0}, NEW s \in Nat, n * d <= s
  PROVE  n <= s \div d
<1> DEFINE q == s \div d
<1>1. q \in Nat /\ s < d * q + d
  OBVIOUS
<1> HIDE DEF q
<1>2. SUFFICES ASSUME n >= q + 1 PROVE FALSE
  BY <1>1 DEF q
<1>3. n * d >= (q + 1) * d
  BY <1>1, <1>2
<1>4. (q + 1) * d = d * q + d
  BY <1>1
<1> QED
  BY <1>1, <1>3, <1>4

\* The end of a package is inside the file.
LEMMA Within ==
  ASSUME NEW f \in Captures \cup {<< >>}, NEW k \in 1 .. Len(f)
  PROVE  f[k].at + f[k].bytes <= Size(f)
<1>1. Len(f) \in 1 .. Len(f) /\ f # << >>
  BY Packages
<1>2. Size(f) = f[Len(f)].at + f[Len(f)].bytes
  BY <1>1 DEF Size
<1>3. CASE k = Len(f)
  BY <1>2, <1>3, Packages
<1>4. CASE k < Len(f)
  <2>1. f[k].at + f[k].bytes <= f[Len(f)].at
    BY <1>1, <1>4, Packages
  <2>2. /\ f[k].at \in Nat /\ f[k].bytes \in Nat
        /\ f[Len(f)].at \in Nat /\ f[Len(f)].bytes \in Nat
    BY <1>1, Packages
  <2> QED
    BY <1>2, <2>1, <2>2
<1> QED
  <2>1. Len(f) \in Nat
    BY Packages
  <2> QED
    BY <1>3, <1>4, <2>1

\* A list goes on with a number above all of it.
LEMMA ListsNext ==
  ASSUME NEW N \in Nat, NEW s \in Seq(1 .. N), NEW S, NEW k \in 1 .. N,
         Lists(s, S), \A i \in S : i < k
  PROVE  Lists(Append(s, k), S \cup {k})
<1> DEFINE t == Append(s, k)
<1>1. /\ DOMAIN s = 1 .. Len(s) /\ DOMAIN t = 1 .. Len(s) + 1 /\ Len(s) \in Nat
      /\ t[Len(s) + 1] = k /\ \A n \in 1 .. Len(s) : t[n] = s[n]
  OBVIOUS
<1> HIDE DEF t
<1>2. \A n \in 1 .. Len(s) : s[n] \in S /\ s[n] < k
  BY <1>1 DEF Lists
<1>3. {t[n] : n \in DOMAIN t} = S \cup {k}
  <2>1. \A n \in DOMAIN t : t[n] \in S \cup {k}
    BY <1>1, <1>2
  <2>2. ASSUME NEW x \in S PROVE \E n \in DOMAIN t : t[n] = x
    <3>1. PICK n \in DOMAIN s : s[n] = x
      BY DEF Lists
    <3> QED
      BY <1>1, <3>1
  <2>3. \E n \in DOMAIN t : t[n] = k
    BY <1>1
  <2> QED
    BY <2>1, <2>2, <2>3
<1>4. \A m, n \in DOMAIN t : m < n => t[m] < t[n]
  <2> SUFFICES ASSUME NEW m \in DOMAIN t, NEW n \in DOMAIN t, m < n
               PROVE  t[m] < t[n]
    OBVIOUS
  <2>1. m \in 1 .. Len(s) /\ t[m] = s[m]
    BY <1>1
  <2>2. CASE n = Len(s) + 1
    BY <1>1, <1>2, <2>1, <2>2
  <2>3. CASE n \in 1 .. Len(s)
    BY <1>1, <2>1, <2>3 DEF Lists
  <2> QED
    BY <1>1, <2>2, <2>3
<1> QED
  BY <1>3, <1>4 DEF Lists, t

\* A list without its last number, when that was appended.
LEMMA FrontOfAppend ==
  ASSUME NEW T, NEW s \in Seq(T), NEW k \in T
  PROVE  /\ Front(Append(s, k)) = s
         /\ Append(s, k) # << >>
         /\ Append(s, k)[Len(Append(s, k))] = k
  BY DEF Front

\* Where the next package is read, it passes or not.
LEMMA PassingNext ==
  ASSUME Inv, loading, NEW k \in 1 .. Len(file), Quote(file[k])
  PROVE  Passing(k) = IF Passes(file[k]) THEN Passing(k - 1) \cup {k}
                                        ELSE Passing(k - 1)
<1>1. 1 .. k = (1 .. k - 1) \cup {k} /\ k \notin 1 .. k - 1
  BY DEF Inv, TypeOK
<1>2. used = filter
  BY DEF Inv, SizeCounts
<1> QED
  BY <1>1, <1>2 DEF Passing, Passes

\* A source just made has no list.
LEMMA InitFull == Init => FullInv
<1>1. Init => RoomLeft /\ OnceEach /\ OneBehind /\ LoadedInOrder
  BY DEF Init, RoomLeft, OnceEach, OneBehind, LoadedInOrder
<1> QED
  BY <1>1, InitInv DEF FullInv

\* What has been read fits into the block.
LEMMA ReadFits ==
  ASSUME Inv, loading, RoomLeft
  PROVE  room \in Int /\ Len(items) <= room
<1>1. /\ Size(file) \in Nat /\ QuoteBytes \in Nat \ {0} /\ Len(items) \in Nat
  BY Packages, SourceAssumption DEF Inv, TypeOK
<1>2. room = Size(file) \div QuoteBytes /\ Len(items) * QuoteBytes <= Size(file)
  BY DEF RoomLeft, Room
<1> QED
  BY <1>1, <1>2, Fits

\* A package taken while load reads takes a message's part of the file, and goes
\* behind the list.
LEMMA ReadStep ==
  ASSUME FullInv, ReadPackage
  PROVE  RoomLeft' /\ OnceEach'
<1> DEFINE k == pos + 1
<1>1. /\ Inv /\ loading /\ k \in 1 .. Len(file) /\ pos' = k
      /\ pos \in Nat /\ k - 1 = pos /\ Len(items) \in Nat /\ items \in Seq(1 .. Len(file))
      /\ used = filter /\ UNCHANGED <<file, used, block, room, loading>>
  <2>1. file \in Captures \cup {<< >>} /\ Inv
    BY DEF FullInv, Inv, TypeOK
  <2>2. Len(file) \in Nat
    BY <2>1, Packages
  <2> QED
    BY <2>1, <2>2 DEF FullInv, Inv, TypeOK, SizeCounts, ReadPackage
<1>0. /\ file \in Captures \cup {<< >>} /\ Len(file) \in Nat /\ Size(file) \in Nat
      /\ \A i \in 1 .. Len(file) : file[i].at \in Nat /\ file[i].bytes \in Nat
      /\ \A i, j \in 1 .. Len(file) :
           i < j => file[i].at + file[i].bytes <= file[j].at
  <2>1. file \in Captures \cup {<< >>}
    BY DEF FullInv, Inv, TypeOK
  <2> QED
    BY <2>1, Packages
<1>2. /\ room = Room(file) /\ Len(items) * QuoteBytes <= Size(file)
      /\ \A j \in k .. Len(file) : Len(items) * QuoteBytes <= file[j].at
      /\ used.real => Lists(items, Passing(pos))
  BY <1>1 DEF FullInv, RoomLeft, OnceEach
<1>3. /\ Room(file)' = Room(file) /\ Size(file)' = Size(file)
      /\ Passing(pos)' = Passing(k)
  BY <1>1 DEF Room, Size, Passing
<1> HIDE DEF k
<1>4. CASE items' = items /\ (used.real => ~(Quote(file[k]) /\ Passes(file[k])))
  <2>1. used.real => Passing(k) = Passing(pos)
    <3>1. 1 .. k = (1 .. k - 1) \cup {k}
      BY <1>1
    <3> QED
      BY <1>1, <1>4, <3>1 DEF Passing, Passes
  <2>2. OnceEach'
    BY <1>1, <1>2, <1>3, <1>4, <2>1 DEF OnceEach, Lists
  <2>3. RoomLeft'
    BY <1>0, <1>1, <1>2, <1>3, <1>4 DEF RoomLeft
  <2> QED
    BY <2>2, <2>3
<1>5. CASE items' = Append(items, k) /\ Quote(file[k]) /\ Passes(file[k])
  <2>1. Len(items') = Len(items) + 1
    BY <1>1, <1>5
  <2>2. Len(items') * QuoteBytes = Len(items) * QuoteBytes + file[k].bytes
        /\ Len(items) * QuoteBytes \in Nat /\ Len(items') \in Nat
    BY <1>1, <1>5, <2>1, SourceAssumption DEF Quote
  <2>3. Len(items') * QuoteBytes <= file[k].at + file[k].bytes
        /\ file[k].at \in Nat /\ file[k].bytes \in Nat
    <3>1. Len(items) * QuoteBytes <= file[k].at
      BY <1>0, <1>1, <1>2
    <3>2. file[k].at \in Nat /\ file[k].bytes \in Nat
      BY <1>0, <1>1
    <3> QED
      BY <2>2, <3>1, <3>2
  <2>4. Len(items') * QuoteBytes <= Size(file) /\ Len(items') * QuoteBytes \in Nat
    <3>1. file[k].at + file[k].bytes <= Size(file)
      BY <1>0, <1>1, Within
    <3>2. Len(items') * QuoteBytes \in Nat
      BY <1>0, <1>1, <2>2
    <3> QED
      BY <1>0, <2>3, <3>1, <3>2
  <2>5. ASSUME NEW j \in k + 1 .. Len(file) PROVE Len(items') * QuoteBytes <= file[j].at
    <3>1. k < j /\ j \in 1 .. Len(file)
      BY <1>0, <1>1
    <3>2. /\ file[k].at + file[k].bytes <= file[j].at /\ file[j].at \in Nat
      BY <1>0, <1>1, <3>1
    <3> QED
      BY <2>3, <2>4, <3>2
  <2>6. ASSUME used.real PROVE Lists(items', Passing(k))
    <3>1. Passing(k) = Passing(pos) \cup {k}
      BY <1>1, <1>5, PassingNext
    <3>2. \A i \in Passing(pos) : i < k
      BY <1>1 DEF Passing
    <3>3. Lists(Append(items, k), Passing(pos) \cup {k})
      <4>1. /\ Len(file) \in Nat /\ items \in Seq(1 .. Len(file)) /\ k \in 1 .. Len(file)
            /\ Lists(items, Passing(pos))
        BY <1>0, <1>1, <1>2, <2>6
      <4> QED
        BY <3>2, <4>1, ListsNext, Zenon
    <3> QED
      BY <1>5, <3>1, <3>3
  <2>7. RoomLeft'
    BY <1>1, <1>2, <1>3, <2>4, <2>5 DEF RoomLeft
  <2>8. OnceEach'
    BY <1>1, <1>3, <2>6 DEF OnceEach, Lists
  <2> QED
    BY <2>7, <2>8
<1>6. \/ items' = items /\ (used.real => ~(Quote(file[k]) /\ Passes(file[k])))
      \/ items' = Append(items, k) /\ Quote(file[k]) /\ Passes(file[k])
  <2>1. CASE Quote(file[k])
    <3>1. Take(k)
      BY <2>1 DEF ReadPackage, k
    <3> QED
      BY <1>1, <2>1, <3>1, TakeCases
  <2>2. CASE ~Quote(file[k])
    BY <2>2 DEF ReadPackage, k
  <2> QED
    BY <2>1, <2>2
<1> QED
  BY <1>4, <1>5, <1>6

\* While load reads, list and block are in order.
LEMMA WhileReading == Inv /\ loading /\ RoomLeft /\ OnceEach => OneBehind /\ LoadedInOrder
<1> SUFFICES ASSUME Inv, loading, RoomLeft, OnceEach PROVE OneBehind /\ LoadedInOrder
  OBVIOUS
<1>1. Len(items) <= room
  BY ReadFits
<1>2. ~EndedOnQuote
  BY DEF EndedOnQuote
<1> QED
  BY <1>1, <1>2 DEF OneBehind, LoadedInOrder, OnceEach

\* The last package taken once more is the last of the list, and the only message
\* there may be no room for.
LEMMA EndStep ==
  ASSUME FullInv, ReadEnd
  PROVE  /\ RoomLeft' /\ OnceEach' /\ OneBehind' /\ LoadedInOrder'
<1>1. /\ Inv /\ loading /\ pos = Len(file) /\ pos \in 1 .. Len(file) /\ Quote(file[pos])
      /\ items \in Seq(1 .. Len(file)) /\ Take(pos) /\ used = filter /\ Len(items) \in Nat
      /\ loading' = FALSE /\ UNCHANGED <<file, pos, used, block, room>>
  BY DEF FullInv, Inv, TypeOK, SizeCounts, ReadEnd, HeaderAtEnd, reader
<1>2. used.real => Lists(items, Passing(pos))
  BY <1>1 DEF FullInv, OnceEach
<1>3. room \in Int /\ Len(items) <= room
  BY <1>1, ReadFits DEF FullInv
<1>4. Passing(pos)' = Passing(pos)
  BY <1>1 DEF Passing
<1>5. EndedOnQuote' <=> Passes(file[pos])
  <2>1. EndedOnQuote' <=> pos \in Passing(pos)
    BY <1>1, <1>4 DEF EndedOnQuote
  <2> QED
    BY <1>1, <2>1 DEF Passing, Passes
<1>6. CASE items' = Append(items, pos) /\ Passes(file[pos])
  <2>1. /\ Front(items') = items /\ items' # << >> /\ items'[Len(items')] = pos
    BY <1>1, <1>6, FrontOfAppend
  <2>2. Len(items') = Len(items) + 1
    BY <1>1, <1>6
  <2>3. OneBehind'
    BY <1>1, <1>3, <1>5, <1>6, <2>2 DEF OneBehind
  <2>4. LoadedInOrder'
    BY <1>1, <1>2, <1>4, <1>5, <1>6, <2>1 DEF LoadedInOrder
  <2> QED
    BY <1>1, <2>3, <2>4 DEF RoomLeft, OnceEach
<1>7. CASE items' = items /\ (used.real => ~Passes(file[pos]))
  <2>1. OneBehind'
    BY <1>1, <1>3, <1>7 DEF OneBehind
  <2>2. LoadedInOrder'
    BY <1>1, <1>2, <1>4, <1>5, <1>7 DEF LoadedInOrder
  <2> QED
    BY <1>1, <2>1, <2>2 DEF RoomLeft, OnceEach
<1> QED
  BY <1>1, <1>6, <1>7, TakeCases

\* A load begins with an empty list and a block for the whole file.
LEMMA OpenStep ==
  ASSUME NEW f \in Captures, LoadOpen(f)
  PROVE  RoomLeft' /\ OnceEach'
<1>1. /\ file' = f /\ items' = << >> /\ pos' = 0 /\ Len(items') = 0 /\ room' = Room(f)
  BY DEF LoadOpen
<1>2. /\ Size(f) \in Nat /\ QuoteBytes \in Nat
      /\ \A j \in 1 .. Len(f) : f[j].at \in Nat
  BY Packages, SourceAssumption
<1>3. 0 * QuoteBytes = 0
  BY <1>2
<1>4. RoomLeft'
  BY <1>1, <1>2, <1>3 DEF RoomLeft, Room, Size
<1>5. Passing(pos)' = {} /\ Lists(<< >>, {})
  BY <1>1 DEF Passing, Lists
<1> QED
  BY <1>1, <1>4, <1>5 DEF OnceEach

\* Every call, and every round of load, keeps list and room.
LEMMA StepFull == FullInv /\ [Next]_vars => FullInv'
<1> SUFFICES ASSUME FullInv, [Next]_vars
             PROVE  RoomLeft' /\ OnceEach' /\ OneBehind' /\ LoadedInOrder'
  BY StepInv DEF FullInv
<1>1. Inv /\ Inv'
  BY StepInv DEF FullInv
<1>2. loading' /\ RoomLeft' /\ OnceEach' => OneBehind' /\ LoadedInOrder'
  BY <1>1, WhileReading, PTL
<1>3. ASSUME NEW f \in Captures, LoadOpen(f) PROVE loading' /\ RoomLeft' /\ OnceEach'
  BY <1>3, OpenStep DEF LoadOpen
<1>4. CASE LoadMissing
  <2>1. block' # "block" /\ ~loading'
    BY <1>1, <1>4 DEF LoadMissing, Idle
  <2> QED
    BY <2>1 DEF RoomLeft, OnceEach, OneBehind, LoadedInOrder
<1>5. CASE ReadPackage
  <2>1. loading'
    BY <1>5 DEF ReadPackage
  <2> QED
    BY <1>2, <1>5, <2>1, ReadStep
<1>6. CASE ReadEnd
  BY <1>6, EndStep
<1>7. CASE UNCHANGED <<file, pos, used, loaded, loading>>
  <2>1. /\ Room(file)' = Room(file) /\ Size(file)' = Size(file)
        /\ Passing(pos)' = Passing(pos) /\ EndedOnQuote' = EndedOnQuote
    BY <1>7 DEF Passing, Room, Size, EndedOnQuote
  <2>2. OnceEach' /\ LoadedInOrder'
    BY <1>7, <2>1 DEF FullInv, OnceEach, LoadedInOrder, loaded, Lists
  <2>3. RoomLeft' /\ OneBehind'
    BY <1>7, <2>1 DEF FullInv, RoomLeft, OneBehind, loaded
  <2> QED
    BY <2>2, <2>3
<1>8. ASSUME \/ ReadEndAgain \/ SetFilter \/ DropFilter \/ NextMessage \/ UNCHANGED vars
             \/ \E i \in 0 .. fsize : At(i)
             \/ \E i \in (0 - MaxPos) .. MaxPos : SetPos(i)
             \/ \E n \in Counts : SetCount(n)
             \/ SetField \/ SetLongText
      PROVE  UNCHANGED <<file, pos, used, loaded, loading>>
  BY <1>8
     DEF ReadEndAgain, SetFilter, DropFilter, NextMessage, At, SetPos, SetCount, SetField,
         SetLongText, vars, reader, loaded
<1> QED
  BY <1>2, <1>3, <1>4, <1>5, <1>6, <1>7, <1>8 DEF Next, Load, Reading

\* List, room and cursor agree in every reachable state.
THEOREM ListInvariance == Spec => []FullInv
BY InitFull, StepFull, PTL DEF Spec

\* For captures of any length, any loads before, and whatever the program does to
\* the source between them: a load with a filter lists the quotes that pass, in
\* the order of the file, each once; a last package that passes, and no other,
\* comes again.
THEOREM LoadInOrder == Spec => []LoadedInOrder
<1>1. FullInv => LoadedInOrder
  BY DEF FullInv
<1> QED
  BY ListInvariance, <1>1, PTL

\* m_fsize counts messages of a block that was not given back, all of which are
\* inside it but for a last quote taken twice: the division of the file's size by
\* that of a quote makes room for every quote a file can hold.
THEOREM CountedInBlock == Spec => []CursorBacked
<1>1. FullInv => CursorBacked
  BY DEF FullInv, Inv, SizeCounts, OneBehind, CursorBacked
<1> QED
  BY ListInvariance, <1>1, PTL
===============================================================================
