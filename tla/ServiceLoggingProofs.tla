------------------------- MODULE ServiceLoggingProofs -------------------------
(****************************************************************************)
(* ServiceLogging for a ring of any size and any number of processes: as    *)
(* long as the ring is not overrun, slots are not shared, what is printed   *)
(* is whole, and one process that logs loses nothing to any number that     *)
(* print.  A process that is alone prints in order, each message once.      *)
(****************************************************************************)
EXTENDS ServiceLogging, FiniteSetTheorems, TLAPS

\* A number is drawn once, and before it is used.
Numbered ==
  /\ \A p \in Writers : Writing(p) => num[p] \in 0 .. (pos - 1)
  /\ \A p, q \in Writers :
       p # q /\ Writing(p) /\ Writing(q) => num[p] # num[q]

\* A slot with a header and a text of the same message.
Whole(s) == ctxes[s].head = ctxes[s].mesg /\ ctxes[s].mesg # Nothing

\* A text is written to an empty slot, behind its header; a bit is set for a
\* slot that is whole, and only such slots are in a mask that is in use.
Written ==
  /\ \A s \in Slots : s >= pos => ctxes[s].mesg = Nothing
  /\ \A p \in Writers :
       /\ pc[p] \in {"head", "mesg"} => ctxes[num[p]].mesg = Nothing
       /\ pc[p] = "mesg" => ctxes[num[p]].head = num[p]
       /\ pc[p] \in {"load", "store"} => Whole(num[p])
  /\ \A s \in mask : Whole(s)
  /\ \A p \in Procs : pc[p] \in {"store", "pos", "scan"} =>
                        \A s \in seen[p] : Whole(s)

\* What was printed is whole.
PrintedWhole ==
  \A p \in Readers :
    /\ out[p] \in Seq([head : Int, mesg : Int])
    /\ \A k \in 1 .. Len(out[p]) :
         out[p][k].head = out[p][k].mesg /\ out[p][k].mesg # Nothing

Inv == TypeOK /\ Numbered /\ (pos <= Size => Written /\ PrintedWhole)

\* Who has called what: a process is in log_data only as an author, in proc_msg
\* only as a printer; nothing is done or printed by anyone else.
Actors ==
  /\ IsFiniteSet(authors) /\ IsFiniteSet(printers)
  /\ \A p \in Procs : Writing(p) => p \in authors
  /\ \A p \in Procs : pc[p] \in {"pos", "scan"} => p \in printers
  /\ \A p \in Readers : p \notin printers => out[p] = << >>
  /\ done \subseteq 0 .. (pos - 1)
  /\ printed \in [0 .. (MaxMsgs - 1) -> Nat]
  /\ out \in [Readers -> Seq([head : Int, mesg : Int])]

OnlyOne(S) == \A a, b \in S : a = b

\* A slot of a ring that is not overrun holds its own message or none.
OwnMessage == \A s \in Slots : ctxes[s].mesg \in {Nothing, s}

\* What a scan has passed with its bit set is printed.
PassedPrinted ==
  \A p \in Readers : pc[p] = "scan" =>
    \A k \in first[p] .. (num[p] - 1) : Slot(k) \in seen[p] => printed[Slot(k)] > 0

\* The messages that are printed or that a scan in progress holds in its mask.
Safe(n) ==
  \/ printed[n] > 0
  \/ \E p \in Readers : pc[p] \in {"pos", "scan"} /\ Slot(n) \in seen[p]

\* A message that is done is safe or its bit is set, in the mask and in the copy
\* of the mask that the author is about to store.
NoneLost ==
  /\ \A n \in done : Safe(n) \/ Slot(n) \in mask
  /\ \A a \in Writers : pc[a] = "store" => \A n \in done : Safe(n) \/ Slot(n) \in seen[a]

LostInv ==
  /\ Inv
  /\ Actors
  /\ pos <= Size => OwnMessage /\ PassedPrinted /\ (OnlyOne(authors) => NoneLost)

\* Messages whose log_data has set their bit are those below Top.
Top == IF \E p \in Writers : Writing(p) THEN pos - 1 ELSE pos

\* The messages that are still in the ring.
InRing(n) == n \in 0 .. (Top - 1) /\ pos - Size <= n

\* How far the scan of p has come: it has passed the messages below.
Cursor(p) == pos - Size + (num[p] - first[p])

Passed(n) == \E p \in Readers : pc[p] = "scan" /\ n < Cursor(p)

\* The author has drawn the latest number, and holds the whole mask.
Latest ==
  \A p \in Writers :
    /\ Writing(p) => num[p] = pos - 1 /\ 0 < pos
    /\ pc[p] \in {"load", "store"} => ctxes[Slot(num[p])].mesg = num[p]
    /\ pc[p] = "store" => seen[p] = mask

\* The printer holds the whole mask and starts at the oldest message.
Oldest ==
  \A p \in Readers :
    /\ pc[p] \in {"pos", "scan"} => seen[p] = mask
    /\ pc[p] = "scan" => first[p] = Slot(pos)

\* A message in the ring is in its slot, and its bit is set until it is printed.
Recorded ==
  /\ \A n \in Nat : InRing(n) =>
       /\ ctxes[Slot(n)].mesg = n
       /\ IF Passed(n) THEN printed[n] = 1 ELSE Slot(n) \in mask <=> printed[n] = 0
  /\ \A s \in mask : s < pos
  /\ \A n \in DOMAIN printed : printed[n] <= 1 /\ (n >= Top => printed[n] = 0)

\* What the printer has printed is in order, and behind its cursor.
Sorted ==
  \A p \in Readers :
    /\ \A k \in 2 .. Len(out[p]) : out[p][k - 1].mesg < out[p][k].mesg
    /\ pc[p] = "pos" => out[p] = << >>
    /\ pc[p] = "scan" => \A k \in 1 .. Len(out[p]) : out[p][k].mesg < Cursor(p)

OrderInv ==
  /\ Inv
  /\ Actors
  /\ OnlyOne(authors \cup printers) => Latest /\ Oldest /\ Recorded /\ Sorted

-------------------------------------------------------------------------------
(* Arithmetic of the ring *)

\* A number is a whole number of rings and a slot.
LEMMA Split ==
  ASSUME NEW n \in Nat
  PROVE  /\ n \div Size \in Nat /\ n % Size \in 0 .. (Size - 1)
         /\ n = Size * (n \div Size) + (n % Size)
BY LoggingAssumption

\* Whole rings are at least a ring apart.
LEMMA WholeRings ==
  ASSUME NEW d \in Int, NEW e \in Int, Size * d = e, -Size < e, e < Size
  PROVE  d = 0
<1>1. d >= 1 => Size * d >= Size
  BY LoggingAssumption
<1>2. d <= -1 => Size * d <= -Size
  BY LoggingAssumption
<1> QED
  BY <1>1, <1>2, LoggingAssumption

\* The remainder is the only slot a number can have.
LEMMA OnlyRemainder ==
  ASSUME NEW n \in Nat, NEW k \in Int, NEW r \in 0 .. (Size - 1), n = Size * k + r
  PROVE  n % Size = r
<1> DEFINE q == n \div Size
           m == n % Size
<1>1. q \in Int /\ m \in 0 .. (Size - 1) /\ n = Size * q + m
  BY Split
<1> HIDE DEF q, m
<1>2. Size * (k - q) = m - r
  BY <1>1, LoggingAssumption
<1>3. k - q \in Int /\ m - r \in Int /\ -Size < m - r /\ m - r < Size
  BY <1>1, LoggingAssumption
<1>4. k - q = 0
  BY <1>2, <1>3, WholeRings
<1>5. m = r
  BY <1>1, <1>2, <1>4, LoggingAssumption
<1> QED
  BY <1>5 DEF m

\* Going round the ring leads back to the same slot.
LEMMA RoundTheRing ==
  ASSUME NEW n \in Nat, NEW k \in Int, Size * k + n \in Nat
  PROVE  Slot(Size * k + n) = Slot(n)
<1> DEFINE q == n \div Size
           r == n % Size
<1>1. q \in Int /\ r \in 0 .. (Size - 1) /\ n = Size * q + r
  BY Split
<1> HIDE DEF q, r
<1>2. Size * k + n = Size * (k + q) + r /\ k + q \in Int
  BY <1>1, LoggingAssumption
<1>3. (Size * k + n) % Size = r
  BY <1>1, <1>2, OnlyRemainder
<1> QED
  BY <1>3 DEF r, Slot

\* Numbers less than a ring apart have different slots.
LEMMA SlotsApart ==
  ASSUME NEW m \in Nat, NEW n \in Nat, Slot(m) = Slot(n), m - n < Size, n - m < Size
  PROVE  m = n
<1> DEFINE p == m \div Size
           q == n \div Size
           r == n % Size
<1>1. p \in Int /\ q \in Int /\ r \in Int /\ m = Size * p + r /\ n = Size * q + r
  BY Split, LoggingAssumption DEF Slot
<1> HIDE DEF p, q, r
<1>2. Size * (p - q) = m - n /\ p - q \in Int
  BY <1>1, LoggingAssumption
<1>3. p - q = 0
  BY <1>2, WholeRings, LoggingAssumption
<1> QED
  BY <1>1, <1>3

\* The slot of a number is not above it.
LEMMA SlotBelow ==
  ASSUME NEW n \in Nat
  PROVE  Slot(n) <= n
<1> DEFINE q == n \div Size
           r == n % Size
           t == Size * q
<1>1. q \in Nat /\ r \in Nat /\ n = t + r
  BY Split
<1>2. t \in Nat
  <2> HIDE DEF q
  <2> QED
    BY <1>1, LoggingAssumption
<1> HIDE DEF t, r
<1>3. r <= n
  BY <1>1, <1>2
<1> QED
  BY <1>3 DEF r, Slot

\* Numbers below LOGGING_SIZE are their own slots; every number has a slot.
LEMMA SlotOf ==
  ASSUME NEW n \in Nat
  PROVE  Slot(n) \in Slots /\ (n < Size => Slot(n) = n)
<1>1. Size \in Nat /\ Size > 0
  BY LoggingAssumption
<1>2. n % Size \in 0 .. (Size - 1)
  BY <1>1
<1>3. ASSUME n < Size PROVE n % Size = n
  BY <1>1, <1>3
<1> QED
  BY <1>2, <1>3 DEF Slot, Slots

\* A board just zeroed satisfies the invariant.
LEMMA InitInv == Init => Inv
<1> SUFFICES ASSUME Init PROVE Inv
  OBVIOUS
<1> USE LoggingAssumption DEF Init
<1>1. ctxes \in [Slots -> [head : -1..(MaxMsgs - 1), mesg : -1..(MaxMsgs - 1)]]
  BY DEF Nothing
<1>2. /\ num \in [Procs -> Nat] /\ first \in [Procs -> Slots]
      /\ pos \in 0 .. MaxMsgs /\ reads \in 0 .. MaxReads
  BY DEF Slots
<1>3. /\ pc \in [Procs -> {"idle", "head", "mesg", "load", "store", "pos", "scan"}]
      /\ seen \in [Procs -> SUBSET Slots]
      /\ \A p \in Procs : pc[p] = "idle"
  OBVIOUS
<1>4. TypeOK
  BY <1>1, <1>2, <1>3 DEF TypeOK
<1>5. \A p \in Procs : ~Writing(p)
  BY <1>3 DEF Writing
<1>6. Numbered
  BY <1>5 DEF Numbered, Procs
<1>7. Written
  BY <1>3 DEF Written, Procs, Whole
<1>8. PrintedWhole
  BY DEF PrintedWhole
<1> QED
  BY <1>4, <1>6, <1>7, <1>8 DEF Inv

\* A step keeps the types; the numbers a writer stores are numbers it drew.
LEMMA TypeStep ==
  ASSUME TypeOK, Numbered, [Next]_vars
  PROVE  TypeOK'
<1> USE LoggingAssumption
<1>0. /\ Size \in Nat /\ Size > 0
      /\ \A n \in Nat : Slot(n) \in Slots
      /\ Slots = 0 .. (Size - 1)
  BY SlotOf DEF Slots
<1>a. \A p \in Writers : p \in Procs
  BY DEF Procs
<1>b. \A p \in Readers : p \in Procs
  BY DEF Procs
<1>1. CASE UNCHANGED vars
  BY <1>1 DEF vars, TypeOK
<1>2. ASSUME NEW p \in Writers, Draw(p) PROVE TypeOK'
  <2>0. pos \in 0 .. MaxMsgs /\ pos < MaxMsgs /\ pos' = pos + 1
    BY <1>2 DEF Draw, Drawn, TypeOK
  <2>1. pos' \in 0 .. MaxMsgs /\ pos \in Nat
    BY <2>0
  <2>4. num' \in [Procs -> Nat]
    BY <1>2, <2>1 DEF Draw, TypeOK
  <2>2. \A q \in Procs : pc'[q] = "scan" => pc[q] = "scan" /\ num'[q] = num[q]
    BY <1>2, <1>a DEF Draw, Goto, TypeOK
  <2>3. pc' \in [Procs -> {"idle", "head", "mesg", "load", "store", "pos", "scan"}]
    BY <1>2, <1>a DEF Draw, Goto, TypeOK
  <2> QED
    BY <1>2, <2>1, <2>2, <2>3, <2>4 DEF Draw, TypeOK
<1>3. ASSUME NEW p \in Writers, WriteHead(p) \/ WriteMesg(p) PROVE TypeOK'
  <2>1. num[p] \in 0 .. (MaxMsgs - 1) /\ Slot(num[p]) \in Slots
    BY <1>0, <1>3, <1>a DEF WriteHead, WriteMesg, Goto, Numbered, Writing, TypeOK
  <2>2. ctxes' \in [Slots -> [head : -1..(MaxMsgs - 1), mesg : -1..(MaxMsgs - 1)]]
    <3> DEFINE N == -1 .. (MaxMsgs - 1)
               s == Slot(num[p])
               n == num[p]
    <3>1. n \in N /\ s \in Slots
      BY <2>1
    <3>2. \/ ctxes' = [ctxes EXCEPT ![s].head = n]
          \/ ctxes' = [ctxes EXCEPT ![s].mesg = n]
      BY <1>3 DEF WriteHead, WriteMesg
    <3>3. ctxes \in [Slots -> [head : N, mesg : N]]
      BY DEF TypeOK
    <3> HIDE LoggingAssumption DEF N, s, n
    <3>4. ctxes' \in [Slots -> [head : N, mesg : N]]
      BY <3>1, <3>2, <3>3
    <3> QED
      BY <3>4 DEF N
  <2>3. /\ pc' \in [Procs -> {"idle", "head", "mesg", "load", "store", "pos", "scan"}]
        /\ \A q \in Procs : pc'[q] = "scan" => pc[q] = "scan"
    BY <1>3, <1>a DEF WriteHead, WriteMesg, Goto, TypeOK
  <2>4. UNCHANGED <<pos, mask, num, seen, first, out, printed, done, authors, printers, reads>>
    BY <1>3 DEF WriteHead, WriteMesg
  <2> QED
    BY <2>2, <2>3, <2>4 DEF TypeOK
<1>4. ASSUME NEW p \in Writers, LoadMask(p) PROVE TypeOK'
  BY <1>4, <1>a DEF LoadMask, Goto, TypeOK
<1>5. ASSUME NEW p \in Writers, StoreMask(p) PROVE TypeOK'
  <2>0. num[p] \in 0 .. (pos - 1) /\ pos \in 0 .. MaxMsgs
    BY <1>5, <1>a DEF StoreMask, Goto, Numbered, Writing, TypeOK
  <2>1. num[p] \in 0 .. (MaxMsgs - 1) /\ Slot(num[p]) \in Slots
    BY <1>0, <2>0
  <2>2. mask' \subseteq Slots /\ done' \subseteq 0 .. (MaxMsgs - 1)
    BY <2>1, <1>5, <1>a DEF StoreMask, WithOwnBit, TypeOK
  <2>3. /\ pc' \in [Procs -> {"idle", "head", "mesg", "load", "store", "pos", "scan"}]
        /\ \A q \in Procs : pc'[q] = "scan" => pc[q] = "scan"
    BY <1>5, <1>a DEF StoreMask, Goto, TypeOK
  <2> QED
    BY <1>5, <2>2, <2>3 DEF StoreMask, TypeOK
<1>6. ASSUME NEW p \in Readers, SnapshotMask(p) PROVE TypeOK'
  <2>1. /\ pc' \in [Procs -> {"idle", "head", "mesg", "load", "store", "pos", "scan"}]
        /\ \A q \in Procs : pc'[q] = "scan" => pc[q] = "scan"
    BY <1>6, <1>b DEF SnapshotMask, Goto, TypeOK
  <2>2. reads' \in 0 .. MaxReads /\ printers' \subseteq Readers
    BY <1>6 DEF SnapshotMask, TypeOK
  <2>3. seen' \in [Procs -> SUBSET Slots]
    BY <1>6 DEF SnapshotMask, TypeOK
  <2> QED
    BY <1>6, <2>1, <2>2, <2>3 DEF SnapshotMask, TypeOK
<1>7. ASSUME NEW p \in Readers, ReadPos(p) PROVE TypeOK'
  <2>0. pos \in Nat
    BY DEF TypeOK
  <2>1. pos % Size \in Slots /\ pos % Size \in Nat
    BY <1>0, <2>0 DEF Slot
  <2>2. /\ num' \in [Procs -> Nat] /\ first' \in [Procs -> Slots]
        /\ num'[p] = first'[p] /\ first'[p] \in Slots
    <3> HIDE LoggingAssumption
    <3> QED
      BY <1>7, <1>b, <2>1 DEF ReadPos, ScanStart, TypeOK
  <2>3. pc' \in [Procs -> {"idle", "head", "mesg", "load", "store", "pos", "scan"}]
    BY <1>7, <1>b DEF ReadPos, Goto, TypeOK
  <2>4. ASSUME NEW q \in Procs, pc'[q] = "scan"
        PROVE  num'[q] - first'[q] \in 0 .. Size
    <3>1. CASE q = p
      <4>1. first'[p] \in Int /\ Size \in Nat
        BY <2>2, LoggingAssumption DEF Slots
      <4> QED
        BY <2>2, <3>1, <4>1
    <3>2. CASE q # p
      BY <1>7, <2>4, <3>2 DEF ReadPos, Goto, TypeOK
    <3> QED
      BY <3>1, <3>2
  <2> QED
    BY <1>7, <2>2, <2>3, <2>4 DEF ReadPos, TypeOK
<1>8. ASSUME NEW p \in Readers, ScanSlot(p) PROVE TypeOK'
  <2>1. num' \in [Procs -> Nat] /\ num'[p] = num[p] + 1
    BY <1>8, <1>b DEF ScanSlot, TypeOK
  <2>2. num'[p] - first'[p] \in 0 .. Size
    <3>1. /\ num[p] \in Nat /\ first[p] \in 0 .. (Size - 1)
          /\ num[p] - first[p] \in 0 .. Size
          /\ num[p] < Size + first[p] /\ first'[p] = first[p]
      <4>1. pc[p] = "scan" /\ num[p] < Size + first[p] /\ first' = first
        BY <1>8 DEF ScanSlot, InScan
      <4>2. num[p] \in Nat /\ first[p] \in Slots /\ num[p] - first[p] \in 0 .. Size
        BY <1>b, <4>1 DEF TypeOK
      <4> QED
        BY <4>1, <4>2 DEF Slots
    <3> DEFINE a == num[p]
               b == first[p]
    <3>2. a \in Nat /\ b \in Int /\ a - b \in 0 .. Size /\ a < Size + b /\ Size \in Nat
      <4>1. Size \in Nat
        BY LoggingAssumption
      <4> QED
        BY <3>1, <4>1
    <3> HIDE DEF a, b
    <3>3. (a + 1) - b \in 0 .. Size
      BY <3>2
    <3> QED
      BY <2>1, <3>1, <3>3 DEF a, b
  <2>3. ASSUME NEW q \in Procs, pc'[q] = "scan"
        PROVE  num'[q] - first'[q] \in 0 .. Size
    <3>1. CASE q = p
      BY <2>2, <3>1
    <3>2. CASE q # p
      BY <1>8, <2>3, <3>2 DEF ScanSlot, TypeOK
    <3> QED
      BY <3>1, <3>2
  <2> QED
    BY <1>8, <2>1, <2>3 DEF ScanSlot, TypeOK
<1>9. ASSUME NEW p \in Readers, ClearMask(p) PROVE TypeOK'
  <2>1. mask' \subseteq Slots
    BY <1>9, <1>b DEF ClearMask, Toggled, TypeOK
  <2>2. /\ pc' \in [Procs -> {"idle", "head", "mesg", "load", "store", "pos", "scan"}]
        /\ \A q \in Procs : pc'[q] = "scan" => pc[q] = "scan"
    BY <1>9, <1>b DEF ClearMask, Goto, TypeOK
  <2> QED
    BY <1>9, <2>1, <2>2 DEF ClearMask, TypeOK
<1> QED
  BY <1>1, <1>2, <1>3, <1>4, <1>5, <1>6, <1>7, <1>8, <1>9 DEF Next, LogData, ProcMsg

\* The atomic add hands every process a number of its own.
LEMMA NumberedStep ==
  ASSUME TypeOK, Numbered, [Next]_vars
  PROVE  Numbered'
<1>a. \A p \in Writers \cup Readers : p \in Procs
  BY DEF Procs
<1>1. CASE UNCHANGED vars
  BY <1>1 DEF vars, Numbered, Writing
<1>2. ASSUME NEW p \in Writers, Draw(p) PROVE Numbered'
  <2>1. /\ pos \in Nat /\ pos' = pos + 1 /\ num'[p] = pos
        /\ \A q \in Writers : q # p => num'[q] = num[q] /\ pc'[q] = pc[q]
    BY <1>2, <1>a, LoggingAssumption DEF Draw, Drawn, Goto, TypeOK
  <2>2. \A q \in Writers : q # p /\ Writing(q)' => num[q] \in 0 .. (pos - 1)
    BY <2>1 DEF Numbered, Writing
  <2>3. \A q \in Writers : q # p /\ Writing(q)' => Writing(q)
    BY <2>1 DEF Writing
  <2> QED
    BY <2>1, <2>2, <2>3 DEF Numbered
<1>3. ASSUME NEW p \in Writers \cup Readers,
             \/ p \in Writers /\ (\/ WriteHead(p) \/ WriteMesg(p)
                                  \/ LoadMask(p) \/ StoreMask(p))
             \/ p \in Readers /\ (SnapshotMask(p) \/ ClearMask(p))
      PROVE Numbered'
  <2>1. UNCHANGED <<pos, num>>
    BY <1>3 DEF WriteHead, WriteMesg, LoadMask, StoreMask, SnapshotMask, ClearMask
  <2>2. \A q \in Writers : Writing(q)' => Writing(q)
    BY <1>3, <1>a DEF WriteHead, WriteMesg, LoadMask, StoreMask, SnapshotMask, ClearMask,
                      Goto, Writing, TypeOK
  <2> QED
    BY <2>1, <2>2 DEF Numbered
<1>4. ASSUME NEW p \in Readers, ReadPos(p) \/ ScanSlot(p) PROVE Numbered'
  <2>1. pos' = pos /\ ~Writing(p)'
    BY <1>4, <1>a DEF ReadPos, ScanSlot, Goto, Writing, TypeOK
  <2>2. \A q \in Writers : q # p => num'[q] = num[q] /\ pc'[q] = pc[q]
    BY <1>4, <1>a DEF ReadPos, ScanSlot, Goto, TypeOK
  <2>3. \A q \in Writers : Writing(q)' => q # p /\ Writing(q) /\ num'[q] = num[q]
    BY <2>1, <2>2 DEF Writing
  <2> QED
    BY <2>1, <2>3 DEF Numbered
<1> QED
  BY <1>1, <1>2, <1>3, <1>4 DEF Next, LogData, ProcMsg

\* Below LOGGING_SIZE a writer works on the slot of its own number.
LEMMA OwnSlot ==
  ASSUME TypeOK, Numbered, pos <= Size, NEW p \in Writers, Writing(p)
  PROVE  num[p] \in 0 .. (pos - 1) /\ num[p] \in Slots /\ Slot(num[p]) = num[p]
<1>1. num[p] \in 0 .. (pos - 1) /\ pos \in Nat /\ Size \in Nat
  BY LoggingAssumption DEF Numbered, TypeOK
<1>2. num[p] \in Nat /\ num[p] < Size /\ num[p] \in Slots
  BY <1>1 DEF Slots
<1> QED
  BY <1>1, <1>2, SlotOf

\* While the ring is not overrun a step fills only empty slots, and sets only
\* bits of whole ones.
LEMMA WrittenStep ==
  ASSUME TypeOK, Numbered, Written, pos' <= Size, pos <= Size, [Next]_vars
  PROVE  Written'
<1>a. \A p \in Writers \cup Readers : p \in Procs
  BY DEF Procs
<1>b. mask \subseteq Slots /\ seen \in [Procs -> SUBSET Slots]
  BY DEF TypeOK
<1>1. CASE UNCHANGED vars
  BY <1>1 DEF vars, Written, Whole
<1>2. ASSUME NEW p \in Writers, Draw(p) PROVE Written'
  <2>1. /\ pos' = pos + 1 /\ num'[p] = pos /\ pc'[p] = "head" /\ pos \in Slots
        /\ UNCHANGED <<ctxes, mask, seen>>
        /\ \A q \in Procs : q # p => num'[q] = num[q] /\ pc'[q] = pc[q]
    <3>1. pos' = pos + 1 /\ pos \in Nat /\ Size \in Nat
      BY <1>2, LoggingAssumption DEF Draw, Drawn, TypeOK
    <3>2. pos \in Slots
      BY <3>1 DEF Slots
    <3> QED
      BY <1>2, <1>a, <3>1, <3>2 DEF Draw, Goto, TypeOK
  <2>2. \A s \in Slots : s >= pos' => s >= pos
    BY <2>1 DEF Slots, TypeOK
  <2>3. ctxes[pos].mesg = Nothing
    BY <2>1 DEF Written, Slots
  <2> QED
    BY <2>1, <2>2, <2>3, <1>a DEF Written, Whole
<1>3. ASSUME NEW p \in Writers, WriteHead(p) PROVE Written'
  <2>1. Writing(p) /\ pc[p] = "head"
    BY <1>3 DEF WriteHead, Goto, Writing
  <2>2. num[p] \in 0 .. (pos - 1) /\ num[p] \in Slots /\ Slot(num[p]) = num[p]
    BY <2>1, OwnSlot
  <2>3. /\ \A s \in Slots : s # num[p] => ctxes'[s] = ctxes[s]
        /\ ctxes'[num[p]].head = num[p]
        /\ ctxes'[num[p]].mesg = ctxes[num[p]].mesg
        /\ UNCHANGED <<pos, mask, num, seen>> /\ pc'[p] = "mesg"
        /\ \A q \in Procs : q # p => pc'[q] = pc[q]
    BY <1>3, <1>a, <2>2 DEF WriteHead, Goto, TypeOK
  <2>4. ctxes[num[p]].mesg = Nothing
    BY <2>1 DEF Written
  <2>5. \A q \in Writers : q # p /\ Writing(q) => num[q] # num[p] /\ num[q] \in Slots
    BY <2>1, OwnSlot DEF Numbered
  <2>6. \A s \in Slots : Whole(s) => Whole(s)'
    BY <2>3, <2>4 DEF Whole
  <2>7. \A s \in Slots : s >= pos' => ctxes'[s].mesg = Nothing
    BY <2>3, <2>4 DEF Written
  <2>8. ASSUME NEW q \in Writers
        PROVE  /\ pc'[q] \in {"head", "mesg"} => ctxes'[num'[q]].mesg = Nothing
               /\ pc'[q] = "mesg" => ctxes'[num'[q]].head = num'[q]
               /\ pc'[q] \in {"load", "store"} => Whole(num[q])'
    <3>1. CASE q = p
      BY <2>3, <2>4, <3>1
    <3>2. CASE q # p
      BY <2>3, <2>5, <2>6, <3>2, <1>a DEF Written, Writing
    <3> QED
      BY <3>1, <3>2
  <2>9. /\ \A s \in mask' : Whole(s)'
        /\ \A q \in Procs : pc'[q] \in {"store", "pos", "scan"} =>
                              \A s \in seen'[q] : Whole(s)'
    BY <2>3, <2>6, <1>b DEF Written
  <2> QED
    BY <2>7, <2>8, <2>9 DEF Written
<1>4. ASSUME NEW p \in Writers, WriteMesg(p) PROVE Written'
  <2>1. Writing(p) /\ pc[p] = "mesg"
    BY <1>4 DEF WriteMesg, Goto, Writing
  <2>2. num[p] \in 0 .. (pos - 1) /\ num[p] \in Slots /\ Slot(num[p]) = num[p]
    BY <2>1, OwnSlot
  <2>3. /\ \A s \in Slots : s # num[p] => ctxes'[s] = ctxes[s]
        /\ ctxes'[num[p]].head = ctxes[num[p]].head
        /\ ctxes'[num[p]].mesg = num[p]
        /\ UNCHANGED <<pos, mask, num, seen>> /\ pc'[p] = "load"
        /\ \A q \in Procs : q # p => pc'[q] = pc[q]
    BY <1>4, <1>a, <2>2 DEF WriteMesg, Goto, TypeOK
  <2>4. ctxes[num[p]].mesg = Nothing /\ ctxes[num[p]].head = num[p]
    BY <2>1 DEF Written
  <2>5. \A q \in Writers : q # p /\ Writing(q) => num[q] # num[p] /\ num[q] \in Slots
    BY <2>1, OwnSlot DEF Numbered
  <2>6. \A s \in Slots : Whole(s) => Whole(s)'
    BY <2>3, <2>4 DEF Whole
  <2>0. Whole(num[p])'
    BY <2>2, <2>3, <2>4 DEF Whole, Nothing
  <2>7. \A s \in Slots : s >= pos' => ctxes'[s].mesg = Nothing
    <3>1. \A s \in Slots : s >= pos => s # num[p]
      BY <2>2 DEF TypeOK, Slots
    <3> QED
      BY <2>3, <3>1 DEF Written
  <2>8. ASSUME NEW q \in Writers
        PROVE  /\ pc'[q] \in {"head", "mesg"} => ctxes'[num'[q]].mesg = Nothing
               /\ pc'[q] = "mesg" => ctxes'[num'[q]].head = num'[q]
               /\ pc'[q] \in {"load", "store"} => Whole(num[q])'
    <3>1. CASE q = p
      BY <2>0, <2>3, <3>1
    <3>2. CASE q # p
      BY <2>3, <2>5, <2>6, <3>2, <1>a DEF Written, Writing
    <3> QED
      BY <3>1, <3>2
  <2>9. /\ \A s \in mask' : Whole(s)'
        /\ \A q \in Procs : pc'[q] \in {"store", "pos", "scan"} =>
                              \A s \in seen'[q] : Whole(s)'
    BY <2>3, <2>6, <1>b DEF Written
  <2> QED
    BY <2>7, <2>8, <2>9 DEF Written
<1>5. ASSUME NEW p \in Writers \cup Readers,
             \/ p \in Writers /\ LoadMask(p)
             \/ p \in Readers /\ SnapshotMask(p)
      PROVE Written'
  <2>1. /\ UNCHANGED <<pos, mask, ctxes, num>>
        /\ seen'[p] = mask
        /\ \/ pc[p] = "load" /\ pc'[p] = "store" /\ p \in Writers
           \/ pc'[p] = "pos"
        /\ \A q \in Procs : q # p => pc'[q] = pc[q] /\ seen'[q] = seen[q]
    BY <1>5, <1>a DEF LoadMask, SnapshotMask, Goto, TypeOK
  <2> QED
    BY <2>1, <1>a DEF Written, Whole
<1>6. ASSUME NEW p \in Writers, StoreMask(p) PROVE Written'
  <2>1. /\ UNCHANGED <<pos, ctxes, num, seen>>
        /\ mask' = seen[p] \cup {Slot(num[p])}
        /\ pc[p] = "store" /\ pc'[p] = "idle"
        /\ \A q \in Procs : q # p => pc'[q] = pc[q]
    BY <1>6, <1>a DEF StoreMask, WithOwnBit, Goto, TypeOK
  <2>2. Slot(num[p]) = num[p]
    BY <2>1, OwnSlot DEF Writing
  <2> QED
    BY <2>1, <2>2, <1>a DEF Written, Whole
<1>7. ASSUME NEW p \in Readers, ReadPos(p) \/ ScanSlot(p) \/ ClearMask(p) PROVE Written'
  <2>1. /\ UNCHANGED <<pos, ctxes, seen>>
        /\ pc[p] \in {"pos", "scan"} /\ pc'[p] \in {"scan", "idle"}
        /\ \A q \in Procs : q # p => pc'[q] = pc[q] /\ num'[q] = num[q]
        /\ mask' \subseteq mask \cup seen[p]
    BY <1>7, <1>a DEF ReadPos, ScanSlot, ClearMask, Toggled, Goto, TypeOK
  <2> QED
    BY <2>1, <1>a DEF Written, Whole
<1> QED
  BY <1>1, <1>2, <1>3, <1>4, <1>5, <1>6, <1>7 DEF Next, LogData, ProcMsg

\* proc_msg prints slots of the mask it took, and they are whole.
LEMMA PrintedStep ==
  ASSUME TypeOK, Written, PrintedWhole, [Next]_vars
  PROVE  PrintedWhole'
<1> DEFINE Ctx == [head : Int, mesg : Int]
           Fine(o) == /\ o \in Seq(Ctx)
                      /\ \A k \in 1 .. Len(o) :
                           o[k].head = o[k].mesg /\ o[k].mesg # Nothing
<1>a. \A p \in Readers : p \in Procs
  BY DEF Procs
<1>b. \A p \in Readers : Fine(out[p])
  BY DEF PrintedWhole
<1> SUFFICES \A p \in Readers : Fine(out'[p])
  BY DEF PrintedWhole
<1>1. CASE out' = out
  BY <1>1, <1>b
<1>2. ASSUME NEW p \in Readers, SnapshotMask(p) PROVE \A q \in Readers : Fine(out'[q])
  <2>1. \A q \in Readers : out'[q] = out[q] \/ out'[q] = << >>
    BY <1>2 DEF SnapshotMask, PrintedWhole
  <2>2. Fine(<< >>)
    OBVIOUS
  <2> HIDE DEF Fine
  <2> QED
    BY <1>b, <2>1, <2>2
<1>3. ASSUME NEW p \in Readers, ScanSlot(p), Slot(num[p]) \in seen[p]
      PROVE \A q \in Readers : Fine(out'[q])
  <2> DEFINE c == ctxes[Slot(num[p])]
  <2>1. Whole(Slot(num[p])) /\ Slot(num[p]) \in Slots
    BY <1>3, <1>a DEF ScanSlot, Written, TypeOK
  <2>2. c \in Ctx
    BY <2>1, LoggingAssumption DEF TypeOK
  <2>3. c.head = c.mesg /\ c.mesg # Nothing
    BY <2>1 DEF Whole
  <2> HIDE DEF c
  <2>4. out' = [out EXCEPT ![p] = Append(@, c)]
    BY <1>3 DEF ScanSlot, Emit, c
  <2>5. \A q \in Readers : out'[q] = out[q] \/ (q = p /\ out'[q] = Append(out[p], c))
    BY <2>4
  <2>6. Fine(Append(out[p], c))
    BY <1>b, <2>2, <2>3
  <2> HIDE DEF Fine
  <2> QED
    BY <1>b, <2>5, <2>6
<1>4. [\E p \in Readers : SnapshotMask(p) \/ (ScanSlot(p) /\ Slot(num[p]) \in seen[p])]_out
  BY DEF Next, LogData, ProcMsg, Draw, WriteHead, WriteMesg, LoadMask, StoreMask,
         ReadPos, ScanSlot, ClearMask, vars
<1> QED
  BY <1>1, <1>2, <1>3, <1>4

\* The invariant is inductive.
LEMMA StepInv == Inv /\ [Next]_vars => Inv'
<1> SUFFICES ASSUME Inv, [Next]_vars PROVE Inv'
  OBVIOUS
<1>1. TypeOK' /\ Numbered'
  BY TypeStep, NumberedStep DEF Inv
<1>2. pos' <= Size => pos <= Size
  <2>1. pos' = pos \/ pos' = pos + 1
    BY DEF Next, LogData, ProcMsg, Draw, Drawn, WriteHead, WriteMesg, LoadMask, StoreMask,
           SnapshotMask, ReadPos, ScanSlot, ClearMask, vars
  <2> QED
    BY <2>1, LoggingAssumption DEF Inv, TypeOK
<1>3. pos' <= Size => Written' /\ PrintedWhole'
  BY <1>2, WrittenStep, PrintedStep DEF Inv
<1> QED
  BY <1>1, <1>3 DEF Inv

\* The inductive invariant of log_data and proc_msg, for any number of processes.
THEOREM Invariance == Spec => []Inv
<1>1. Init => Inv
  BY InitInv
<1>2. Inv /\ [Next]_vars => Inv'
  BY StepInv
<1> QED
  BY <1>1, <1>2, PTL DEF Spec

\* Types of the shared ring and of the local variables of log_data and proc_msg.
THEOREM TypeCorrect == Spec => []TypeOK
<1>1. Inv => TypeOK
  BY DEF Inv
<1> QED
  BY Invariance, <1>1, PTL

\* While no more messages are logged than the ring holds, the writers' slots
\* differ and proc_msg prints whole messages only.
THEOREM NothingTorn == Spec => []WholeMessages
<1>1. Inv => WholeMessages
  <2> SUFFICES ASSUME Inv, pos <= Size
               PROVE  /\ \A p, q \in Writers :
                           p # q /\ Writing(p) /\ Writing(q) => Slot(num[p]) # Slot(num[q])
                      /\ \A p \in Readers : \A k \in 1..Len(out[p]) :
                           out[p][k].head = out[p][k].mesg /\ out[p][k].mesg # Nothing
    BY DEF WholeMessages
  <2>1. ASSUME NEW p \in Writers, NEW q \in Writers, p # q, Writing(p), Writing(q)
        PROVE  Slot(num[p]) # Slot(num[q])
    BY <2>1, OwnSlot DEF Inv, Numbered
  <2> QED
    BY <2>1 DEF Inv, PrintedWhole
<1> QED
  BY Invariance, <1>1, PTL

-------------------------------------------------------------------------------
(* Nothing is lost *)

\* Two different members make a set too large for one.
LEMMA AtMostOne ==
  ASSUME NEW S, IsFiniteSet(S), Cardinality(S) <= 1
  PROVE  OnlyOne(S)
<1> SUFFICES ASSUME NEW a \in S, NEW b \in S, a # b PROVE FALSE
  BY DEF OnlyOne
<1>1. IsFiniteSet({b}) /\ Cardinality({b}) = 1
  BY FS_Singleton
<1>2. IsFiniteSet({b} \cup {a}) /\ Cardinality({b} \cup {a}) = 2
  <2>1. a \notin {b}
    OBVIOUS
  <2>2. IsFiniteSet({b} \cup {a}) /\ Cardinality({b} \cup {a}) = Cardinality({b}) + 1
    BY <1>1, <2>1, FS_AddElement
  <2> QED
    BY <1>1, <2>2
<1>3. Cardinality({b} \cup {a}) <= Cardinality(S)
  BY <1>2, FS_Subset
<1>4. Cardinality(S) \in Nat
  BY FS_CardinalityType
<1>5. 2 <= Cardinality(S)
  BY <1>2, <1>3
<1> QED
  BY <1>4, <1>5

\* A scan that is over has passed every slot.
LEMMA ScanCovers ==
  ASSUME TypeOK, NEW p \in Readers, pc[p] = "scan", ~InScan(p), NEW s \in Slots
  PROVE  \E k \in first[p] .. (num[p] - 1) : Slot(k) = s
<1>1. /\ p \in Procs /\ num[p] \in Nat /\ first[p] \in Slots
      /\ num[p] - first[p] \in 0 .. Size /\ ~(num[p] < Size + first[p])
  BY DEF TypeOK, Procs, InScan
<1>2. Size \in Nat /\ Size > 0 /\ Slots = 0 .. (Size - 1)
  BY LoggingAssumption DEF Slots
<1>3. num[p] = Size + first[p] /\ first[p] \in 0 .. (Size - 1)
  <2> DEFINE a == num[p]
             b == first[p]
  <2>1. a \in Nat /\ b \in 0 .. (Size - 1) /\ a - b \in 0 .. Size /\ ~(a < Size + b)
    BY <1>1, <1>2
  <2> HIDE DEF a, b
  <2>2. a = Size + b
    BY <1>2, <2>1
  <2> QED
    BY <2>1, <2>2 DEF a, b
<1>4. s \in Nat /\ s < Size /\ Slot(s) = s
  BY <1>2, SlotOf
<1>5. CASE first[p] <= s
  BY <1>2, <1>3, <1>4, <1>5
<1>6. CASE s < first[p]
  <2>1. Slot(Size * 1 + s) = s
    BY <1>2, <1>4, RoundTheRing
  <2>2. Size * 1 + s \in first[p] .. (num[p] - 1)
    BY <1>2, <1>3, <1>4, <1>6
  <2> QED
    BY <2>1, <2>2
<1> QED
  BY <1>2, <1>3, <1>4, <1>5, <1>6

\* Authors and printers only become more, and only they leave "idle".
LEMMA ActorsStep ==
  ASSUME Inv, Actors, [Next]_vars
  PROVE  Actors' /\ authors \subseteq authors' /\ printers \subseteq printers'
<1> USE DEF Actors
<1>a. /\ \A p \in Writers \cup Readers : p \in Procs
      /\ TypeOK /\ Numbered /\ pos \in Nat
  BY DEF Procs, Inv, TypeOK
<1> DEFINE Facts == Actors' /\ authors \subseteq authors' /\ printers \subseteq printers'
<1>1. CASE UNCHANGED vars
  BY <1>1 DEF vars, Writing
<1>2. ASSUME NEW p \in Writers, Draw(p) PROVE Facts
  <2>1. /\ authors' = authors \cup {p} /\ IsFiniteSet(authors')
        /\ pos' = pos + 1 /\ pc'[p] = "head"
        /\ \A q \in Procs : q # p => pc'[q] = pc[q]
        /\ UNCHANGED <<printers, out, done, printed>>
    BY <1>2, <1>a, FS_AddElement DEF Draw, Drawn, Goto, TypeOK
  <2> QED
    BY <2>1, <1>a DEF Writing
<1>3. ASSUME NEW p \in Writers, WriteHead(p) \/ WriteMesg(p) \/ LoadMask(p) PROVE Facts
  <2>1. /\ UNCHANGED <<authors, printers, out, done, printed, pos>>
        /\ Writing(p) /\ pc'[p] \in {"mesg", "load", "store"}
        /\ \A q \in Procs : q # p => pc'[q] = pc[q]
    BY <1>3, <1>a DEF WriteHead, WriteMesg, LoadMask, Goto, TypeOK, Writing
  <2> QED
    BY <2>1, <1>a DEF Writing
<1>4. ASSUME NEW p \in Writers, StoreMask(p) PROVE Facts
  <2>1. /\ UNCHANGED <<authors, printers, out, printed, pos>>
        /\ done' = done \cup {num[p]}
        /\ Writing(p) /\ pc'[p] = "idle"
        /\ \A q \in Procs : q # p => pc'[q] = pc[q]
    BY <1>4, <1>a DEF StoreMask, Goto, TypeOK, Writing
  <2>2. num[p] \in 0 .. (pos - 1)
    BY <2>1, <1>a DEF Numbered
  <2> QED
    BY <2>1, <2>2, <1>a DEF Writing
<1>5. ASSUME NEW p \in Readers, SnapshotMask(p) PROVE Facts
  <2>1. /\ printers' = printers \cup {p}
        /\ pc'[p] = "pos"
        /\ \A q \in Procs : q # p => pc'[q] = pc[q]
        /\ \A q \in Readers : q # p => out'[q] = out[q]
        /\ out' \in [Readers -> Seq([head : Int, mesg : Int])]
        /\ UNCHANGED <<authors, done, printed, pos>>
    BY <1>5, <1>a DEF SnapshotMask, Goto, TypeOK
  <2>2. IsFiniteSet(printers')
    BY <2>1, FS_AddElement
  <2> QED
    BY <2>1, <2>2, <1>a DEF Writing
<1>6. ASSUME NEW p \in Readers, ReadPos(p) \/ ScanSlot(p) \/ ClearMask(p) PROVE Facts
  <2>1. /\ UNCHANGED <<authors, printers, done, pos>>
        /\ pc[p] \in {"pos", "scan"} /\ pc'[p] \in {"scan", "idle"}
        /\ \A q \in Procs : q # p => pc'[q] = pc[q]
    BY <1>6, <1>a DEF ReadPos, ScanSlot, ClearMask, Goto, TypeOK
  <2> DEFINE Fine == /\ printed' \in [0 .. (MaxMsgs - 1) -> Nat]
                     /\ out' \in [Readers -> Seq([head : Int, mesg : Int])]
                     /\ \A q \in Readers : q # p => out'[q] = out[q]
  <2>2. Fine
    <3>1. CASE UNCHANGED <<out, printed>>
      BY <3>1
    <3>2. ASSUME NEW c \in [head : Int, mesg : Int], Emit(p, c) PROVE Fine
      BY <3>2 DEF Emit
    <3>3. \A n \in Nat : ctxes[Slot(n)] \in [head : Int, mesg : Int]
      BY <1>a, SlotOf, LoggingAssumption DEF TypeOK
    <3>4. num[p] \in Nat
      BY <1>a DEF TypeOK
    <3> QED
      BY <1>6, <3>1, <3>2, <3>3, <3>4 DEF ReadPos, ScanSlot, ClearMask
  <2> QED
    BY <2>1, <2>2, <1>a DEF Writing
<1> QED
  BY <1>1, <1>2, <1>3, <1>4, <1>5, <1>6 DEF Next, LogData, ProcMsg

\* Below LOGGING_SIZE only the author of a message writes its slot.
LEMMA OwnMessageStep ==
  ASSUME Inv, OwnMessage, pos <= Size, [Next]_vars
  PROVE  OwnMessage'
<1>1. ASSUME NEW p \in Writers, WriteHead(p) \/ WriteMesg(p) PROVE OwnMessage'
  <2>1. Writing(p) /\ TypeOK /\ Numbered
    BY <1>1 DEF WriteHead, WriteMesg, Goto, Writing, Inv
  <2>2. num[p] \in Slots /\ Slot(num[p]) = num[p]
    BY <2>1, OwnSlot
  <2>3. \A s \in Slots : \/ ctxes'[s].mesg = ctxes[s].mesg
                         \/ s = num[p] /\ ctxes'[s].mesg = num[p]
    BY <1>1, <2>1, <2>2 DEF WriteHead, WriteMesg, TypeOK
  <2> QED
    BY <2>3 DEF OwnMessage
<1>2. CASE UNCHANGED ctxes
  BY <1>2 DEF OwnMessage
<1>3. (\E p \in Writers : WriteHead(p) \/ WriteMesg(p)) \/ UNCHANGED ctxes
  BY DEF Next, LogData, ProcMsg, Draw, LoadMask, StoreMask, SnapshotMask, ReadPos,
         ScanSlot, ClearMask, vars
<1> QED
  BY <1>1, <1>2, <1>3

\* A count of prints never goes down, and goes up where a slot is printed.
LEMMA PrintedGrows ==
  ASSUME Inv, Actors, [Next]_vars
  PROVE  /\ \A n \in 0 .. (MaxMsgs - 1) : printed[n] > 0 => printed'[n] > 0
         /\ \A p \in Readers : ScanSlot(p) /\ Slot(num[p]) \in seen[p] =>
              \A n \in 0 .. (MaxMsgs - 1) :
                ctxes[Slot(num[p])].mesg = n => printed'[n] > 0
<1>1. printed \in [0 .. (MaxMsgs - 1) -> Nat]
  BY DEF Actors
<1>2. ASSUME NEW p \in Readers, NEW c, Emit(p, c)
      PROVE  \A n \in 0 .. (MaxMsgs - 1) :
               (printed[n] > 0 \/ c.mesg = n) => printed'[n] > 0
  BY <1>1, <1>2 DEF Emit
<1>3. \/ UNCHANGED printed
      \/ \E p \in Readers : Emit(p, ctxes[Slot(num[p])])
  BY DEF Next, LogData, ProcMsg, Draw, WriteHead, WriteMesg, LoadMask, StoreMask,
         SnapshotMask, ReadPos, ScanSlot, ClearMask, vars
<1>4. \A n \in 0 .. (MaxMsgs - 1) : printed[n] > 0 => printed'[n] > 0
  BY <1>1, <1>2, <1>3
<1>5. ASSUME NEW p \in Readers, ScanSlot(p), Slot(num[p]) \in seen[p],
             NEW n \in 0 .. (MaxMsgs - 1), ctxes[Slot(num[p])].mesg = n
      PROVE  printed'[n] > 0
  BY <1>2, <1>5 DEF ScanSlot
<1> QED
  BY <1>4, <1>5

\* In a ring that is not overrun a slot of the mask being scanned holds the
\* message of its number.
LEMMA SeenIsMessage ==
  ASSUME Inv, OwnMessage, pos <= Size, NEW p \in Readers, pc[p] \in {"pos", "scan"},
         NEW s \in seen[p]
  PROVE  s \in 0 .. (MaxMsgs - 1) /\ ctxes[s].mesg = s
<1>1. s \in Slots /\ p \in Procs
  BY DEF Inv, TypeOK, Procs
<1>2. ctxes[s].mesg # Nothing /\ ctxes[s].mesg \in -1 .. (MaxMsgs - 1)
  BY <1>1 DEF Inv, Written, Whole, TypeOK
<1> QED
  BY <1>1, <1>2, LoggingAssumption DEF OwnMessage, Nothing, Slots

\* A scan leaves nothing of its mask unprinted behind it.
LEMMA PassedStep ==
  ASSUME Inv, Actors, OwnMessage, PassedPrinted, pos <= Size, [Next]_vars
  PROVE  PassedPrinted'
<1> USE DEF PassedPrinted
<1>a. \A p \in Writers \cup Readers : p \in Procs
  BY DEF Procs
<1>b. TypeOK
  BY DEF Inv
<1>c. \A p \in Readers : \A k \in Nat :
        pc[p] = "scan" /\ Slot(k) \in seen[p] => Slot(k) \in 0 .. (MaxMsgs - 1)
  BY SeenIsMessage
<1>d. \A p \in Readers : first[p] \in Nat /\ num[p] \in Nat
  BY <1>a, <1>b, LoggingAssumption DEF TypeOK, Slots
<1>1. ASSUME NEW p \in Readers,
             pc[p] = "scan", first'[p] = first[p], seen'[p] = seen[p], num'[p] = num[p]
      PROVE  \A k \in first'[p] .. (num'[p] - 1) :
               Slot(k) \in seen'[p] => printed'[Slot(k)] > 0
  <2> SUFFICES ASSUME NEW k \in first[p] .. (num[p] - 1), Slot(k) \in seen[p]
               PROVE  printed'[Slot(k)] > 0
    BY <1>1
  <2>1. printed[Slot(k)] > 0 /\ k \in Nat
    BY <1>1, <1>d
  <2>2. Slot(k) \in 0 .. (MaxMsgs - 1)
    BY <1>1, <1>c, <2>1
  <2> QED
    BY <2>1, <2>2, PrintedGrows
<1>2. ASSUME NEW p \in Readers, ScanSlot(p)
      PROVE  \A k \in first'[p] .. (num'[p] - 1) :
               Slot(k) \in seen'[p] => printed'[Slot(k)] > 0
  <2>1. /\ num'[p] = num[p] + 1 /\ first'[p] = first[p] /\ seen'[p] = seen[p]
        /\ pc[p] = "scan"
    BY <1>2, <1>a, <1>b DEF ScanSlot, TypeOK
  <2> SUFFICES ASSUME NEW k \in first[p] .. num[p], Slot(k) \in seen[p]
               PROVE  printed'[Slot(k)] > 0
    BY <2>1, <1>d
  <2>2. k \in Nat
    BY <1>d
  <2>3. Slot(k) \in 0 .. (MaxMsgs - 1)
    BY <1>c, <2>1, <2>2
  <2>4. CASE k = num[p]
    <3>1. ctxes[Slot(k)].mesg = Slot(k)
      BY <2>1, SeenIsMessage
    <3> QED
      BY <1>2, <2>3, <2>4, <3>1, PrintedGrows
  <2>5. CASE k # num[p]
    <3>1. k \in first[p] .. (num[p] - 1)
      BY <1>d, <2>5
    <3>2. printed[Slot(k)] > 0
      BY <2>1, <3>1
    <3> QED
      BY <2>3, <3>2, PrintedGrows
  <2> QED
    BY <2>4, <2>5
<1>3. ASSUME NEW p \in Readers, ReadPos(p)
      PROVE  \A k \in first'[p] .. (num'[p] - 1) :
               Slot(k) \in seen'[p] => printed'[Slot(k)] > 0
  <2>1. first'[p] = ScanStart /\ num'[p] = ScanStart
    BY <1>3, <1>a, <1>b DEF ReadPos, TypeOK
  <2>2. ScanStart \in Int
    BY <1>b, LoggingAssumption DEF ScanStart, TypeOK
  <2>3. first'[p] .. (num'[p] - 1) = {}
    BY <2>1, <2>2
  <2> QED
    BY <2>3
<1>4. ASSUME NEW q \in Readers, pc'[q] = "scan"
      PROVE  \/ ScanSlot(q) \/ ReadPos(q)
             \/ pc[q] = "scan" /\ first'[q] = first[q] /\ seen'[q] = seen[q] /\ num'[q] = num[q]
  <2>1. ASSUME NEW p \in Writers, LogData(p)
        PROVE  pc[q] = "scan" /\ first'[q] = first[q] /\ seen'[q] = seen[q] /\ num'[q] = num[q]
    BY <1>4, <1>a, <1>b, <2>1
       DEF LogData, Draw, WriteHead, WriteMesg, LoadMask, StoreMask, Goto, TypeOK
  <2>2. ASSUME NEW p \in Readers, SnapshotMask(p) \/ ClearMask(p)
        PROVE  pc[q] = "scan" /\ first'[q] = first[q] /\ seen'[q] = seen[q] /\ num'[q] = num[q]
    BY <1>4, <1>a, <1>b, <2>2 DEF SnapshotMask, ClearMask, Goto, TypeOK
  <2>3. ASSUME NEW p \in Readers, p # q, ReadPos(p) \/ ScanSlot(p)
        PROVE  pc[q] = "scan" /\ first'[q] = first[q] /\ seen'[q] = seen[q] /\ num'[q] = num[q]
    BY <1>4, <1>a, <1>b, <2>3 DEF ReadPos, ScanSlot, Goto, TypeOK
  <2>4. CASE UNCHANGED vars
    BY <1>4, <2>4 DEF vars
  <2> QED
    BY <2>1, <2>2, <2>3, <2>4 DEF Next, ProcMsg
<1> QED
  <2> SUFFICES ASSUME NEW q \in Readers, pc'[q] = "scan"
               PROVE  \A k \in first'[q] .. (num'[q] - 1) :
                        Slot(k) \in seen'[q] => printed'[Slot(k)] > 0
    OBVIOUS
  <2>1. CASE ScanSlot(q)
    BY <1>2, <2>1
  <2>2. CASE ReadPos(q)
    BY <1>3, <2>2
  <2>3. CASE pc[q] = "scan" /\ first'[q] = first[q] /\ seen'[q] = seen[q] /\ num'[q] = num[q]
    BY <1>1, <2>3
  <2> QED
    BY <1>4, <2>1, <2>2, <2>3

\* A message that is safe stays safe: a scan that ends has printed its mask.
LEMMA SafeStays ==
  ASSUME LostInv, pos <= Size, [Next]_vars, NEW n \in done, Safe(n)
  PROVE  Safe(n)'
<1>a. \A p \in Writers \cup Readers : p \in Procs
  BY DEF Procs
<1>b. Inv /\ Actors /\ TypeOK /\ OwnMessage /\ PassedPrinted
  BY DEF LostInv, Inv
<1>c. n \in 0 .. (MaxMsgs - 1) /\ n \in Nat /\ n < Size /\ Slot(n) = n
  <2>1. n \in 0 .. (MaxMsgs - 1) /\ n \in 0 .. (pos - 1) /\ pos \in Nat
    BY <1>b DEF Actors, TypeOK
  <2> QED
    BY <2>1, SlotOf, LoggingAssumption
<1>1. CASE printed[n] > 0
  BY <1>1, <1>b, <1>c, PrintedGrows DEF Safe
<1>2. ASSUME NEW r \in Readers, pc[r] \in {"pos", "scan"}, Slot(n) \in seen[r]
      PROVE  Safe(n)'
  <2>1. CASE ClearMask(r)
    <3>1. pc[r] = "scan" /\ ~InScan(r) /\ n \in Slots
      BY <2>1, <1>c, SlotOf DEF ClearMask, Goto
    <3>2. PICK k \in first[r] .. (num[r] - 1) : Slot(k) = n
      BY <1>b, <3>1, ScanCovers
    <3>3. printed[n] > 0
      BY <1>2, <1>b, <1>c, <3>1, <3>2 DEF PassedPrinted
    <3> QED
      BY <3>3, <1>b, <1>c, PrintedGrows DEF Safe
  <2>2. CASE pc'[r] \in {"pos", "scan"} /\ seen'[r] = seen[r]
    BY <1>2, <2>2 DEF Safe
  <2>3. ASSUME NEW p \in Writers, LogData(p)
        PROVE  pc'[r] \in {"pos", "scan"} /\ seen'[r] = seen[r]
    BY <1>2, <1>a, <1>b, <2>3
       DEF LogData, Draw, WriteHead, WriteMesg, LoadMask, StoreMask, Goto, TypeOK
  <2>4. ASSUME NEW p \in Readers, SnapshotMask(p) \/ ReadPos(p) \/ ScanSlot(p)
        PROVE  pc'[r] \in {"pos", "scan"} /\ seen'[r] = seen[r]
    BY <1>2, <1>a, <1>b, <2>4 DEF SnapshotMask, ReadPos, ScanSlot, Goto, TypeOK
  <2>5. ASSUME NEW p \in Readers, p # r, ClearMask(p)
        PROVE  pc'[r] \in {"pos", "scan"} /\ seen'[r] = seen[r]
    BY <1>2, <1>a, <1>b, <2>5 DEF ClearMask, Goto, TypeOK
  <2>6. CASE UNCHANGED vars
    BY <1>2, <2>2, <2>6 DEF vars
  <2> QED
    BY <2>1, <2>2, <2>3, <2>4, <2>5, <2>6 DEF Next, ProcMsg
<1> QED
  BY <1>1, <1>2 DEF Safe

\* With one author no load and store of the mask undoes a clear or drops a bit.
LEMMA NoneLostStep ==
  ASSUME LostInv, pos <= Size, OnlyOne(authors), [Next]_vars
  PROVE  NoneLost'
<1>a. \A p \in Writers \cup Readers : p \in Procs
  BY DEF Procs
<1>b. Inv /\ Actors /\ TypeOK /\ NoneLost
  BY DEF LostInv, Inv
<1>c. \A n \in done : Safe(n) => Safe(n)'
  BY SafeStays
<1>d. \A n \in done : Safe(n) \/ Slot(n) \in mask
  BY <1>b DEF NoneLost
<1>1. ASSUME NEW p \in Writers, StoreMask(p) PROVE NoneLost'
  <2>1. /\ mask' = seen[p] \cup {Slot(num[p])} /\ done' = done \cup {num[p]}
        /\ pc[p] = "store" /\ pc'[p] = "idle" /\ Writing(p)
        /\ \A q \in Procs : q # p => pc'[q] = pc[q]
    BY <1>1, <1>a, <1>b DEF StoreMask, WithOwnBit, Goto, Writing, TypeOK
  <2>2. \A n \in done' : Safe(n)' \/ Slot(n) \in mask'
    BY <1>b, <1>c, <2>1 DEF NoneLost
  <2>3. \A a \in Writers : pc'[a] # "store"
    BY <1>a, <1>b, <2>1 DEF Actors, OnlyOne, Writing
  <2> QED
    BY <2>2, <2>3 DEF NoneLost, Slot
<1>2. ASSUME NEW p \in Readers, ClearMask(p) PROVE NoneLost'
  <2>1. /\ mask' = (mask \ seen[p]) \cup (seen[p] \ mask)
        /\ pc[p] = "scan" /\ pc'[p] = "idle" /\ UNCHANGED <<done, seen>>
        /\ \A q \in Procs : q # p => pc'[q] = pc[q]
    BY <1>2, <1>a, <1>b DEF ClearMask, Toggled, Goto, TypeOK
  <2>2. \A n \in done : Slot(n) \in mask \ seen[p] => Slot(n) \in mask'
    BY <2>1
  <2>3. \A n \in done : Slot(n) \in seen[p] => Safe(n)
    BY <2>1 DEF Safe
  <2>4. \A n \in done : Safe(n)' \/ Slot(n) \in mask'
    BY <1>c, <1>d, <2>2, <2>3
  <2> QED
    BY <1>a, <1>b, <1>c, <2>1, <2>4 DEF NoneLost, Slot
<1>3. ASSUME NEW p \in Writers, LoadMask(p) PROVE NoneLost'
  <2>1. /\ UNCHANGED <<mask, done>> /\ seen'[p] = mask
        /\ \A q \in Procs : q # p => pc'[q] = pc[q] /\ seen'[q] = seen[q]
    BY <1>3, <1>a, <1>b DEF LoadMask, Goto, TypeOK
  <2> QED
    BY <1>a, <1>b, <1>c, <2>1 DEF NoneLost, Slot
<1>4. ASSUME UNCHANGED <<mask, done>>,
             \A a \in Writers : pc'[a] = "store" => pc[a] = "store" /\ seen'[a] = seen[a]
      PROVE  NoneLost'
  BY <1>4, <1>b, <1>c DEF NoneLost, Slot
<1>5. ASSUME NEW p \in Writers, Draw(p) \/ WriteHead(p) \/ WriteMesg(p)
      PROVE  NoneLost'
  BY <1>4, <1>5, <1>a, <1>b DEF Draw, WriteHead, WriteMesg, Goto, TypeOK
<1>6. ASSUME NEW p \in Readers, SnapshotMask(p) \/ ReadPos(p) \/ ScanSlot(p)
      PROVE  NoneLost'
  BY <1>4, <1>6, <1>a, <1>b DEF SnapshotMask, ReadPos, ScanSlot, Goto, TypeOK
<1>7. CASE UNCHANGED vars
  BY <1>4, <1>7 DEF vars
<1> QED
  BY <1>1, <1>2, <1>3, <1>5, <1>6, <1>7 DEF Next, LogData, ProcMsg

\* Before any call nothing is done, and nobody has called.
LEMMA InitActors == Init => Actors
<1> SUFFICES ASSUME Init PROVE Actors
  OBVIOUS
<1>1. IsFiniteSet(authors) /\ IsFiniteSet(printers)
  BY FS_EmptySet DEF Init
<1>2. out \in [Readers -> Seq([head : Int, mesg : Int])]
  BY DEF Init
<1> QED
  BY <1>1, <1>2 DEF Init, Actors, Writing

\* The position only moves forward.
LEMMA PosGrows ==
  ASSUME TypeOK, [Next]_vars, pos' <= Size
  PROVE  pos <= Size
<1>1. pos' = pos \/ pos' = pos + 1
  BY DEF Next, LogData, ProcMsg, Draw, Drawn, WriteHead, WriteMesg, LoadMask, StoreMask,
         SnapshotMask, ReadPos, ScanSlot, ClearMask, vars
<1> QED
  BY <1>1, LoggingAssumption DEF TypeOK

\* The inductive invariant behind NeverLost.
LEMMA LostInvariance == Spec => []LostInv
<1>1. Init => LostInv
  <2> SUFFICES ASSUME Init PROVE LostInv
    OBVIOUS
  <2>1. OwnMessage /\ NoneLost /\ PassedPrinted
    BY DEF Init, OwnMessage, NoneLost, PassedPrinted, Procs
  <2> QED
    BY <2>1, InitInv, InitActors DEF LostInv
<1>2. LostInv /\ [Next]_vars => LostInv'
  <2> SUFFICES ASSUME LostInv, [Next]_vars PROVE LostInv'
    OBVIOUS
  <2>1. Inv' /\ Actors' /\ authors \subseteq authors'
    BY StepInv, ActorsStep DEF LostInv
  <2>2. pos' <= Size => pos <= Size
    BY PosGrows DEF LostInv, Inv
  <2>3. OnlyOne(authors') => OnlyOne(authors)
    BY <2>1 DEF OnlyOne
  <2>4. pos' <= Size => OwnMessage' /\ PassedPrinted'
    BY <2>2, OwnMessageStep, PassedStep DEF LostInv
  <2>5. pos' <= Size /\ OnlyOne(authors') => NoneLost'
    BY <2>2, <2>3, NoneLostStep
  <2> QED
    BY <2>1, <2>4, <2>5 DEF LostInv
<1> QED
  BY <1>1, <1>2, PTL DEF Spec

\* With one author, and no more messages than the ring holds, a message whose
\* log_data has returned is printed, or flagged, or in a scan that will reach it.
THEOREM NothingLost == Spec => []NeverLost
<1>1. LostInv => NeverLost
  <2> SUFFICES ASSUME LostInv, pos <= Size, Cardinality(authors) <= 1, NEW n \in done
               PROVE  Safe(n) \/ Slot(n) \in mask
    BY DEF NeverLost, Safe
  <2>1. OnlyOne(authors)
    BY AtMostOne DEF LostInv, Actors
  <2> QED
    BY <2>1 DEF LostInv, NoneLost
<1> QED
  BY LostInvariance, <1>1, PTL

-------------------------------------------------------------------------------
(* One process alone prints in order, and once *)

\* Of a scan that starts at the slot of pos, step j is at the slot of the
\* message Size - j before pos.
LEMMA VisitedSlot ==
  ASSUME NEW n \in Nat, NEW j \in 0 .. (Size - 1), 0 <= n - Size + j
  PROVE  Slot(Slot(n) + j) = Slot(n - Size + j)
<1> DEFINE q == n \div Size
           r == n % Size
<1>1. q \in Int /\ r \in 0 .. (Size - 1) /\ n = Size * q + r
  BY Split
<1> HIDE DEF q, r
<1>2. n - Size + j = Size * (q - 1) + (r + j) /\ q - 1 \in Int
  BY <1>1, LoggingAssumption
<1>3. r + j \in Nat /\ n - Size + j \in Nat
  BY <1>1, LoggingAssumption
<1>4. Slot(n - Size + j) = Slot(r + j)
  BY <1>2, <1>3, RoundTheRing
<1> QED
  BY <1>4 DEF r, Slot

\* While one process does everything, the others are idle.
LEMMA RestIdle ==
  ASSUME TypeOK, TypeOK', Actors, Actors',
         authors \subseteq authors', printers \subseteq printers',
         OnlyOne(authors' \cup printers'),
         NEW p \in Procs, pc[p] # "idle" \/ pc'[p] # "idle",
         NEW q \in Procs, q # p
  PROVE  pc[q] = "idle" /\ pc'[q] = "idle"
<1>1. \A r \in Procs : pc[r] # "idle" \/ pc'[r] # "idle" => r \in authors' \cup printers'
  <2>1. \A r \in Procs : pc[r] # "idle" => r \in authors \cup printers
    BY DEF TypeOK, Actors, Writing
  <2>2. \A r \in Procs : pc'[r] # "idle" => r \in authors' \cup printers'
    BY DEF TypeOK, Actors, Writing
  <2> QED
    BY <2>1, <2>2
<1> QED
  BY <1>1 DEF OnlyOne

\* A step of log_data: the messages in the ring are where they were, and the one
\* that is drawn joins them when its bit is stored.
LEMMA OrderLogStep ==
  ASSUME OrderInv, OnlyOne(authors \cup printers), Actors', NEW p \in Writers, LogData(p),
         \A q \in Procs : q # p => pc[q] = "idle" /\ pc'[q] = "idle"
  PROVE  Latest' /\ Oldest' /\ Recorded' /\ Sorted'
<1>a. /\ \A q \in Writers \cup Readers : q \in Procs
      /\ TypeOK /\ Actors /\ Latest /\ Oldest /\ Recorded /\ Sorted
      /\ pos \in Nat /\ Size \in Nat /\ Size > 0
  BY LoggingAssumption DEF Procs, OrderInv, Inv, TypeOK
<1>1. pc[p] \notin {"pos", "scan"} /\ pc'[p] \notin {"pos", "scan"}
  BY <1>a DEF LogData, Draw, WriteHead, WriteMesg, LoadMask, StoreMask, Goto, TypeOK
<1>2. \A r \in Readers : pc[r] \notin {"pos", "scan"} /\ pc'[r] \notin {"pos", "scan"}
  BY <1>1, <1>a
<1>3. \A n : ~Passed(n) /\ ~Passed(n)'
  BY <1>2 DEF Passed
<1>4. out' = out
  BY DEF LogData, Draw, WriteHead, WriteMesg, LoadMask, StoreMask
<1>5. Oldest' /\ Sorted'
  BY <1>2, <1>4, <1>a DEF Oldest, Sorted
<1>6. /\ Top = IF Writing(p) THEN pos - 1 ELSE pos
      /\ Top' = IF Writing(p)' THEN pos' - 1 ELSE pos'
  BY <1>a DEF Top, Writing
<1>7. CASE Draw(p)
  <2>1. /\ pos' = pos + 1 /\ num'[p] = pos /\ pc'[p] = "head" /\ pc[p] = "idle"
        /\ UNCHANGED <<ctxes, mask, printed>>
    BY <1>7, <1>a DEF Draw, Drawn, Goto, TypeOK
  <2>2. Top = pos /\ Top' = pos
    BY <2>1, <1>6, <1>a DEF Writing
  <2>3. \A n \in Nat : InRing(n)' => InRing(n)
    BY <2>1, <2>2, <1>a DEF InRing
  <2>4. Latest'
    BY <2>1, <1>a DEF Latest, Writing
  <2>5. \A s \in mask' : s < pos'
    BY <2>1, <1>a DEF Recorded, TypeOK, Slots
  <2> QED
    BY <2>1, <2>2, <2>3, <2>4, <2>5, <1>a, <1>3, <1>5 DEF Recorded, Slot
<1>8. CASE WriteHead(p) \/ LoadMask(p)
  <2>1. /\ Writing(p) /\ Writing(p)'
        /\ UNCHANGED <<pos, mask, printed, num>>
        /\ pc[p] = "head" => pc'[p] = "mesg"
        /\ pc[p] = "load" => pc'[p] = "store" /\ seen'[p] = mask
        /\ pc[p] \in {"head", "load"}
    BY <1>8, <1>a DEF WriteHead, LoadMask, Goto, TypeOK, Writing
  <2>2. num[p] \in Nat
    BY <1>a DEF TypeOK
  <2>3. \A n \in Nat : ctxes'[Slot(n)].mesg = ctxes[Slot(n)].mesg
    BY <1>8, <1>a, <2>2, SlotOf DEF WriteHead, LoadMask, TypeOK
  <2>4. Top' = Top
    BY <2>1, <1>6
  <2>5. Latest'
    BY <2>1, <2>2, <2>3, <1>a DEF Latest, Writing
  <2> QED
    BY <2>1, <2>3, <2>4, <2>5, <1>a, <1>3, <1>5 DEF Recorded, InRing, Slot
<1>9. CASE WriteMesg(p)
  <2>1. /\ Writing(p) /\ Writing(p)' /\ pc'[p] = "load"
        /\ UNCHANGED <<pos, mask, printed, num>>
        /\ num[p] = pos - 1 /\ pos - 1 \in Nat
    BY <1>9, <1>a DEF WriteMesg, Goto, TypeOK, Writing, Latest
  <2>2. Top = pos - 1 /\ Top' = pos - 1
    BY <2>1, <1>6
  <2>3. \A n \in Nat : InRing(n) => Slot(n) # Slot(pos - 1)
    BY <2>1, <2>2, <1>a, SlotsApart DEF InRing
  <2>4. /\ ctxes'[Slot(pos - 1)].mesg = pos - 1
        /\ \A n \in Nat : InRing(n) => ctxes'[Slot(n)].mesg = ctxes[Slot(n)].mesg
    BY <1>9, <1>a, <2>1, <2>3, SlotOf DEF WriteMesg, TypeOK
  <2>5. Latest'
    BY <2>1, <2>4, <1>a DEF Latest, Writing, Slot
  <2> QED
    BY <2>1, <2>2, <2>4, <2>5, <1>a, <1>3, <1>5 DEF Recorded, InRing, Slot
<1>10. CASE StoreMask(p)
  <2>1. /\ Writing(p) /\ pc[p] = "store" /\ pc'[p] = "idle" /\ ~Writing(p)'
        /\ UNCHANGED <<pos, ctxes, printed, num>>
        /\ num[p] = pos - 1 /\ pos - 1 \in Nat
        /\ mask' = mask \cup {Slot(pos - 1)}
        /\ ctxes[Slot(pos - 1)].mesg = pos - 1
    BY <1>10, <1>a DEF StoreMask, WithOwnBit, Goto, TypeOK, Writing, Latest
  <2>2. Top = pos - 1 /\ Top' = pos
    BY <2>1, <1>6
  <2>3. \A n \in Nat : InRing(n)' => InRing(n) \/ n = pos - 1
    BY <2>1, <2>2, <1>a DEF InRing
  <2>4. \A n \in Nat : InRing(n) => Slot(n) # Slot(pos - 1)
    BY <2>1, <2>2, <1>a, SlotsApart DEF InRing
  <2>5. Latest'
    BY <2>1, <1>a DEF Latest, Writing
  <2>6. printed[pos - 1] = 0
    <3>1. pos - 1 \in DOMAIN printed
      BY <2>1, <1>a, LoggingAssumption DEF Actors, TypeOK
    <3> QED
      BY <2>1, <2>2, <3>1, <1>a DEF Recorded
  <2>7. \A s \in mask' : s < pos'
    <3>1. Slot(pos - 1) <= pos - 1 /\ Slot(pos - 1) \in Int
      BY <2>1, SlotBelow, SlotOf, LoggingAssumption DEF Slots
    <3> QED
      BY <2>1, <3>1, <1>a DEF Recorded
  <2>8. \A n \in DOMAIN printed' : printed'[n] <= 1 /\ (n >= Top' => printed'[n] = 0)
    BY <2>1, <2>2, <1>a DEF Recorded, Actors
  <2>9. ASSUME NEW n \in Nat, InRing(n)'
        PROVE  /\ ctxes'[Slot(n)].mesg = n
               /\ Slot(n) \in mask' <=> printed'[n] = 0
    <3>1. CASE n = pos - 1
      BY <2>1, <2>6, <3>1
    <3>2. CASE InRing(n)
      BY <2>1, <2>4, <3>2, <1>3, <1>a DEF Recorded
    <3> QED
      BY <2>3, <2>9, <3>1, <3>2
  <2>10. Recorded'
    BY <2>7, <2>8, <2>9, <1>3 DEF Recorded, Slot
  <2> QED
    BY <2>5, <2>10, <1>5
<1> QED
  BY <1>7, <1>8, <1>9, <1>10 DEF LogData

\* What the scan finds at its next slot: the message at the cursor if its bit is
\* set, and no bit where no message has been.
LEMMA AtCursor ==
  ASSUME TypeOK, Oldest, Recorded, Actors, NEW p \in Readers, pc[p] = "scan", InScan(p),
         Top = pos, \A n : Passed(n) <=> n < Cursor(p)
  PROVE  /\ Cursor(p) \in Int /\ Cursor(p) < pos
         /\ Slot(num[p]) \in seen[p] =>
              /\ Cursor(p) \in 0 .. (MaxMsgs - 1)
              /\ ctxes[Slot(num[p])].mesg = Cursor(p)
              /\ printed[Cursor(p)] = 0
         /\ Slot(num[p]) \notin seen[p] =>
              (InRing(Cursor(p)) => printed[Cursor(p)] = 1)
<1> DEFINE j == num[p] - first[p]
           c == Cursor(p)
<1>a. /\ pos \in Nat /\ pos <= MaxMsgs /\ MaxMsgs \in Nat /\ Size \in Nat /\ Size > 0
      /\ p \in Procs /\ seen[p] = mask /\ first[p] = Slot(pos) /\ Slot(pos) \in Slots
      /\ printed \in [0 .. (MaxMsgs - 1) -> Nat]
  <2>1. pos \in Nat /\ pos <= MaxMsgs /\ MaxMsgs \in Nat /\ Size \in Nat /\ Size > 0
    BY LoggingAssumption DEF TypeOK
  <2>2. Slot(pos) \in Slots
    BY <2>1, SlotOf
  <2>3. p \in Procs /\ seen[p] = mask /\ first[p] = Slot(pos)
    BY DEF Procs, Oldest
  <2> QED
    BY <2>1, <2>2, <2>3 DEF Actors
<1>1. j \in 0 .. (Size - 1) /\ num[p] = Slot(pos) + j
  <2> DEFINE a == num[p]
             b == first[p]
  <2>1. a \in Nat /\ b \in 0 .. (Size - 1) /\ a - b \in 0 .. Size /\ a < Size + b
    BY <1>a DEF TypeOK, InScan, Slots
  <2> HIDE DEF a, b
  <2>2. a - b \in 0 .. (Size - 1) /\ a = b + (a - b)
    BY <1>a, <2>1
  <2> QED
    BY <2>2, <1>a DEF a, b
<1>2. c = pos - Size + j /\ c \in Int /\ c < pos /\ pos - Size <= c
  <2>1. c = pos - Size + j
    BY DEF Cursor
  <2> HIDE DEF j, c
  <2> QED
    BY <1>1, <1>a, <2>1
<1> HIDE DEF j, c
<1>3. CASE 0 <= c
  <2>1. Slot(num[p]) = Slot(c) /\ c \in Nat
    BY <1>1, <1>2, <1>3, <1>a, VisitedSlot
  <2>2. InRing(c) /\ c \in 0 .. (MaxMsgs - 1)
    BY <1>2, <1>3, <1>a DEF InRing
  <2>3. ~Passed(c)
    BY <1>2 DEF c
  <2>4. ctxes[Slot(c)].mesg = c /\ (Slot(c) \in mask <=> printed[c] = 0) /\ printed[c] <= 1
    BY <2>1, <2>2, <2>3, <1>a DEF Recorded
  <2>5. printed[c] \in Nat
    BY <2>2, <1>a
  <2>6. printed[c] = 0 \/ printed[c] = 1
    BY <2>4, <2>5
  <2> QED
    BY <2>1, <2>2, <2>4, <2>6, <1>2, <1>a DEF c
<1>4. CASE c < 0
  <2>1. pos < Size /\ Slot(pos) = pos
    BY <1>1, <1>2, <1>4, <1>a, SlotOf
  <2>2. num[p] = pos + j /\ pos + j \in Nat /\ pos + j < Size
    BY <1>1, <1>2, <1>4, <1>a, <2>1
  <2>3. Slot(num[p]) = pos + j
    BY <2>2, SlotOf
  <2>4. Slot(num[p]) \notin mask
    BY <2>2, <2>3, <1>1, <1>a DEF Recorded
  <2>5. ~InRing(c)
    BY <1>2, <1>4, <1>a DEF InRing
  <2> QED
    BY <2>4, <2>5, <1>2, <1>a DEF c
<1> QED
  BY <1>2, <1>3, <1>4

\* The text of each context printed is a number.
LEMMA MesgIsInt ==
  ASSUME NEW o \in Seq([head : Int, mesg : Int]), NEW k \in 1 .. Len(o)
  PROVE  o[k].mesg \in Int
<1> DEFINE Ctx == [head : Int, mesg : Int]
<1>1. o \in Seq(Ctx) /\ \A y \in Ctx : y.mesg \in Int
  OBVIOUS
<1> HIDE DEF Ctx
<1>2. o[k] \in Ctx
  BY <1>1
<1> QED
  BY <1>1, <1>2

\* A step of proc_msg: it takes the mask, starts at the oldest message, and
\* prints the next one whose bit is set.
LEMMA OrderPrintStep ==
  ASSUME OrderInv, OnlyOne(authors \cup printers), Actors', NEW p \in Readers, ProcMsg(p),
         \A q \in Procs : q # p => pc[q] = "idle" /\ pc'[q] = "idle"
  PROVE  Latest' /\ Oldest' /\ Recorded' /\ Sorted'
<1>a. /\ \A q \in Writers \cup Readers : q \in Procs
      /\ TypeOK /\ Actors /\ Latest /\ Oldest /\ Recorded /\ Sorted
      /\ pos \in Nat /\ Size \in Nat /\ Size > 0
  BY LoggingAssumption DEF Procs, OrderInv, Inv, TypeOK
<1>1. ~Writing(p) /\ ~Writing(p)' /\ UNCHANGED <<pos, ctxes>>
  BY <1>a DEF ProcMsg, SnapshotMask, ReadPos, ScanSlot, ClearMask, Goto, TypeOK, Writing
<1>2. \A a \in Writers : ~Writing(a) /\ ~Writing(a)'
  BY <1>1, <1>a DEF Writing
<1>3. Top = pos /\ Top' = pos /\ \A n : InRing(n)' <=> InRing(n)
  BY <1>1, <1>2 DEF Top, InRing
<1>4. Latest'
  BY <1>2 DEF Latest, Writing
<1>5. /\ \A n : Passed(n) <=> pc[p] = "scan" /\ n < Cursor(p)
      /\ \A n : Passed(n)' <=> pc'[p] = "scan" /\ n < Cursor(p)'
  BY <1>a DEF Passed, Cursor
<1>6. CASE SnapshotMask(p)
  <2>1. /\ pc[p] = "idle" /\ pc'[p] = "pos" /\ UNCHANGED <<mask, printed>>
        /\ seen'[p] = mask /\ out'[p] = << >>
        /\ \A q \in Readers : q # p => out'[q] = out[q]
    BY <1>6, <1>a DEF SnapshotMask, Goto, TypeOK, Actors
  <2>2. Oldest'
    BY <2>1, <1>a DEF Oldest
  <2>3. Sorted'
    BY <2>1, <1>a DEF Sorted
  <2>4. Recorded'
    BY <2>1, <1>1, <1>3, <1>5, <1>a DEF Recorded, Slot
  <2> QED
    BY <2>2, <2>3, <2>4, <1>4
<1>7. CASE ReadPos(p)
  <2>1. /\ pc[p] = "pos" /\ pc'[p] = "scan" /\ UNCHANGED <<mask, printed, out, seen>>
        /\ first'[p] = ScanStart /\ num'[p] = ScanStart
    BY <1>7, <1>a DEF ReadPos, Goto, TypeOK
  <2>2. ScanStart = Slot(pos) /\ ScanStart \in Int
    BY <1>a, SlotOf, LoggingAssumption DEF ScanStart, Slot, Slots
  <2>3. Cursor(p)' = pos - Size
    BY <2>1, <2>2, <1>1, <1>a DEF Cursor
  <2>4. \A n \in Nat : InRing(n) => ~Passed(n)'
    BY <2>3, <1>5, <1>a DEF InRing
  <2>5. Oldest'
    BY <2>1, <2>2, <1>1, <1>a DEF Oldest, Slot
  <2>6. Sorted'
    BY <2>1, <1>a DEF Sorted
  <2>7. Recorded'
    BY <2>1, <2>4, <1>1, <1>3, <1>5, <1>a DEF Recorded, Slot
  <2> QED
    BY <2>5, <2>6, <2>7, <1>4
<1>8. CASE ScanSlot(p)
  <2> DEFINE c == Cursor(p)
             x == ctxes[Slot(num[p])]
  <2>1. /\ pc[p] = "scan" /\ pc'[p] = "scan" /\ InScan(p)
        /\ UNCHANGED <<mask, first, seen>> /\ num'[p] = num[p] + 1
    BY <1>8, <1>a DEF ScanSlot, TypeOK
  <2>2. /\ c \in Int /\ c < pos
        /\ Slot(num[p]) \in seen[p] =>
             c \in 0 .. (MaxMsgs - 1) /\ x.mesg = c /\ printed[c] = 0
        /\ Slot(num[p]) \notin seen[p] => (InRing(c) => printed[c] = 1)
    BY <2>1, <1>3, <1>5, <1>a, AtCursor
  <2>3. Cursor(p)' = c + 1
    <3>1. /\ num[p] \in Int /\ first[p] \in Int /\ first'[p] = first[p]
          /\ num'[p] = num[p] + 1
      BY <2>1, <1>a, LoggingAssumption DEF TypeOK, Slots
    <3> QED
      BY <3>1, <1>1, <1>a DEF Cursor
  <2>4. Oldest'
    BY <2>1, <1>1, <1>a DEF Oldest, Slot
  <2> HIDE DEF c
  <2>5. CASE Slot(num[p]) \in seen[p]
    <3>1. /\ out' = [out EXCEPT ![p] = Append(@, x)]
          /\ printed' = [n \in DOMAIN printed |-> printed[n] + IF n = x.mesg THEN 1 ELSE 0]
      BY <1>8, <2>5 DEF ScanSlot, Emit
    <3>2. printed'[c] = 1 /\ \A n \in DOMAIN printed : n # c => printed'[n] = printed[n]
      <4> DEFINE N == 0 .. (MaxMsgs - 1)
      <4>1. printed \in [N -> Nat] /\ c \in N /\ x.mesg = c /\ printed[c] = 0
        BY <2>2, <2>5, <1>a DEF Actors
      <4> HIDE DEF N, x
      <4>2. printed' = [n \in N |-> printed[n] + IF n = c THEN 1 ELSE 0]
        BY <3>1, <4>1
      <4>3. \A n \in N : printed[n] + 0 = printed[n]
        BY <4>1
      <4> QED
        BY <4>1, <4>2, <4>3
    <3>3. ASSUME NEW n \in Nat, InRing(n)
          PROVE  /\ ctxes[Slot(n)].mesg = n
                 /\ IF Passed(n)' THEN printed'[n] = 1 ELSE Slot(n) \in mask <=> printed'[n] = 0
      <4>1. n \in DOMAIN printed
        BY <3>3, <1>3, <1>a, LoggingAssumption DEF InRing, Actors, TypeOK
      <4>2. Passed(n)' <=> Passed(n) \/ n = c
        BY <2>1, <2>2, <2>3, <1>5 DEF c
      <4> QED
        BY <3>2, <3>3, <4>1, <4>2, <1>a DEF Recorded
    <3>4. \A n \in DOMAIN printed' : printed'[n] <= 1 /\ (n >= Top' => printed'[n] = 0)
      <4>1. DOMAIN printed' = DOMAIN printed
        BY <3>1
      <4>2. c < Top'
        BY <2>2, <1>3
      <4>3. \A n \in DOMAIN printed : printed[n] <= 1 /\ (n >= Top => printed[n] = 0)
        BY <1>a DEF Recorded
      <4>4. Top' = Top /\ Top \in Int /\ c \in Int
        BY <2>2, <1>3, <1>a
      <4>5. ASSUME NEW n \in DOMAIN printed, n # c
            PROVE  printed'[n] <= 1 /\ (n >= Top' => printed'[n] = 0)
        BY <3>2, <4>3, <4>4, <4>5
      <4>6. printed'[c] <= 1 /\ ~(c >= Top')
        BY <3>2, <4>2, <4>4
      <4> QED
        BY <4>1, <4>5, <4>6
    <3>5. Recorded'
      BY <3>3, <3>4, <2>1, <1>1, <1>3, <1>a DEF Recorded, Slot
    <3>6. x \in [head : Int, mesg : Int]
      BY <1>a, SlotOf, LoggingAssumption DEF TypeOK
    <3>7. /\ \A k \in 2 .. Len(out'[p]) : out'[p][k - 1].mesg < out'[p][k].mesg
          /\ \A k \in 1 .. Len(out'[p]) : out'[p][k].mesg < c + 1
      <4> DEFINE o == out[p]
      <4>1. /\ o \in Seq([head : Int, mesg : Int]) /\ out'[p] = Append(o, x)
        BY <3>1, <1>a DEF Actors
      <4>2. /\ \A k \in 2 .. Len(o) : o[k - 1].mesg < o[k].mesg
            /\ \A k \in 1 .. Len(o) : o[k].mesg < c
        BY <2>1, <1>a DEF Sorted, c
      <4>3. x.mesg = c /\ c \in Int
        BY <2>2, <2>5
      <4> HIDE DEF o, x
      <4>4. /\ \A k \in 2 .. Len(Append(o, x)) : Append(o, x)[k - 1].mesg < Append(o, x)[k].mesg
            /\ \A k \in 1 .. Len(Append(o, x)) : Append(o, x)[k].mesg < c + 1
        <5> DEFINE w == Append(o, x)
                   m(k) == w[k].mesg
        <5>1. /\ Len(w) = Len(o) + 1 /\ Len(o) \in Nat
              /\ \A k \in 1 .. Len(o) : w[k] = o[k]
              /\ w[Len(o) + 1] = x
          BY <4>1, <3>6
        <5>2. /\ \A k \in 1 .. Len(o) : m(k) = o[k].mesg /\ m(k) \in Int /\ m(k) < c
              /\ m(Len(o) + 1) = c
          <6>1. \A k \in 1 .. Len(o) : o[k].mesg \in Int
            BY <4>1, MesgIsInt
          <6> QED
            BY <4>2, <4>3, <5>1, <6>1
        <5>3. \A k \in 2 .. Len(o) : m(k - 1) < m(k)
          BY <4>2, <5>1, <5>2
        <5> HIDE DEF w, m
        <5>4. \A k \in 1 .. Len(w) : m(k) < c + 1
          BY <4>3, <5>1, <5>2
        <5>5. ASSUME NEW k \in 2 .. Len(w) PROVE m(k - 1) < m(k)
          <6>1. CASE k \in 2 .. Len(o)
            BY <5>3, <6>1
          <6>2. CASE k = Len(o) + 1
            <7>1. k - 1 = Len(o) /\ Len(o) \in 1 .. Len(o)
              BY <5>1, <5>5, <6>2
            <7> QED
              BY <5>2, <6>2, <7>1
          <6> QED
            BY <5>1, <5>5, <6>1, <6>2
        <5> QED
          BY <5>4, <5>5 DEF w, m
      <4> QED
        BY <4>1, <4>4
    <3>8. \A q \in Readers : q # p => out'[q] = out[q]
      BY <3>1, <1>a DEF Actors
    <3>9. Sorted'
      BY <3>7, <3>8, <2>1, <2>3, <1>a DEF Sorted
    <3> QED
      BY <3>5, <3>9, <2>4, <1>4
  <2>6. CASE Slot(num[p]) \notin seen[p]
    <3>1. UNCHANGED <<out, printed>>
      BY <1>8, <2>6 DEF ScanSlot
    <3>2. \A n \in Nat : Passed(n)' <=> Passed(n) \/ n = c
      BY <2>1, <2>2, <2>3, <1>5 DEF c
    <3>3. Recorded'
      BY <3>1, <3>2, <2>1, <2>2, <2>6, <1>1, <1>3, <1>a DEF Recorded, Slot
    <3>4. \A k \in 1 .. Len(out[p]) : out[p][k].mesg < c + 1
      <4> DEFINE o == out[p]
      <4>1. o \in Seq([head : Int, mesg : Int]) /\ \A k \in 1 .. Len(o) : o[k].mesg < c
        BY <2>1, <1>a DEF Actors, Sorted, c
      <4> HIDE DEF o
      <4>2. \A k \in 1 .. Len(o) : o[k].mesg < c + 1
        <5>1. c \in Int /\ \A k \in 1 .. Len(o) : o[k].mesg \in Int /\ o[k].mesg < c
          BY <4>1, <2>2, MesgIsInt
        <5>2. \A y \in Int : y < c => y < c + 1
          BY <5>1
        <5> QED
          BY <5>1, <5>2
      <4> QED
        BY <4>2 DEF o
    <3>5. Sorted'
      BY <3>1, <3>4, <2>1, <2>3, <1>a DEF Sorted
    <3> QED
      BY <3>3, <3>5, <2>4, <1>4
  <2> QED
    BY <2>5, <2>6
<1>9. CASE ClearMask(p)
  <2>1. /\ pc[p] = "scan" /\ pc'[p] = "idle" /\ ~InScan(p)
        /\ UNCHANGED <<printed, out>>
        /\ mask' = {}
    BY <1>9, <1>a DEF ClearMask, Toggled, Goto, TypeOK, Oldest
  <2>2. Cursor(p) >= pos
    <3> DEFINE a == num[p]
               b == first[p]
    <3>1. a \in Nat /\ b \in Int /\ ~(a < Size + b)
      BY <2>1, <1>a, LoggingAssumption DEF TypeOK, InScan, Slots
    <3> HIDE DEF a, b
    <3>2. pos - Size + (a - b) >= pos
      BY <3>1, <1>a
    <3> QED
      BY <3>2 DEF a, b, Cursor
  <2>3. \A n \in Nat : InRing(n) => printed[n] = 1
    <3>1. Cursor(p) \in Int
      BY <1>a, LoggingAssumption DEF Cursor, TypeOK, Slots
    <3>2. \A n \in Nat : InRing(n) => Passed(n)
      BY <2>1, <2>2, <3>1, <1>3, <1>5, <1>a DEF InRing
    <3> QED
      BY <3>2, <1>a DEF Recorded
  <2>4. Oldest'
    BY <2>1, <1>a DEF Oldest
  <2>5. Sorted'
    BY <2>1, <1>a DEF Sorted
  <2>6. Recorded'
    BY <2>1, <2>3, <1>1, <1>3, <1>a DEF Recorded, Slot
  <2> QED
    BY <2>4, <2>5, <2>6, <1>4
<1> QED
  BY <1>6, <1>7, <1>8, <1>9 DEF ProcMsg

\* The inductive invariant behind InOrder and PrintedOnce.
LEMMA OrderInvariance == Spec => []OrderInv
<1>1. Init => OrderInv
  <2> SUFFICES ASSUME Init PROVE OrderInv
    OBVIOUS
  <2>1. \A p \in Procs : pc[p] = "idle"
    BY DEF Init
  <2>2. Latest /\ Oldest
    BY <2>1 DEF Latest, Oldest, Writing, Procs
  <2>3. pos = 0 /\ Top = 0
    BY <2>1 DEF Init, Top, Writing, Procs
  <2>4. Recorded
    BY <2>3 DEF Init, Recorded, InRing
  <2>5. Sorted
    BY <2>1 DEF Init, Sorted, Procs
  <2> QED
    BY <2>2, <2>4, <2>5, InitInv, InitActors DEF OrderInv
<1>2. OrderInv /\ [Next]_vars => OrderInv'
  <2> SUFFICES ASSUME OrderInv, [Next]_vars PROVE OrderInv'
    OBVIOUS
  <2>1. Inv' /\ Actors' /\ authors \subseteq authors' /\ printers \subseteq printers'
    BY StepInv, ActorsStep DEF OrderInv
  <2> DEFINE Body == Latest /\ Oldest /\ Recorded /\ Sorted
  <2>2. SUFFICES ASSUME OnlyOne(authors' \cup printers') PROVE Body'
    BY <2>1 DEF OrderInv
  <2>3. OnlyOne(authors \cup printers)
    BY <2>1, <2>2 DEF OnlyOne
  <2>4. ASSUME NEW p \in Procs, pc[p] # "idle" \/ pc'[p] # "idle"
        PROVE  \A q \in Procs : q # p => pc[q] = "idle" /\ pc'[q] = "idle"
    BY <2>1, <2>2, <2>4, RestIdle DEF OrderInv, Inv
  <2>5. ASSUME NEW p \in Writers, LogData(p) PROVE Body'
    <3>1. p \in Procs /\ (pc[p] # "idle" \/ pc'[p] # "idle")
      BY <2>5 DEF LogData, Draw, WriteHead, WriteMesg, LoadMask, StoreMask, Goto, Procs,
                  OrderInv, Inv, TypeOK
    <3>2. \A q \in Procs : q # p => pc[q] = "idle" /\ pc'[q] = "idle"
      BY <2>4, <3>1
    <3> QED
      BY <2>1, <2>3, <2>5, <3>2, OrderLogStep
  <2>6. ASSUME NEW p \in Readers, ProcMsg(p) PROVE Body'
    <3>1. p \in Procs /\ (pc[p] # "idle" \/ pc'[p] # "idle")
      BY <2>6 DEF ProcMsg, SnapshotMask, ReadPos, ScanSlot, ClearMask, Goto, Procs,
                  OrderInv, Inv, TypeOK
    <3>2. \A q \in Procs : q # p => pc[q] = "idle" /\ pc'[q] = "idle"
      BY <2>4, <3>1
    <3> QED
      BY <2>1, <2>3, <2>6, <3>2, OrderPrintStep
  <2>7. CASE UNCHANGED vars
    <3>1. Body
      BY <2>3 DEF OrderInv
    <3>2. Latest' /\ Oldest'
      BY <2>7, <3>1 DEF vars, Latest, Oldest, Writing, Slot
    <3>3. Top' = Top /\ \A p \in Readers : Cursor(p)' = Cursor(p)
      BY <2>7 DEF vars, Top, Writing, Cursor
    <3>4. \A n : (InRing(n)' <=> InRing(n)) /\ (Passed(n)' <=> Passed(n))
      BY <2>7, <3>3 DEF vars, InRing, Passed
    <3>5. Recorded'
      BY <2>7, <3>1, <3>3, <3>4 DEF vars, Recorded, Slot
    <3>6. Sorted'
      BY <2>7, <3>1, <3>3 DEF vars, Sorted
    <3> QED
      BY <3>2, <3>5, <3>6
  <2> QED
    BY <2>5, <2>6, <2>7 DEF Next
<1> QED
  BY <1>1, <1>2, PTL DEF Spec

\* One process by itself: the authors and the printers are the same one.
LEMMA AloneIsOne ==
  ASSUME Actors, Alone
  PROVE  OnlyOne(authors \cup printers)
<1>1. IsFiniteSet(authors \cup printers)
  BY FS_Union DEF Actors
<1> QED
  BY <1>1, AtMostOne DEF Alone

\* A process that logs and prints by itself prints in the order of logging,
\* also when the ring has been overrun.
THEOREM PrintedInOrder == Spec => []InOrder
<1>1. OrderInv => InOrder
  BY AloneIsOne DEF OrderInv, InOrder, Sorted
<1> QED
  BY OrderInvariance, <1>1, PTL

\* It prints every message at most once, and at the end of a scan has printed
\* all that the ring still holds.
THEOREM NoneTwice == Spec => []PrintedOnce
<1>1. OrderInv => PrintedOnce
  <2> SUFFICES ASSUME OrderInv, Alone, NEW p \in Readers
               PROVE  /\ \A n \in DOMAIN printed : printed[n] <= 1
                      /\ pc[p] = "scan" /\ ~InScan(p) =>
                           \A n \in done : n >= pos - Size => printed[n] = 1
    BY DEF PrintedOnce
  <2>1. OnlyOne(authors \cup printers) /\ Latest /\ Oldest /\ Recorded /\ Actors /\ TypeOK
    BY AloneIsOne DEF OrderInv, Inv
  <2>2. \A n \in DOMAIN printed : printed[n] <= 1
    BY <2>1 DEF Recorded
  <2>3. ASSUME pc[p] = "scan", ~InScan(p), NEW n \in done, n >= pos - Size
        PROVE  printed[n] = 1
    <3>1. p \in Procs /\ pos \in Nat /\ Size \in Nat /\ n \in 0 .. (pos - 1) /\ n \in Nat
      BY <2>1, <2>3, LoggingAssumption DEF Procs, Actors, TypeOK
    <3>2. \A a \in Writers : ~Writing(a)
      BY <2>1, <2>3 DEF Actors, OnlyOne, Writing, Procs
    <3>3. InRing(n)
      BY <2>3, <3>1, <3>2 DEF InRing, Top
    <3>4. Cursor(p) \in Int /\ Cursor(p) >= pos
      <4> DEFINE a == num[p]
                 b == first[p]
      <4>1. a \in Nat /\ b \in Int /\ ~(a < Size + b)
        BY <2>1, <2>3, <3>1, LoggingAssumption DEF TypeOK, InScan, Slots
      <4> HIDE DEF a, b
      <4>2. pos - Size + (a - b) >= pos /\ pos - Size + (a - b) \in Int
        BY <4>1, <3>1
      <4> QED
        BY <4>2 DEF a, b, Cursor
    <3>5. Passed(n)
      BY <2>3, <3>1, <3>4 DEF Passed
    <3> QED
      BY <2>1, <3>1, <3>3, <3>5 DEF Recorded
  <2> QED
    BY <2>2, <2>3
<1> QED
  BY OrderInvariance, <1>1, PTL

===============================================================================
