--------------------------- MODULE WorkerBoardProofs ---------------------------
(****************************************************************************)
(* WorkerBoard for every board size, table size and sequence of requests:   *)
(* bulks never overlap, never leave the mapping and never move; and the     *)
(* emulator of Femas2Emulator, which lives on such a board.                 *)
(****************************************************************************)
EXTENDS Femas2Emulator, SequenceTheorems, TLAPS

\* Each bulk is as long as its client asked for and ends before the next free
\* position.
Packed ==
  \A f \in Created :
    /\ want[f] <= bulks[f].size
    /\ bulks[f].pos + bulks[f].size <= bulkPos

\* Bulks lie in the order of their fds.
Ordered ==
  \A f, g \in Created : f < g => bulks[f].pos + bulks[f].size <= bulks[g].pos

\* The free position stays within a board that fits the mapping.
Bounded ==
  /\ bulkPos <= boardSize
  /\ Header + boardSize <= ShmSize

Inv == TypeOK /\ Packed /\ Ordered /\ Bounded

\* Rounding up to LM_BULK_PADDING gives no less than the size asked for; past the
\* largest int it gives a number below zero, by more than the mapping is long.
LEMMA RefinedSizeCovers ==
  ASSUME NEW size \in Sizes
  PROVE  /\ RefinedSize(size) \in Int
         /\ \/ size <= RefinedSize(size)
            \/ RefinedSize(size) < 0 - ShmSize
<1>1. /\ IntMax \in Nat /\ ShmSize \in Nat /\ ShmSize + 256 <= IntMax
      /\ size \in Nat /\ size <= IntMax
  BY BoardAssumption DEF Padding
<1>2. CASE size + 127 <= IntMax
  <2>1. RefinedSize(size) = ((size + 127) \div 128) * 128
    BY <1>1, <1>2 DEF RefinedSize, Wrap, Quotient, Padding
  <2> QED
    BY <1>1, <2>1
<1>3. CASE size + 127 > IntMax
  <2> DEFINE w == 2 * (IntMax + 1) - (size + 127)
  <2>1. w \in Nat /\ w > ShmSize + 128
    BY <1>1, <1>3
  <2>2. RefinedSize(size) = (-(w \div 128)) * 128
    <3>1. Wrap(size + 127) = -w /\ -w < 0 /\ -(-w) = w
      BY <1>1, <1>3, <2>1 DEF Wrap
    <3> HIDE DEF w
    <3> QED
      BY <1>1, <2>1, <3>1 DEF RefinedSize, Quotient, Padding
  <2> HIDE DEF w
  <2>3. w \div 128 \in Nat /\ w < (w \div 128) * 128 + 128
    BY <2>1
  <2> QED
    BY <1>1, <2>1, <2>2, <2>3
<1> QED
  BY <1>1, <1>2, <1>3

\* So a size that goes past the largest int never fits.
LEMMA FittingSize ==
  ASSUME Inv, NEW size \in Sizes, Fits(size)
  PROVE  /\ RefinedSize(size) \in Nat /\ size <= RefinedSize(size) /\ size \in Nat
         /\ bulkPos + RefinedSize(size) <= boardSize
<1>1. /\ bulkPos \in Nat /\ boardSize \in Nat /\ bulkPos <= boardSize
      /\ boardSize <= ShmSize /\ ShmSize \in Nat /\ size \in Nat
  BY BoardAssumption DEF Inv, TypeOK, Bounded
<1>2. RefinedSize(size) \in Int /\ 0 <= bulkPos + RefinedSize(size)
      /\ bulkPos + RefinedSize(size) <= boardSize - 1
  BY <1>1, RefinedSizeCovers DEF Fits
<1>3. ~(RefinedSize(size) < 0 - ShmSize)
  BY <1>1, <1>2
<1>4. size <= RefinedSize(size)
  BY <1>3, RefinedSizeCovers
<1> QED
  BY <1>1, <1>2, <1>4

\* A board not yet made satisfies the invariant.
LEMMA InitInv == Init => Inv
<1> SUFFICES ASSUME Init PROVE Inv
  OBVIOUS
<1>1. Created = {}
  BY DEF Init, Created
<1>2. TypeOK
  <2>1. bulks \in [Fds -> [pos : Nat, size : Nat]]
    BY DEF Init, Zeroed
  <2>2. want \in [Fds -> Nat]
    BY DEF Init
  <2>3. bulkCount \in 0..BulkSize /\ lastFd \in 0..BulkEnd
    BY BoardAssumption DEF Init, BulkEnd
  <2> QED
    BY <2>1, <2>2, <2>3 DEF Init, TypeOK
<1>3. Packed /\ Ordered
  BY <1>1 DEF Packed, Ordered
<1>4. Bounded
  BY BoardAssumption DEF Init, Bounded
<1> QED
  BY <1>2, <1>3, <1>4 DEF Inv

\* A bulk just created starts at the old free position and ends at the new one.
LEMMA CreateBulkInv ==
  ASSUME NEW size \in Sizes, Inv, CreateBulk(size)
  PROVE  Inv'
<1> DEFINE r == RefinedSize(size)
           n == bulkCount
<1>1. size \in Nat /\ r \in Nat /\ size <= r /\ bulkPos + r <= boardSize
  BY FittingSize DEF CreateBulk
<1>2. n \in Fds /\ n \in Nat /\ bulkPos \in Nat
  BY BoardAssumption DEF Inv, TypeOK, CreateBulk, HasEntry, Fds
<1>3. /\ bulks' = [bulks EXCEPT ![n] = [pos |-> bulkPos, size |-> r]]
      /\ want' = [want EXCEPT ![n] = size]
      /\ bulkPos' = bulkPos + r
      /\ bulkCount' = n + 1
      /\ UNCHANGED <<mapped, boardSize>>
      /\ lastFd' = n
  BY DEF CreateBulk, NextFd
<1> HIDE DEF r, n
<1>4. TypeOK'
  <2>1. bulks' \in [Fds -> [pos : Nat, size : Nat]]
    BY <1>1, <1>2, <1>3 DEF Inv, TypeOK
  <2>2. want' \in [Fds -> Nat]
    BY <1>1, <1>2, <1>3 DEF Inv, TypeOK
  <2>3. bulkCount' \in 0..BulkSize /\ lastFd' \in 0..BulkEnd
    BY <1>2, <1>3, BoardAssumption DEF Fds, BulkEnd
  <2>4. bulkPos' \in Nat
    BY <1>1, <1>2, <1>3
  <2> QED
    BY <1>3, <2>1, <2>2, <2>3, <2>4 DEF Inv, TypeOK
<1>5. /\ bulks'[n] = [pos |-> bulkPos, size |-> r]
      /\ want'[n] = size
  BY <1>2, <1>3 DEF Inv, TypeOK
<1>6. ASSUME NEW f \in Created
      PROVE  /\ f \in Fds /\ f < n /\ bulks'[f] = bulks[f] /\ want'[f] = want[f]
             /\ bulks[f].pos \in Nat /\ bulks[f].size \in Nat /\ want[f] \in Nat
  <2>1. f \in Int /\ 0 <= f /\ f < n
    BY <1>2 DEF n, Created
  <2>2. f \in Fds
    BY <2>1, <1>2, BoardAssumption DEF Fds
  <2>3. bulks[f] \in [pos : Nat, size : Nat] /\ want[f] \in Nat
    BY <2>2 DEF Inv, TypeOK
  <2>4. bulks'[f] = bulks[f] /\ want'[f] = want[f]
    BY <2>1, <2>2, <1>2, <1>3 DEF Inv, TypeOK
  <2> QED
    BY <2>1, <2>2, <2>3, <2>4
<1>7. Created' = Created \cup {n}
  BY <1>2, <1>3 DEF n, Created
<1>8. Packed'
  <2> SUFFICES ASSUME NEW f \in Created'
               PROVE  /\ want'[f] <= bulks'[f].size
                      /\ bulks'[f].pos + bulks'[f].size <= bulkPos'
    BY DEF Packed
  <2>1. CASE f = n
    BY <2>1, <1>1, <1>2, <1>3, <1>5
  <2>2. CASE f \in Created
    BY <2>2, <1>1, <1>2, <1>3, <1>6 DEF Inv, Packed
  <2> QED
    BY <1>7, <2>1, <2>2
<1>9. Ordered'
  <2> SUFFICES ASSUME NEW f \in Created', NEW g \in Created', f < g
               PROVE  bulks'[f].pos + bulks'[f].size <= bulks'[g].pos
    BY DEF Ordered
  <2>1. f \in Created
    <3>1. CASE f = n
      <4>1. g = n \/ g < n
        BY <1>6, <1>7
      <4> QED
        BY <3>1, <4>1, <1>2, <1>6, <1>7 DEF Fds
    <3>2. CASE f # n
      BY <3>2, <1>7
    <3> QED
      BY <3>1, <3>2
  <2>2. CASE g = n
    BY <2>1, <2>2, <1>5, <1>6 DEF Inv, Packed
  <2>3. CASE g \in Created
    BY <2>1, <2>3, <1>6 DEF Inv, Ordered
  <2> QED
    BY <1>7, <2>2, <2>3
<1>10. Bounded'
  BY <1>1, <1>2, <1>3 DEF Inv, TypeOK, Bounded
<1> QED
  BY <1>4, <1>8, <1>9, <1>10 DEF Inv

\* Every call of create, create_bulk and destroy keeps it.
LEMMA StepInv == Inv /\ [Next]_vars => Inv'
<1> SUFFICES ASSUME Inv, [Next]_vars PROVE Inv'
  OBVIOUS
<1>1. CASE Create
  <2>1. Created' = {}
    BY <1>1 DEF Create, Created
  <2>2. TypeOK'
    BY <1>1, BoardAssumption DEF Create, Zeroed, Inv, TypeOK
  <2>3. Packed' /\ Ordered'
    BY <2>1 DEF Packed, Ordered
  <2>4. Bounded'
    BY <1>1, BoardAssumption DEF Create, Bounded
  <2> QED
    BY <2>2, <2>3, <2>4 DEF Inv
<1>2. CASE Destroy
  BY <1>2 DEF Destroy, Inv, TypeOK, Packed, Ordered, Bounded, Created
<1>3. ASSUME NEW size \in Sizes, CreateBulk(size) PROVE Inv'
  BY <1>3, CreateBulkInv
<1>4. ASSUME NEW size \in Sizes, CreateBulkFails(size) PROVE Inv'
  BY <1>4, BoardAssumption
     DEF CreateBulkFails, Inv, TypeOK, Packed, Ordered, Bounded, Created, BulkEnd
<1>5. CASE CreateFails \/ UNCHANGED vars
  BY <1>5 DEF CreateFails, vars, Inv, TypeOK, Packed, Ordered, Bounded, Created
<1> QED
  BY <1>1, <1>2, <1>3, <1>4, <1>5 DEF Next

\* The invariant of the allocator holds in every reachable state.
THEOREM Invariance == Spec => []Inv
BY InitInv, StepInv, PTL DEF Spec

\* The memory of an fd, as get_bulk gives it, is its entry of m_bulks.
LEMMA CreatedBulk ==
  ASSUME Inv, NEW f \in Created
  PROVE  /\ GetBulk(f) = bulks[f].pos
         /\ GetBulk(f) \in Nat /\ bulks[f].size \in Nat /\ want[f] \in Nat
BY BoardAssumption DEF Inv, TypeOK, Created, Fds, GetBulk, BulkEnd

\* No two bulks of a board overlap, whatever sizes were asked for.
THEOREM NoOverlap == Spec => []BulksApart
<1>1. Inv => BulksApart
  BY CreatedBulk DEF BulksApart, Inv, Packed, Ordered
<1> QED
  BY Invariance, <1>1, PTL

\* Every bulk lies inside the mapping, at whatever size the board was made.
THEOREM NoOverrun == Spec => []BulksMapped
<1>1. Inv => BulksMapped
  <2> SUFFICES ASSUME Inv, NEW f \in Created
               PROVE  Header + GetBulk(f) + want[f] <= ShmSize
    BY DEF BulksMapped
  <2> QED
    BY CreatedBulk, BoardAssumption DEF Inv, TypeOK, Packed, Bounded
<1> QED
  BY Invariance, <1>1, PTL

\* No call moves a bulk that exists, so that the pointers placement new was
\* given stay good.
THEOREM NoMove == Spec => BulksStay
<1> DEFINE stays == mapped /\ mapped' =>
                      \A f \in Created : GetBulk(f)' = GetBulk(f) /\ f < bulkCount'
<1>1. Inv /\ [Next]_vars => [stays]_vars
  <2> SUFFICES ASSUME Inv, Next, mapped, mapped', NEW f \in Created
               PROVE  GetBulk(f)' = GetBulk(f) /\ f < bulkCount'
    OBVIOUS
  <2>1. bulkCount \in Nat /\ f \in Nat /\ f < bulkCount
    BY DEF Inv, TypeOK, Created
  <2>2. ASSUME NEW size \in Sizes, CreateBulk(size)
        PROVE  GetBulk(f)' = GetBulk(f) /\ f < bulkCount'
    <3>1. bulks'[f] = bulks[f]
      BY <2>1, <2>2, BoardAssumption
         DEF CreateBulk, NextFd, HasEntry, Inv, TypeOK, Fds
    <3> QED
      BY <2>1, <2>2, <3>1 DEF CreateBulk, GetBulk
  <2>3. ASSUME NEW size \in Sizes, CreateBulkFails(size)
        PROVE  GetBulk(f)' = GetBulk(f) /\ f < bulkCount'
    BY <2>1, <2>3 DEF CreateBulkFails, GetBulk
  <2> QED
    BY <2>2, <2>3 DEF Next, Create, CreateFails, Destroy
<1> QED
  BY Invariance, <1>1, PTL DEF Spec, BulksStay

\* The variables have their types in every reachable state.
THEOREM TypeCorrect == Spec => []TypeOK
<1>1. Inv => TypeOK
  BY DEF Inv
<1> QED
  BY Invariance, <1>1, PTL

-------------------------------------------------------------------------------
(* The emulator on the board *)

\* The program uses the board by its operations only.
LEMMA FemasStepIsBoardStep == [FemasNext]_femasVars => [Next]_vars
<1> SUFFICES ASSUME FemasNext PROVE [Next]_vars
  BY DEF femasVars
<1>1. ASSUME SetUp PROVE NextArea \in Sizes
  BY <1>1, FemasAssumption DEF SetUp, NextArea
<1>2. CASE MakeBoard \/ MakeNoBoard
  BY <1>2 DEF MakeBoard, MakeNoBoard, Next
<1>3. CASE PlaceArea \/ PlaceNowhere
  BY <1>1, <1>3 DEF PlaceArea, PlaceNowhere, Next
<1>4. CASE CarveOther
  BY <1>4 DEF CarveOther, Next
<1>5. CASE DestroyBoard
  BY <1>5 DEF DestroyBoard, Next
<1>6. ASSUME NEW type \in Types, Request(type) PROVE UNCHANGED vars
  BY <1>6 DEF Request
<1>7. CASE FrontInit \/ Release \/ Deliver \/ GiveRequestId
  BY <1>7 DEF FrontInit, Release, Deliver, GiveRequestId
<1>8. CASE LinkUp \/ LinkBreaks \/ AnswerLogin \/ RefuseLogin
           \/ AnswerLogout \/ RefuseLogout \/ AnswerOther \/ ReturnOther
  BY <1>8 DEF LinkUp, LinkBreaks, AnswerLogin, RefuseLogin, AnswerLogout,
              RefuseLogout, AnswerOther, ReturnOther, FrontSays
<1> QED
  BY <1>2, <1>3, <1>4, <1>5, <1>6, <1>7, <1>8 DEF FemasNext

\* Every behaviour of the emulator's program is one of a client of the board, so
\* that the theorems about the board hold for it.
THEOREM EmulatorUsesBoard == FemasSpec => Spec
<1>1. FemasInit => Init
  BY DEF FemasInit
<1> QED
  BY <1>1, FemasStepIsBoardStep, PTL DEF FemasSpec, Spec

\* A callback that leaves a status, and one that only prints.
Decides(callback) == callback.name \notin Silent

\* The latest deciding callback is the front end's last word: a login that no
\* deciding callback follows, or one already delivered, stands.  A login that is
\* being delivered is still the first that is due.
LastWord ==
  /\ due \in Seq(Callbacks)
  /\ answering => due # <<>> /\ due[1].name = "login"
  /\ \A i \in 1 .. Len(due) :
       due[i].name = "login" /\ (\A j \in i + 1 .. Len(due) : ~ Decides(due[j]))
         => link = "in" /\ due[i].id = localID
  /\ (\A j \in 1 .. Len(due) : ~ Decides(due[j]))
       => (spiStatus = "login" => link = "in" /\ requestId = localID + 1)

\* Only a login leaves SPI_LOGIN where it was not.
LEMMA LoginStatus ==
  ASSUME NEW callback \in Callbacks
  PROVE  /\ StatusAfter(callback) = "login" =>
              callback.name = "login" \/ (~ Decides(callback) /\ spiStatus = "login")
         /\ callback.name = "login" => Decides(callback)
<1>1. callback.name \in Names
  BY DEF Callbacks
<1>2. CASE callback.name \in Silent
  BY <1>2 DEF Silent, Decides, StatusAfter
<1>3. CASE callback.name \notin Silent
  BY <1>1, <1>3 DEF Names, Decides, StatusAfter, Silent
<1> QED
  BY <1>2, <1>3

\* The elements of a sequence that gains one at the end, or loses its head.
LEMMA Ends ==
  ASSUME NEW S, NEW q \in Seq(S), NEW e \in S
  PROVE  /\ Append(q, e) \in Seq(S) /\ Len(q) \in Nat
         /\ Len(Append(q, e)) = Len(q) + 1 /\ Append(q, e)[Len(q) + 1] = e
         /\ \A i \in 1 .. Len(q) : Append(q, e)[i] = q[i]
         /\ q # <<>> => /\ Head(q) \in S /\ Tail(q) \in Seq(S)
                       /\ Head(q) = q[1] /\ Len(q) \in Nat \ {0}
                       /\ Len(Tail(q)) = Len(q) - 1
                       /\ \A i \in 1 .. Len(q) - 1 : Tail(q)[i] = q[i + 1]
<1>1. /\ Append(q, e) \in Seq(S) /\ Len(q) \in Nat
      /\ Len(Append(q, e)) = Len(q) + 1 /\ Append(q, e)[Len(q) + 1] = e
      /\ \A i \in 1 .. Len(q) : Append(q, e)[i] = q[i]
  OBVIOUS
<1>2. ASSUME q # <<>>
      PROVE  /\ Head(q) \in S /\ Tail(q) \in Seq(S)
             /\ Head(q) = q[1] /\ Len(q) \in Nat \ {0}
             /\ Len(Tail(q)) = Len(q) - 1
             /\ \A i \in 1 .. Len(q) - 1 : Tail(q)[i] = q[i + 1]
  BY <1>2, HeadTailProperties, LenProperties
<1> QED
  BY <1>1, <1>2

\* A deciding callback that is true of the new session, or of none, keeps the
\* last word right.
LEMMA DecidingSaid ==
  ASSUME LastWord, NEW callback \in Callbacks, FrontSays(callback), Decides(callback),
         callback.name = "login" => link' = "in" /\ callback.id = localID'
  PROVE  LastWord'
<1>1. /\ due' \in Seq(Callbacks) /\ Len(due) \in Nat /\ Len(due') = Len(due) + 1
      /\ due'[Len(due) + 1] = callback /\ \A i \in 1 .. Len(due) : due'[i] = due[i]
      /\ answering' = answering
  BY Ends DEF LastWord, FrontSays, spi
<1>2. ASSUME NEW i \in 1 .. Len(due'), due'[i].name = "login",
             \A j \in i + 1 .. Len(due') : ~ Decides(due'[j])
      PROVE  link' = "in" /\ due'[i].id = localID'
  <2>1. i = Len(due) + 1
    BY <1>1, <1>2
  <2> QED
    BY <1>1, <1>2, <2>1
<1>3. ~ \A j \in 1 .. Len(due') : ~ Decides(due'[j])
  BY <1>1
<1>4. answering' => due' # <<>> /\ due'[1].name = "login"
  <2>1. answering => 1 \in 1 .. Len(due) /\ due[1].name = "login"
    BY <1>1, Ends DEF LastWord
  <2>2. due' # <<>>
    BY <1>1
  <2> QED
    BY <1>1, <2>1, <2>2
<1> QED
  BY <1>1, <1>2, <1>3, <1>4 DEF LastWord

\* So does one that only prints.
LEMMA SilentSaid ==
  ASSUME LastWord, NEW callback \in Callbacks, FrontSays(callback), ~ Decides(callback),
         UNCHANGED <<link, localID>>
  PROVE  LastWord'
<1>1. /\ due' \in Seq(Callbacks) /\ Len(due) \in Nat /\ Len(due') = Len(due) + 1
      /\ due'[Len(due) + 1] = callback /\ \A i \in 1 .. Len(due) : due'[i] = due[i]
      /\ UNCHANGED <<spiStatus, requestId, answering>>
  BY Ends DEF LastWord, FrontSays, spi
<1>2. ASSUME NEW i \in 1 .. Len(due'), due'[i].name = "login",
             \A j \in i + 1 .. Len(due') : ~ Decides(due'[j])
      PROVE  link' = "in" /\ due'[i].id = localID'
  <2>1. i # Len(due) + 1
    BY <1>1, <1>2, LoginStatus
  <2>2. i \in 1 .. Len(due) /\ \A j \in i + 1 .. Len(due) : ~ Decides(due[j])
    BY <1>1, <1>2, <2>1
  <2> QED
    BY <1>1, <1>2, <2>2 DEF LastWord
<1>3. (\A j \in 1 .. Len(due') : ~ Decides(due'[j])) => \A j \in 1 .. Len(due) : ~ Decides(due[j])
  BY <1>1
<1>4. answering' => due' # <<>> /\ due'[1].name = "login"
  <2>1. answering => 1 \in 1 .. Len(due) /\ due[1].name = "login"
    BY <1>1, Ends DEF LastWord
  <2>2. due' # <<>>
    BY <1>1
  <2> QED
    BY <1>1, <2>1, <2>2
<1> QED
  BY <1>1, <1>2, <1>3, <1>4 DEF LastWord

\* Every step keeps it.
LEMMA LastWordKept == LastWord /\ [FemasNext]_femasVars => LastWord'
<1> SUFFICES ASSUME LastWord, [FemasNext]_femasVars PROVE LastWord'
  OBVIOUS
<1>1. ASSUME NEW name \in Names \ {"login"}
      PROVE  /\ Callback(name) \in Callbacks /\ Callback(name).name # "login"
             /\ Decides(Callback(name)) <=> name \notin Silent
  BY DEF Callback, Callbacks, Decides
<1>2. CASE LinkUp \/ LinkBreaks \/ RefuseLogin \/ AnswerLogout \/ RefuseLogout
  <2>1. PICK name \in Names \ (Silent \cup {"login"}) : FrontSays(Callback(name))
    BY <1>2 DEF LinkUp, LinkBreaks, RefuseLogin, AnswerLogout, RefuseLogout, Names, Silent
  <2> QED
    BY <1>1, <2>1, DecidingSaid
<1>3. CASE AnswerLogin
  <2>1. PICK id \in LocalIDs :
          FrontSays([name |-> "login", id |-> id]) /\ localID' = id
    BY <1>3 DEF AnswerLogin
  <2>2. [name |-> "login", id |-> id] \in Callbacks
    BY FemasAssumption DEF Callbacks, Names
  <2> QED
    BY <1>3, <2>1, <2>2, DecidingSaid, LoginStatus DEF AnswerLogin
<1>4. CASE AnswerOther \/ ReturnOther
  <2>1. PICK name \in Silent : FrontSays(Callback(name)) /\ UNCHANGED <<link, localID>>
    BY <1>4 DEF AnswerOther, ReturnOther, Silent
  <2> QED
    BY <1>1, <2>1, SilentSaid DEF Names, Silent
<1>5. ASSUME NEW callback, callback = Head(due), due # <<>>, due' = Tail(due), ~answering',
             UNCHANGED <<link, localID>>,
             spiStatus' = "login" =>
               \/ callback.name = "login" /\ requestId' = callback.id + 1
               \/ ~ Decides(callback) /\ UNCHANGED <<spiStatus, requestId>>
      PROVE  LastWord'
  <2>1. /\ callback \in Callbacks /\ callback = due[1] /\ due' \in Seq(Callbacks)
        /\ Len(due) \in Nat \ {0} /\ Len(due') = Len(due) - 1
        /\ \A i \in 1 .. Len(due) - 1 : due'[i] = due[i + 1]
    BY <1>5, Ends DEF LastWord
  <2>2. ASSUME NEW i \in 1 .. Len(due'), due'[i].name = "login",
               \A j \in i + 1 .. Len(due') : ~ Decides(due'[j])
        PROVE  link' = "in" /\ due'[i].id = localID'
    <3>1. ASSUME NEW j \in i + 2 .. Len(due) PROVE ~ Decides(due[j])
      <4>1. j - 1 \in i + 1 .. Len(due') /\ due'[j - 1] = due[j]
        BY <2>1, <3>1
      <4> QED
        BY <2>2, <4>1
    <3>2. i + 1 \in 1 .. Len(due) /\ due'[i] = due[i + 1] /\ (i + 1) + 1 = i + 2
      BY <2>1
    <3> QED
      BY <1>5, <2>2, <3>1, <3>2 DEF LastWord
  <2>3. ASSUME \A j \in 1 .. Len(due') : ~ Decides(due'[j]), spiStatus' = "login"
        PROVE  link' = "in" /\ requestId' = localID' + 1
    <3>1. ASSUME NEW j \in 2 .. Len(due) PROVE ~ Decides(due[j])
      <4>1. j - 1 \in 1 .. Len(due') /\ due'[j - 1] = due[j]
        BY <2>1, <3>1
      <4> QED
        BY <2>3, <4>1
    <3>2. CASE callback.name = "login" /\ requestId' = callback.id + 1
      <4>1. 1 \in 1 .. Len(due) /\ due[1].name = "login"
        BY <2>1, <3>2
      <4>2. link = "in" /\ due[1].id = localID
        BY <3>1, <4>1 DEF LastWord
      <4> QED
        BY <1>5, <2>1, <3>2, <4>2
    <3>3. CASE ~ Decides(callback) /\ UNCHANGED <<spiStatus, requestId>>
      <4>1. \A j \in 1 .. Len(due) : ~ Decides(due[j])
        <5>1. ASSUME NEW j \in 1 .. Len(due) PROVE j = 1 \/ j \in 2 .. Len(due)
          BY <2>1
        <5> QED
          BY <2>1, <3>1, <3>3, <5>1
      <4> QED
        BY <1>5, <2>3, <3>3, <4>1 DEF LastWord
    <3> QED
      BY <1>5, <2>3, <3>2, <3>3
  <2> QED
    BY <1>5, <2>1, <2>2, <2>3 DEF LastWord
<1>9. CASE Deliver
  <2>1. /\ due # <<>> /\ ~answering /\ spiStatus' = StatusAfter(Head(due))
        /\ UNCHANGED <<requestId, link, localID>>
        /\ Head(due) \in Callbacks /\ Head(due) = due[1] /\ 1 \in 1 .. Len(due)
    BY <1>9, Ends DEF Deliver, LastWord
  <2>2. CASE Head(due).name = "login"
    <3>1. due' = due /\ answering' = TRUE
      BY <1>9, <2>2 DEF Deliver
    <3>2. Decides(due[1])
      BY <2>1, <2>2, LoginStatus
    <3> QED
      BY <2>1, <2>2, <3>1, <3>2 DEF LastWord
  <2>3. CASE Head(due).name # "login"
    <3>1. due' = Tail(due) /\ answering' = FALSE
      BY <1>9, <2>3 DEF Deliver
    <3>2. spiStatus' = "login" => ~ Decides(Head(due)) /\ spiStatus' = spiStatus
      BY <2>1, <2>3, LoginStatus
    <3> QED
      BY <1>5, <2>1, <3>1, <3>2
  <2> QED
    BY <2>2, <2>3
<1>10. CASE GiveRequestId
  <2>1. /\ answering /\ due # <<>> /\ due[1].name = "login" /\ Head(due) = due[1]
        /\ requestId' = Head(due).id + 1 /\ answering' = FALSE /\ due' = Tail(due)
        /\ UNCHANGED <<link, localID>>
    BY <1>10, Ends DEF GiveRequestId, LastWord
  <2> QED
    BY <1>5, <2>1
<1>6. CASE UNCHANGED <<spi, front>>
  BY <1>6 DEF LastWord, spi, front
<1>7. ASSUME NEW type \in Types, Request(type) PROVE UNCHANGED <<spi, front>>
  BY <1>7 DEF Request
<1>8. CASE MakeBoard \/ MakeNoBoard \/ PlaceArea \/ PlaceNowhere \/ CarveOther
           \/ FrontInit \/ Release \/ DestroyBoard
  BY <1>6, <1>8 DEF MakeBoard, MakeNoBoard, PlaceArea, PlaceNowhere, CarveOther,
                    FrontInit, Release, DestroyBoard
<1> QED
  BY <1>2, <1>3, <1>4, <1>6, <1>7, <1>8, <1>9, <1>10 DEF FemasNext, femasVars

\* After any sequence of logins, refusals and broken links, a status of SPI_LOGIN
\* with no callback due means a session, and the request id follows from it.
THEOREM SessionIsThere == FemasSpec => []SessionBelieved
<1>1. FemasInit => LastWord
  BY DEF FemasInit, LastWord
<1>2. LastWord => SessionBelieved
  BY DEF LastWord, SessionBelieved
<1> QED
  BY <1>1, <1>2, LastWordKept, PTL DEF FemasSpec

\* Each object is on a bulk that was created for its size, in their order; an
\* object is placed only on a board that is there.
Placed ==
  /\ areas \in Seq(Int)
  /\ \A i \in 1 .. Len(areas) : areas[i] \in Created /\ want[areas[i]] = Areas[i]
  /\ \A i, j \in 1 .. Len(areas) : i < j => areas[i] < areas[j]
  /\ phase = "setup" /\ ~mapped => areas = <<>>

\* A bulk that is created leaves those before it as they were.
LEMMA CreatedKept ==
  ASSUME Inv, NEW size \in Sizes, CreateBulk(size)
  PROVE  /\ Created' = Created \cup {lastFd'} /\ lastFd' \in Nat
         /\ want'[lastFd'] = size
         /\ \A f \in Created : f < lastFd' /\ want'[f] = want[f]
<1>1. /\ bulkCount \in Nat /\ bulkCount \in Fds /\ lastFd' = bulkCount
      /\ bulkCount' = bulkCount + 1
      /\ want' = [want EXCEPT ![bulkCount] = size]
  BY BoardAssumption DEF Inv, TypeOK, CreateBulk, HasEntry, NextFd, Fds
<1>2. Created' = Created \cup {bulkCount}
  BY <1>1 DEF Created
<1>3. \A f \in Created : f \in Fds /\ f < bulkCount
  BY <1>1, BoardAssumption DEF Created, Fds
<1>4. want \in [Fds -> Nat]
  BY DEF Inv, TypeOK
<1> QED
  BY <1>1, <1>2, <1>3, <1>4

\* An object placed on a bulk just created comes after those placed before.
LEMMA PlaceAreaKeeps ==
  ASSUME Inv, Placed, PlaceArea
  PROVE  Placed'
<1>1. NextArea \in Sizes /\ areas \in Seq(Int) /\ CreateBulk(NextArea)
  BY FemasAssumption DEF PlaceArea, SetUp, NextArea, Placed
<1>2. /\ Created' = Created \cup {lastFd'} /\ lastFd' \in Nat
      /\ want'[lastFd'] = NextArea
      /\ \A f \in Created : f < lastFd' /\ want'[f] = want[f]
  BY <1>1, CreatedKept
<1>3. /\ areas' \in Seq(Int) /\ Len(areas') = Len(areas) + 1
      /\ Len(areas) \in Nat
      /\ \A i \in 1 .. Len(areas) : areas'[i] = areas[i]
      /\ areas'[Len(areas) + 1] = lastFd'
  BY <1>1, <1>2 DEF PlaceArea
<1>4. \A i \in 1 .. Len(areas) : areas[i] \in Created /\ areas[i] \in Int
  BY <1>1 DEF Placed, Created
<1>5. ASSUME NEW i \in 1 .. Len(areas')
      PROVE  areas'[i] \in Created' /\ want'[areas'[i]] = Areas[i]
  <2>1. CASE i \in 1 .. Len(areas)
    BY <2>1, <1>2, <1>3, <1>4 DEF Placed
  <2>2. CASE i = Len(areas) + 1
    BY <2>2, <1>2, <1>3 DEF NextArea
  <2> QED
    BY <2>1, <2>2, <1>3
<1>6. ASSUME NEW i \in 1 .. Len(areas'), NEW j \in 1 .. Len(areas'), i < j
      PROVE  areas'[i] < areas'[j]
  <2>1. i \in 1 .. Len(areas)
    BY <1>3, <1>6
  <2>2. CASE j \in 1 .. Len(areas)
    BY <2>1, <2>2, <1>3, <1>6 DEF Placed
  <2>3. CASE j = Len(areas) + 1
    BY <2>1, <2>3, <1>2, <1>3, <1>4
  <2> QED
    BY <2>2, <2>3, <1>3
<1>7. mapped'
  BY <1>1 DEF CreateBulk
<1> QED
  BY <1>3, <1>5, <1>6, <1>7 DEF Placed

\* Every step of the program keeps the objects in place.
LEMMA PlacedKept == Inv /\ Placed /\ [FemasNext]_femasVars => Placed'
<1> SUFFICES ASSUME Inv, Placed, [FemasNext]_femasVars PROVE Placed'
  OBVIOUS
<1>1. ASSUME UNCHANGED <<areas, bulkCount, want>>,
             phase' # "setup" \/ (phase' = phase /\ mapped' = mapped)
      PROVE  Placed'
  BY <1>1 DEF Placed, Created
<1>2. CASE MakeBoard
  <2>1. areas' = <<>>
    BY <1>2 DEF MakeBoard, SetUp, Create, api, Placed
  <2> QED
    BY <2>1 DEF Placed
<1>3. CASE PlaceArea
  BY <1>3, PlaceAreaKeeps
<1>4. CASE CarveOther
  <2>1. UNCHANGED <<areas, phase>> /\ mapped' = mapped
    BY <1>4 DEF CarveOther, api, CreateBulk, CreateBulkFails
  <2>2. ASSUME NEW size \in Sizes, CreateBulk(size) PROVE Placed'
    <3>1. \A f \in Created : f \in Created' /\ want'[f] = want[f]
      BY <2>2, CreatedKept
    <3> QED
      BY <2>1, <3>1 DEF Placed
  <2>3. ASSUME NEW size \in Sizes, CreateBulkFails(size) PROVE Placed'
    BY <2>1, <2>3, <1>1 DEF CreateBulkFails
  <2> QED
    BY <1>4, <2>2, <2>3 DEF CarveOther
<1>5. CASE MakeNoBoard \/ PlaceNowhere \/ FrontInit \/ Release \/ DestroyBoard
  BY <1>5, <1>1 DEF MakeNoBoard, CreateFails, PlaceNowhere, CreateBulkFails,
                    FrontInit, Release, DestroyBoard, Destroy, vars
<1>6. ASSUME NEW type \in Types, Request(type) PROVE Placed'
  BY <1>6, <1>1 DEF Request, vars
<1>7. CASE LinkUp \/ LinkBreaks \/ AnswerLogin \/ RefuseLogin
           \/ AnswerLogout \/ RefuseLogout \/ AnswerOther \/ ReturnOther
           \/ Deliver \/ GiveRequestId
  BY <1>7, <1>1 DEF LinkUp, LinkBreaks, AnswerLogin, RefuseLogin, AnswerLogout,
                    RefuseLogout, AnswerOther, ReturnOther, FrontSays, Deliver,
                    GiveRequestId, vars, api
<1>8. CASE UNCHANGED femasVars
  BY <1>8, <1>1 DEF femasVars, vars, api
<1> QED
  BY <1>2, <1>3, <1>4, <1>5, <1>6, <1>7, <1>8 DEF FemasNext

\* The objects main constructs on the board have their room and stay apart,
\* whatever other bulks are carved out of it.
THEOREM ObjectsOnTheirBulks == FemasSpec => []ObjectsApart
<1>1. FemasInit => Placed
  BY DEF FemasInit, Placed, Init
<1>2. FemasSpec => []Inv
  BY EmulatorUsesBoard, Invariance, PTL
<1>3. Inv /\ Placed => ObjectsApart
  <2> SUFFICES ASSUME Inv, Placed, NEW i \in DOMAIN areas, NEW j \in DOMAIN areas
               PROVE  /\ GetBulk(areas[i]) + Areas[i] <= boardSize
                      /\ i < j => GetBulk(areas[i]) + Areas[i] <= GetBulk(areas[j])
    BY DEF ObjectsApart
  <2>1. /\ areas[i] \in Created /\ want[areas[i]] = Areas[i]
        /\ areas[j] \in Created
        /\ i < j => areas[i] < areas[j]
    BY DEF Placed
  <2>2. /\ GetBulk(areas[i]) = bulks[areas[i]].pos
        /\ GetBulk(areas[j]) = bulks[areas[j]].pos
        /\ GetBulk(areas[i]) \in Nat /\ GetBulk(areas[j]) \in Nat
        /\ bulks[areas[i]].size \in Nat /\ want[areas[i]] \in Nat
    BY <2>1, CreatedBulk
  <2>3. /\ want[areas[i]] <= bulks[areas[i]].size
        /\ bulks[areas[i]].pos + bulks[areas[i]].size <= bulkPos
        /\ bulkPos <= boardSize /\ bulkPos \in Nat /\ boardSize \in Nat
    BY <2>1 DEF Inv, TypeOK, Packed, Bounded
  <2>4. i < j => bulks[areas[i]].pos + bulks[areas[i]].size <= bulks[areas[j]].pos
    BY <2>1 DEF Inv, Ordered
  <2> QED
    BY <2>1, <2>2, <2>3, <2>4
<1> QED
  BY <1>1, <1>2, <1>3, PlacedKept, PTL DEF FemasSpec

\* Every step of the program keeps the types.
LEMMA FemasTypesKept ==
  Inv /\ Inv' /\ LastWord /\ FemasTypeOK /\ [FemasNext]_femasVars => FemasTypeOK'
<1> SUFFICES ASSUME Inv, Inv', LastWord, FemasTypeOK, [FemasNext]_femasVars
             PROVE  FemasTypeOK'
  OBVIOUS
<1>1. CASE MakeBoard \/ CarveOther
  BY <1>1 DEF MakeBoard, CarveOther, api, spi, front, FemasTypeOK, BulkEnd
<1>2. CASE PlaceArea
  <2>1. areas' \in Seq(0 .. BulkEnd)
    <3>1. lastFd' \in 0 .. BulkEnd
      BY DEF Inv, TypeOK, BulkEnd
    <3> QED
      BY <1>2, <3>1 DEF PlaceArea, FemasTypeOK, BulkEnd
  <2> QED
    BY <1>2, <2>1 DEF PlaceArea, spi, front, FemasTypeOK, BulkEnd
<1>3. CASE MakeNoBoard \/ PlaceNowhere \/ FrontInit \/ Release \/ DestroyBoard
  BY <1>3 DEF MakeNoBoard, PlaceNowhere, FrontInit, Release, DestroyBoard, spi, front,
              FemasTypeOK, BulkEnd
<1>4. ASSUME NEW type \in Types, Request(type) PROVE FemasTypeOK'
  <2>1. Mask(type) \subseteq 0 .. 4
    BY DEF Mask
  <2> QED
    BY <1>4, <2>1 DEF Request, spi, front, FemasTypeOK, BulkEnd
<1>5. ASSUME NEW callback \in Callbacks, FrontSays(callback),
             link' \in {"down", "up", "in"}, localID' \in Nat
      PROVE  FemasTypeOK'
  BY <1>5 DEF FrontSays, vars, api, spi, FemasTypeOK, BulkEnd
<1>6. CASE LinkUp \/ LinkBreaks \/ RefuseLogin \/ AnswerLogout \/ RefuseLogout
           \/ AnswerOther \/ ReturnOther
  <2>1. PICK name \in Names : FrontSays(Callback(name))
    BY <1>6 DEF LinkUp, LinkBreaks, RefuseLogin, AnswerLogout, RefuseLogout,
                AnswerOther, ReturnOther, Names, Silent
  <2>2. Callback(name) \in Callbacks
    BY DEF Callback, Callbacks
  <2>3. link' \in {"down", "up", "in"} /\ localID' \in Nat
    BY <1>6 DEF LinkUp, LinkBreaks, RefuseLogin, AnswerLogout, RefuseLogout,
                AnswerOther, ReturnOther, FemasTypeOK
  <2> QED
    BY <1>5, <2>1, <2>2, <2>3
<1>7. CASE AnswerLogin
  <2>1. PICK id \in LocalIDs :
          FrontSays([name |-> "login", id |-> id]) /\ localID' = id
    BY <1>7 DEF AnswerLogin
  <2>2. [name |-> "login", id |-> id] \in Callbacks /\ id \in Nat
    BY FemasAssumption DEF Callbacks, Names
  <2> QED
    BY <1>5, <1>7, <2>1, <2>2 DEF AnswerLogin
<1>8. CASE Deliver
  <2>1. Head(due) \in Callbacks /\ Tail(due) \in Seq(Callbacks)
    BY <1>8, Ends DEF Deliver, FemasTypeOK
  <2>2. StatusAfter(Head(due)) \in {"zero", "connect", "disconnect", "login", "release"}
    <3>1. Head(due).name \in Names /\ spiStatus \in {"zero", "connect", "disconnect", "login", "release"}
      BY <2>1 DEF Callbacks, FemasTypeOK
    <3>2. CASE Head(due).name \in Silent
      BY <3>1, <3>2 DEF Silent, StatusAfter
    <3>3. CASE Head(due).name \notin Silent
      BY <3>1, <3>3 DEF Names, StatusAfter, Silent
    <3> QED
      BY <3>2, <3>3
  <2>3. due' \in Seq(Callbacks) /\ answering' \in BOOLEAN
    BY <1>8, <2>1 DEF Deliver, FemasTypeOK
  <2> QED
    BY <1>8, <2>2, <2>3 DEF Deliver, vars, api, FemasTypeOK, BulkEnd
<1>10. ASSUME GiveRequestId, due # <<>> PROVE FemasTypeOK'
  <2>1. Head(due) \in Callbacks /\ Tail(due) \in Seq(Callbacks)
    BY <1>10, Ends DEF FemasTypeOK
  <2>2. Head(due).id + 1 \in Nat
    BY <2>1 DEF Callbacks
  <2> QED
    BY <1>10, <2>1, <2>2 DEF GiveRequestId, vars, api, FemasTypeOK, BulkEnd
<1>9. CASE UNCHANGED femasVars
  BY <1>9 DEF femasVars, api, spi, front, FemasTypeOK, BulkEnd
<1> QED
  BY <1>1, <1>2, <1>3, <1>4, <1>6, <1>7, <1>8, <1>9, <1>10
     DEF FemasNext, GiveRequestId, LastWord

\* Type correctness of the emulator.
THEOREM FemasTypeCorrect == FemasSpec => []FemasTypeOK
<1>1. FemasInit => FemasTypeOK
  <2> SUFFICES ASSUME FemasInit PROVE FemasTypeOK
    OBVIOUS
  <2>1. areas \in Seq(0 .. BulkEnd) /\ due \in Seq(Callbacks)
    BY DEF FemasInit
  <2>2. mtype \subseteq 0 .. 4 /\ requestId \in Nat /\ localID \in Nat /\ answering \in BOOLEAN
    BY DEF FemasInit
  <2>3. /\ phase \in {"setup", "ready", "released", "gone", "crashed"}
        /\ status \in [board : {"idle", "quit"}, worker : {"idle", "start"}]
        /\ spiStatus \in {"zero", "connect", "disconnect", "login", "release"}
        /\ link \in {"down", "up", "in"}
    BY DEF FemasInit
  <2> QED
    BY <2>1, <2>2, <2>3 DEF FemasTypeOK
<1>2. FemasSpec => []Inv
  BY EmulatorUsesBoard, Invariance, PTL
<1>3. FemasInit => LastWord
  BY DEF FemasInit, LastWord
<1> QED
  BY <1>1, <1>2, <1>3, LastWordKept, FemasTypesKept, PTL DEF FemasSpec
===============================================================================
