---------------------------- MODULE PortfolioProofs ----------------------------
(****************************************************************************)
(* Portfolio for every set of features, any number of instruments and any   *)
(* memory: smoothed values rest on priced quotes, and go back in time only  *)
(* for a message that is late; the forecast and the signals beside it come  *)
(* from the latest quote.                                                   *)
(****************************************************************************)
EXTENDS Portfolio, TLAPS

\* No current quote is later than the latest.
Clocked == \A q \in Quotes : quotes[q].cur.time <= latest

\* The time prepare gives a smoothed value.
PrepareTime(f, v, qs) ==
  IF v = "m_book" /\ Feature[f].kind = "OTHER_TIB2"
    THEN Ref(f, qs).cur.time ELSE Own(qs).cur.time

\* The second trade imbalance goes by the contract's time only.
ByContract(f, v) == Feature[f].kind = "OTHER_TIB2" /\ v = "m_ema"

\* The loop of is_prepare gets as far as f.
ReadyAt(f, qs) == \A g \in 0 .. f : IsReady(g, qs)

\* Whether a feature uses a smoothed value at all.
Fed(f, v) ==
  \/ v = "m_ema" /\ Feature[f].kind \in OtherKinds \cup {"SELF_DR"}
  \/ v = "m_book" /\ Feature[f].kind \in {"SELF_TIB2", "OTHER_TIB2"}

\* A smoothed value is never ahead of the latest quote.  While the model prepares
\* it has the time prepare gave it last, and would give it again, or was never
\* reached, as one no handler uses.  In trade, a value that goes by the contract's
\* time has that of its quote.
Behind ==
  \A f \in Features, v \in Smoothed :
    /\ ema[f][v].event <= latest
    /\ phase = "prepare" =>
         \/ ema[f][v].event = 0
         \/ ema[f][v].event = PrepareTime(f, v, quotes) /\ ReadyAt(f, quotes)
    /\ phase = "prepare" /\ ~ Fed(f, v) => ema[f][v].event = 0
    /\ phase = "trade" /\ ByContract(f, v) => ema[f][v].event = Own(quotes).cur.time

\* A model that trades has two quotes of the contract and one of every
\* instrument a feature watches.
Quoted ==
  phase = "trade" =>
    /\ Present(Own(quotes).cur) /\ Present(Own(quotes).prev)
    /\ \A f \in Features : Feature[f].kind \in OtherKinds => Present(Ref(f, quotes).cur)

\* There is no forecast before the model trades, nor where it crashes.
NoEarlyForecast == phase = "prepare" \/ stray # {} => forecast = NotComputed

IInv ==
  TypeOK /\ Clocked /\ Behind /\ Quoted /\ ReadyMeansSeen /\ NoEarlyForecast
    /\ SignalsBehindForecast

-------------------------------------------------------------------------------
(* The rounds of calc_forecast *)

\* A multiple of the number of lanes is that many rounds, rounded up or not.
LEMMA Rounds ==
  ASSUME NEW L \in Nat \ {0}, NEW N \in Nat, N % L = 0
  PROVE  /\ N \div L \in Nat
         /\ N = L * (N \div L)
         /\ (N + L - 1) \div L = N \div L
<1> DEFINE m == N \div L
           r == (N + L - 1) \div L
<1>1. m \in Nat /\ N = L * m
  BY Z3
<1>2. r \in Int /\ L * r <= N + L - 1 /\ N + L - 1 < L * r + L
  BY Z3
<1>3. L * r <= L * m + L - 1 /\ L * m < L * r + 1
  BY <1>1, <1>2
<1>4. ~ r >= m + 1
  BY <1>1, <1>2, <1>3, Z3
<1>5. ~ r <= m - 1
  BY <1>1, <1>2, <1>3, Z3
<1> QED
  BY <1>1, <1>2, <1>4, <1>5

\* calc_forecast sums the signals of all features and nothing else.
LEMMA SummedIsFeatures == Summed = Features
<1>1. Summed = 0 .. Lanes * (FeatureSize \div Lanes) - 1
  BY Rounds, PortfolioAssumption, Zenon DEF Summed
<1>2. Lanes * (FeatureSize \div Lanes) = FeatureSize
  BY Rounds, PortfolioAssumption
<1> QED
  BY <1>1, <1>2, Zenon DEF Features

-------------------------------------------------------------------------------
(* What cu1_0_forecaster sets up *)

\* The feature set-up of cu1_0 is one of those the theorems below are about.
THEOREM Cu1MeetsAssumptions ==
  /\ Cu1 \in [0 .. 31 -> [kind : SelfKinds \cup OtherKinds \cup {"UNSET"}, other : 0 .. 5]]
  /\ Cu1Size % 8 = 0
  /\ \E f \in 0 .. 31 : Cu1[f].kind \in {"SELF_TIB", "SELF_TIB2"}
<1>1. Cu1 \in [0 .. 31 -> [kind : SelfKinds \cup OtherKinds \cup {"UNSET"}, other : 0 .. 5]]
  <2> SUFFICES ASSUME NEW f \in 0 .. 31
               PROVE  Cu1[f] \in [kind : SelfKinds \cup OtherKinds \cup {"UNSET"}, other : 0 .. 5]
    BY DEF Cu1, Cu1Size
  <2>1. CASE f < 5
    <3>1. Cu1[f] = SetUp(Cu1Self[f + 1], 0)
      BY <2>1 DEF Cu1, Cu1Size
    <3>2. Cu1Self[f + 1] \in SelfKinds
      BY <2>1 DEF Cu1Self, SelfKinds
    <3> QED
      BY <3>1, <3>2 DEF SetUp
  <2>2. CASE f \in 5 .. 29
    <3>1. Cu1[f] = SetUp(Cu1Other[(f % 5) + 1], f \div 5)
      BY <2>2 DEF Cu1, Cu1Size
    <3>2. (f % 5) + 1 \in 1 .. 5 /\ f \div 5 \in 0 .. 5
      BY <2>2
    <3>3. \A i \in 1 .. 5 : Cu1Other[i] \in OtherKinds
      BY DEF Cu1Other, OtherKinds
    <3> QED
      BY <3>1, <3>2, <3>3 DEF SetUp
  <2>3. CASE f \in {30, 31}
    BY <2>3 DEF Cu1, Cu1Size, SetUp
  <2> QED
    BY <2>1, <2>2, <2>3
<1>2. Cu1Size % 8 = 0
  BY DEF Cu1Size
<1>3. Cu1[1].kind = "SELF_TIB2"
  BY DEF Cu1, Cu1Size, Cu1Self, SetUp
<1> QED
  BY <1>1, <1>2, <1>3

\* The features one by one.
LEMMA Cu1Values ==
  /\ Cu1[0] = SetUp("SELF_BIB", 0) /\ Cu1[1] = SetUp("SELF_TIB2", 0)
  /\ \A i \in 2 .. 4 : Cu1[i] = SetUp("SELF_DR", 0)
  /\ \A q \in 1 .. 5 : /\ Cu1[5 * q] = SetUp("OTHER_BS", q)
                       /\ \A i \in 1 .. 3 : Cu1[5 * q + i] = SetUp("OTHER_DR", q)
                       /\ Cu1[5 * q + 4] = SetUp("OTHER_TIB", q)
  /\ \A i \in 30 .. 31 : Cu1[i] = SetUp("UNSET", 0)
<1>1. \A i \in 0 .. 4 : Cu1[i] = SetUp(Cu1Self[i + 1], 0)
  BY DEF Cu1, Cu1Size
<1>2. \A q \in 1 .. 5, i \in 0 .. 4 : Cu1[5 * q + i] = SetUp(Cu1Other[i + 1], q)
  <2> TAKE q \in 1 .. 5, i \in 0 .. 4
  <2>1. 5 * q + i \in 5 .. 29 /\ (5 * q + i) % 5 = i /\ (5 * q + i) \div 5 = q
    BY Z3
  <2>2. Cu1[5 * q + i] = SetUp(Cu1Other[((5 * q + i) % 5) + 1], (5 * q + i) \div 5)
    BY <2>1 DEF Cu1, Cu1Size
  <2> QED
    BY <2>1, <2>2
<1>3. /\ \A i \in 2 .. 4 : Cu1Self[i + 1] = "SELF_DR"
      /\ Cu1Self[0 + 1] = "SELF_BIB" /\ Cu1Self[1 + 1] = "SELF_TIB2"
  BY DEF Cu1Self
<1>4. /\ \A i \in 1 .. 3 : Cu1Other[i + 1] = "OTHER_DR"
      /\ Cu1Other[0 + 1] = "OTHER_BS" /\ Cu1Other[4 + 1] = "OTHER_TIB"
  BY DEF Cu1Other
<1>5. \A i \in 30 .. 31 : Cu1[i] = SetUp("UNSET", 0)
  BY DEF Cu1, Cu1Size
<1>6. \A q \in 1 .. 5 : Cu1[5 * q] = SetUp("OTHER_BS", q)
  <2> TAKE q \in 1 .. 5
  <2>1. Cu1[5 * q + 0] = SetUp(Cu1Other[0 + 1], q) /\ 5 * q + 0 = 5 * q
    BY <1>2
  <2> QED
    BY <1>4, <2>1
<1>7. \A q \in 1 .. 5 : /\ \A i \in 1 .. 3 : Cu1[5 * q + i] = SetUp("OTHER_DR", q)
                        /\ Cu1[5 * q + 4] = SetUp("OTHER_TIB", q)
  BY <1>2, <1>4
<1> QED
  BY <1>1, <1>3, <1>5, <1>6, <1>7

\* handle_self_msg_st calls, of every feature that was set up and of no other,
\* the handler of the class init gave it.
THEOREM Cu1SelfDispatch ==
  \A f \in 0 .. 31, k \in DOMAIN Cu1SelfCalls : f \in Cu1SelfCalls[k] <=> Cu1[f].kind = k
<1> SUFFICES ASSUME NEW f \in 0 .. 31, NEW k \in DOMAIN Cu1SelfCalls
             PROVE  f \in Cu1SelfCalls[k] <=> Cu1[f].kind = k
  OBVIOUS
<1> DEFINE kind == Cu1[f].kind
<1>1. /\ f = 0 => kind = "SELF_BIB"
      /\ f = 1 => kind = "SELF_TIB2"
      /\ f \in 2 .. 4 => kind = "SELF_DR"
      /\ f \in 30 .. 31 => kind = "UNSET"
  BY Cu1Values DEF SetUp
<1>2. /\ f \in {5, 10, 15, 20, 25} => kind = "OTHER_BS"
      /\ f \in {9, 14, 19, 24, 29} => kind = "OTHER_TIB"
  <2>1. \A q \in 1 .. 5 : /\ f = 5 * q => kind = "OTHER_BS"
                          /\ f = 5 * q + 4 => kind = "OTHER_TIB"
    BY Cu1Values DEF SetUp
  <2>2. f \in {5, 10, 15, 20, 25} => \E q \in 1 .. 5 : f = 5 * q
    OBVIOUS
  <2>3. f \in {9, 14, 19, 24, 29} => \E q \in 1 .. 5 : f = 5 * q + 4
    OBVIOUS
  <2> HIDE DEF kind
  <2> QED
    BY <2>1, <2>2, <2>3
<1>3. f \in {6, 7, 8, 11, 12, 13, 16, 17, 18, 21, 22, 23, 26, 27, 28} => kind = "OTHER_DR"
  <2>1. \A q \in 1 .. 5, i \in 1 .. 3 : f = 5 * q + i => kind = "OTHER_DR"
    BY Cu1Values DEF SetUp
  <2> QED
    BY <2>1
<1> HIDE DEF kind
<1>4. f \in Cu1SelfCalls[k] <=> kind = k
  BY <1>1, <1>2, <1>3 DEF Cu1SelfCalls
<1> QED
  BY <1>4 DEF kind

\* handle_other_msg_<alias> calls, of every feature that watches that reference
\* and of no other, the handler of the class init gave it.
THEOREM Cu1OtherDispatch ==
  \A q \in 1 .. 5, f \in 0 .. 31, k \in {"OTHER_BS", "OTHER_DR", "OTHER_TIB"} :
    f \in Cu1OtherCalls[q][k] <=> Cu1[f] = SetUp(k, q)
<1> SUFFICES ASSUME NEW q \in 1 .. 5, NEW f \in 0 .. 31,
                    NEW k \in {"OTHER_BS", "OTHER_DR", "OTHER_TIB"}
             PROVE  f \in Cu1OtherCalls[q][k] <=> Cu1[f] = SetUp(k, q)
  OBVIOUS
<1>1. /\ Cu1OtherCalls[q]["OTHER_BS"] = {5 * q}
      /\ Cu1OtherCalls[q]["OTHER_DR"] = {5 * q + 1, 5 * q + 2, 5 * q + 3}
      /\ Cu1OtherCalls[q]["OTHER_TIB"] = {5 * q + 4}
  BY DEF Cu1OtherCalls
<1>2. \A j, r : SetUp(k, q) = SetUp(j, r) => k = j /\ q = r
  BY DEF SetUp
<1>3. f \in Cu1OtherCalls[q][k] => Cu1[f] = SetUp(k, q)
  BY <1>1, Cu1Values
<1>4. ASSUME Cu1[f] = SetUp(k, q)
      PROVE  f \in Cu1OtherCalls[q][k]
  <2>1. f \notin 0 .. 4 /\ f \notin 30 .. 31
    BY <1>2, <1>4, Cu1Values
  <2>2. PICK r \in 1 .. 5, i \in 0 .. 4 : f = 5 * r + i
    BY <2>1
  <2>3. /\ i = 0 => k = "OTHER_BS" /\ r = q
        /\ i \in 1 .. 3 => k = "OTHER_DR" /\ r = q
        /\ i = 4 => k = "OTHER_TIB" /\ r = q
    BY <1>2, <1>4, <2>2, Cu1Values
  <2> QED
    BY <1>1, <2>2, <2>3
<1> QED
  BY <1>3, <1>4

-------------------------------------------------------------------------------
(* Quotes *)

\* What a quote that is let through changes: its own instrument's entry, whose
\* old current quote becomes the previous one, and the latest time.
LEMMA Received ==
  ASSUME TypeOK, NEW q \in Quotes, Receive(q)
  PROVE  /\ latest \in Nat /\ latest' \in 0 .. MaxTime /\ latest <= latest'
         /\ quotes' \in [Quotes -> Entries]
         /\ quotes'[q].cur.time \in 1 .. MaxTime /\ quotes'[q].cur.time <= latest'
         /\ quotes'[q].cur.id \in Ids /\ quotes'[q] # quotes[q]
         /\ quotes'[q].prev = quotes[q].cur
         /\ \A p \in Quotes \ {q} : quotes'[p] = quotes[p]
<1>1. PICK t \in 1 .. MaxTime, grew \in BOOLEAN :
        quotes' = UpdateQuote(q, t, grew) /\ latest' = IF t > latest THEN t ELSE latest
  BY DEF Receive
<1>2. latest \in 0 .. MaxTime
  BY DEF TypeOK
<1>3. latest' \in 0 .. MaxTime /\ latest <= latest' /\ t <= latest'
  BY <1>1, <1>2, PortfolioAssumption
<1> DEFINE new == [id |-> IF quotes[q].cur.id = 1 THEN 2 ELSE 1, time |-> t]
<1>4. new \in Msg /\ new.id \in Ids /\ new.id # quotes[q].cur.id /\ new.time = t
  BY DEF Msg, Ids
<1>5. quotes \in [Quotes -> Entries] /\ quotes[q].cur \in Msg \cup Blank
  BY DEF TypeOK, Entries
<1>6. quotes' = [quotes EXCEPT ![q] = [cur |-> new, prev |-> quotes[q].cur, grew |-> grew]]
  BY <1>1 DEF UpdateQuote
<1> HIDE DEF new
<1>7. [cur |-> new, prev |-> quotes[q].cur, grew |-> grew] \in Entries
  BY <1>4, <1>5 DEF Entries
<1>8. quotes'[q] = [cur |-> new, prev |-> quotes[q].cur, grew |-> grew]
  BY <1>5, <1>6
<1>9. quotes'[q] # quotes[q]
  BY <1>4, <1>8
<1> QED
  BY <1>2, <1>3, <1>4, <1>5, <1>6, <1>7, <1>8, <1>9

\* Times are natural numbers.
LEMMA TimeType ==
  ASSUME NEW x \in Msg \cup Blank
  PROVE  x.time \in 0 .. MaxTime /\ x.id \in -1 .. 2
BY PortfolioAssumption DEF Msg, Blank, Zero, Dirty, Ids

\* No quote is later than the latest after a message either, and what is ready
\* stays so: a quote is never taken away.
LEMMA StillClocked ==
  ASSUME TypeOK, Clocked, NEW q \in Quotes, Receive(q)
  PROVE  Clocked'
<1> SUFFICES ASSUME NEW p \in Quotes
             PROVE  quotes'[p].cur.time <= latest'
  BY DEF Clocked
<1>1. quotes[p].cur.time \in Nat /\ quotes[p].cur.time <= latest
  BY TimeType DEF TypeOK, Clocked, Entries
<1> QED
  BY <1>1, Received

LEMMA StillReady ==
  ASSUME TypeOK, NEW q \in Quotes, Receive(q), NEW f \in Features, ReadyAt(f, quotes)
  PROVE  ReadyAt(f, quotes')
<1> SUFFICES ASSUME NEW g \in 0 .. f PROVE IsReady(g, quotes')
  BY DEF ReadyAt
<1>1. g \in Features /\ IsReady(g, quotes)
  BY PortfolioAssumption DEF ReadyAt, Features
<1>2. \A p \in Quotes : Present(quotes[p].cur) => Present(quotes'[p].cur)
  BY Received DEF Present, Ids
<1>3. Contract \in Quotes /\ Feature[g].other \in Quotes
  BY <1>1, PortfolioAssumption DEF Quotes, Contract
<1>4. \A p \in Quotes : Present(quotes[p].cur) /\ Present(quotes[p].prev) => Present(quotes'[p].prev)
  BY Received
<1> QED
  BY <1>1, <1>2, <1>3, <1>4 DEF IsReady, Own, Ref

-------------------------------------------------------------------------------
(* Smoothed values *)

Value == [event : 0 .. MaxTime, seen : BOOLEAN]

\* An update leaves the value or gives it the time of the quote; it counts as
\* seen only if it was and the quotes put into it have a price.
LEMMA Blended ==
  ASSUME NEW x \in Value, NEW messages, NEW quote, quote.cur.time \in 0 .. MaxTime
  PROVE  /\ Blend(x, messages, quote) \in Value
         /\ Blend(x, messages, quote).event \in {x.event, quote.cur.time}
         /\ messages # {} => Blend(x, messages, quote).event = quote.cur.time
         /\ messages = {} => Blend(x, messages, quote) = x
         /\ x.seen /\ AllPresent(messages) => Blend(x, messages, quote).seen
BY DEF Blend, Value

\* The kind and the reference of a feature.
LEMMA FeatureType ==
  ASSUME NEW f \in Features
  PROVE  /\ Feature[f].kind \in SelfKinds \cup OtherKinds \cup {"UNSET"}
         /\ Feature[f].other \in Quotes /\ Contract \in Quotes
BY PortfolioAssumption DEF Quotes, Contract

\* The times of the quotes a feature goes by are times of quotes.
LEMMA OwnAndRef ==
  ASSUME NEW f \in Features, NEW qs \in [Quotes -> Entries]
  PROVE  /\ Own(qs).cur.time \in 0 .. MaxTime /\ Ref(f, qs).cur.time \in 0 .. MaxTime
         /\ Own(qs) = qs[Contract] /\ Ref(f, qs) = qs[Feature[f].other]
<1>1. Own(qs) = qs[Contract] /\ Ref(f, qs) = qs[Feature[f].other]
  BY DEF Own, Ref
<1>2. qs[Contract].cur \in Msg \cup Blank /\ qs[Feature[f].other].cur \in Msg \cup Blank
  BY FeatureType DEF Entries
<1> QED
  BY <1>1, <1>2, TimeType

\* Which quotes go into a value: its own contract's, and the reference's for a
\* feature that has one.
LEMMA Inputs ==
  ASSUME NEW f \in Features, NEW v \in Smoothed, NEW qs
  PROVE  /\ SelfInputs(f, v, qs) \cup OtherInputs(f, v, qs) # {} <=> Fed(f, v)
         /\ SelfInputs(f, v, qs) # {} <=>
              Fed(f, v) /\ ~ (v = "m_book" /\ Feature[f].kind = "OTHER_TIB2")
         /\ \A m \in SelfInputs(f, v, qs) \cup OtherInputs(f, v, qs) :
              \/ m \in {Own(qs).cur, Own(qs).prev}
              \/ Feature[f].kind \in OtherKinds /\ m = Ref(f, qs).cur
<1>1. v \in {"m_ema", "m_book"}
  BY DEF Smoothed
<1>2. Feature[f].kind \in SelfKinds \cup OtherKinds \cup {"UNSET"}
  BY FeatureType
<1>3. CASE v = "m_ema"
  BY <1>2, <1>3 DEF SelfInputs, OtherInputs, OwnMid, OwnBook, RefMid, RefBook, Ratio, Fed, SelfKinds,
            OtherKinds
<1>4. CASE v = "m_book"
  BY <1>2, <1>4 DEF SelfInputs, OtherInputs, OwnMid, OwnBook, RefMid, RefBook, Ratio, Fed, SelfKinds,
            OtherKinds
<1> QED
  BY <1>1, <1>3, <1>4

\* The quotes a feature needs have prices.
Priced(f, qs) ==
  /\ Present(Own(qs).cur) /\ Present(Own(qs).prev)
  /\ Feature[f].kind \in OtherKinds => Present(Ref(f, qs).cur)

LEMMA InputsPriced ==
  ASSUME NEW f \in Features, NEW v \in Smoothed, NEW qs, Priced(f, qs)
  PROVE  AllPresent(SelfInputs(f, v, qs)) /\ AllPresent(OtherInputs(f, v, qs))
BY Inputs DEF Priced, AllPresent

\* What prepare does to a value it uses, and to one it does not.
LEMMA Prepared ==
  ASSUME TypeOK, NEW f \in Features, NEW v \in Smoothed,
         NEW qs \in [Quotes -> Entries]
  PROVE  /\ Prepare(f, qs)[v] \in Value
         /\ Fed(f, v) => Prepare(f, qs)[v].event = PrepareTime(f, v, qs)
         /\ ~ Fed(f, v) => Prepare(f, qs)[v] = ema[f][v]
         /\ Fed(f, v) /\ Priced(f, qs) => Prepare(f, qs)[v].seen
<1> DEFINE book == v = "m_book" /\ Feature[f].kind = "OTHER_TIB2"
<1>1. ema[f][v] \in Value
  BY DEF TypeOK, Value
<1>2. Own(qs).cur.time \in 0 .. MaxTime /\ Ref(f, qs).cur.time \in 0 .. MaxTime
  BY OwnAndRef
<1>3. CASE book
  <2>1. Prepare(f, qs)[v] = [event |-> Ref(f, qs).cur.time, seen |-> AllPresent({Ref(f, qs).cur})]
    BY <1>3 DEF Prepare
  <2>2. Fed(f, v) /\ Feature[f].kind \in OtherKinds
    BY <1>3 DEF Fed, OtherKinds
  <2>3. AllPresent({Ref(f, qs).cur}) \in BOOLEAN
    BY DEF AllPresent
  <2>4. Priced(f, qs) => AllPresent({Ref(f, qs).cur})
    BY <2>2 DEF Priced, AllPresent
  <2> QED
    BY <2>1, <2>2, <2>3, <2>4, <1>2, <1>3 DEF Value, PrepareTime
<1>4. CASE ~ book /\ SelfInputs(f, v, qs) # {}
  <2>1. Prepare(f, qs)[v] =
          [event |-> Own(qs).cur.time, seen |-> AllPresent(SelfInputs(f, v, qs))]
    BY <1>4 DEF Prepare
  <2>2. AllPresent(SelfInputs(f, v, qs)) \in BOOLEAN
    BY DEF AllPresent
  <2> QED
    BY <2>1, <2>2, <1>2, <1>4, Inputs, InputsPriced DEF Value, PrepareTime
<1>5. CASE ~ book /\ SelfInputs(f, v, qs) = {}
  <2>1. Prepare(f, qs)[v] = ema[f][v]
    BY <1>5 DEF Prepare
  <2> QED
    BY <2>1, <1>1, <1>5, Inputs
<1> QED
  BY <1>3, <1>4, <1>5

-------------------------------------------------------------------------------
(* The initial state *)

LEMMA InitInv == Init => IInv
<1> SUFFICES ASSUME Init PROVE IInv
  OBVIOUS
<1>0. MaxTime \in Nat /\ 1 <= MaxTime /\ phase = "prepare" /\ latest \in 0 .. MaxTime
      /\ forecast = NotComputed
  BY PortfolioAssumption DEF Init
<1>1. TypeOK
  <2>1. ema \in [Features -> [Smoothed -> Value]]
    BY <1>0 DEF Init, Value
  <2>2. NotComputed \in [Features -> [self : -1 .. 2, other : -1 .. 2]]
    BY DEF NotComputed
  <2>3. stray \subseteq Quotes
    BY DEF Init
  <2>4. quotes \in [Quotes -> Entries]
    <3>1. [cur : Blank, prev : Blank, grew : {FALSE}] \subseteq Entries
      BY DEF Entries
    <3> QED
      BY <3>1 DEF Init
  <2> QED
    BY <2>1, <2>2, <2>3, <2>4, <1>0 DEF Init, TypeOK, Value
<1>2. Clocked
  BY DEF Init, Clocked
<1>3. Behind
  BY <1>0 DEF Init, Behind
<1> QED
  BY <1>0, <1>1, <1>2, <1>3
     DEF IInv, Quoted, ReadyMeansSeen, NoEarlyForecast, SignalsBehindForecast, GetForecast, GetAllSignal

-------------------------------------------------------------------------------
(* Steps *)

\* What every step has to do to a smoothed value.
Forward(f, v) ==
  /\ ema'[f][v] \in Value
  /\ InOrder => ema[f][v].event <= ema'[f][v].event
  /\ ema'[f][v].event <= latest'
  /\ phase' = "prepare" =>
       \/ ema'[f][v].event = 0
       \/ ema'[f][v].event = PrepareTime(f, v, quotes') /\ ReadyAt(f, quotes')
  /\ phase' = "prepare" /\ ~ Fed(f, v) => ema'[f][v].event = 0
  /\ phase' = "trade" /\ ByContract(f, v) => ema'[f][v].event = Own(quotes').cur.time
  /\ phase' = "trade" /\ Fed(f, v) => ema'[f][v].seen

\* What the invariant says of one value.
LEMMA OneValue ==
  ASSUME IInv, NEW f \in Features, NEW v \in Smoothed
  PROVE  /\ ema[f][v] \in Value
         /\ ema[f][v].event \in Nat /\ ema[f][v].event <= latest
         /\ phase = "prepare" =>
              \/ ema[f][v].event = 0
              \/ ema[f][v].event = PrepareTime(f, v, quotes) /\ ReadyAt(f, quotes)
         /\ phase = "prepare" /\ ~ Fed(f, v) => ema[f][v].event = 0
         /\ phase = "trade" /\ ByContract(f, v) => ema[f][v].event = Own(quotes).cur.time
         /\ phase = "trade" /\ Fed(f, v) => ema[f][v].seen
<1>1. ema[f][v] \in Value
  BY DEF IInv, TypeOK, Value
<1>2. phase = "trade" /\ Fed(f, v) => ema[f][v].seen
  BY Inputs DEF IInv, ReadyMeansSeen
<1> QED
  BY <1>1, <1>2 DEF IInv, Behind, Value

\* The same of all of them, and conversely.
LEMMA AllForward ==
  ASSUME \A f \in Features, v \in Smoothed : Forward(f, v), unsetType' = unsetType
  PROVE  Behind' /\ ReadyMeansSeen'
<1>1. Behind'
  <2> SUFFICES ASSUME NEW f \in Features, NEW v \in Smoothed
               PROVE  /\ ema'[f][v].event <= latest'
                      /\ phase' = "prepare" =>
                           \/ ema'[f][v].event = 0
                           \/ /\ ema'[f][v].event = PrepareTime(f, v, quotes')
                              /\ ReadyAt(f, quotes')
                      /\ phase' = "prepare" /\ ~ Fed(f, v) => ema'[f][v].event = 0
                      /\ phase' = "trade" /\ ByContract(f, v) =>
                           ema'[f][v].event = Own(quotes').cur.time
    BY Zenon DEF Behind, ByContract, PrepareTime, ReadyAt, IsReady, Fed, Own, Ref
  <2> QED
    BY Zenon DEF Forward
<1>2. ReadyMeansSeen'
  BY Inputs DEF Forward, ReadyMeansSeen
<1> QED
  BY <1>1, <1>2

\* The times values go by, before and after a message.  One that comes in order
\* takes none of them back.
LEMMA TimesAfter ==
  ASSUME IInv, NEW q \in Quotes, Receive(q), NEW f \in Features, NEW v \in Smoothed
  PROVE  /\ PrepareTime(f, v, quotes) \in Nat /\ PrepareTime(f, v, quotes') \in Nat
         /\ PrepareTime(f, v, quotes') <= latest'
         /\ InOrder => PrepareTime(f, v, quotes) <= PrepareTime(f, v, quotes')
         /\ Own(quotes').cur.time \in Nat /\ Own(quotes').cur.time <= latest'
<1>1. \A p \in Quotes : /\ quotes[p].cur.time \in Nat /\ quotes[p].cur.time <= latest
                        /\ quotes'[p].cur.time \in Nat /\ quotes'[p].cur.time <= latest'
  BY TimeType, StillClocked, Received DEF IInv, TypeOK, Clocked, Entries
<1>2. InOrder => \A p \in Quotes : quotes[p].cur.time <= quotes'[p].cur.time
  <2> SUFFICES ASSUME InOrder, NEW p \in Quotes
               PROVE  quotes[p].cur.time <= quotes'[p].cur.time
    OBVIOUS
  <2>1. CASE quotes'[p] = quotes[p]
    BY <2>1, <1>1
  <2>2. CASE quotes'[p] # quotes[p]
    BY <2>2, <1>1, Received DEF InOrder, IInv
  <2> QED
    BY <2>1, <2>2
<1> QED
  BY <1>1, <1>2, FeatureType DEF PrepareTime, Own, Ref

\* pre_proc_msg.
LEMMA PreProcMsgInv ==
  ASSUME IInv, PreProcMsg
  PROVE  IInv' /\ \A f \in Features, v \in Smoothed : Forward(f, v)
<1>1. PICK q \in Quotes : Receive(q)
  BY DEF PreProcMsg
<1>2. phase = "prepare" /\ phase' \in {"prepare", "trade"} /\ UNCHANGED <<signals, forecast, unsetType, stray>>
  BY DEF PreProcMsg
<1>3. ASSUME phase' = "trade", NEW f \in Features
      PROVE  IsReady(f, quotes') /\ ReadyUpTo(f)
  BY <1>3, PortfolioAssumption DEF PreProcMsg, ReadyUpTo, Features
<1>4. ASSUME phase' = "trade"
      PROVE  /\ Present(Own(quotes').cur) /\ Present(Own(quotes').prev)
             /\ \A f \in Features : Feature[f].kind \in OtherKinds => Present(Ref(f, quotes').cur)
  <2>1. PICK g \in Features : Feature[g].kind \in {"SELF_TIB", "SELF_TIB2"}
    BY TibAssumption
  <2>2. IsReady(g, quotes')
    BY <1>3, <1>4
  <2>3. Present(Own(quotes').cur) /\ Present(Own(quotes').prev)
    BY <2>1, <2>2 DEF IsReady
  <2>4. ASSUME NEW f \in Features, Feature[f].kind \in OtherKinds
        PROVE  Present(Ref(f, quotes').cur)
    BY <1>3, <1>4, <2>4 DEF IsReady, OtherKinds
  <2> QED
    BY <2>3, <2>4
<1>5. ASSUME NEW f \in Features, NEW v \in Smoothed
      PROVE  Forward(f, v)
  <2>1. ema'[f] = IF ReadyUpTo(f) THEN Prepare(f, quotes') ELSE ema[f]
    BY DEF PreProcMsg
  <2>2. ReadyUpTo(f) <=> ReadyAt(f, quotes')
    BY DEF ReadyUpTo, ReadyAt
  <2>3. CASE ReadyUpTo(f) /\ Fed(f, v)
    <3>1. phase' = "trade" => Priced(f, quotes')
      BY <1>4 DEF Priced
    <3>2. /\ ema'[f][v] \in Value
          /\ ema'[f][v].event = PrepareTime(f, v, quotes')
          /\ phase' = "trade" => ema'[f][v].seen
      BY <2>1, <2>3, <3>1, <1>1, Received, Prepared DEF IInv
    <3>3. ByContract(f, v) => PrepareTime(f, v, quotes') = Own(quotes').cur.time
      BY DEF ByContract, PrepareTime
    <3>4. InOrder => ema[f][v].event <= PrepareTime(f, v, quotes')
      BY <1>1, <1>2, OneValue, TimesAfter
    <3> QED
      BY <3>2, <3>3, <3>4, <2>2, <2>3, <1>1, TimesAfter DEF Forward
  <2>4. CASE ~ (ReadyUpTo(f) /\ Fed(f, v))
    <3>1. ema'[f][v] = ema[f][v]
      BY <2>1, <2>4, <1>1, Received, Prepared DEF IInv
    <3>2. ~ (phase' = "trade" /\ Fed(f, v))
      BY <2>4, <1>3
    <3>3. ema[f][v].event = 0
      <4>1. CASE ~ ReadyUpTo(f)
        BY <4>1, <2>2, <1>1, <1>2, OneValue, StillReady DEF IInv
      <4>2. CASE ~ Fed(f, v)
        BY <4>2, <1>2, OneValue
      <4> QED
        BY <2>4, <4>1, <4>2
    <3>4. ~ (phase' = "trade" /\ ByContract(f, v))
      BY <3>2 DEF ByContract, Fed, OtherKinds
    <3>5. latest' \in Nat
      BY <1>1, Received DEF IInv
    <3> QED
      BY <3>1, <3>2, <3>3, <3>4, <3>5, OneValue DEF Forward
  <2> QED
    BY <2>3, <2>4
<1>6. TypeOK'
  <2>1. ema' \in [Features -> [Smoothed -> Value]]
    <3>1. ASSUME NEW f \in Features
          PROVE  ema'[f] \in [Smoothed -> Value]
      <4>1. \A v \in Smoothed : ema'[f][v] \in Value
        BY <1>5 DEF Forward
      <4>2. ema'[f] = IF ReadyUpTo(f) THEN Prepare(f, quotes') ELSE ema[f]
        BY DEF PreProcMsg
      <4> QED
        BY <4>1, <4>2 DEF Prepare, IInv, TypeOK
    <3>2. ema' = [f \in Features |-> ema'[f]]
      BY DEF PreProcMsg
    <3> QED
      BY <3>1, <3>2
  <2> QED
    BY <2>1, <1>1, <1>2, Received DEF IInv, TypeOK, Value
<1> QED
  BY <1>1, <1>2, <1>4, <1>5, <1>6, AllForward, StillClocked
     DEF IInv, Quoted, NoEarlyForecast, SignalsBehindForecast, GetForecast, GetAllSignal, Own

\* A value that takes the time of the quote that came in, or stays.
LEMMA BlendForward ==
  ASSUME IInv, phase = "trade", phase' = "trade", NEW q \in Quotes, Receive(q),
         NEW f \in Features, NEW v \in Smoothed, NEW messages, NEW quote,
         quote.cur.time = quotes'[q].cur.time,
         ByContract(f, v) => q = Contract /\ messages # {},
         AllPresent(messages), ema'[f][v] = Blend(ema[f][v], messages, quote)
  PROVE  Forward(f, v)
<1>1. /\ latest \in Nat /\ latest' \in Nat /\ latest <= latest'
      /\ quote.cur.time \in 0 .. MaxTime /\ quote.cur.time <= latest'
      /\ InOrder => latest <= quote.cur.time
  BY Received DEF IInv, InOrder
<1>2. /\ ema'[f][v] \in Value
      /\ ema'[f][v].event \in {ema[f][v].event, quote.cur.time}
      /\ messages # {} => ema'[f][v].event = quote.cur.time
      /\ ema[f][v].seen => ema'[f][v].seen
  BY <1>1, Blended, OneValue
<1>3. ByContract(f, v) => ema'[f][v].event = Own(quotes').cur.time
  BY <1>2 DEF Own
<1>4. ema[f][v].event \in Nat /\ ema[f][v].event <= latest
  BY OneValue
<1>5. ema'[f][v].event <= latest' /\ (InOrder => ema[f][v].event <= ema'[f][v].event)
  BY <1>1, <1>2, <1>4
<1> QED
  BY <1>2, <1>3, <1>5, OneValue DEF Forward

\* In a model that trades, a quote leaves what every feature needs priced.
LEMMA StillPriced ==
  ASSUME IInv, phase = "trade", NEW q \in Quotes, Receive(q), NEW f \in Features
  PROVE  Priced(f, quotes')
<1>1. \A p \in Quotes : Present(quotes[p].cur) => Present(quotes'[p].cur)
  BY Received DEF IInv, Present, Ids
<1>2. Present(quotes'[Contract].prev)
  BY Received, FeatureType DEF IInv, Quoted, Present, Own
<1> QED
  BY <1>1, <1>2, FeatureType DEF IInv, Quoted, Priced, Own, Ref

\* update, a quote of the contract.
LEMMA UpdateContractInv ==
  ASSUME IInv, UpdateContract
  PROVE  IInv' /\ \A f \in Features, v \in Smoothed : Forward(f, v)
<1>1. Receive(Contract) /\ Contract \in Quotes
  BY FeatureType, TibAssumption DEF UpdateContract
<1>2. phase = "trade" /\ stray = {} /\ UNCHANGED <<phase, unsetType, stray>>
  BY DEF UpdateContract
<1>3. Own(quotes').cur.time = quotes'[Contract].cur.time /\ Own(quotes').cur.id \in Ids
  BY <1>1, Received DEF IInv, Own
<1>4. ASSUME NEW f \in Features, NEW v \in Smoothed
      PROVE  Forward(f, v)
  <2>1. ema'[f][v] = Blend(ema[f][v], SelfInputs(f, v, quotes'), Own(quotes'))
    BY DEF UpdateContract, EmaAfterSelf
  <2>2. AllPresent(SelfInputs(f, v, quotes'))
    BY <1>1, <1>2, StillPriced, InputsPriced
  <2>3. ByContract(f, v) => SelfInputs(f, v, quotes') # {}
    BY Inputs DEF ByContract, Fed, OtherKinds
  <2> QED
    BY <2>1, <2>2, <2>3, <1>1, <1>2, <1>3, BlendForward
<1>5. PICK agree \in BOOLEAN :
        signals' = [f \in Features |-> IF Sets(f, agree) THEN NewSignal(f) ELSE ResetSignals[f]]
  BY DEF UpdateContract
<1>6. ASSUME NEW f \in Features
      PROVE  /\ signals'[f] \in [self : -1 .. 2, other : -1 .. 2]
             /\ signals'[f].self \in {0, Own(quotes').cur.id}
  <2>1. NewSignal(f) \in [self : -1 .. 2, other : -1 .. 2]
    <3>1. Ref(f, quotes').cur \in Msg \cup Blank
      BY <1>1, Received, FeatureType DEF IInv, Ref, Entries
    <3> QED
      BY <3>1, <1>3, TimeType DEF NewSignal, Translated, Ids
  <2> QED
    BY <1>5, <2>1 DEF NewSignal, Translated, ResetSignals, NoSignal
<1>7. forecast' = signals'
  BY <1>5, SummedIsFeatures DEF UpdateContract, CalcForecast
<1>8. TypeOK'
  <2>1. ema' \in [Features -> [Smoothed -> Value]]
    <3>1. \A f \in Features, v \in Smoothed : ema'[f][v] \in Value
      BY <1>4 DEF Forward
    <3> QED
      BY <3>1 DEF UpdateContract, EmaAfterSelf
  <2>2. signals' \in [Features -> [self : -1 .. 2, other : -1 .. 2]]
    BY <1>5, <1>6
  <2> QED
    BY <2>1, <2>2, <1>1, <1>2, <1>7, Received DEF IInv, TypeOK, Value
<1>9. Quoted'
  BY <1>1, <1>2, StillPriced, TibAssumption DEF Quoted, Priced
<1>10. SignalsBehindForecast' /\ NoEarlyForecast'
  BY <1>2, <1>6, <1>7 DEF SignalsBehindForecast, GetForecast, GetAllSignal, NoEarlyForecast, Own
<1> QED
  BY <1>1, <1>2, <1>4, <1>8, <1>9, <1>10, AllForward, StillClocked DEF IInv

\* update, a quote of another instrument.
LEMMA UpdateOtherInv ==
  ASSUME IInv, UpdateOther
  PROVE  IInv' /\ \A f \in Features, v \in Smoothed : Forward(f, v)
<1>1. PICK q \in Quotes \ {Contract} :
        /\ Receive(q)
        /\ ema' = [f \in Features |-> IF f \in HeardBy(q) THEN EmaAfterOther(f) ELSE ema[f]]
        /\ signals' = signals
  BY DEF UpdateOther, SignalsAfter
<1>2. phase = "trade" /\ stray = {} /\ UNCHANGED <<forecast, phase, unsetType, stray>>
  BY DEF UpdateOther
<1>3. Own(quotes') = Own(quotes)
  BY <1>1, Received, FeatureType, TibAssumption DEF IInv, Own
<1>4. ASSUME NEW f \in Features, NEW v \in Smoothed
      PROVE  Forward(f, v)
  <2>1. CASE f \in HeardBy(q)
    <3>1. Ref(f, quotes').cur.time = quotes'[q].cur.time
      BY <1>1, <2>1, Received DEF IInv, HeardBy, Ref
    <3>2. AllPresent(OtherInputs(f, v, quotes'))
      BY <1>1, <1>2, StillPriced, InputsPriced
    <3>3. CASE ByContract(f, v)
      <4>1. ema'[f][v] = Blend(ema[f][v], OtherInputs(f, v, quotes'), Own(quotes'))
        BY <1>1, <2>1, <3>3 DEF EmaAfterOther, ByContract
      <4>2. Own(quotes').cur.time \in 0 .. MaxTime
        BY <1>1, Received, OwnAndRef DEF IInv
      <4>3. /\ ema'[f][v] \in Value
            /\ ema'[f][v].event \in {ema[f][v].event, Own(quotes').cur.time}
            /\ ema[f][v].seen => ema'[f][v].seen
        BY <4>1, <4>2, <3>2, Blended, OneValue
      <4>4. ema[f][v].event = Own(quotes').cur.time
        BY <3>3, <1>2, <1>3, OneValue
      <4>5. ema'[f][v].event = Own(quotes').cur.time /\ ema'[f][v].event <= latest'
        BY <4>3, <4>4, <1>1, TimesAfter
      <4> QED
        BY <4>2, <4>3, <4>4, <4>5, <1>2, OneValue DEF Forward
    <3>4. CASE ~ ByContract(f, v)
      <4>1. ema'[f][v] = Blend(ema[f][v], OtherInputs(f, v, quotes'), Ref(f, quotes'))
        BY <1>1, <2>1, <3>4 DEF EmaAfterOther, ByContract
      <4> QED
        BY <4>1, <3>1, <3>2, <3>4, <1>1, <1>2, BlendForward
    <3> QED
      BY <3>3, <3>4
  <2>2. CASE f \notin HeardBy(q)
    <3>1. ema'[f][v] = ema[f][v]
      BY <1>1, <2>2
    <3>2. latest \in Nat /\ latest' \in Nat /\ latest <= latest'
      BY <1>1, Received DEF IInv
    <3> QED
      BY <3>1, <3>2, <1>2, <1>3, OneValue DEF Forward
  <2> QED
    BY <2>1, <2>2
<1>5. TypeOK'
  <2>1. ema' \in [Features -> [Smoothed -> Value]]
    <3>1. \A f \in Features, v \in Smoothed : ema'[f][v] \in Value
      BY <1>4 DEF Forward
    <3>2. \A f \in Features : ema[f] \in [Smoothed -> Value]
      BY DEF IInv, TypeOK, Value
    <3>3. ASSUME NEW f \in Features PROVE ema'[f] \in [Smoothed -> Value]
      BY <3>1, <3>2, <1>1 DEF EmaAfterOther
    <3> QED
      BY <3>3, <1>1
  <2> QED
    BY <2>1, <1>1, <1>2, Received DEF IInv, TypeOK, Value
<1>6. Quoted'
  BY <1>1, <1>2, StillPriced, TibAssumption DEF Quoted, Priced
<1>7. SignalsBehindForecast' /\ NoEarlyForecast'
  BY <1>1, <1>2, <1>3
     DEF IInv, SignalsBehindForecast, GetForecast, GetAllSignal, NoEarlyForecast, Own
<1> QED
  BY <1>1, <1>2, <1>4, <1>5, <1>6, <1>7, AllForward, StillClocked DEF IInv

\* update, where a handler was never set.
LEMMA UpdateCrashesInv ==
  ASSUME IInv, UpdateCrashes
  PROVE  IInv' /\ \A f \in Features, v \in Smoothed : Forward(f, v)
<1>1. PICK q \in stray : Receive(q)
  BY DEF UpdateCrashes
<1>2. q \in Quotes
  BY DEF IInv, TypeOK
<1>3. phase' = "crashed" /\ UNCHANGED <<ema, signals, forecast, unsetType, stray>>
  BY DEF UpdateCrashes
<1>4. ASSUME NEW f \in Features, NEW v \in Smoothed
      PROVE  Forward(f, v)
  <2>1. latest \in Nat /\ latest' \in Nat /\ latest <= latest'
    BY <1>1, <1>2, Received DEF IInv
  <2> QED
    BY <2>1, <1>3, OneValue DEF Forward
<1>5. TypeOK'
  BY <1>1, <1>2, <1>3, Received DEF IInv, TypeOK
<1>6. SignalsBehindForecast' /\ NoEarlyForecast' /\ Quoted'
  BY <1>1, <1>3 DEF IInv, SignalsBehindForecast, GetForecast, GetAllSignal, NoEarlyForecast, Quoted
<1> QED
  BY <1>1, <1>2, <1>3, <1>4, <1>5, <1>6, AllForward, StillClocked DEF IInv

\* Every step.
LEMMA NextInv == IInv /\ [Next]_vars => IInv'
<1> SUFFICES ASSUME IInv, [Next]_vars PROVE IInv'
  OBVIOUS
<1>1. CASE UNCHANGED vars
  <2>1. /\ quotes' = quotes /\ ema' = ema /\ signals' = signals /\ forecast' = forecast
        /\ phase' = phase /\ latest' = latest /\ unsetType' = unsetType /\ stray' = stray
    BY <1>1 DEF vars
  <2>2. TypeOK' /\ Clocked'
    BY <2>1 DEF IInv, TypeOK, Clocked
  <2>3. Behind' /\ Quoted'
    BY <2>1, Zenon DEF IInv, Behind, Quoted, PrepareTime, ReadyAt, IsReady, ByContract, Own, Ref
  <2>4. ReadyMeansSeen'
    BY <2>1, Zenon DEF IInv, ReadyMeansSeen
  <2>5. NoEarlyForecast' /\ SignalsBehindForecast'
    BY <2>1, Zenon DEF IInv, NoEarlyForecast, SignalsBehindForecast, GetForecast, GetAllSignal
  <2> QED
    BY <2>2, <2>3, <2>4, <2>5 DEF IInv
<1>2. CASE Next
  BY <1>2, PreProcMsgInv, UpdateContractInv, UpdateOtherInv, UpdateCrashesInv DEF Next
<1> QED
  BY <1>1, <1>2

\* The invariant holds in every reachable state.
THEOREM Invariance == Spec => []IInv
<1> QED
  BY InitInv, NextInv, PTL DEF Spec

\* Type correctness: in particular a forecast sums the signals of the features
\* and nothing beyond them.
THEOREM TypeCorrect == Spec => []TypeOK
<1>1. IInv => TypeOK
  BY DEF IInv
<1> QED
  BY <1>1, Invariance, PTL

\* Once the model says it is ready no smoothed value rests on a blank quote.
THEOREM ReadyOnPrices == Spec => []ReadyMeansSeen
<1>1. IInv => ReadyMeansSeen
  BY DEF IInv
<1> QED
  BY <1>1, Invariance, PTL

\* The forecast and the signals beside it come from the contract's latest quote.
THEOREM ForecastOfLatest == Spec => []SignalsBehindForecast
<1>1. IInv => SignalsBehindForecast
  BY DEF IInv
<1> QED
  BY <1>1, Invariance, PTL

\* A smoothed value goes back in time only for a message that is late itself.
THEOREM BackOnlyIfLate == Spec => EmaForward
<1>1. ASSUME IInv, [Next]_vars
      PROVE  [InOrder => \A f \in Features, v \in Smoothed :
                           ema'[f][v].event >= ema[f][v].event]_vars
  <2>1. CASE Next
    <3>1. \A f \in Features, v \in Smoothed : Forward(f, v)
      BY <1>1, <2>1, PreProcMsgInv, UpdateContractInv, UpdateOtherInv, UpdateCrashesInv DEF Next
    <3>2. ASSUME InOrder, NEW f \in Features, NEW v \in Smoothed
          PROVE  ema'[f][v].event >= ema[f][v].event
      BY <3>1, <3>2, <1>1, OneValue DEF Forward, Value
    <3> QED
      BY <3>2
  <2>2. CASE UNCHANGED vars
    BY <2>2
  <2> QED
    BY <1>1, <2>1, <2>2
<1> QED
  BY <1>1, Invariance, PTL DEF Spec, EmaForward
===============================================================================
