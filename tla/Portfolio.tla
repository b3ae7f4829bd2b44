------------------------------- MODULE Portfolio -------------------------------
(****************************************************************************)
(* futuremodel/include/portfolio.h as cu1_0_forecaster.cpp sets it up: one  *)
(* traded contract (quote 0), the reference instruments whose quotes its    *)
(* signals also use, one smoothed value and one signal per feature, and the *)
(* forecast, their weighted sum.                                            *)
(*                                                                          *)
(* Prices are abstracted to where they come from: a quote is its arrival    *)
(* number modulo 2, which tells it from the one before, a signal is the     *)
(* quotes it was computed from, the forecast the signals it sums.  The      *)
(* client is test/testfuture2.cpp: pre_proc_msg until it returns 1, then    *)
(* update.                                                                  *)
(****************************************************************************)
EXTENDS Integers

CONSTANTS
  QuoteSize,     (* m_quote_size: 6 in cu1_0, quote 0 is the contract        *)
  FeatureSize,   (* m_feature_size: 32                                       *)
  Feature,       (* [0..FeatureSize-1 -> [kind, other]]: what init sets up   *)
  Lanes,         (* signals one round of calc_forecast takes: 8              *)
  MaxTime        (* bound: the times messages carry                          *)

Quotes == 0 .. QuoteSize - 1
Contract == 0
Features == 0 .. FeatureSize - 1

SelfKinds == {"SELF_BIB", "SELF_DR", "SELF_OFIB", "SELF_TIB", "SELF_TIB2"}
OtherKinds == {"OTHER_BS", "OTHER_BIB", "OTHER_DR", "OTHER_TIB", "OTHER_TIB2"}

ASSUME PortfolioAssumption ==
  /\ QuoteSize \in Nat \ {0}
  /\ Lanes \in Nat \ {0}
  /\ FeatureSize \in Nat \ {0}
  /\ FeatureSize % Lanes = 0
  /\ Feature \in [Features -> [kind : SelfKinds \cup OtherKinds \cup {"UNSET"},
                               other : Quotes]]
  /\ MaxTime \in Nat \ {0}

\* cu1_0_forecaster sets up a trade imbalance of the contract, whose prepare
\* asks for two quotes of it.
ASSUME TibAssumption == \E f \in Features : Feature[f].kind \in {"SELF_TIB", "SELF_TIB2"}

-------------------------------------------------------------------------------
(* What cu1_0_forecaster sets up *)

\* init of a feature: its kind and the instrument it watches.  A feature of the
\* contract alone watches none; 0 stands for that.
SetUp(kind, other) == [kind |-> kind, other |-> other]

\* The five features of the contract, and the five of each reference
\* (INIT_CU1_OTHER).
Cu1Self == <<"SELF_BIB", "SELF_TIB2", "SELF_DR", "SELF_DR", "SELF_DR">>
Cu1Other == <<"OTHER_BS", "OTHER_DR", "OTHER_DR", "OTHER_DR", "OTHER_TIB">>

\* cu01 is quote 0, the references ni01, zn01, al01, pb01 and sn01 are 1 to 5.
\* Nobody sets up the last two of the 32 features.
Cu1Size == 32
Cu1 ==
  [f \in 0 .. Cu1Size - 1 |->
     CASE f < 5       -> SetUp(Cu1Self[f + 1], 0)
       [] f \in 5 .. 29 -> SetUp(Cu1Other[(f % 5) + 1], f \div 5)
       [] OTHER       -> SetUp("UNSET", 0)]

\* handle_self_msg_st and handle_other_msg_<alias> do not go by that: they name
\* the features, and the class that handles each, by hand.
Cu1SelfCalls ==
  [SELF_BIB  |-> {0},
   SELF_TIB2 |-> {1},
   SELF_DR   |-> {2, 3, 4},
   OTHER_BS  |-> {5, 10, 15, 20, 25},
   OTHER_DR  |-> {6, 7, 8, 11, 12, 13, 16, 17, 18, 21, 22, 23, 26, 27, 28},
   OTHER_TIB |-> {9, 14, 19, 24, 29}]
Cu1OtherCalls ==
  <<[OTHER_BS |-> {5},  OTHER_DR |-> {6, 7, 8},    OTHER_TIB |-> {9}],
    [OTHER_BS |-> {10}, OTHER_DR |-> {11, 12, 13}, OTHER_TIB |-> {14}],
    [OTHER_BS |-> {15}, OTHER_DR |-> {16, 17, 18}, OTHER_TIB |-> {19}],
    [OTHER_BS |-> {20}, OTHER_DR |-> {21, 22, 23}, OTHER_TIB |-> {24}],
    [OTHER_BS |-> {25}, OTHER_DR |-> {26, 27, 28}, OTHER_TIB |-> {29}]>>

-------------------------------------------------------------------------------
VARIABLES
  quotes,        (* m_quotes.m_msgs: the current and the previous message,   *)
                 (* and whether the volume grew between them                 *)
  ema,           (* m_ema and m_book of a feature: the time of the last      *)
                 (* event, and whether no blank quote has gone into it       *)
  signals,       (* m_signals                                                *)
  forecast,      (* m_contracts[0].m_forecast                                *)
  phase,         (* which call the client makes next                         *)
  latest,        (* history: the latest time any current quote has had       *)
  unsetType,     (* whether m_type of a feature nobody set is an enumerator  *)
  stray          (* quotes with junk where a handler pointer was not set     *)
vars == <<quotes, ema, signals, forecast, phase, latest, unsetType, stray>>

\* A message that passed sanity_check; what zeroed memory holds, and what any
\* other memory may, which can look earlier or later than every message.
Ids == {1, 2}
Msg == [id : Ids, time : 1 .. MaxTime]
Zero == [id |-> 0, time |-> 0]
Dirty == [id : {-1}, time : {1, MaxTime}]
Blank == {Zero} \cup Dirty
Entries == [cur : Msg \cup Blank, prev : Msg \cup Blank, grew : BOOLEAN]

Smoothed == {"m_ema", "m_book"}

NoSignal == [self |-> 0, other |-> 0]
NotComputed == [f \in Features |-> [self |-> -1, other |-> -1]]

\* new pf_type followed by cu1_0_forecaster::init.  Nothing zeroes the quotes,
\* the handler tables, the types of the features left over, the signals or the
\* forecast: `new' hands out memory with anything in it, zeroes too.
Init ==
  /\ quotes \in [Quotes -> [cur : Blank, prev : Blank, grew : {FALSE}]]
  /\ ema = [f \in Features |-> [v \in Smoothed |-> [event |-> 0, seen |-> FALSE]]]
  /\ signals = NotComputed
  /\ forecast = NotComputed
  /\ phase = "prepare"
  /\ latest \in 0 .. MaxTime
  /\ \A q \in Quotes : quotes[q].cur.time <= latest
  /\ \E q \in Quotes : quotes[q].cur.time = latest
  /\ unsetType \in BOOLEAN
  /\ stray \in {{}, Quotes}

-------------------------------------------------------------------------------
(* Quotes *)

\* update_quote.
UpdateQuote(q, t, grew) ==
  [quotes EXCEPT ![q] = [cur  |-> [id |-> IF quotes[q].cur.id = 1 THEN 2 ELSE 1, time |-> t],
                         prev |-> quotes[q].cur,
                         grew |-> grew]]

\* bid > 0, or mid # 0: a message is there, or something that looks like one.
Present(m) == m.id # 0

\* convert_msg and sanity_check let a message of a subscribed instrument
\* through; the others return early and change nothing.  Neither looks at the
\* time the message carries: it may be earlier than that of any quote before.
Receive(q) ==
  \E t \in 1 .. MaxTime, grew \in BOOLEAN :
    /\ quotes' = UpdateQuote(q, t, grew)
    /\ latest' = IF t > latest THEN t ELSE latest

-------------------------------------------------------------------------------
(* Features *)

Own(qs) == qs[Contract]
Ref(f, qs) == qs[Feature[f].other]

\* The quotes behind a number a handler smooths: the mid, or the quantities, of
\* the contract; those of the reference; calculatedRatio of the two mids.
OwnMid(qs) == {Own(qs).cur}
OwnBook(qs) == {Own(qs).cur}
RefMid(f, qs) == {Ref(f, qs).cur}
RefBook(f, qs) == {Ref(f, qs).cur}
Ratio(own, ref) == {own, ref}

\* What handle_self_msg and prepare of f put into a smoothed value; nothing if
\* f does not use it.
SelfInputs(f, v, qs) ==
  CASE v = "m_ema" /\ Feature[f].kind = "SELF_DR"     -> OwnMid(qs)
    [] v = "m_ema" /\ Feature[f].kind = "OTHER_DR"    -> RefMid(f, qs)
    [] v = "m_ema" /\ Feature[f].kind \in OtherKinds \ {"OTHER_DR"} ->
         Ratio(Own(qs).cur, Ref(f, qs).cur)
    [] v = "m_book" /\ Feature[f].kind = "SELF_TIB2"  -> OwnBook(qs)
    [] OTHER                                          -> {}

\* The same for handle_other_msg: the book imbalance goes by the previous quote
\* of the contract, and the book of the second trade imbalance is fed here only.
OtherInputs(f, v, qs) ==
  CASE v = "m_ema" /\ Feature[f].kind = "OTHER_DR"    -> RefMid(f, qs)
    [] v = "m_ema" /\ Feature[f].kind = "OTHER_BIB"   -> Ratio(Own(qs).prev, Ref(f, qs).cur)
    [] v = "m_ema" /\ Feature[f].kind \in {"OTHER_BS", "OTHER_TIB", "OTHER_TIB2"} ->
         Ratio(Own(qs).cur, Ref(f, qs).cur)
    [] v = "m_book" /\ Feature[f].kind = "OTHER_TIB2" -> RefBook(f, qs)
    [] OTHER                                          -> {}

AllPresent(messages) == \A m \in messages : Present(m)

\* Defect for mutation: the previous quote of the contract is not asked for.
CurrentOnly(f, qs) ==
  /\ Present(Own(qs).cur)
  /\ Feature[f].kind \in OtherKinds => Present(Ref(f, qs).cur)
  /\ Feature[f].kind = "UNSET" => unsetType

\* fm_open_feature::is_ready, what prepare() of each kind asks for.  A feature
\* that was never set up has whatever type, and quotes 0 and 0, memory holds.
IsReady(f, qs) ==
  /\ Present(Own(qs).cur)
  /\ Feature[f].kind \in {"SELF_TIB", "SELF_TIB2"} => Present(Own(qs).prev)
  /\ Feature[f].kind \in OtherKinds => Present(Ref(f, qs).cur)
  /\ Feature[f].kind = "UNSET" => unsetType

\* prepare(): m_ema.init or m_book.init with the contract's own time.  The
\* second trade imbalance updates its book instead, at the time of the reference
\* and from event 0: over so long a span fast_exp, 1 + x/256 squared eight times,
\* is no weight but a huge number.  The model keeps the event and not the value.
Prepare(f, qs) ==
  [v \in Smoothed |->
     IF v = "m_book" /\ Feature[f].kind = "OTHER_TIB2"
       THEN [event |-> Ref(f, qs).cur.time, seen |-> AllPresent({Ref(f, qs).cur})]
     ELSE IF SelfInputs(f, v, qs) # {}
       THEN [event |-> Own(qs).cur.time, seen |-> AllPresent(SelfInputs(f, v, qs))]
     ELSE ema[f][v]]

\* is_prepare runs through the features and stops at the first that is not
\* ready; those before it have been prepared, and will be again next time.
ReadyUpTo(f) == \A g \in 0 .. f : IsReady(g, quotes')

PreProcMsg ==
  /\ phase = "prepare"
  /\ \E q \in Quotes : Receive(q)
  /\ ema' = [f \in Features |-> IF ReadyUpTo(f) THEN Prepare(f, quotes') ELSE ema[f]]
  /\ phase' = IF ReadyUpTo(FeatureSize - 1) THEN "trade" ELSE "prepare"
  /\ UNCHANGED <<signals, forecast, unsetType, stray>>

-------------------------------------------------------------------------------
(* Signals *)

\* Defect for mutation: an update goes by the time of the quote before.
BlendAtPrevious(x, messages, quote) ==
  IF messages = {} THEN x
  ELSE [event |-> quote.prev.time, seen |-> x.seen /\ AllPresent(messages)]

\* fast_ema::update: the value is blended with the new mid, or quantity, by the
\* time since the last event, whichever of the two is the earlier; the event
\* becomes the quote's.
Blend(x, messages, quote) ==
  IF messages = {} THEN x
  ELSE [event |-> quote.cur.time, seen |-> x.seen /\ AllPresent(messages)]

\* What handle_self_msg does to the smoothed values.
EmaAfterSelf(f) ==
  [v \in Smoothed |-> Blend(ema[f][v], SelfInputs(f, v, quotes'), Own(quotes'))]

\* What handle_other_msg does to them.  The m_ema of the second trade imbalance
\* keeps the contract's time, everything else the time of the reference.
EmaAfterOther(f) ==
  [v \in Smoothed |->
     Blend(ema[f][v], OtherInputs(f, v, quotes'),
           IF v = "m_ema" /\ Feature[f].kind = "OTHER_TIB2"
             THEN Own(quotes') ELSE Ref(f, quotes'))]

\* handle_self_msg of the trade imbalances sets a signal only when the volume
\* grew; the first versions want time to have passed too, those of the contract
\* that two signs agree.  Otherwise the signal stays as it was.
OtherTibSets(f) == Ref(f, quotes').grew /\ Own(quotes').cur.time > Own(quotes').prev.time
OtherTib2Sets(f) == Ref(f, quotes').grew
SelfTibSets(agree) ==
  Own(quotes').grew /\ Own(quotes').cur.time > Own(quotes').prev.time /\ agree
SelfTib2Sets(agree) == Own(quotes').grew /\ agree

\* The two imbalances of the contract's book ask for quantities on both sides,
\* which sanity_check has asked for already.
SelfBibSets == Present(Own(quotes').cur)
SelfOfibSets == Present(Own(quotes').cur)

\* Whether handle_self_msg of f sets its signal.
Sets(f, agree) ==
  CASE Feature[f].kind = "SELF_BIB"   -> SelfBibSets
    [] Feature[f].kind = "SELF_OFIB"  -> SelfOfibSets
    [] Feature[f].kind = "OTHER_TIB"  -> OtherTibSets(f)
    [] Feature[f].kind = "OTHER_TIB2" -> OtherTib2Sets(f)
    [] Feature[f].kind = "SELF_TIB"   -> SelfTibSets(agree)
    [] Feature[f].kind = "SELF_TIB2"  -> SelfTib2Sets(agree)
    [] Feature[f].kind = "UNSET"      -> FALSE
    [] OTHER                          -> TRUE

\* translatedPrice, -Delta, -Bid and -Offer: a price of the reference in terms
\* of the contract's, by the smoothed ratio of the two.  A decaying return is
\* computed from the price as it is.  Either way it is the reference's quote.
Translated(f, qs) == Ref(f, qs).cur.id

\* set_signal with a value computed from the current quotes.
NewSignal(f) ==
  [self  |-> Own(quotes').cur.id,
   other |-> IF Feature[f].kind \in OtherKinds THEN Translated(f, quotes') ELSE 0]

\* memset of the self range before the contract's handler runs.
ResetSignals == [f \in Features |-> NoSignal]

\* The signals calc_forecast adds up: rounds of Lanes from the first feature.
Summed == 0 .. Lanes * ((FeatureSize + Lanes - 1) \div Lanes) - 1

\* calc_forecast.
CalcForecast == [f \in Summed |-> IF f \in Features THEN signals'[f] ELSE NoSignal]

-------------------------------------------------------------------------------
(* Messages *)

\* update, handle_msg for a quote of the contract: every feature's
\* handle_self_msg, then the forecast.
UpdateContract ==
  /\ phase = "trade"
  /\ stray = {}
  /\ Receive(Contract)
  /\ \E agree \in BOOLEAN :
       signals' = [f \in Features |->
                     IF Sets(f, agree) THEN NewSignal(f) ELSE ResetSignals[f]]
  /\ ema' = [f \in Features |-> EmaAfterSelf(f)]
  /\ forecast' = CalcForecast
  /\ UNCHANGED <<phase, unsetType, stray>>

\* handle_other_msg_<alias>: the features that watch instrument q.
HeardBy(q) == {f \in Features : Feature[f].kind \in OtherKinds /\ Feature[f].other = q}

\* Defect for mutation: the signals of the features that watch q are reset too.
ResetHeard(q) == [f \in Features |-> IF f \in HeardBy(q) THEN NoSignal ELSE signals[f]]

\* The range of signals handle_msg resets for quote q: m_self_range is set for
\* the contract only and empty for every other quote.
SignalsAfter(q) == signals

\* update for a quote of another instrument: no handler of its own, no
\* contract, and the features that watch it.
UpdateOther ==
  /\ phase = "trade"
  /\ stray = {}
  /\ \E q \in Quotes \ {Contract} :
       /\ Receive(q)
       /\ ema' = [f \in Features |->
                    IF f \in HeardBy(q) THEN EmaAfterOther(f) ELSE ema[f]]
       /\ signals' = SignalsAfter(q)
  /\ UNCHANGED <<forecast, phase, unsetType, stray>>

\* A handler pointer that was never set is called, a range that was never set
\* is cleared.
UpdateCrashes ==
  /\ phase = "trade"
  /\ \E q \in stray : Receive(q)
  /\ phase' = "crashed"
  /\ UNCHANGED <<ema, signals, forecast, unsetType, stray>>

Next ==
  \/ PreProcMsg
  \/ UpdateContract
  \/ UpdateOther
  \/ UpdateCrashes

Spec == Init /\ [][Next]_vars

\* What the client reads after a call: get_forecast and get_all_signal of
\* contract 0, whose features are all of them.
GetForecast == forecast
GetAllSignal == signals
-------------------------------------------------------------------------------
(* Properties *)

\* Types: in particular the forecast sums the signals of the features and
\* nothing beyond them.
TypeOK ==
  /\ quotes \in [Quotes -> Entries]
  /\ ema \in [Features -> [Smoothed -> [event : 0 .. MaxTime, seen : BOOLEAN]]]
  /\ signals \in [Features -> [self : -1 .. 2, other : -1 .. 2]]
  /\ forecast \in [Features -> [self : -1 .. 2, other : -1 .. 2]]
  /\ phase \in {"prepare", "trade", "crashed"}
  /\ latest \in 0 .. MaxTime
  /\ unsetType \in BOOLEAN
  /\ stray \subseteq Quotes

\* Once pre_proc_msg has returned 1, every smoothed value was started from
\* quotes that have a price, and nothing but such quotes has gone into it since.
\* A price is a number that is not zero, be it a message's or junk.  Not claimed
\* of what a handler reads besides the smoothed values: the trade imbalances with
\* a reference use that one's previous quote, which no prepare asks for.
ReadyMeansSeen ==
  phase = "trade" =>
    \A f \in Features, v \in Smoothed :
      SelfInputs(f, v, quotes) \cup OtherInputs(f, v, quotes) # {} => ema[f][v].seen

\* A forecast is made of the latest quote of the contract only: a signal is
\* zero or was computed from that quote, never left over from an earlier one.
\* And the signals get_all_signal reports are the ones the forecast that
\* get_forecast reports was computed from, whatever came in since.
SignalsBehindForecast ==
  forecast # NotComputed =>
    /\ GetForecast = GetAllSignal
    /\ \A f \in Features : forecast[f].self \in {0, quotes[Contract].cur.id}

\* The message of a step is no earlier than any current quote has ever been.
InOrder == \A q \in Quotes : quotes'[q] # quotes[q] => quotes'[q].cur.time >= latest

\* The time of a smoothed value goes back only for a message that is itself late,
\* earlier than a quote the model has already seen.  Quotes of several instruments
\* feed one value, by the contract's time in prepare, by the sender's in update,
\* and one of them by the contract's throughout; a mix-up of these would let a
\* message that comes in order meet a value from its future, where the weight of
\* the past exceeds one.  Late messages do that, and nothing in the code asks.
EmaForward ==
  [][InOrder => \A f \in Features, v \in Smoothed : ema'[f][v].event >= ema[f][v].event]_vars

\* The comment above pre_proc_msg, "initialises the opening model; 0: failed,
\* other: success": after success every instrument the model refers to has
\* been quoted.
PreProcTruthful ==
  phase = "trade" =>
    \A f \in Features, v \in Smoothed :
      \A m \in SelfInputs(f, v, quotes) : m.id > 0
===============================================================================
