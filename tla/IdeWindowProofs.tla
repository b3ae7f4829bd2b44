----------------------------- MODULE IdeWindowProofs -----------------------------
(****************************************************************************)
(* Proofs about what the IDE does with windows: PythonHelper, for any       *)
(* addresses and any numbers of proxies and references, and at the end      *)
(* TwoSidedWidget, for turns of any number of steps.                        *)
(****************************************************************************)
EXTENDS PythonHelper, TwoSidedWidget, TLAPS

\* As long as what the program does is defined no object has ended.
StillThere == defined => \A o \in Objects : refs[o] > 0

Inv == TypeOK /\ ErrorsReported /\ RedirectRestores /\ LossesMatch /\ StillThere

ProxyType == [win : Numbers, slot : Methods \cup {NoName}]

\* Replacing an element of a sequence.
LEMMA Replaced ==
  ASSUME NEW S, NEW s \in Seq(S), NEW p \in DOMAIN s, NEW x \in S
  PROVE  [s EXCEPT ![p] = x] \in Seq(S)
OBVIOUS

\* Every proxy has a number and a slot.
LEMMA ProxyTyped ==
  ASSUME TypeOK
  PROVE  /\ proxies \in Seq(ProxyType)
         /\ \A p \in Proxies : /\ proxies[p] \in ProxyType
                              /\ proxies[p].win \in Numbers
                              /\ proxies[p].slot \in Methods \cup {NoName}
<1>1. proxies \in Seq(ProxyType)
  BY DEF TypeOK, ProxyType
<1>2. \A p \in Proxies : proxies[p] \in ProxyType
  BY <1>1 DEF Proxies
<1> QED
  BY <1>1, <1>2 DEF ProxyType

LEMMA InitInv == Init => Inv
<1> SUFFICES ASSUME Init PROVE Inv
  OBVIOUS
<1> USE DEF Init, WindowInit
<1>1. Proxy(NullWindow) \in ProxyType
  BY DEF Proxy, ProxyType, Numbers
<1>2. proxies \in Seq(ProxyType)
  BY <1>1
<1>3. /\ refs \in [Objects -> Nat] /\ helpers \in Nat
      /\ Lost("sys") = 0 /\ Lost("ERROR") = 0 /\ Lost("True") = 0
  BY RefsAssumption DEF Objects, Lost, Owed
<1>4. TypeOK
  <2>1. /\ err \in BOOLEAN /\ defined \in BOOLEAN
        /\ unchecked \in BOOLEAN /\ meddled \in BOOLEAN
    OBVIOUS
  <2>2. /\ open \subseteq Addrs /\ funcs \in [Numbers -> Nat]
        /\ running \in {"no", "exec", "first", "second"}
        /\ stdout \in {"orig", "redirect", "user"}
        /\ saved \subseteq {"orig", "redirect", "user"}
    OBVIOUS
  <2> QED
    BY <1>2, <1>3, <2>1, <2>2 DEF TypeOK, ProxyType
<1>5. LossesMatch /\ StillThere
  <2>1. LossesMatch
    BY <1>3 DEF LossesMatch
  <2>2. \A o \in Objects : refs[o] > 0
    BY RefsAssumption DEF Objects
  <2> QED
    BY <2>1, <2>2 DEF StillThere
<1> QED
  BY <1>4, <1>5 DEF Inv, ErrorsReported, RedirectRestores

\* A statement about windows leaves everything but the proxies, the pending error
\* and what is defined; whatever numbers are written, the proxies keep their type.
LEMMA StatementKeeps == Inv /\ Windowing => Inv'
<1> SUFFICES ASSUME Inv, Windowing PROVE Inv'
  OBVIOUS
<1>1. /\ UNCHANGED <<registry, running, unchecked, helpers, streams>>
      /\ running # "no" /\ Statement
  BY DEF Windowing, Statement
<1>2. ErrorsReported' /\ RedirectRestores' /\ LossesMatch' /\ StillThere'
  <2>1. ErrorsReported' /\ RedirectRestores' /\ LossesMatch'
    BY <1>1 DEF Inv, ErrorsReported, RedirectRestores, LossesMatch, Lost, Owed, streams
  <2>2. defined
    BY DEF Windowing
  <2> QED
    BY <1>1, <2>1, <2>2 DEF Inv, StillThere, streams
<1>3. ASSUME NEW p \in Proxies, NEW name \in Methods, LookUp(p, name)
      PROVE  proxies' \in Seq(ProxyType)
  <2>1. [proxies[p] EXCEPT !.slot = name] \in ProxyType
    BY ProxyTyped DEF Inv, ProxyType
  <2>2. proxies' = [proxies EXCEPT ![p] = [proxies[p] EXCEPT !.slot = name]]
    BY <1>3 DEF LookUp
  <2> QED
    BY <2>1, <2>2, ProxyTyped, Replaced DEF Inv, Proxies
<1>4. ASSUME NEW p \in Proxies, NEW n \in Numbers, WriteId(p, n)
      PROVE  proxies' \in Seq(ProxyType)
  <2>1. [proxies[p] EXCEPT !.win = n] \in ProxyType
    BY ProxyTyped DEF Inv, ProxyType
  <2>2. proxies' = [proxies EXCEPT ![p] = [proxies[p] EXCEPT !.win = n]]
    BY <1>4 DEF WriteId
  <2> QED
    BY <2>1, <2>2, ProxyTyped, Replaced DEF Inv, Proxies
<1>5. ASSUME NEW n \in Numbers, MakeProxy(n)
      PROVE  proxies' \in Seq(ProxyType)
  <2>1. Proxy(n) \in ProxyType
    BY DEF Proxy, ProxyType
  <2> QED
    BY <1>5, <2>1, ProxyTyped DEF MakeProxy, Inv
<1>6. ASSUME NEW p \in Proxies, CallKept(p)
      PROVE  proxies' \in Seq(ProxyType)
  BY <1>6, ProxyTyped DEF CallKept, Inv
<1>7. proxies' \in Seq(ProxyType)
  BY <1>1, <1>3, <1>4, <1>5, <1>6 DEF Statement, Call
<1>8. err' \in BOOLEAN /\ defined' \in BOOLEAN
  <2>1. CASE UNCHANGED <<err, defined>>
    BY <2>1 DEF Inv, TypeOK
  <2>2. ASSUME NEW n, NEW name, WindowCall(n, name)
        PROVE  err' \in BOOLEAN /\ defined' \in BOOLEAN
    <3>1. err' \in BOOLEAN
      BY <2>2 DEF WindowCall, Inv, TypeOK
    <3>2. defined' \in BOOLEAN
      BY <2>2 DEF WindowCall
    <3> QED
      BY <3>1, <3>2
  <2>3. UNCHANGED <<err, defined>> \/ \E n, name : WindowCall(n, name)
    BY <1>1 DEF Statement, Call, CallKept
  <2> QED
    BY <2>1, <2>2, <2>3
<1>9. TypeOK'
  BY <1>1, <1>7, <1>8 DEF Inv, TypeOK, ProxyType, registry, streams
<1> QED
  BY <1>2, <1>9 DEF Inv

\* Giving references away, one of each object at most.
LEMMA LoseCounts ==
  ASSUME TypeOK, StillThere, defined,
         NEW lost \in SUBSET Objects, Lose(lost), helpers' = helpers
  PROVE  /\ refs' \in [Objects -> Nat] /\ defined' \in BOOLEAN
         /\ StillThere'
         /\ \A o \in Objects : Lost(o)' = Lost(o) + IF o \in lost THEN 1 ELSE 0
<1>1. /\ refs' = [o \in Objects |-> refs[o] - (IF o \in lost THEN 1 ELSE 0)]
      /\ defined' = \A o \in Objects : refs'[o] > 0
  BY DEF Lose
<1>2. \A o \in Objects : refs[o] \in Nat /\ refs[o] > 0 /\ Refs[o] \in Nat
  BY RefsAssumption DEF TypeOK, StillThere
<1>3. \A o \in Objects : refs'[o] = refs[o] - (IF o \in lost THEN 1 ELSE 0)
  BY <1>1
<1>4. refs' \in [Objects -> Nat]
  BY <1>1, <1>2
<1>5. helpers \in Nat
  BY DEF TypeOK
<1>6. \A o \in Objects : Lost(o)' = Lost(o) + IF o \in lost THEN 1 ELSE 0
  BY <1>2, <1>3, <1>5 DEF Lost, Owed
<1> QED
  BY <1>1, <1>4, <1>6 DEF StillThere

\* A change of the streams keeps what is said of them and of the references.
LEMMA StreamKeeps ==
  ASSUME Inv, defined, Redirect \/ Reset, UNCHANGED windows
  PROVE  /\ stdout' \in {"orig", "redirect", "user"}
         /\ saved' \subseteq {"orig", "redirect", "user"}
         /\ refs' \in [Objects -> Nat] /\ defined' \in BOOLEAN
         /\ meddled' = meddled
         /\ RedirectRestores' /\ LossesMatch' /\ StillThere'
<1>1. /\ stdout \in {"orig", "redirect", "user"}
      /\ saved \subseteq {"orig", "redirect", "user"}
      /\ TypeOK /\ RedirectRestores /\ LossesMatch /\ StillThere
      /\ helpers' = helpers
  BY DEF Inv, TypeOK, windows
<1>2. /\ Lost("sys") \in Int /\ Lost("ERROR") \in Int /\ Lost("True") \in Int
  BY <1>1, RefsAssumption DEF Lost, Owed, Objects, TypeOK
<1>3. ASSUME Lose({"True"}), UNCHANGED <<saved, stdout, meddled>>
      PROVE  /\ refs' \in [Objects -> Nat] /\ defined' \in BOOLEAN
             /\ RedirectRestores' /\ LossesMatch' /\ StillThere'
  <2>1. /\ refs' \in [Objects -> Nat] /\ defined' \in BOOLEAN /\ StillThere'
        /\ \A o \in Objects : Lost(o)' = Lost(o) + IF o \in {"True"} THEN 1 ELSE 0
    BY <1>1, <1>3, LoseCounts DEF Objects
  <2>2. /\ Lost("sys")' = Lost("sys") /\ Lost("ERROR")' = Lost("ERROR")
        /\ Lost("True")' = Lost("True") + 1
    BY <1>2, <2>1 DEF Objects
  <2>3. LossesMatch'
    BY <1>1, <1>2, <1>3, <2>2 DEF LossesMatch
  <2> QED
    BY <1>1, <1>3, <2>1, <2>3 DEF RedirectRestores
<1>4. CASE Redirect /\ saved = {}
  <2>1. Lose({"True", "sys", "ERROR"}) /\ saved' = {stdout} /\ stdout' = "redirect"
        /\ meddled' = meddled
    BY <1>4 DEF Redirect
  <2>2. /\ refs' \in [Objects -> Nat] /\ defined' \in BOOLEAN /\ StillThere'
        /\ \A o \in Objects :
             Lost(o)' = Lost(o) + IF o \in {"True", "sys", "ERROR"} THEN 1 ELSE 0
    BY <1>1, <2>1, LoseCounts DEF Objects
  <2>3. /\ Lost("sys")' = Lost("sys") + 1 /\ Lost("ERROR")' = Lost("ERROR") + 1
        /\ Lost("True")' = Lost("True") + 1
    BY <2>2 DEF Objects
  <2>4. LossesMatch'
    BY <1>1, <1>2, <1>4, <2>1, <2>3 DEF LossesMatch
  <2>5. RedirectRestores'
    BY <1>1, <1>4, <2>1 DEF RedirectRestores
  <2> QED
    BY <1>1, <2>1, <2>2, <2>4, <2>5
<1>5. CASE Reset /\ saved # {}
  <2>1. Lose({"True", "sys"}) /\ saved' = {} /\ stdout' \in saved
        /\ meddled' = meddled
    BY <1>5 DEF Reset
  <2>2. /\ refs' \in [Objects -> Nat] /\ defined' \in BOOLEAN /\ StillThere'
        /\ \A o \in Objects :
             Lost(o)' = Lost(o) + IF o \in {"True", "sys"} THEN 1 ELSE 0
    BY <1>1, <2>1, LoseCounts DEF Objects
  <2>3. /\ Lost("sys")' = Lost("sys") + 1 /\ Lost("ERROR")' = Lost("ERROR")
        /\ Lost("True")' = Lost("True") + 1
    BY <1>2, <2>2 DEF Objects
  <2>4. LossesMatch'
    BY <1>1, <1>2, <1>5, <2>1, <2>3 DEF LossesMatch
  <2>5. RedirectRestores'
    BY <1>1, <1>5, <2>1 DEF RedirectRestores
  <2> QED
    BY <1>1, <2>1, <2>2, <2>4, <2>5
<1>6. CASE (Redirect /\ saved # {}) \/ (Reset /\ saved = {})
  <2>1. Lose({"True"}) /\ UNCHANGED <<saved, stdout, meddled>>
    BY <1>6 DEF Redirect, Reset
  <2> QED
    BY <1>1, <1>3, <2>1
<1> QED
  BY <1>4, <1>5, <1>6

\* load takes a reference from one of the truth values only.
LEMMA LoadKeeps ==
  ASSUME Inv, defined, LoadReturns, UNCHANGED windows
  PROVE  /\ refs' \in [Objects -> Nat] /\ defined' \in BOOLEAN /\ err' \in BOOLEAN
         /\ UNCHANGED <<stdout, saved, meddled>>
         /\ LossesMatch' /\ StillThere'
<1>1. TypeOK /\ LossesMatch /\ StillThere /\ helpers' = helpers
      /\ UNCHANGED <<stdout, saved, meddled>>
  BY DEF Inv, windows, LoadReturns
<1>2. PICK answer \in {"True", "False"} : Lose({answer})
  BY DEF LoadReturns
<1>3. err' \in BOOLEAN
  BY <1>1 DEF LoadReturns, TypeOK
<1>4. /\ refs' \in [Objects -> Nat] /\ defined' \in BOOLEAN /\ StillThere'
      /\ \A o \in Objects : Lost(o)' = Lost(o) + IF o \in {answer} THEN 1 ELSE 0
  BY <1>1, <1>2, LoseCounts DEF Objects
<1>5. /\ Lost("sys") \in Int /\ Lost("ERROR") \in Int /\ Lost("True") \in Int
  BY <1>1, RefsAssumption DEF Lost, Owed, Objects, TypeOK
<1>6. /\ Lost("sys")' = Lost("sys") /\ Lost("ERROR")' = Lost("ERROR")
      /\ Lost("True")' >= Lost("True") /\ Lost("True")' \in Int
  BY <1>2, <1>4, <1>5 DEF Objects
<1> QED
  BY <1>1, <1>3, <1>4, <1>5, <1>6 DEF LossesMatch

\* The steps that change neither windows nor streams.
LEMMA CommandKeeps ==
  ASSUME Inv, UNCHANGED <<windows, defined, streams>>, err' \in BOOLEAN,
         unchecked' \in BOOLEAN, running' \in {"no", "exec", "first", "second"},
         ErrorsReported'
  PROVE  Inv'
<1>1. TypeOK'
  BY DEF Inv, TypeOK, windows, registry, streams
<1>2. RedirectRestores' /\ LossesMatch' /\ StillThere'
  BY DEF Inv, RedirectRestores, LossesMatch, StillThere, Lost, Owed, windows, streams
<1> QED
  BY <1>1, <1>2 DEF Inv

\* What has changed the streams, the references and the pending error only.
LEMMA StreamsGiveInv ==
  ASSUME Inv, UNCHANGED windows,
         stdout' \in {"orig", "redirect", "user"}, saved' \subseteq {"orig", "redirect", "user"},
         refs' \in [Objects -> Nat], defined' \in BOOLEAN, meddled' \in BOOLEAN,
         err' \in BOOLEAN, unchecked' \in BOOLEAN,
         running' \in {"no", "exec", "first", "second"},
         ErrorsReported', RedirectRestores', LossesMatch', StillThere'
  PROVE  Inv'
BY DEF Inv, TypeOK, windows, registry

LEMMA StepInv == Inv /\ [Next]_vars => Inv'
<1> SUFFICES ASSUME Inv, [Next]_vars PROVE Inv'
  OBVIOUS
<1>1. ASSUME NEW command \in {"exec", "first"}, Begin(command) PROVE Inv'
  BY <1>1, CommandKeeps DEF Begin, Idle, ErrorsReported, Inv, TypeOK
<1>2. CASE DoesNotCompile
  BY <1>2, CommandKeeps DEF DoesNotCompile, CheckError, ErrorsReported, Inv, TypeOK
<1>3. CASE InterpreterOnce
  BY <1>3, CommandKeeps DEF InterpreterOnce, ErrorsReported, Inv, TypeOK
<1>4. CASE Windowing
  BY <1>4, StatementKeeps
<1>5. CASE Streaming
  <2>1. /\ UNCHANGED <<windows, running, unchecked>>
        /\ defined /\ running # "no"
        /\ ErrorsReported'
        /\ unchecked' \in BOOLEAN /\ running' \in {"no", "exec", "first", "second"}
        /\ err \in BOOLEAN /\ meddled \in BOOLEAN
    BY <1>5 DEF Streaming, ErrorsReported, Inv, TypeOK
  <2>2. CASE (Redirect \/ Reset) /\ UNCHANGED err
    BY <2>1, <2>2, StreamKeeps, StreamsGiveInv
  <2>3. CASE LoadReturns
    <3>1. /\ refs' \in [Objects -> Nat] /\ defined' \in BOOLEAN /\ err' \in BOOLEAN
          /\ UNCHANGED <<stdout, saved, meddled>>
          /\ LossesMatch' /\ StillThere'
      BY <2>1, <2>3, LoadKeeps
    <3>2. /\ RedirectRestores' /\ stdout' \in {"orig", "redirect", "user"}
          /\ saved' \subseteq {"orig", "redirect", "user"}
      BY <3>1 DEF Inv, TypeOK, RedirectRestores
    <3> QED
      BY <2>1, <3>1, <3>2, StreamsGiveInv
  <2>4. CASE stdout' = "user" /\ meddled' = TRUE /\ UNCHANGED <<saved, refs, defined, err>>
    <3>1. LossesMatch' /\ StillThere' /\ RedirectRestores'
      BY <2>1, <2>4
         DEF Inv, LossesMatch, StillThere, RedirectRestores, Lost, Owed, windows
    <3>2. /\ refs' \in [Objects -> Nat] /\ defined' \in BOOLEAN
          /\ saved' \subseteq {"orig", "redirect", "user"}
      BY <2>4 DEF Inv, TypeOK
    <3> QED
      BY <2>1, <2>4, <3>1, <3>2, StreamsGiveInv
  <2> QED
    BY <1>5, <2>2, <2>3, <2>4 DEF Streaming
<1>6. CASE Swallow
  BY <1>6, CommandKeeps DEF Swallow, ErrorsReported, Inv, TypeOK
<1>7. CASE End
  BY <1>7, CommandKeeps DEF End, CheckError, ErrorsReported, Inv, TypeOK
<1>8. CASE EndFirst
  BY <1>8, CommandKeeps DEF EndFirst, ErrorsReported, Inv, TypeOK
<1>9. CASE EndSecond
  BY <1>9, CommandKeeps DEF EndSecond, ErrorsReported, Inv, TypeOK
<1>10. CASE CallModel
  <2>1. CASE UNCHANGED <<defined, streams>>
    BY <1>10, <2>1, CommandKeeps DEF CallModel, CheckError, ErrorsReported, Inv, TypeOK
  <2>2. CASE Redirect \/ Reset
    <3>1. /\ UNCHANGED <<windows, running>> /\ defined
          /\ err' = FALSE /\ unchecked' = FALSE
      BY <1>10 DEF CallModel, CheckError, Idle
    <3>2. /\ ErrorsReported' /\ running' \in {"no", "exec", "first", "second"}
          /\ meddled \in BOOLEAN
      BY <3>1 DEF ErrorsReported, Inv, TypeOK
    <3> QED
      BY <2>2, <3>1, <3>2, StreamKeeps, StreamsGiveInv
  <2> QED
    BY <1>10, <2>1, <2>2 DEF CallModel
<1>11. ASSUME NEW a \in Addrs, NewWindow(a) PROVE Inv'
  <2>1. /\ proxies' = Append(proxies, Proxy(a)) /\ funcs' = [funcs EXCEPT ![a] = @ + 1]
        /\ open' = open \cup {a} /\ err' = FALSE /\ unchecked' = FALSE
        /\ helpers' = helpers + 1 /\ refs' = [refs EXCEPT !["sys"] = @ + 1]
        /\ defined /\ UNCHANGED <<defined, running, stdout, saved, meddled>>
    BY <1>11 DEF NewWindow, OpenWindow, CheckError, Idle
  <2>2. proxies' \in Seq(ProxyType)
    <3>1. Proxy(a) \in ProxyType
      BY DEF Proxy, ProxyType, Numbers
    <3> QED
      BY <2>1, <3>1, ProxyTyped DEF Inv
  <2>3. funcs' \in [Numbers -> Nat]
    <3>1. funcs \in [Numbers -> Nat] /\ a \in Numbers
      BY DEF Inv, TypeOK, Numbers
    <3> QED
      BY <2>1, <3>1
  <2>4. /\ refs \in [Objects -> Nat] /\ helpers \in Nat /\ Refs \in [Objects -> Nat]
        /\ StillThere
    BY RefsAssumption DEF Inv, TypeOK
  <2>5. /\ refs' \in [Objects -> Nat] /\ refs'["sys"] = refs["sys"] + 1
        /\ \A o \in Objects : o # "sys" => refs'[o] = refs[o]
    BY <2>1, <2>4 DEF Objects
  <2>6. TypeOK'
    <3>1. /\ err' \in BOOLEAN /\ defined' \in BOOLEAN
          /\ unchecked' \in BOOLEAN /\ meddled' \in BOOLEAN
      BY <2>1 DEF Inv, TypeOK
    <3>2. /\ open' \subseteq Addrs /\ helpers' \in Nat
          /\ running' \in {"no", "exec", "first", "second"}
          /\ stdout' \in {"orig", "redirect", "user"}
          /\ saved' \subseteq {"orig", "redirect", "user"}
      BY <2>1, <2>4 DEF Inv, TypeOK
    <3> QED
      BY <2>2, <2>3, <2>5, <3>1, <3>2 DEF TypeOK, ProxyType
  <2>7. ErrorsReported' /\ RedirectRestores'
    BY <2>1 DEF Inv, ErrorsReported, RedirectRestores
  <2>8. \A o \in Objects : Lost(o)' = Lost(o)
    <3> SUFFICES ASSUME NEW o \in Objects PROVE Lost(o)' = Lost(o)
      OBVIOUS
    <3>1. refs[o] \in Nat /\ Refs[o] \in Nat /\ helpers' = helpers + 1
      BY <2>1, <2>4
    <3>2. CASE o = "sys"
      BY <2>4, <2>5, <3>1, <3>2 DEF Lost, Owed
    <3>3. CASE o # "sys"
      BY <2>4, <2>5, <3>1, <3>3 DEF Lost, Owed
    <3> QED
      BY <3>2, <3>3
  <2>9. LossesMatch'
    <3>1. /\ Lost("sys")' = Lost("sys") /\ Lost("ERROR")' = Lost("ERROR")
          /\ Lost("True")' = Lost("True")
      BY <2>8 DEF Objects
    <3> QED
      BY <2>1, <3>1 DEF Inv, LossesMatch
  <2>10. StillThere'
    <3>1. \A o \in Objects : refs[o] > 0 /\ refs[o] \in Nat
      BY <2>1, <2>4 DEF StillThere
    <3> QED
      BY <2>5, <3>1 DEF StillThere
  <2> QED
    BY <2>6, <2>7, <2>9, <2>10 DEF Inv
<1>12. ASSUME NEW a \in Addrs, RemoveWindow(a) PROVE Inv'
  <2>1. /\ open' = open \ {a}
        /\ UNCHANGED <<funcs, proxies, err, defined, running, unchecked, helpers, streams>>
    BY <1>12 DEF RemoveWindow, CloseWindow
  <2>2. TypeOK'
    BY <2>1 DEF Inv, TypeOK, streams
  <2> QED
    BY <2>1, <2>2
       DEF Inv, ErrorsReported, RedirectRestores, LossesMatch, StillThere, Lost, Owed, streams
<1>13. CASE UNCHANGED vars
  BY <1>13, CommandKeeps DEF vars, Inv, TypeOK, ErrorsReported
<1> QED
  BY <1>1, <1>2, <1>3, <1>4, <1>5, <1>6, <1>7, <1>8, <1>9, <1>10, <1>11, <1>12, <1>13
     DEF Next

\* The invariant of the interpreter holds in every reachable state, whatever
\* numbers a program writes into its proxies.
THEOREM Invariance == Spec => []Inv
BY InitInv, StepInv, PTL DEF Spec

\* The variables have their types in every reachable state.
THEOREM TypeCorrect == Spec => []TypeOK
<1>1. Inv => TypeOK
  BY DEF Inv
<1> QED
  BY Invariance, <1>1, PTL

\* No command but interpreter leaves an error for another window's command.
THEOREM NoErrorCarried == Spec => []ErrorsReported
<1>1. Inv => ErrorsReported
  BY DEF Inv
<1> QED
  BY Invariance, <1>1, PTL

\* Redirecting and resetting, in any order and number, gives the original back.
THEOREM StreamComesBack == Spec => []RedirectRestores
<1>1. Inv => RedirectRestores
  BY DEF Inv
<1> QED
  BY Invariance, <1>1, PTL

\* A pair of calls costs sys two references and the integer one, whoever makes
\* them, however many helpers there are and whatever the objects had before.
THEOREM CostOfRedirecting == Spec => []LossesMatch
<1>1. Inv => LossesMatch
  BY DEF Inv
<1> QED
  BY Invariance, <1>1, PTL

-------------------------------------------------------------------------------
(* The two-sided sheet *)

\* No click without which a timer is due or the sheet has moved.
FromClicks ==
  /\ timers <= clicks
  /\ delta = 0 => timers = 0
  /\ clicks = 0 => current = 0 /\ angle = 0

\* On the edge the sheet goes on the way it came.
ThroughEdge == angle = Quarter => delta = IF current = 0 THEN -1 ELSE 1

\* Beyond its side the sheet is turned on only by timers that are due, and no
\* new one is asked for.
Overshoot ==
  /\ delta = 1 /\ angle >= 2 * Quarter => angle + timers < 2 * Quarter + clicks
  /\ delta = -1 /\ angle <= 0 => angle - timers > 0 - clicks

FlipInv ==
  /\ FlipTypeOK /\ FromClicks /\ Facing
  /\ edgeHit \/ (ThroughEdge /\ Overshoot)

\* The sheet just made lies flat.
LEMMA FlipBegins == FlipInit => FlipInv
<1> SUFFICES ASSUME FlipInit PROVE FlipInv
  OBVIOUS
<1>1. /\ current = 0 /\ angle = 0 /\ delta = 0 /\ timers = 0 /\ clicks = 0
      /\ present \in BOOLEAN /\ ideAlive \in BOOLEAN /\ edgeHit \in BOOLEAN
  BY DEF FlipInit
<1>2. Quarter \in Nat \ {0} /\ 0 \in 0 .. MaxClicks
  BY TurnAssumption
<1> QED
  BY <1>1, <1>2
     DEF FlipInv, FlipTypeOK, FromClicks, Facing, ThroughEdge, Overshoot

\* A double click turns the sheet the way of the hidden side, by a step.
LEMMA ClickKeeps == FlipInv /\ Click => FlipInv'
<1> SUFFICES ASSUME FlipInv, Click PROVE FlipInv'
  OBVIOUS
<1>1. /\ FlipTypeOK /\ FromClicks /\ Quarter \in Nat \ {0} /\ MaxClicks \in Nat
      /\ clicks' = clicks + 1 /\ clicks < MaxClicks
      /\ edgeHit' = (edgeHit \/ angle = Quarter)
  BY TurnAssumption DEF FlipInv, Click
<1>2. /\ current \in {0, 1} /\ angle \in Int /\ timers \in Nat /\ clicks \in Nat
  BY <1>1 DEF FlipTypeOK
<1>3. /\ delta' = IF current = 0 THEN 1 ELSE -1
      /\ angle' = angle + delta'
      /\ current' = IF angle' = Quarter THEN 1 - current ELSE current
      /\ timers' = timers + (IF Turning(current', angle') THEN 1 ELSE 0)
  BY DEF Click, Animate, SidesChange, Other
<1>4. timers' \in {timers, timers + 1}
  BY <1>2, <1>3
<1>5. FlipTypeOK'
  BY <1>1, <1>2, <1>3, <1>4 DEF FlipTypeOK, Click
<1>6. FromClicks'
  BY <1>1, <1>2, <1>3, <1>4 DEF FromClicks
<1>7. ASSUME ~edgeHit' PROVE Facing' /\ ThroughEdge' /\ Overshoot'
  <2>1. /\ angle # Quarter
        /\ IF current = 0 THEN angle <= Quarter ELSE angle >= Quarter
        /\ clicks > 0 => angle > 0 - clicks /\ angle < 2 * Quarter + clicks
        /\ clicks = 0 => current = 0 /\ angle = 0
    BY <1>1, <1>7 DEF FlipInv, Facing, FromClicks
  <2>2. CASE current = 0
    <3>1. delta' = 1 /\ angle' = angle + 1 /\ angle' <= Quarter
      BY <1>1, <1>2, <1>3, <2>1, <2>2
    <3> QED
      BY <1>1, <1>2, <1>3, <2>1, <2>2, <3>1 DEF Facing, ThroughEdge, Overshoot
  <2>3. CASE current = 1
    <3>1. delta' = -1 /\ angle' = angle - 1 /\ angle' >= Quarter
      BY <1>1, <1>2, <1>3, <2>1, <2>3
    <3> QED
      BY <1>1, <1>2, <1>3, <2>1, <2>3, <3>1 DEF Facing, ThroughEdge, Overshoot
  <2> QED
    BY <1>2, <2>2, <2>3
<1> QED
  BY <1>5, <1>6, <1>7 DEF FlipInv, Facing

\* A timer goes on with the turn, and is asked for again before its end only.
LEMMA TickKeeps == FlipInv /\ Tick => FlipInv'
<1> SUFFICES ASSUME FlipInv, Tick PROVE FlipInv'
  OBVIOUS
<1>1. /\ FlipTypeOK /\ FromClicks /\ Quarter \in Nat \ {0} /\ MaxClicks \in Nat
      /\ timers > 0 /\ UNCHANGED <<present, ideAlive, clicks, edgeHit>>
  BY TurnAssumption DEF FlipInv, Tick
<1>2. /\ current \in {0, 1} /\ angle \in Int /\ timers \in Nat /\ clicks \in Nat
      /\ delta \in {-1, 1} /\ clicks > 0
  BY <1>1 DEF FlipTypeOK, FromClicks
<1>3. /\ delta' = delta /\ angle' = angle + delta
      /\ current' = IF angle' = Quarter THEN 1 - current ELSE current
      /\ timers' = timers - 1 + (IF Turning(current', angle') THEN 1 ELSE 0)
  BY DEF Tick, Animate, SidesChange, Other
<1>4. timers' \in {timers - 1, timers} /\ timers' \in Nat
  BY <1>1, <1>2, <1>3
<1>5. FlipTypeOK'
  BY <1>1, <1>2, <1>3, <1>4 DEF FlipTypeOK
<1>6. FromClicks'
  BY <1>1, <1>2, <1>3, <1>4 DEF FromClicks
<1>7. ASSUME ~edgeHit PROVE Facing' /\ ThroughEdge' /\ Overshoot'
  <2>1. /\ IF current = 0 THEN angle <= Quarter ELSE angle >= Quarter
        /\ angle > 0 - clicks /\ angle < 2 * Quarter + clicks
        /\ angle = Quarter => delta = IF current = 0 THEN -1 ELSE 1
        /\ delta = 1 /\ angle >= 2 * Quarter => angle + timers < 2 * Quarter + clicks
        /\ delta = -1 /\ angle <= 0 => angle - timers > 0 - clicks
        /\ timers <= clicks
    BY <1>1, <1>2, <1>7 DEF FlipInv, Facing, ThroughEdge, Overshoot, FromClicks
  <2>2. /\ IF current' = 0 THEN angle' <= Quarter ELSE angle' >= Quarter
        /\ angle' = Quarter => delta' = IF current' = 0 THEN -1 ELSE 1
    BY <1>1, <1>2, <1>3, <2>1
  <2>3. /\ angle' > 0 - clicks /\ angle' < 2 * Quarter + clicks
    BY <1>1, <1>2, <1>3, <2>1
  <2>4. ASSUME delta = 1, angle' >= 2 * Quarter
        PROVE  angle' + timers' < 2 * Quarter + clicks
    <3>1. ~Turning(current', angle')
      BY <1>1, <1>2, <1>3, <2>2, <2>4 DEF Turning
    <3>2. timers' = timers - 1 /\ angle' = angle + 1
      BY <1>2, <1>3, <2>4, <3>1
    <3> QED
      BY <1>1, <1>2, <2>1, <2>4, <3>2
  <2>5. ASSUME delta = -1, angle' <= 0
        PROVE  angle' - timers' > 0 - clicks
    <3>1. ~Turning(current', angle')
      BY <1>1, <1>2, <1>3, <2>2, <2>5 DEF Turning
    <3>2. timers' = timers - 1 /\ angle' = angle - 1
      BY <1>2, <1>3, <2>5, <3>1
    <3> QED
      BY <1>1, <1>2, <2>1, <2>5, <3>2
  <2> QED
    BY <1>1, <1>3, <2>2, <2>3, <2>4, <2>5 DEF Facing, ThroughEdge, Overshoot
<1> QED
  BY <1>1, <1>5, <1>6, <1>7 DEF FlipInv, Facing

\* Every step of the sheet keeps it.
LEMMA FlipStep == FlipInv /\ [FlipNext]_flipVars => FlipInv'
<1> SUFFICES ASSUME FlipInv, [FlipNext]_flipVars PROVE FlipInv'
  OBVIOUS
<1>1. ASSUME UNCHANGED <<sheet, timers, clicks, edgeHit>>,
             present' \in BOOLEAN, ideAlive' \in BOOLEAN
      PROVE  FlipInv'
  BY <1>1 DEF sheet, FlipInv, FlipTypeOK, FromClicks, Facing, ThroughEdge, Overshoot
<1>2. CASE TickGone \/ Clear \/ UNCHANGED flipVars
  <2>1. /\ UNCHANGED <<sheet, timers, clicks, edgeHit>>
        /\ present' \in BOOLEAN /\ ideAlive' \in BOOLEAN
    BY <1>2 DEF TickGone, Clear, flipVars, FlipInv, FlipTypeOK
  <2> QED
    BY <1>1, <2>1
<1> QED
  BY <1>2, ClickKeeps, TickKeeps DEF FlipNext

\* The invariant of the sheet holds in every reachable state.
THEOREM FlipInvariance == FlipSpec => []FlipInv
BY FlipBegins, FlipStep, PTL DEF FlipSpec

\* For turns of any number of steps and any number of clicks: unless a click hit
\* the sheet on its edge, the visible side faces the user, and the sheet is
\* turned too far by less than a step for every click.
THEOREM SideFaces == FlipSpec => []Facing
<1>1. FlipInv => Facing
  BY DEF FlipInv
<1> QED
  BY FlipInvariance, <1>1, PTL
===============================================================================
