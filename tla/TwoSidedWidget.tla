----------------------------- MODULE TwoSidedWidget -----------------------------
(****************************************************************************)
(* ide/twosidedgraphicswidget.cpp: a chart and the program that draws it    *)
(* are two sides of one sheet, which a double click turns over, a step      *)
(* every 25 ms.  A click does not ask whether the sheet is turning already, *)
(* and each starts a timer of its own; the menu may remove the chart while  *)
(* timers are pending (graphicsview.cpp, candlestickchart.cpp).             *)
(****************************************************************************)
EXTENDS Integers

CONSTANTS
  Quarter,       (* steps of a turn by 90 degrees: 10 of 9 degrees           *)
  MaxClicks,     (* bound on the double clicks                               *)
  MaxAngle       (* bound on the angle, in steps                             *)

ASSUME TurnAssumption ==
  Quarter \in Nat \ {0} /\ MaxClicks \in Nat /\ MaxAngle \in Nat

VARIABLES
  current,       (* m_current, the side that is visible                      *)
  angle,         (* m_angle, in steps                                        *)
  delta,         (* m_delta, in steps                                        *)
  timers,        (* calls of animateFlip that are due                        *)
  present,       (* whether m_proxyWidgets has the two sides                 *)
  ideAlive,      (* FALSE once the IDE has crashed                           *)
  clicks,        (* history: double clicks                                   *)
  edgeHit        (* history: one of them hit the sheet seen from its edge    *)

sheet == <<current, angle, delta>>
flipVars == <<sheet, timers, present, ideAlive, clicks, edgeHit>>

\* The constructor of CandleStickChart has set both sides.
FlipInit ==
  /\ current = 0
  /\ angle = 0
  /\ delta = 0
  /\ timers = 0
  /\ present = TRUE
  /\ ideAlive = TRUE
  /\ clicks = 0
  /\ edgeHit = FALSE

\* The other side.
Other == 1 - current

\* Defect for mutation: a turn back does not change sides.
SidesChangeUpwards(a, d) == a = Quarter /\ d > 0

\* Half way, in either direction, the sides change.
SidesChange(a, d) == a = Quarter

\* Defect for mutation: the timer stops at the end of a turn to the back only.
StopsExactly(side, a) == (side = 0 /\ a # 0) \/ (side = 1 /\ a # 2 * Quarter)

\* Whether animateFlip asks to be called again.
Turning(side, a) == (side = 0 /\ a > 0) \/ (side = 1 /\ a < 2 * Quarter)

\* animateFlip with `due' other calls pending.
Animate(d, due) ==
  /\ delta' = d
  /\ angle' = angle + d
  /\ current' = IF SidesChange(angle + d, d) THEN Other ELSE current
  /\ timers' = due + (IF Turning(current', angle') THEN 1 ELSE 0)

\* flip, for a double click with the right button on the visible side.
Click ==
  /\ ideAlive /\ present
  /\ clicks < MaxClicks
  /\ clicks' = clicks + 1
  /\ edgeHit' = (edgeHit \/ angle = Quarter)
  /\ Animate(IF current = 0 THEN 1 ELSE -1, timers)
  /\ UNCHANGED <<present, ideAlive>>

\* A timer runs out.  The angle grows without end after a click on the edge; it
\* is followed for MaxAngle steps.
Tick ==
  /\ ideAlive /\ present /\ timers > 0
  /\ angle \in (0 - MaxAngle) .. MaxAngle
  /\ Animate(delta, timers - 1)
  /\ UNCHANGED <<present, ideAlive, clicks, edgeHit>>

\* The same after the sides were removed: the widgets are looked at first.
TickGone ==
  /\ ideAlive /\ ~present /\ timers > 0
  /\ ideAlive' = FALSE
  /\ UNCHANGED <<sheet, timers, present, clicks, edgeHit>>

\* "Remove candle": the chart clears its sheet, which is the scene's and stays,
\* with its timers.
Clear ==
  /\ ideAlive /\ present
  /\ present' = FALSE
  /\ UNCHANGED <<sheet, timers, ideAlive, clicks, edgeHit>>

FlipNext == Click \/ Tick \/ TickGone \/ Clear

\* The event loop calls timers that are due.
FlipFairness == WF_flipVars(Tick)

FlipSpec == FlipInit /\ [][FlipNext]_flipVars /\ FlipFairness

-------------------------------------------------------------------------------
(* Properties *)

\* Types.
FlipTypeOK ==
  /\ current \in {0, 1}
  /\ angle \in Int
  /\ delta \in {-1, 0, 1}
  /\ timers \in Nat
  /\ clicks \in 0 .. MaxClicks
  /\ present \in BOOLEAN /\ ideAlive \in BOOLEAN /\ edgeHit \in BOOLEAN

\* However many clicks come while the sheet turns, the visible side is the one
\* that faces the user, and the sheet is never turned beyond its side by more
\* than a step for every click but the first.
Facing ==
  edgeHit \/ /\ IF current = 0 THEN angle <= Quarter ELSE angle >= Quarter
             /\ clicks > 0 => angle > 0 - clicks /\ angle < 2 * Quarter + clicks

\* A turn ends, unless the sheet was hit at its edge: then it turns for ever.
TurnEnds == timers > 0 ~> timers = 0 \/ edgeHit \/ ~present
===============================================================================
