---------------------------- MODULE MCTwoSidedWidget ----------------------------
(* Model checking of TwoSidedWidget: the constants are in TwoSidedWidget.cfg. *)
EXTENDS TwoSidedWidget
===============================================================================
