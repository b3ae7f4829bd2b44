----------------------------- MODULE MCPortfolio -----------------------------
(* The contract and one reference; one feature of each kind, one more on the   *)
(* contract itself, and one nobody sets up.  SELF_TIB2 is there, as in cu1_0:  *)
(* it alone makes sure that the contract has been quoted twice.                *)
EXTENDS PortfolioProofs, Sequences

SomeKinds ==
  <<"SELF_BIB", "SELF_TIB2", "SELF_DR", "SELF_OFIB", "SELF_TIB", "OTHER_BS", "OTHER_DR",
    "OTHER_TIB", "OTHER_BIB", "OTHER_TIB2", "OTHER_TIB", "UNSET">>
SomeFeatures == [f \in 0 .. 11 |-> SetUp(SomeKinds[f + 1], IF f \in 5 .. 9 THEN 1 ELSE 0)]

\* The same on fewer features: one that is always set, one that is not, one
\* that watches the only reference.
FewKinds == <<"SELF_TIB2", "OTHER_DR", "OTHER_TIB", "UNSET">>
FewFeatures == [f \in 0 .. 3 |-> SetUp(FewKinds[f + 1], IF f \in 1 .. 2 THEN 1 ELSE 0)]
===============================================================================
