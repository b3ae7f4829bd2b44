----------------------------- MODULE MCXoneSession -----------------------------
(* The test's client on one small instance. *)
EXTENDS XoneSession

GoodAddress == [proto |-> "tcp", ip |-> "good", port |-> "good"]
SomeAddresses == {GoodAddress, [GoodAddress EXCEPT !.port = "none"]}
===============================================================================
