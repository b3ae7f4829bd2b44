---------------------------- MODULE MCXoneEmulator ----------------------------
(* Small instances of XoneEmulator. *)
EXTENDS XoneEmulator

GoodAddress == [proto |-> "tcp", ip |-> "good", port |-> "good"]

\* A complete address, one with a wrong protocol word, one without a port and
\* one whose host does not parse.
SomeAddresses == {GoodAddress,
                  [GoodAddress EXCEPT !.proto = "other"],
                  [GoodAddress EXCEPT !.port = "none"],
                  [GoodAddress EXCEPT !.ip = "junk"]}
===============================================================================
