-------------------------- MODULE MCInstrumentFilter --------------------------
(* Two variables, and lists that leave the two inner places free, fill them,  *)
(* and need a block of one or two.  Variables are alike, and so are names.    *)
EXTENDS InstrumentFilter, TLC

Alike == Permutations(Filters) \cup Permutations(Names)
===============================================================================
