--------------------------- MODULE MCFemas2Emulator ---------------------------
(* The emulator on a board of four entries and about a kilobyte, so that both  *)
(* limits of create_bulk are met.                                              *)
EXTENDS Femas2Emulator

\* An int of twelve bits, and sizes near its end: rounded up, one stays just
\* below the largest int and two go past it.
Largest == 2047
AskedSizes == {0, 127, 128, 129, 300, Largest - 127, Largest - 100, Largest}

\* Sizes of the three objects: just above, below and beyond a multiple of 128.
AreaSizes == <<129, 127, 300>>
===============================================================================
