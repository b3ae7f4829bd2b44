---------------------------- MODULE MCChinaL1Source ----------------------------
(* Captures of up to three packages: quotes of two instruments, one of them   *)
(* with and without a price, and a package of another, smaller size.  Sizes   *)
(* are those of the code, in bytes.                                           *)
EXTENDS ChinaL1Source

CONSTANTS a, b

Header == 16
Guava2 == Header + 42 + 104

Packages ==
  {[inst |-> a, priced |-> TRUE, bytes |-> Guava2],
   [inst |-> a, priced |-> FALSE, bytes |-> Guava2],
   [inst |-> b, priced |-> TRUE, bytes |-> Guava2],
   [inst |-> a, priced |-> TRUE, bytes |-> Header + 60]}

\* The packages of s as they lie in a file, each behind the one before it.
Laid(s) ==
  [i \in DOMAIN s |->
     [inst |-> s[i].inst, priced |-> s[i].priced, bytes |-> s[i].bytes,
      at |-> FileHeader + FoldSeq(LAMBDA p, n : p.bytes + n, 0, SubSeq(s, 1, i - 1))]]

\* Sizes a program writes: below zero, and above what a file gives.
Written == {-1, 4}

Short == UNION {[1 .. n -> Packages] : n \in 0 .. 2}
First == [inst |-> a, priced |-> TRUE, bytes |-> Guava2]

\* Every file of up to two packages, and those of three that begin with a quote.
Files == {Laid(s) : s \in Short \cup {<<First>> \o s : s \in Short}}
===============================================================================
