------------------------------- MODULE SchemeGen -------------------------------
(****************************************************************************)
(* futuremodel/schemegen.py, which turns the turnover of every instrument   *)
(* on every day into the table of aliases in scheme.h: of each product,     *)
(* <product>01 is the instrument with the largest turnover of the day,      *)
(* <product>02 the next, down to <product>04.  The spreadsheets it reads    *)
(* are external; what it has made of them is a sequence of groups, one for  *)
(* each date and product, by date, the products in any order.               *)
(****************************************************************************)
EXTENDS Integers, Sequences, FiniteSets

CONSTANTS
  Products,      (* product ids: cu, ni, ...                                 *)
  Instruments,   (* instrument ids                                           *)
  Dates,         (* dates, as numbers                                        *)
  Features       (* the contents of `features' that are considered           *)

\* features[date][product][instrument] = turnover, the instruments in the order
\* in which Python lists them.
Turnovers == Seq([id : Instruments, tuneover : Nat])
Group == [date : Dates, product : Products, insts : Turnovers]

\* dates.sort(), and one entry per key of a dictionary.  With one instrument
\* only, slist[-2] raises, and there is no table.
IsFeatures(f) ==
  /\ f \in Seq(Group)
  /\ \A n \in 1 .. Len(f) : Len(f[n].insts) >= 2
  /\ \A n, m \in 1 .. Len(f) : n < m =>
       /\ f[n].date <= f[m].date
       /\ f[n].date # f[m].date \/ f[n].product # f[m].product

ASSUME FeaturesAssumption ==
  /\ Dates \subseteq Nat \ {0}
  /\ "" \notin Products
  /\ \A f \in Features : IsFeatures(f)

ids == <<"01", "02", "03", "04">>
Alias(product, id) == [product |-> product, id |-> id]
Aliases == [product : Products, id : {"01", "02", "03", "04"}]
NoAlias == Alias("", "")

\* A row of the table; the last one is {"", "", ""}.
Row == [date : Dates, alias : Aliases, inst : Instruments]
LastRow == [date |-> 0, alias |-> NoAlias, inst |-> ""]

\* Where Python finds list[i] of a list of n, counting from zero.
PyIndex(i, n) == IF i < 0 THEN i + n ELSE i

\* Defect for mutation: the list is sorted the other way round.
Descending(insts, k) ==
  CHOOSE v \in {insts[j].tuneover : j \in 1 .. Len(insts)} :
    /\ Cardinality({j \in 1 .. Len(insts) : insts[j].tuneover > v}) <= k
    /\ Cardinality({j \in 1 .. Len(insts) : insts[j].tuneover >= v}) > k

\* The turnover at place k, from zero, when insts is sorted by it.
Sorted(insts, k) ==
  CHOOSE v \in {insts[j].tuneover : j \in 1 .. Len(insts)} :
    /\ Cardinality({j \in 1 .. Len(insts) : insts[j].tuneover < v}) <= k
    /\ Cardinality({j \in 1 .. Len(insts) : insts[j].tuneover <= v}) > k

\* tunelist.index(v): the first instrument with that turnover.
TuneIndex(insts, v) ==
  CHOOSE j \in 1 .. Len(insts) :
    insts[j].tuneover = v /\ \A m \in 1 .. j - 1 : insts[m].tuneover # v

\* idx for the alias number i, from zero: slist is read from its larger end.
\* Of three instruments the fourth alias gets the largest again.
Rank(insts, i) == PyIndex(Len(insts) - i - 1, Len(insts))

\* The row that is written for it.  Instruments of equal turnover all yield the
\* first of them.
RowOf(group, i) ==
  [date  |-> group.date,
   alias |-> Alias(group.product, ids[i + 1]),
   inst  |-> group.insts[TuneIndex(group.insts,
                                   Sorted(group.insts, Rank(group.insts, i)))].id]

\* schemegen: four rows a group, and the empty row.
schemegen(f) ==
  [n \in 1 .. 4 * Len(f) + 1 |->
     IF n <= 4 * Len(f) THEN RowOf(f[((n - 1) \div 4) + 1], (n - 1) % 4) ELSE LastRow]
===============================================================================
