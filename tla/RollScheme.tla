------------------------------ MODULE RollScheme ------------------------------
(****************************************************************************)
(* roll_scheme of futuremodel/rollscheme.cpp.  from_alias: which instrument  *)
(* an alias such as cu01 stood for on a date.  It looks in the table that    *)
(* SchemeGen has written for the row of that very day first; failing that,   *)
(* a scan keeps the latest row of the alias.  get_ticksize and               *)
(* get_constract_size: a look-up by the first letters of a name.             *)
(****************************************************************************)
EXTENDS SchemeGen

VARIABLES
  features,         (* what the table was generated from                     *)
  product_aliases,  (* the table                                             *)
  key,              (* the alias asked for and the date                      *)
  pa,               (* the row looked at; the answer once found              *)
  last_pa,          (* the latest row of the alias so far                    *)
  pc                (* "find", "scan", "found" or "thrown"                   *)

vars == <<features, product_aliases, key, pa, last_pa, pc>>

pa_end == Len(product_aliases) + 1

\* operator== of two rows: the instrument is not compared.
Key == [date : Dates, alias : Aliases]
Same(row, k) == row.date = k.date /\ row.alias = k.alias

Init ==
  /\ features \in Features
  /\ product_aliases = schemegen(features)
  /\ key \in Key
  /\ pa = 1
  /\ last_pa = pa_end
  /\ pc = "find"

\* The next call, for another alias or another day.
FromAlias ==
  /\ pc \in {"found", "thrown"}
  /\ key' \in Key
  /\ pa' = 1
  /\ last_pa' = pa_end
  /\ pc' = "find"
  /\ UNCHANGED <<features, product_aliases>>

\* std::find.
FindNext ==
  /\ pc = "find"
  /\ pa # pa_end
  /\ ~Same(product_aliases[pa], key)
  /\ pa' = pa + 1
  /\ UNCHANGED <<features, product_aliases, key, last_pa, pc>>

FindHit ==
  /\ pc = "find"
  /\ pa # pa_end
  /\ Same(product_aliases[pa], key)
  /\ pc' = "found"
  /\ UNCHANGED <<features, product_aliases, key, pa, last_pa>>

\* last_pa before a row of the alias was seen.
NoRow == pa_end

FindEnd ==
  /\ pc = "find"
  /\ pa = pa_end
  /\ pa' = 1
  /\ last_pa' = NoRow
  /\ pc' = "scan"
  /\ UNCHANGED <<features, product_aliases, key>>

\* Defect for mutation: the scan runs to the end.
NeverLater(row) == FALSE

\* The scan stops at the first row of a later date.
Later(row) == row.date > key.date

ScanRow ==
  /\ pc = "scan"
  /\ pa # pa_end
  /\ ~Later(product_aliases[pa])
  /\ last_pa' = IF product_aliases[pa].alias = key.alias THEN pa ELSE last_pa
  /\ pa' = pa + 1
  /\ UNCHANGED <<features, product_aliases, key, pc>>

ScanEnd ==
  /\ pc = "scan"
  /\ pa # pa_end => Later(product_aliases[pa])
  /\ pa' = last_pa
  /\ pc' = IF last_pa = pa_end THEN "thrown" ELSE "found"
  /\ UNCHANGED <<features, product_aliases, key, last_pa>>

Next == FromAlias \/ FindNext \/ FindHit \/ FindEnd \/ ScanRow \/ ScanEnd

Spec == Init /\ [][Next]_vars

-------------------------------------------------------------------------------
(* Tick sizes and contract sizes *)

Item(id, tick, size) == [id |-> id, tick_size |-> tick, constract_size |-> size]

\* product_list; a tick in hundredths.
product_list ==
  <<Item("cu", 1000, 5), Item("au", 5, 1000), Item("al", 500, 5), Item("fu", 100, 50),
    Item("zn", 500, 5), Item("rb", 100, 10), Item("ru", 500, 10), Item("pb", 500, 5),
    Item("bu", 200, 10), Item("ag", 100, 15), Item("hc", 100, 10), Item("ni", 1000, 1),
    Item("sn", 1000, 1), Item("j", 100, 100), Item("jm", 100, 60), Item("i", 100, 100),
    Item("a", 100, 10), Item("m", 100, 10), Item("y", 200, 10), Item("p", 200, 10),
    Item("l", 500, 5), Item("pp", 100, 5), Item("v", 500, 5), Item("", 0, 0)>>

\* strncmp over the length of id: product is id, or begins with it.  Callers pass
\* an alias such as cu01; its number decides nothing, for no id has digits.
Begins(product, id) ==
  \/ product = id
  \/ id = ""
  \/ <<product, id>> \in {<<"jm", "j">>, <<"pp", "p">>, <<"pb", "p">>,
                          <<"al", "a">>, <<"au", "a">>, <<"ag", "a">>}

\* The row get_ticksize and get_constract_size both find: the first to match.
ItemOf(product) ==
  product_list[CHOOSE i \in 1 .. Len(product_list) :
                 /\ Begins(product, product_list[i].id)
                 /\ \A j \in 1 .. i - 1 : ~Begins(product, product_list[j].id)]
get_ticksize(product) == ItemOf(product).tick_size
get_constract_size(product) == ItemOf(product).constract_size
-------------------------------------------------------------------------------
(* Properties *)

\* Types: in particular the row returned is a row of the table.
TypeOK ==
  /\ features \in Features
  /\ product_aliases = schemegen(features)
  /\ key \in Key
  /\ pa \in 1 .. pa_end
  /\ last_pa \in 1 .. pa_end
  /\ pc \in {"find", "scan", "found", "thrown"}

\* The rows that say anything of the alias on that day: not after it.
Known == {i \in 1 .. Len(product_aliases) :
            product_aliases[i].alias = key.alias /\ product_aliases[i].date <= key.date}

\* The answer is the latest row of the alias not after the date.
LatestRow ==
  pc = "found" =>
    /\ pa \in Known
    /\ \A i \in Known : product_aliases[i].date <= product_aliases[pa].date

\* The call throws only if the alias has no row up to that date.
ThrownIfUnlisted == pc = "thrown" => Known = {}

\* from_alias returns the row of the alias that was valid on the date, and throws
\* only if there is none.  The forecast of a day never trades an instrument the
\* alias was moved to later.
RolledToDate == LatestRow /\ ThrownIfUnlisted

\* What <product>01 stands for is an instrument of that product that nothing of
\* the product was traded more than, on the day of the row.
Largest(group, inst) ==
  \E j \in 1 .. Len(group.insts) :
    /\ group.insts[j].id = inst
    /\ \A m \in 1 .. Len(group.insts) : group.insts[m].tuneover <= group.insts[j].tuneover

\* That a forecast trades the most liquid instrument rests on the order of the
\* rows, the end of the sorted list and both loops together.
MostTraded ==
  pc = "found" /\ key.alias.id = "01" =>
    \E n \in 1 .. Len(features) :
      /\ features[n].product = key.alias.product
      /\ features[n].date = product_aliases[pa].date
      /\ Largest(features[n], product_aliases[pa].inst)

\* What holds within the loops: no row before pa is the key's; every row the
\* scan has passed is not later, and last_pa is the last of the alias among them.
FindLoop ==
  pc = "find" => \A i \in 1 .. pa - 1 : ~Same(product_aliases[i], key)

ScanLoop ==
  pc = "scan" =>
    /\ \A i \in 1 .. pa - 1 : product_aliases[i].date <= key.date
    /\ last_pa # pa_end =>
         /\ last_pa < pa
         /\ product_aliases[last_pa].alias = key.alias
         /\ \A i \in last_pa + 1 .. pa - 1 : product_aliases[i].alias # key.alias
    /\ last_pa = pa_end => \A i \in 1 .. pa - 1 : product_aliases[i].alias # key.alias

\* The inductive invariant.
Inv == TypeOK /\ FindLoop /\ ScanLoop /\ RolledToDate
===============================================================================
