----------------------------- MODULE MCRollScheme -----------------------------
(* Up to MaxGroups groups over the products and dates, each with turnovers     *)
(* that rise, fall or tie: two instruments, three, of which the fourth alias   *)
(* repeats one, and five, of which it leaves one out.                          *)
EXTENDS RollScheme

CONSTANTS MaxGroups

Turnover(tunes) == [j \in 1 .. Len(tunes) |-> [id |-> j, tuneover |-> tunes[j]]]
SomeTurnovers == {Turnover(t) : t \in {<<1, 2>>, <<0, 0>>, <<1, 3, 2>>, <<2, 4, 1, 5, 3>>}}
SomeGroups == [date : Dates, product : Products, insts : SomeTurnovers]

Ordered(f) ==
  \A n, m \in DOMAIN f : n < m =>
    /\ f[n].date <= f[m].date
    /\ f[n].date # f[m].date \/ f[n].product # f[m].product

SomeFeatures ==
  UNION {{f \in [1 .. n -> SomeGroups] : Ordered(f)} : n \in 0 .. MaxGroups}

\* Every product of the list finds its own row, but jm and pp, which stand after
\* the shorter j and p and get the sizes of those; wr, which is not in the list,
\* gets the empty row at its end.
ASSUME ProductsFound ==
  /\ \A i \in 1 .. Len(product_list) :
       product_list[i].id \notin {"jm", "pp"} => ItemOf(product_list[i].id) = product_list[i]
  /\ ItemOf("jm").id = "j" /\ get_constract_size("jm") = 100
  /\ ItemOf("pp").id = "p" /\ get_ticksize("pp") = 200
  /\ ItemOf("wr").id = ""
===============================================================================
