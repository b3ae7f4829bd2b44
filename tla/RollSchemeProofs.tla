--------------------------- MODULE RollSchemeProofs ---------------------------
(* The invariant of the two loops of from_alias, for every set of tables the   *)
(* generator may write, however long, and that its answers are right.          *)
EXTENDS RollScheme, FiniteSetTheorems, WellFoundedInduction, TLAPS

\* What the assumption on the generator's input says of one input.
LEMMA FeatureShape ==
  ASSUME NEW f \in Features
  PROVE  IsFeatures(f) /\ f \in Seq(Group) /\ Len(f) \in Nat
  <1>1. IsFeatures(f)
    BY FeaturesAssumption, Zenon
  <1>2. f \in Seq(Group)
    BY <1>1, Zenon DEF IsFeatures
  <1> QED
    BY <1>1, <1>2

\* The group, of those the table is made from, that row n comes from.
GroupAt(n) == ((n - 1) \div 4) + 1

\* It is one of the features, and a later row comes from the same or a later one.
LEMMA Groups ==
  ASSUME NEW f \in Features, NEW n \in 1 .. 4 * Len(f)
  PROVE  /\ GroupAt(n) \in 1 .. Len(f)
         /\ (n - 1) % 4 \in 0 .. 3
         /\ \A m \in n .. 4 * Len(f) : GroupAt(n) <= GroupAt(m)
  <1>1. Len(f) \in Nat
    BY FeatureShape
  <1>2. GroupAt(n) \in 1 .. Len(f) /\ (n - 1) % 4 \in 0 .. 3
    BY <1>1 DEF GroupAt
  <1>3. ASSUME NEW m \in n .. 4 * Len(f)
        PROVE  GroupAt(n) <= GroupAt(m)
    BY <1>1, <1>3 DEF GroupAt
  <1> QED
    BY <1>2, <1>3

\* A table of which every row but the last one has a date, in their order, and
\* the last one has no alias that is asked for.
InOrder(t) ==
  /\ Len(t) \in Nat \ {0}
  /\ t[Len(t)] = LastRow
  /\ \A i \in 1 .. Len(t) : t[i].date \in Nat
  /\ \A i, j \in 1 .. Len(t) - 1 : i <= j => t[i].date <= t[j].date

\* What the generator writes is such a table, whatever it was given.
LEMMA GeneratedInOrder ==
  ASSUME NEW f \in Features
  PROVE  /\ InOrder(schemegen(f))
         /\ Len(schemegen(f)) = 4 * Len(f) + 1
  <1> DEFINE T == schemegen(f)
  <1>1. Len(f) \in Nat /\ IsFeatures(f) /\ f \in Seq(Group)
    BY FeatureShape
  <1>2. Len(T) = 4 * Len(f) + 1 /\ Len(T) \in Nat \ {0}
    BY <1>1 DEF schemegen
  <1>3. T[Len(T)] = LastRow /\ LastRow.date = 0 /\ LastRow.alias = NoAlias
    <2>1. LastRow.date = 0 /\ LastRow.alias = NoAlias
      BY Zenon DEF LastRow
    <2> QED
      BY <1>1, <1>2, <2>1 DEF schemegen
  <1>4. ASSUME NEW n \in 1 .. 4 * Len(f)
        PROVE  T[n].date = f[GroupAt(n)].date /\ T[n].date \in Nat
    <2>1. T[n] = RowOf(f[GroupAt(n)], (n - 1) % 4)
      BY <1>1 DEF schemegen, GroupAt
    <2>2. T[n].date = f[GroupAt(n)].date
      BY <2>1 DEF RowOf
    <2>3. f[GroupAt(n)] \in Group
      BY <1>1, Groups
    <2>4. f[GroupAt(n)].date \in Dates
      BY <2>3 DEF Group
    <2> QED
      BY <2>2, <2>4, FeaturesAssumption
  <1>5. ASSUME NEW i \in 1 .. Len(T)
        PROVE  T[i].date \in Nat
    <2>1. CASE i = Len(T)
      BY <2>1, <1>3
    <2>2. CASE i # Len(T)
      <3>1. i \in 1 .. 4 * Len(f)
        BY <1>1, <1>2, <2>2
      <3> QED
        BY <3>1, <1>4
    <2> QED
      BY <2>1, <2>2
  <1>6. ASSUME NEW i \in 1 .. Len(T) - 1, NEW j \in 1 .. Len(T) - 1, i <= j
        PROVE  T[i].date <= T[j].date
    <2>1. i \in 1 .. 4 * Len(f) /\ j \in 1 .. 4 * Len(f) /\ j \in i .. 4 * Len(f)
      BY <1>1, <1>2, <1>6
    <2>2. /\ T[i].date = f[GroupAt(i)].date
          /\ T[j].date = f[GroupAt(j)].date
          /\ T[i].date \in Nat
      BY <1>4, <2>1
    <2>3. /\ GroupAt(i) \in 1 .. Len(f)
          /\ GroupAt(j) \in 1 .. Len(f)
          /\ GroupAt(i) <= GroupAt(j)
      BY <2>1, Groups
    <2>4. GroupAt(i) \in Int /\ GroupAt(j) \in Int
      BY <2>3, <1>1
    <2>5. CASE GroupAt(i) = GroupAt(j)
      BY <2>5, <2>2
    <2>6. CASE GroupAt(i) < GroupAt(j)
      <3>1. f[GroupAt(i)].date <= f[GroupAt(j)].date
        BY <1>1, <2>3, <2>6 DEF IsFeatures
      <3> QED
        BY <3>1, <2>2
    <2> QED
      BY <2>3, <2>4, <2>5, <2>6
  <1> HIDE DEF T
  <1> QED
    BY <1>2, <1>3, <1>5, <1>6 DEF InOrder, T

\* The table looked up is one that was generated, and no alias asked for is that
\* of its last row.
LEMMA TableShape ==
  ASSUME TypeOK
  PROVE  /\ Len(product_aliases) \in Nat \ {0}
         /\ pa_end = Len(product_aliases) + 1
         /\ InOrder(product_aliases)
         /\ \A i \in 1 .. Len(product_aliases) : product_aliases[i].date \in Nat
         /\ key.date \in Nat
         /\ key.alias # NoAlias
         /\ product_aliases[Len(product_aliases)].alias = NoAlias
  <1>1. InOrder(product_aliases)
    BY GeneratedInOrder DEF TypeOK
  <1>2. key.date \in Dates /\ key.alias \in Aliases
    BY DEF TypeOK, Key
  <1>3. key.date \in Nat
    BY <1>2, FeaturesAssumption
  <1>4. key.alias.product \in Products
    BY <1>2 DEF Aliases
  <1>5. key.alias # NoAlias
    <2>1. NoAlias.product = ""
      BY Zenon DEF NoAlias, Alias
    <2>2. NoAlias.product \notin Products
      BY <2>1, FeaturesAssumption, Zenon
    <2> QED
      BY <1>4, <2>2, Zenon
  <1>6. product_aliases[Len(product_aliases)].alias = NoAlias
    <2>1. LastRow.alias = NoAlias
      BY Zenon DEF LastRow
    <2> QED
      BY <1>1, <2>1, Zenon DEF InOrder
  <1> QED
    BY <1>1, <1>3, <1>5, <1>6 DEF InOrder, pa_end

\* The answer of a step that ends a call with row p of the key's alias, when
\* every other row of the alias that is not too late comes before p.
LEMMA LatestOfAlias ==
  ASSUME TypeOK, NEW p \in 1 .. Len(product_aliases),
         product_aliases[p].alias = key.alias,
         product_aliases[p].date <= key.date,
         \A i \in Known : i <= p
  PROVE  p \in Known /\ \A i \in Known : product_aliases[i].date <= product_aliases[p].date
  <1>1. p \in Known
    BY DEF Known
  <1>2. SUFFICES ASSUME NEW i \in Known, i # p
                 PROVE  product_aliases[i].date <= product_aliases[p].date
    <2>1. product_aliases[p].date <= product_aliases[p].date
      BY TableShape DEF TypeOK
    <2> QED
      BY <1>1, <2>1
  <1>3. i < p /\ i \in 1 .. Len(product_aliases)
    BY <1>2 DEF Known
  <1>4. product_aliases[Len(product_aliases)].alias = NoAlias /\ key.alias # NoAlias
    BY TableShape
  <1>5. p \in 1 .. Len(product_aliases) - 1 /\ i \in 1 .. Len(product_aliases) - 1
    BY <1>3, <1>4, TableShape DEF TypeOK
  <1> QED
    BY <1>3, <1>5, TableShape DEF InOrder

\* The invariant holds when from_alias is called.
LEMMA InitInv == Init => Inv
  <1> SUFFICES ASSUME Init PROVE Inv
    OBVIOUS
  <1>1. TypeOK
    <2>1. Len(schemegen(features)) \in Nat
      BY GeneratedInOrder DEF Init, InOrder
    <2> QED
      BY <2>1 DEF Init, TypeOK, pa_end
  <1> QED
    BY <1>1 DEF Init, Inv, FindLoop, ScanLoop, RolledToDate, LatestRow, ThrownIfUnlisted

\* Every step preserves the invariant.
LEMMA NextInv == Inv /\ [Next]_vars => Inv'
  <1> SUFFICES ASSUME Inv, [Next]_vars PROVE Inv'
    OBVIOUS
  <1> USE DEF Inv, TypeOK
  <1>t. /\ Len(product_aliases) \in Nat \ {0}
        /\ pa_end = Len(product_aliases) + 1
        /\ InOrder(product_aliases)
        /\ \A i \in 1 .. Len(product_aliases) : product_aliases[i].date \in Nat
        /\ key.date \in Nat
        /\ key.alias # NoAlias
        /\ product_aliases[Len(product_aliases)].alias = NoAlias
    BY TableShape
  <1>1. CASE FromAlias
    BY <1>1, <1>t DEF FromAlias, FindLoop, ScanLoop, RolledToDate, LatestRow, ThrownIfUnlisted, pa_end
  <1>2. CASE FindNext
    BY <1>2, <1>t DEF FindNext, Same, FindLoop, ScanLoop, RolledToDate, LatestRow, ThrownIfUnlisted, pa_end
  <1>3. CASE FindHit
    <2>1. product_aliases[pa].date = key.date /\ product_aliases[pa].alias = key.alias
      BY <1>3 DEF FindHit, Same
    <2>2. pa \in Known /\ \A i \in Known : product_aliases[i].date <= product_aliases[pa].date
      BY <1>3, <1>t, <2>1 DEF FindHit, Known
    <2>3. RolledToDate'
      BY <1>3, <2>2 DEF FindHit, RolledToDate, LatestRow, ThrownIfUnlisted, Known
    <2> QED
      BY <1>3, <1>t, <2>3 DEF FindHit, FindLoop, ScanLoop, ThrownIfUnlisted, pa_end
  <1>4. CASE FindEnd
    BY <1>4, <1>t DEF FindEnd, FindLoop, ScanLoop, RolledToDate, LatestRow, ThrownIfUnlisted, pa_end, NoRow
  <1>5. CASE ScanRow
    <2>1. TypeOK'
      BY <1>5, <1>t DEF ScanRow, pa_end
    <2>2. product_aliases[pa].date <= key.date
      BY <1>5, <1>t DEF ScanRow, Later
    <2>3. ScanLoop'
      BY <1>5, <1>t, <2>2 DEF ScanRow, ScanLoop, pa_end
    <2> QED
      BY <1>5, <2>1, <2>3 DEF ScanRow, FindLoop, RolledToDate, LatestRow, ThrownIfUnlisted
  <1>6. CASE ScanEnd
    <2>1. \A i \in Known : i < pa
      <3> SUFFICES ASSUME NEW i \in Known, i >= pa PROVE FALSE
        BY <1>t DEF Known
      <3>1. pa # pa_end /\ pa \in 1 .. Len(product_aliases) /\ i \in 1 .. Len(product_aliases)
        BY <1>t DEF Known
      <3>2. product_aliases[pa].date > key.date
        BY <1>6, <3>1 DEF ScanEnd, Later
      <3>3. i # Len(product_aliases)
        BY <1>t DEF Known
      <3>4. product_aliases[pa].date <= product_aliases[i].date
        BY <1>t, <3>1, <3>3 DEF InOrder
      <3> QED
        BY <1>t, <3>1, <3>2, <3>4 DEF Known
    <2>2. CASE last_pa = pa_end
      <3>1. Known = {}
        BY <1>6, <2>1, <2>2, <1>t DEF ScanEnd, ScanLoop, Known
      <3> QED
        BY <1>6, <2>2, <3>1, <1>t
        DEF ScanEnd, FindLoop, ScanLoop, RolledToDate, LatestRow, ThrownIfUnlisted, Known, pa_end
    <2>3. CASE last_pa # pa_end
      <3>1. /\ last_pa \in 1 .. Len(product_aliases)
            /\ last_pa < pa
            /\ product_aliases[last_pa].alias = key.alias
            /\ product_aliases[last_pa].date <= key.date
        BY <1>6, <2>3, <1>t DEF ScanEnd, ScanLoop
      <3>2. \A i \in Known : i <= last_pa
        BY <1>6, <2>1, <2>3, <1>t, <3>1 DEF ScanEnd, ScanLoop, Known
      <3>3. /\ last_pa \in Known
            /\ \A i \in Known : product_aliases[i].date <= product_aliases[last_pa].date
        BY <3>1, <3>2, LatestOfAlias
      <3>4. RolledToDate'
        BY <1>6, <2>3, <3>3 DEF ScanEnd, RolledToDate, LatestRow, ThrownIfUnlisted, Known
      <3> QED
        BY <1>6, <2>3, <3>1, <3>4, <1>t
        DEF ScanEnd, FindLoop, ScanLoop, ThrownIfUnlisted, pa_end
    <2> QED
      BY <2>2, <2>3
  <1>7. CASE UNCHANGED vars
    BY <1>7 DEF vars, Same, FindLoop, ScanLoop, RolledToDate, LatestRow, ThrownIfUnlisted, Known, pa_end
  <1> QED
    BY <1>1, <1>2, <1>3, <1>4, <1>5, <1>6, <1>7 DEF Next

\* The loop invariants of from_alias hold in every reachable state.
THEOREM Invariance == Spec => []Inv
  BY InitInv, NextInv, PTL DEF Spec

\* from_alias only ever returns the row of the alias that was valid on the date,
\* for any table the generator may write, and throws only if there is none.
THEOREM AliasRolled == Spec => []RolledToDate
  <1>1. Inv => RolledToDate
    BY DEF Inv
  <1> QED
    BY <1>1, Invariance, PTL

\* The variables have their types in every reachable state.
THEOREM TypeCorrect == Spec => []TypeOK
<1>1. Inv => TypeOK
  BY DEF Inv
<1> QED
  BY Invariance, <1>1, PTL
-------------------------------------------------------------------------------
(* The order of the turnovers. *)

\* Every set of numbers that is not empty has a least one.
LEMMA LeastNat ==
  ASSUME NEW T \in SUBSET Nat, T # {}
  PROVE  \E x \in T : \A y \in T : x <= y
  <1> DEFINE R == OpToRel(<, Nat)
  <1>1. \E x \in T : \A y \in T : ~ (<<y, x>> \in R)
    <2>1. IsWellFoundedOn(R, Nat)
      BY NatLessThanWellFounded
    <2> HIDE DEF R
    <2> QED
      BY <2>1, WFMin
  <1>2. \A x, y \in Nat : y < x => <<y, x>> \in R
    BY DEF OpToRel
  <1> HIDE DEF R
  <1>3. PICK x \in T : \A y \in T : ~ (<<y, x>> \in R)
    BY <1>1
  <1>4. ASSUME NEW y \in T
        PROVE  x <= y
    <2>1. ~(y < x)
      BY <1>2, <1>3
    <2> QED
      BY <2>1
  <1> QED
    BY <1>4

\* A list of numbers has a largest one: a shortest prefix without one would have
\* to be without its last element already.
LEMMA LargestOf ==
  ASSUME NEW n \in Nat \ {0}, NEW a, \A j \in 1 .. n : a[j] \in Nat
  PROVE  \E j \in 1 .. n : \A m \in 1 .. n : a[m] <= a[j]
  <1> DEFINE Has(k) == \E j \in 1 .. k : \A m \in 1 .. k : a[m] <= a[j]
             Without == {k \in 1 .. n : ~Has(k)}
  <1>1. SUFFICES ASSUME Without # {}
                 PROVE  FALSE
    <2>1. Without = {} => Has(n)
      OBVIOUS
    <2> QED
      BY <2>1
  <1>2. PICK k \in Without : \A i \in Without : k <= i
    <2>1. Without \in SUBSET Nat
      OBVIOUS
    <2> HIDE DEF Without
    <2> QED
      BY <1>1, <2>1, LeastNat
  <1>3. k \in 1 .. n /\ ~Has(k)
    BY <1>2
  <1>4. CASE k = 1
    <2>1. \A m \in 1 .. k : a[m] <= a[1]
      BY <1>4
    <2> QED
      BY <1>3, <1>4, <2>1
  <1>5. CASE k # 1
    <2>1. k - 1 \in 1 .. n /\ k - 1 \notin Without
      <3>1. k - 1 \in 1 .. n /\ ~(k <= k - 1)
        BY <1>3, <1>5
      <3> HIDE DEF Without
      <3> QED
        BY <1>2, <3>1
    <2>2. PICK j \in 1 .. k - 1 : \A m \in 1 .. k - 1 : a[m] <= a[j]
      BY <2>1
    <2>3. CASE a[k] <= a[j]
      <3>1. \A m \in 1 .. k : a[m] <= a[j]
        BY <1>3, <2>2, <2>3
      <3>2. j \in 1 .. k
        BY <1>3
      <3> QED
        BY <1>3, <3>1, <3>2
    <2>4. CASE ~(a[k] <= a[j])
      <3>1. a[k] \in Nat /\ a[j] \in Nat
        BY <1>3
      <3>2. \A m \in 1 .. k : a[m] <= a[k]
        <4>1. SUFFICES ASSUME NEW m \in 1 .. k
                       PROVE  a[m] <= a[k]
          OBVIOUS
        <4>2. a[m] \in Nat
          BY <1>3
        <4>3. CASE m = k
          BY <4>3, <3>1
        <4>4. CASE m # k
          <5>1. a[m] <= a[j]
            BY <1>3, <2>2, <4>4
          <5> QED
            BY <5>1, <2>4, <3>1, <4>2
        <4> QED
          BY <4>3, <4>4
      <3> QED
        BY <1>3, <3>2
    <2> QED
      BY <2>3, <2>4
  <1> QED
    BY <1>4, <1>5

\* The last place of the sorted list holds a turnover that none exceeds, and it is
\* the turnover of an instrument.
LEMMA SortedLast ==
  ASSUME NEW L \in Nat \ {0}, NEW insts, Len(insts) = L,
         \A j \in 1 .. L : insts[j].tuneover \in Nat
  PROVE  \E j \in 1 .. L :
           /\ insts[j].tuneover = Sorted(insts, L - 1)
           /\ \A m \in 1 .. L : insts[m].tuneover <= insts[j].tuneover
  <1> DEFINE a == [j \in 1 .. L |-> insts[j].tuneover]
             V == {insts[j].tuneover : j \in 1 .. L}
             Below(v) == {j \in 1 .. L : insts[j].tuneover < v}
             UpTo(v) == {j \in 1 .. L : insts[j].tuneover <= v}
             Place(v) == Cardinality(Below(v)) <= L - 1 /\ Cardinality(UpTo(v)) > L - 1
  <1>1. IsFiniteSet(1 .. L) /\ Cardinality(1 .. L) = L
    BY FS_Interval
  <1>2. \E v \in V : Place(v)
    <2>1. PICK j \in 1 .. L : \A m \in 1 .. L : a[m] <= a[j]
      <3>1. \A i \in 1 .. L : a[i] \in Nat
        OBVIOUS
      <3> HIDE DEF a
      <3> QED
        BY <3>1, LargestOf
    <2>2. \A m \in 1 .. L : insts[m].tuneover <= insts[j].tuneover
      BY <2>1
    <2>3. UpTo(insts[j].tuneover) = 1 .. L
      BY <2>2
    <2>4. Below(insts[j].tuneover) \in SUBSET (1 .. L) /\ j \notin Below(insts[j].tuneover)
      OBVIOUS
    <2>5. Cardinality(Below(insts[j].tuneover)) <= L - 1
      <3>1. /\ IsFiniteSet(Below(insts[j].tuneover))
            /\ Cardinality(Below(insts[j].tuneover)) <= L
            /\ L = Cardinality(Below(insts[j].tuneover)) => 1 .. L = Below(insts[j].tuneover)
        <4> HIDE DEF Below
        <4> QED
          BY <1>1, <2>4, FS_Subset
      <3>2. Cardinality(Below(insts[j].tuneover)) \in Nat
        BY <3>1, FS_CardinalityType
      <3> QED
        BY <2>4, <3>1, <3>2
    <2>6. insts[j].tuneover \in V
      OBVIOUS
    <2>7. Place(insts[j].tuneover)
      <3> HIDE DEF Below, UpTo
      <3> QED
        BY <1>1, <2>3, <2>5
    <2> HIDE DEF V, Place
    <2> QED
      BY <2>6, <2>7
  <1>3. Sorted(insts, L - 1) = CHOOSE v \in V : Place(v)
    BY DEF Sorted
  <1>4. PICK j \in 1 .. L : insts[j].tuneover = Sorted(insts, L - 1) /\ Place(insts[j].tuneover)
    <2>1. (CHOOSE v \in V : Place(v)) \in V /\ Place(CHOOSE v \in V : Place(v))
      <3> HIDE DEF V, Place
      <3> QED
        BY <1>2
    <2> QED
      BY <1>3, <2>1
  <1>5. UpTo(insts[j].tuneover) = 1 .. L
    <2>1. UpTo(insts[j].tuneover) \in SUBSET (1 .. L)
      OBVIOUS
    <2>2. Cardinality(UpTo(insts[j].tuneover)) > L - 1
      BY <1>4
    <2> HIDE DEF UpTo
    <2>3. /\ Cardinality(UpTo(insts[j].tuneover)) <= L
          /\ Cardinality(UpTo(insts[j].tuneover)) \in Nat
          /\ L = Cardinality(UpTo(insts[j].tuneover)) => 1 .. L = UpTo(insts[j].tuneover)
      BY <1>1, <2>1, FS_Subset, FS_CardinalityType
    <2> QED
      BY <2>2, <2>3
  <1>6. \A m \in 1 .. L : insts[m].tuneover <= insts[j].tuneover
    BY <1>5
  <1> QED
    BY <1>4, <1>6

\* The first alias of a product gets an instrument that was traded most.
LEMMA FirstIsLargest ==
  ASSUME NEW g \in Group, Len(g.insts) >= 2
  PROVE  Largest(g, RowOf(g, 0).inst)
  <1> DEFINE L == Len(g.insts)
             S == Sorted(g.insts, L - 1)
             At(j) == g.insts[j].tuneover = S /\ \A m \in 1 .. j - 1 : g.insts[m].tuneover # S
  <1>1. /\ L \in Nat \ {0}
        /\ \A j \in 1 .. L : g.insts[j] \in [id : Instruments, tuneover : Nat]
    <2>1. g.insts \in Seq([id : Instruments, tuneover : Nat])
      BY Zenon DEF Group, Turnovers
    <2>2. L \in Nat /\ \A j \in 1 .. L : g.insts[j] \in [id : Instruments, tuneover : Nat]
      <3> HIDE DEF S, At
      <3> DEFINE R == [id : Instruments, tuneover : Nat]
      <3> HIDE DEF R
      <3>1. g.insts \in Seq(R)
        BY <2>1 DEF R
      <3>2. L \in Nat /\ \A j \in 1 .. L : g.insts[j] \in R
        BY <3>1
      <3> QED
        BY <3>2 DEF R
    <2> QED
      BY <2>2
  <1>2. \A j \in 1 .. L : g.insts[j].tuneover \in Nat
    BY <1>1
  <1> HIDE DEF L
  <1>3. PICK k \in 1 .. L :
           /\ g.insts[k].tuneover = S
           /\ \A m \in 1 .. L : g.insts[m].tuneover <= g.insts[k].tuneover
    BY <1>1, <1>2, SortedLast DEF L
  <1>4. \E j \in 1 .. L : At(j)
    <2> DEFINE T == {j \in 1 .. L : g.insts[j].tuneover = S}
    <2>1. T \in SUBSET Nat /\ T # {}
      BY <1>3
    <2>2. PICK j \in T : \A i \in T : j <= i
      <3> HIDE DEF T
      <3> QED
        BY <2>1, LeastNat
    <2>3. ASSUME NEW m \in 1 .. j - 1
          PROVE  g.insts[m].tuneover # S
      <3>1. m \in 1 .. L /\ ~(j <= m)
        BY <1>1, <2>2
      <3>2. m \notin T
        BY <2>2, <3>1
      <3> QED
        BY <3>1, <3>2
    <2> QED
      BY <2>2, <2>3
  <1>5. TuneIndex(g.insts, S) = CHOOSE j \in 1 .. L : At(j)
    BY DEF TuneIndex, L
  <1>6. TuneIndex(g.insts, S) \in 1 .. L /\ At(TuneIndex(g.insts, S))
    <2> HIDE DEF At
    <2> QED
      BY <1>4, <1>5
  <1>7. Rank(g.insts, 0) = L - 1
    BY <1>1 DEF Rank, PyIndex, L
  <1>8. RowOf(g, 0).inst = g.insts[TuneIndex(g.insts, S)].id
    BY <1>7 DEF RowOf
  <1>9. \A m \in 1 .. L : g.insts[m].tuneover <= g.insts[TuneIndex(g.insts, S)].tuneover
    BY <1>3, <1>6
  <1> QED
    BY <1>6, <1>8, <1>9 DEF Largest, L

\* What a row of the table says, other than the last.
LEMMA RowAt ==
  ASSUME NEW f \in Features, NEW n \in 1 .. 4 * Len(f)
  PROVE  /\ f[GroupAt(n)] \in Group
         /\ Len(f[GroupAt(n)].insts) >= 2
         /\ schemegen(f)[n] = RowOf(f[GroupAt(n)], (n - 1) % 4)
         /\ schemegen(f)[n].date = f[GroupAt(n)].date
         /\ schemegen(f)[n].alias = Alias(f[GroupAt(n)].product, ids[((n - 1) % 4) + 1])
  <1>1. GroupAt(n) \in 1 .. Len(f) /\ f \in Seq(Group) /\ Len(f) \in Nat
    BY Groups, FeatureShape
  <1>2. Len(f[GroupAt(n)].insts) >= 2
    BY <1>1, FeatureShape DEF IsFeatures
  <1>3. schemegen(f)[n] = RowOf(f[GroupAt(n)], (n - 1) % 4)
    BY <1>1 DEF schemegen, GroupAt
  <1> QED
    BY <1>1, <1>2, <1>3 DEF RowOf

\* The invariant of the loops suffices: the row found is made from a group of the
\* alias's product, and 01 is its largest.
LEMMA InvMostTraded == Inv => MostTraded
  <1> SUFFICES ASSUME Inv, pc = "found", key.alias.id = "01"
               PROVE  \E n \in 1 .. Len(features) :
                        /\ features[n].product = key.alias.product
                        /\ features[n].date = product_aliases[pa].date
                        /\ Largest(features[n], product_aliases[pa].inst)
    BY Zenon DEF MostTraded
  <1>1. /\ TypeOK
        /\ features \in Features
        /\ product_aliases = schemegen(features)
    BY Zenon DEF Inv, TypeOK
  <1>2. pa \in Known
    BY Zenon DEF Inv, RolledToDate, LatestRow
  <1>3. pa \in 1 .. Len(product_aliases) /\ product_aliases[pa].alias = key.alias
    BY <1>2 DEF Known
  <1>4. pa # Len(product_aliases)
    BY <1>1, <1>3, TableShape
  <1>5. Len(product_aliases) = 4 * Len(features) + 1 /\ Len(features) \in Nat
    BY <1>1, GeneratedInOrder, FeatureShape
  <1>6. pa \in 1 .. 4 * Len(features)
    BY <1>3, <1>4, <1>5
  <1> DEFINE n == GroupAt(pa)
             i == (pa - 1) % 4
  <1>7. /\ n \in 1 .. Len(features)
        /\ i \in 0 .. 3
        /\ features[n] \in Group
        /\ Len(features[n].insts) >= 2
        /\ product_aliases[pa] = RowOf(features[n], i)
        /\ product_aliases[pa].date = features[n].date
        /\ product_aliases[pa].alias = Alias(features[n].product, ids[i + 1])
    BY <1>1, <1>6, RowAt, Groups
  <1> HIDE DEF n, i
  <1>8. features[n].product = key.alias.product /\ ids[i + 1] = "01"
    BY <1>3, <1>7 DEF Alias
  <1>9. i = 0
    <2>1. i + 1 \in 1 .. 4
      BY <1>7
    <2>2. ids[2] # "01" /\ ids[3] # "01" /\ ids[4] # "01"
      BY DEF ids
    <2> QED
      BY <1>7, <1>8, <2>1, <2>2
  <1>10. Largest(features[n], product_aliases[pa].inst)
    BY <1>7, <1>9, FirstIsLargest
  <1> QED
    BY <1>7, <1>8, <1>10

\* Whatever the turnovers were and whenever a forecast asks, <product>01 is the
\* instrument of the product that was traded most on the day of the row.
THEOREM AliasMostTraded == Spec => []MostTraded
  BY InvMostTraded, Invariance, PTL
===============================================================================
