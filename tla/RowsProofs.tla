----------------------------- MODULE RowsProofs -----------------------------
(***************************************************************************)
(* What the operators of Rows return, for every listing: sets put in       *)
(* order, rows kept, the order of the table, and the table itself. Nothing *)
(* here is about a program's states. Induction on data goes by a least     *)
(* counterexample (LeastLemma).                                            *)
(***************************************************************************)
EXTENDS Rows, TLAPS, FiniteSetTheorems, WellFoundedInduction

(* A set of numbers has a least one. *)
LEMMA LeastLemma ==
    ASSUME NEW S \in SUBSET Nat, S # {}
    PROVE  \E x \in S : \A y \in S : x <= y
<1> DEFINE Upto == {0 .. x : x \in S}
           R == StrictSubsetOrdering(Nat)
<1>1. Upto \subseteq FiniteSubsetsOf(Nat) /\ Upto # {}
  <2>1. ASSUME NEW x \in S PROVE 0 .. x \in FiniteSubsetsOf(Nat)
    <3>1. IsFiniteSet(0 .. x)
      BY FS_Interval
    <3>2. 0 .. x \subseteq Nat
      OBVIOUS
    <3> QED
      BY <3>1, <3>2 DEF FiniteSubsetsOf
  <2> QED
    BY <2>1
<1>2. IsWellFoundedOn(R, FiniteSubsetsOf(Nat))
  BY FS_StrictSubsetOrderingWellFounded
<1> HIDE DEF R
<1>3. \E u \in Upto : \A v \in Upto : ~(<<v, u>> \in R)
  <2> HIDE DEF Upto
  <2> QED
    BY <1>1, <1>2, WFMin
<1>4. PICK x \in S : \A y \in S : ~(<<0 .. y, 0 .. x>> \in R)
  BY <1>3
<1>5. ASSUME NEW y \in S, y < x PROVE FALSE
  <2>1. 0 .. y \subseteq 0 .. x /\ 0 .. y \subseteq Nat /\ 0 .. x \subseteq Nat
    BY <1>5
  <2>2. x \in 0 .. x /\ x \notin 0 .. y
    BY <1>5
  <2> QED
    BY <1>4, <2>1, <2>2 DEF R, StrictSubsetOrdering
<1> QED
  BY <1>5

(* A set of pairs that orders S. *)
IsOrder(S, before) ==
    /\ \A x \in S : <<x, x>> \notin before
    /\ \A x, y, z \in S : <<x, y>> \in before /\ <<y, z>> \in before => <<x, z>> \in before
    /\ \A x, y \in S : x # y => <<x, y>> \in before \/ <<y, x>> \in before

(* Arranged lists a finite set that is ordered, each element once and in order. *)
LEMMA ArrangedLemma ==
    ASSUME NEW S, IsFiniteSet(S), NEW before, IsOrder(S, before)
    PROVE  /\ Cardinality(S) \in Nat
           /\ Arranged(S, before) \in [1 .. Cardinality(S) -> S]
           /\ \A x \in S : \E k \in 1 .. Cardinality(S) : Arranged(S, before)[k] = x
           /\ \A k, l \in 1 .. Cardinality(S) :
                 k < l => <<Arranged(S, before)[k], Arranged(S, before)[l]>> \in before
<1> DEFINE N == Cardinality(S)
           Below(x) == {y \in S : <<y, x>> \in before}
           rank == [x \in S |-> Cardinality(Below(x)) + 1]
           order == [k \in 1 .. N |-> CHOOSE x \in S : rank[x] = k]
<1>1. N \in Nat
  BY FS_CardinalityType
<1>2. \A x \in S : IsFiniteSet(Below(x)) /\ Cardinality(Below(x)) \in Nat
  BY FS_Subset, FS_CardinalityType
<1>3. ASSUME NEW x \in S PROVE rank[x] \in 1 .. N
  <2>1. Below(x) \in SUBSET S /\ x \notin Below(x)
    BY DEF IsOrder
  <2>2. Cardinality(Below(x)) <= N /\ Cardinality(Below(x)) # N
    BY <2>1, FS_Subset
  <2> QED
    BY <1>1, <1>2, <2>2
<1>4. ASSUME NEW x \in S, NEW y \in S, <<x, y>> \in before PROVE rank[x] < rank[y]
  <2>1. Below(x) \in SUBSET Below(y) /\ x \in Below(y) /\ x \notin Below(x)
    BY <1>4 DEF IsOrder
  <2>2. Cardinality(Below(x)) <= Cardinality(Below(y)) /\ Cardinality(Below(x)) # Cardinality(Below(y))
    <3> HIDE DEF Below
    <3> QED
      BY <1>2, <2>1, FS_Subset
  <2> QED
    BY <1>2, <2>2
<1>5. rank \in Injection(S, 1 .. N)
  <2>1. rank \in [S -> 1 .. N]
    BY <1>3
  <2>2. \A x, y \in S : rank[x] = rank[y] => x = y
    <3> SUFFICES ASSUME NEW x \in S, NEW y \in S, x # y PROVE rank[x] # rank[y]
      OBVIOUS
    <3>1. <<x, y>> \in before \/ <<y, x>> \in before
      BY DEF IsOrder
    <3>2. rank[x] \in Nat /\ rank[y] \in Nat
      BY <1>2
    <3> HIDE DEF rank
    <3> QED
      BY <1>4, <3>1, <3>2
  <2> HIDE DEF rank
  <2> QED
    BY <2>1, <2>2 DEF Injection, IsInjective
<1>6. rank \in Surjection(S, 1 .. N)
  <2>1. IsFiniteSet(1 .. N) /\ Cardinality(1 .. N) = N
    BY <1>1, FS_Interval
  <2> HIDE DEF rank
  <2> QED
    BY <1>5, <2>1, FS_Injection
<1>7. order = Arranged(S, before)
  BY DEF Arranged
<1> HIDE DEF rank
<1>8. \A k \in 1 .. N : order[k] \in S /\ rank[order[k]] = k
  BY <1>6 DEF Surjection
<1>9. \A x \in S : order[rank[x]] = x
  BY <1>3, <1>5, <1>8 DEF Injection, IsInjective
<1>10. ASSUME NEW k \in 1 .. N, NEW l \in 1 .. N, k < l PROVE <<order[k], order[l]>> \in before
  <2>1. order[k] # order[l] /\ ~(rank[order[l]] < rank[order[k]])
    BY <1>8, <1>10
  <2> HIDE DEF order
  <2> QED
    BY <1>4, <1>8, <2>1 DEF IsOrder
<1>11. order \in [1 .. N -> S]
  BY <1>8
<1> HIDE DEF order
<1> QED
  BY <1>1, <1>3, <1>7, <1>9, <1>10, <1>11

(* Keeping lists what it keeps, in the order it was in. *)
LEMMA KeepingLemma ==
    ASSUME NEW s, NEW I \in SUBSET Nat, IsFiniteSet(I)
    PROVE  \E n \in Nat : \E order \in [1 .. n -> I] :
              /\ Keeping(s, I) = [k \in 1 .. n |-> s[order[k]]]
              /\ \A i \in I : \E k \in 1 .. n : order[k] = i
              /\ \A k, l \in 1 .. n : k < l => order[k] < order[l]
<1> DEFINE before == {p \in I \X I : p[1] < p[2]}
           order == Arranged(I, before)
<1>1. IsOrder(I, before)
  BY DEF IsOrder
<1>2. Keeping(s, I) = [k \in 1 .. Cardinality(I) |-> s[order[k]]]
  BY DEF Keeping
<1>3. \A x, y : <<x, y>> \in before => x < y
  OBVIOUS
<1> HIDE DEF before
<1>4. /\ Cardinality(I) \in Nat
      /\ order \in [1 .. Cardinality(I) -> I]
      /\ \A i \in I : \E k \in 1 .. Cardinality(I) : order[k] = i
      /\ \A k, l \in 1 .. Cardinality(I) : k < l => order[k] < order[l]
  BY <1>1, <1>3, ArrangedLemma
<1> HIDE DEF order
<1> QED
  BY <1>2, <1>4

Columns == {SortKeys[i] : i \in 1 .. 6}
Weights == Nat \X Nat \X Nat \X Nat \X Nat

LEMMA WeightLemma ==
    ASSUME NEW e \in Entry, NEW key \in Columns
    PROVE  Weight(e, key) \in Weights
<1>1. key \in {"port", "name", "project", "pid", "proto", "addr"}
  BY DEF Columns, SortKeys
<1>2. Column(e, key) \in Nat
  BY <1>1 DEF Column, Entry
<1> QED
  BY <1>2 DEF Weight, Weights, Entry

(* Less compares column by column. *)
LEMMA LessUnfolded ==
    ASSUME NEW v, NEW w
    PROVE  Less(v, w) <=>
              \/ v[1] < w[1]
              \/ v[1] = w[1] /\ v[2] < w[2]
              \/ v[1] = w[1] /\ v[2] = w[2] /\ v[3] < w[3]
              \/ v[1] = w[1] /\ v[2] = w[2] /\ v[3] = w[3] /\ v[4] < w[4]
              \/ v[1] = w[1] /\ v[2] = w[2] /\ v[3] = w[3] /\ v[4] = w[4] /\ v[5] < w[5]
<1>1. 1 .. 5 = {1, 2, 3, 4, 5} /\ 1 .. 1 - 1 = {} /\ 1 .. 2 - 1 = {1} /\ 1 .. 3 - 1 = {1, 2}
      /\ 1 .. 4 - 1 = {1, 2, 3} /\ 1 .. 5 - 1 = {1, 2, 3, 4}
  OBVIOUS
<1> QED
  BY <1>1 DEF Less

LEMMA LessLemma ==
    ASSUME NEW u \in Weights, NEW v \in Weights, NEW w \in Weights
    PROVE  /\ ~Less(u, u)
           /\ Less(u, v) /\ Less(v, w) => Less(u, w)
           /\ u # v => Less(u, v) \/ Less(v, u)
<1>1. /\ u = <<u[1], u[2], u[3], u[4], u[5]>> /\ v = <<v[1], v[2], v[3], v[4], v[5]>>
      /\ \A k \in 1 .. 5 : u[k] \in Nat /\ v[k] \in Nat /\ w[k] \in Nat
  BY DEF Weights
<1>2. \A k \in {1, 2, 3, 4, 5} : u[k] \in Nat /\ v[k] \in Nat /\ w[k] \in Nat
  BY <1>1
<1>3. ~Less(u, u)
  BY <1>2, LessUnfolded
<1>4. Less(u, v) /\ Less(v, w) => Less(u, w)
  BY <1>2, LessUnfolded
<1>5. u # v => Less(u, v) \/ Less(v, u)
  BY <1>1, <1>2, LessUnfolded
<1> QED
  BY <1>3, <1>4, <1>5

(* A stable comparison of weighted places is an order of them. *)
LEMMA StableLemma ==
    ASSUME NEW I \in SUBSET Nat, NEW weight \in [I -> Weights], NEW place \in [I -> Nat],
           NEW desc \in BOOLEAN,
           NEW i \in I, NEW j \in I, NEW k \in I
    PROVE  LET B(x, y) == StableBefore(weight[x], weight[y], desc, place[x] < place[y])
           IN /\ ~B(i, i)
              /\ B(i, j) /\ B(j, k) => B(i, k)
              /\ place[i] # place[j] => B(i, j) \/ B(j, i)
<1>1. /\ weight[i] \in Weights /\ weight[j] \in Weights /\ weight[k] \in Weights
      /\ place[i] \in Nat /\ place[j] \in Nat /\ place[k] \in Nat
  OBVIOUS
<1>2. /\ ~Less(weight[i], weight[i])
      /\ Less(weight[i], weight[j]) /\ Less(weight[j], weight[k]) => Less(weight[i], weight[k])
      /\ Less(weight[k], weight[j]) /\ Less(weight[j], weight[i]) => Less(weight[k], weight[i])
      /\ weight[i] # weight[j] => Less(weight[i], weight[j]) \/ Less(weight[j], weight[i])
  BY <1>1, LessLemma
<1> QED
  BY <1>1, <1>2 DEF StableBefore, Before

(* The places of I, ordered by a stable comparison of their weights. *)
LEMMA StableOrderLemma ==
    ASSUME NEW I \in SUBSET Nat, NEW weight \in [I -> Weights], NEW desc \in BOOLEAN
    PROVE  IsOrder(I, {p \in I \X I : StableBefore(weight[p[1]], weight[p[2]], desc, p[1] < p[2])})
<1> DEFINE inOrder == {p \in I \X I : StableBefore(weight[p[1]], weight[p[2]], desc, p[1] < p[2])}
           B(x, y) == StableBefore(weight[x], weight[y], desc, x < y)
           place == [i \in I |-> i]
<1>1. \A i, j \in I : <<i, j>> \in inOrder <=> B(i, j)
  OBVIOUS
<1>2. \A i, j, k \in I : /\ ~B(i, i)
                         /\ B(i, j) /\ B(j, k) => B(i, k)
                         /\ i # j => B(i, j) \/ B(j, i)
  <2> SUFFICES ASSUME NEW i \in I, NEW j \in I, NEW k \in I
               PROVE  /\ ~B(i, i)
                      /\ B(i, j) /\ B(j, k) => B(i, k)
                      /\ i # j => B(i, j) \/ B(j, i)
    OBVIOUS
  <2>1. place \in [I -> Nat] /\ place[i] = i /\ place[j] = j /\ place[k] = k
    OBVIOUS
  <2> HIDE DEF place
  <2>2. LET P(x, y) == StableBefore(weight[x], weight[y], desc, place[x] < place[y])
        IN /\ ~P(i, i)
           /\ P(i, j) /\ P(j, k) => P(i, k)
           /\ place[i] # place[j] => P(i, j) \/ P(j, i)
    BY <2>1, StableLemma
  <2> QED
    BY <2>1, <2>2
<1> HIDE DEF inOrder, B
<1> QED
  BY <1>1, <1>2 DEF IsOrder, inOrder

(* The first of some places in an order. *)
LEMMA FirstLemma ==
    ASSUME NEW S, IsFiniteSet(S), NEW before, IsOrder(S, before), NEW T \in SUBSET S, T # {}
    PROVE  \E l \in T : \A j \in T \ {l} : <<l, j>> \in before
<1>1. IsFiniteSet(T) /\ IsOrder(T, before)
  BY FS_Subset DEF IsOrder
<1> DEFINE order == Arranged(T, before)
           N == Cardinality(T)
<1>2. /\ N \in Nat /\ order \in [1 .. N -> T]
      /\ \A x \in T : \E k \in 1 .. N : order[k] = x
      /\ \A k, l \in 1 .. N : k < l => <<order[k], order[l]>> \in before
  BY <1>1, ArrangedLemma
<1> HIDE DEF order, N
<1>3. 1 \in 1 .. N
  BY <1>2
<1>4. \A j \in T \ {order[1]} : <<order[1], j>> \in before
  <2> SUFFICES ASSUME NEW j \in T \ {order[1]} PROVE <<order[1], j>> \in before
    OBVIOUS
  <2>1. PICK k \in 1 .. N : order[k] = j
    BY <1>2
  <2>2. 1 < k
    BY <1>2, <1>3, <2>1
  <2> QED
    BY <1>2, <1>3, <2>1, <2>2
<1> QED
  BY <1>2, <1>3, <1>4

(* What every table is: rows of entries, each under its group, and a row that
   stands for every group that has one. *)
ProcessGroup(e) == [owner |-> <<"process", e.pid>>, proto |-> e.proto, port |-> e.port]
Stands(r) == r.fold # "child"
IsTable(rs) ==
    /\ Len(rs) \in Nat
    /\ rs = <<>> <=> Len(rs) = 0
    /\ \A k \in 1 .. Len(rs) :
          /\ rs[k].e \in Entry
          /\ rs[k].e.pid > 0 => rs[k].group = ProcessGroup(rs[k].e)
          /\ rs[k].grouped = IsGroupable(rs[k].group)
    /\ \A k \in 1 .. Len(rs) :
          \E l \in 1 .. Len(rs) : rs[l].group = rs[k].group /\ Stands(rs[l])

(* flattenGroups makes a table of every listing. *)
LEMMA FlattenLemma ==
    ASSUME NEW n \in Nat, NEW es \in [1 .. n -> Entry], NEW key \in Columns,
           NEW desc \in BOOLEAN, NEW open,
           NEW rs, rs = FlattenGroups(es, key, desc, open)
    PROVE  IsTable(rs)
<1> DEFINE all == DOMAIN es
           group == [i \in all |-> GroupOf(es, i)]
           members == [i \in all |-> {j \in all : group[j] = group[i]}]
           weight == [i \in all |-> Weight(es[i], key)]
           inOrder == {p \in all \X all : StableBefore(weight[p[1]], weight[p[2]], desc, p[1] < p[2])}
           lead == [i \in all |-> CHOOSE l \in members[i] :
                                     \A j \in members[i] \ {l} : <<l, j>> \in inOrder]
           first == [i \in all |-> CHOOSE f \in members[i] : \A j \in members[i] : f <= j]
           RowBefore(i, j) ==
               IF group[i] = group[j] THEN <<i, j>> \in inOrder
               ELSE StableBefore(weight[lead[i]], weight[lead[j]], desc, first[i] < first[j])
           Open(i) == group[i] \in open
           visible == {i \in all : i = lead[i] \/ Open(i)}
           Fold(i) == IF Cardinality(members[i]) = 1 THEN "none"
                      ELSE IF i # lead[i] THEN "child"
                      ELSE IF Open(i) THEN "expanded" ELSE "collapsed"
           RowOf(i) == [e |-> es[i], group |-> group[i], grouped |-> IsGroupable(group[i]),
                        fold |-> Fold(i)]
           rowsBefore == {p \in visible \X visible : RowBefore(p[1], p[2])}
           order == Arranged(visible, rowsBefore)
           len == Cardinality(visible)
<1>0. all = 1 .. n
  OBVIOUS
<1>1. rs = [k \in 1 .. len |-> RowOf(order[k])]
  BY DEF FlattenGroups
<1>2. all \in SUBSET Nat /\ IsFiniteSet(all)
  BY <1>0, FS_Interval
<1>3. weight \in [all -> Weights]
  BY <1>0, WeightLemma
<1> HIDE DEF all
<1>4. IsOrder(all, inOrder)
  <2> HIDE DEF weight
  <2> QED
    BY <1>2, <1>3, StableOrderLemma
<1>5. \A i \in all : i \in members[i] /\ members[i] \in SUBSET all
  OBVIOUS
<1>6. \A i, j \in all : j \in members[i] <=> group[i] = group[j]
  OBVIOUS
<1>7. \A i, j \in all : group[i] = group[j] => members[i] = members[j]
  OBVIOUS
<1> HIDE DEF weight, inOrder, members
<1>8. \A i \in all : lead[i] \in members[i] /\ \A j \in members[i] \ {lead[i]} : <<lead[i], j>> \in inOrder
  <2> SUFFICES ASSUME NEW i \in all
               PROVE  \E l \in members[i] : \A j \in members[i] \ {l} : <<l, j>> \in inOrder
    OBVIOUS
  <2> QED
    BY <1>2, <1>4, <1>5, FirstLemma
<1>9. \A i \in all : first[i] \in members[i] /\ \A j \in members[i] : first[i] <= j
  <2> SUFFICES ASSUME NEW i \in all PROVE \E f \in members[i] : \A j \in members[i] : f <= j
    OBVIOUS
  <2> QED
    BY <1>2, <1>5, LeastLemma
<1>10. \A i, j \in all : group[i] = group[j] => lead[i] = lead[j] /\ first[i] = first[j]
  BY <1>7
<1>11. \A i \in all : /\ lead[i] \in all /\ group[lead[i]] = group[i]
                      /\ first[i] \in all /\ group[first[i]] = group[i]
  BY <1>5, <1>6, <1>8, <1>9
<1> HIDE DEF lead, first, group
<1>12. visible \in SUBSET all /\ IsFiniteSet(visible)
  BY <1>2, FS_Subset
<1>13. IsOrder(visible, rowsBefore)
  <2> DEFINE leadWeight == [i \in all |-> weight[lead[i]]]
             Apart(i, j) == StableBefore(leadWeight[i], leadWeight[j], desc, first[i] < first[j])
  <2>1. leadWeight \in [all -> Weights] /\ first \in [all -> Nat]
    BY <1>2, <1>3, <1>11 DEF first
  <2>2. \A i, j \in all : group[i] # group[j] => first[i] # first[j]
    BY <1>11
  <2>3. \A i, j \in visible : <<i, j>> \in rowsBefore <=>
           IF group[i] = group[j] THEN <<i, j>> \in inOrder ELSE Apart(i, j)
    BY <1>12
  <2>4. \A i, j, k \in all : /\ ~Apart(i, i)
                             /\ Apart(i, j) /\ Apart(j, k) => Apart(i, k)
                             /\ first[i] # first[j] => Apart(i, j) \/ Apart(j, i)
    <3> SUFFICES ASSUME NEW i \in all, NEW j \in all, NEW k \in all
                 PROVE  /\ ~Apart(i, i)
                        /\ Apart(i, j) /\ Apart(j, k) => Apart(i, k)
                        /\ first[i] # first[j] => Apart(i, j) \/ Apart(j, i)
      OBVIOUS
    <3> HIDE DEF leadWeight
    <3>1. LET P(x, y) == StableBefore(leadWeight[x], leadWeight[y], desc, first[x] < first[y])
          IN /\ ~P(i, i)
             /\ P(i, j) /\ P(j, k) => P(i, k)
             /\ first[i] # first[j] => P(i, j) \/ P(j, i)
      BY <1>2, <2>1, StableLemma
    <3> QED
      BY <3>1
  <2>5. \A i, j, k, l \in all : group[i] = group[j] /\ group[k] = group[l] => (Apart(i, k) <=> Apart(j, l))
    BY <1>10
  <2> HIDE DEF Apart, rowsBefore
  <2>6. \A x \in visible : <<x, x>> \notin rowsBefore
    BY <1>4, <1>12, <2>3 DEF IsOrder
  <2>7. \A x, y \in visible : x # y => <<x, y>> \in rowsBefore \/ <<y, x>> \in rowsBefore
    BY <1>4, <1>12, <2>2, <2>3, <2>4 DEF IsOrder
  <2>8. ASSUME NEW x \in visible, NEW y \in visible, NEW z \in visible,
               <<x, y>> \in rowsBefore, <<y, z>> \in rowsBefore
        PROVE  <<x, z>> \in rowsBefore
    <3>0. x \in all /\ y \in all /\ z \in all
      BY <1>12
    <3>1. CASE group[x] = group[y] /\ group[y] = group[z]
      BY <1>4, <2>3, <2>8, <3>0, <3>1 DEF IsOrder
    <3>2. CASE group[x] = group[y] /\ group[y] # group[z]
      BY <2>3, <2>5, <2>8, <3>0, <3>2
    <3>3. CASE group[x] # group[y] /\ group[y] = group[z]
      BY <2>3, <2>5, <2>8, <3>0, <3>3
    <3>4. CASE group[x] # group[y] /\ group[y] # group[z]
      <4>1. Apart(x, y) /\ Apart(y, z) /\ Apart(x, z)
        BY <2>3, <2>4, <2>8, <3>0, <3>4
      <4>2. group[x] # group[z]
        BY <2>4, <2>5, <3>0, <4>1
      <4> QED
        BY <2>3, <4>1, <4>2
    <3> QED
      BY <3>1, <3>2, <3>3, <3>4
  <2> QED
    BY <2>6, <2>7, <2>8 DEF IsOrder
<1>14. \A i \in all : lead[i] \in visible
  BY <1>10, <1>11
<1> HIDE DEF rowsBefore, visible
<1>15. /\ len \in Nat /\ order \in [1 .. len -> visible]
       /\ \A x \in visible : \E k \in 1 .. len : order[k] = x
  BY <1>12, <1>13, ArrangedLemma
<1>16. order \in [1 .. len -> all] /\ \A k \in 1 .. len : order[k] \in all
  BY <1>12, <1>15
<1>17. \A i \in all : /\ RowOf(i).e = es[i] /\ RowOf(i).group = GroupOf(es, i)
                      /\ RowOf(i).grouped = IsGroupable(GroupOf(es, i))
  BY DEF group
<1>18. \A i \in all : /\ RowOf(lead[i]).group = group[i] /\ Stands(RowOf(lead[i]))
                      /\ RowOf(i).group = group[i]
  BY <1>10, <1>11 DEF Stands
<1> HIDE DEF RowOf, order, len
<1>19. Len(rs) = len /\ (rs = <<>> <=> len = 0) /\ \A k \in 1 .. len : rs[k] = RowOf(order[k])
  <2> DEFINE row == [k \in 1 .. len |-> RowOf(order[k])]
  <2>1. row = <<>> <=> len = 0
    BY <1>15
  <2>2. Len(row) = len
    BY <1>15
  <2> QED
    BY <1>1, <2>1, <2>2
<1>20. ASSUME NEW k \in 1 .. len
       PROVE  /\ rs[k].e \in Entry
              /\ rs[k].e.pid > 0 => rs[k].group = ProcessGroup(rs[k].e)
              /\ rs[k].grouped = IsGroupable(rs[k].group)
              /\ \E l \in 1 .. len : rs[l].group = rs[k].group /\ Stands(rs[l])
  <2>1. order[k] \in all /\ lead[order[k]] \in visible /\ rs[k] = RowOf(order[k])
    BY <1>14, <1>16, <1>19
  <2>2. PICK l \in 1 .. len : order[l] = lead[order[k]]
    BY <1>15, <2>1
  <2>3. rs[l].group = rs[k].group /\ Stands(rs[l])
    BY <1>18, <1>19, <2>1, <2>2
  <2>4. /\ rs[k].e = es[order[k]] /\ rs[k].e \in Entry
        /\ rs[k].group = GroupOf(es, order[k])
        /\ rs[k].grouped = IsGroupable(rs[k].group)
    BY <1>0, <1>17, <2>1
  <2>5. rs[k].e.pid > 0 => rs[k].group = ProcessGroup(rs[k].e)
    BY <2>4 DEF GroupOf, ProcessGroup
  <2> QED
    BY <2>3, <2>4, <2>5
<1> QED
  BY <1>15, <1>19, <1>20 DEF IsTable
=============================================================================
