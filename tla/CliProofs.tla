----------------------------- MODULE CliProofs -----------------------------
(***************************************************************************)
(* Theorems about Cli and about the listing it works on, for every command *)
(* line, every listing of the platform and every answer of Docker.         *)
(*                                                                         *)
(* KilledAsAsked and ExitIsTrue are not inductive on their own: what was   *)
(* tried must be a prefix of the owners of the rows that were printed, and *)
(* what is left their rest, so that nobody is named twice and at the end   *)
(* nobody was left out; and the rows must have passed the filters, so that *)
(* they are of the port.                                                   *)
(***************************************************************************)
EXTENDS Cli, RowsProofs, SequenceTheorems

------------------------------------------------------------------------------
(* Loops over a listing. *)

(* Keeping some elements of a sequence. *)
LEMMA KeptLemma ==
    ASSUME NEW T, NEW s \in Seq(T), NEW I \in SUBSET Nat, I \subseteq DOMAIN s, NEW kept, kept = Keeping(s, I)
    PROVE  /\ kept \in Seq(T) /\ Len(kept) \in Nat /\ DOMAIN kept = 1 .. Len(kept)
           /\ \E order \in [1 .. Len(kept) -> I] :
                 /\ \A k \in 1 .. Len(kept) : kept[k] = s[order[k]]
                 /\ \A i \in I : \E k \in 1 .. Len(kept) : order[k] = i
                 /\ \A k, l \in 1 .. Len(kept) : k < l => order[k] < order[l]
<1>1. DOMAIN s = 1 .. Len(s) /\ Len(s) \in Nat /\ \A i \in DOMAIN s : s[i] \in T
  OBVIOUS
<1>2. IsFiniteSet(I)
  <2>1. IsFiniteSet(DOMAIN s)
    BY <1>1, FS_Interval
  <2> QED
    BY <1>1, <2>1, FS_Subset
<1>3. \E n \in Nat : \E order \in [1 .. n -> I] :
          /\ Keeping(s, I) = [k \in 1 .. n |-> s[order[k]]]
          /\ \A i \in I : \E k \in 1 .. n : order[k] = i
          /\ \A k, l \in 1 .. n : k < l => order[k] < order[l]
  BY <1>2, KeepingLemma
<1>4. PICK n \in Nat : \E order \in [1 .. n -> I] :
          /\ Keeping(s, I) = [k \in 1 .. n |-> s[order[k]]]
          /\ \A i \in I : \E k \in 1 .. n : order[k] = i
          /\ \A k, l \in 1 .. n : k < l => order[k] < order[l]
  BY <1>3
<1>5. PICK order \in [1 .. n -> I] :
          /\ kept = [k \in 1 .. n |-> s[order[k]]]
          /\ \A i \in I : \E k \in 1 .. n : order[k] = i
          /\ \A k, l \in 1 .. n : k < l => order[k] < order[l]
  BY <1>4
<1>6. kept \in Seq(T) /\ Len(kept) = n /\ DOMAIN kept = 1 .. n
  <2>1. \A k \in 1 .. n : s[order[k]] \in T
    BY <1>1
  <2> QED
    BY <1>5, <2>1
<1>7. \A k \in 1 .. n : kept[k] = s[order[k]]
  BY <1>5
<1> QED
  BY <1>5, <1>6, <1>7

(* UniqueIdents names the owner of every row that has one, once, as a row has it. *)
LEMMA UniqueLemma ==
    ASSUME NEW es \in Seq(Entry), NEW plan, plan = UniqueIdents(es)
    PROVE  /\ plan \in Seq([pid : Nat \ {0}, start : Nat])
           /\ \A k \in 1 .. Len(plan) : \E r \in DOMAIN es : plan[k] = IdentOf(es[r])
           /\ \A k, l \in 1 .. Len(plan) : k # l => plan[k].pid # plan[l].pid
           /\ \A r \in DOMAIN es : es[r].pid # 0 => \E k \in 1 .. Len(plan) : plan[k].pid = es[r].pid
<1>1. DOMAIN es = 1 .. Len(es) /\ Len(es) \in Nat /\ \A i \in DOMAIN es : es[i] \in Entry
  OBVIOUS
<1>2. FirstOfPid(es) \in SUBSET Nat
  BY <1>1 DEF FirstOfPid
<1>3. PICK I \in SUBSET Nat : I = FirstOfPid(es)
  BY <1>2
<1>4. I \subseteq DOMAIN es /\ I \in SUBSET Nat /\ \A i \in I : HasPID(es[i]) /\ \A l \in 1 .. i - 1 : es[l].pid # es[i].pid
  BY <1>1, <1>3 DEF FirstOfPid
<1>5. PICK firsts : firsts = Keeping(es, I)
  OBVIOUS
<1>6. /\ firsts \in Seq(Entry) /\ Len(firsts) \in Nat /\ DOMAIN firsts = 1 .. Len(firsts)
      /\ \E order \in [1 .. Len(firsts) -> I] :
            /\ \A k \in 1 .. Len(firsts) : firsts[k] = es[order[k]]
            /\ \A i \in I : \E k \in 1 .. Len(firsts) : order[k] = i
            /\ \A k, l \in 1 .. Len(firsts) : k < l => order[k] < order[l]
  BY <1>4, <1>5, KeptLemma
<1>7. PICK order \in [1 .. Len(firsts) -> I] :
         /\ \A k \in 1 .. Len(firsts) : firsts[k] = es[order[k]]
         /\ \A i \in I : \E k \in 1 .. Len(firsts) : order[k] = i
         /\ \A k, l \in 1 .. Len(firsts) : k < l => order[k] < order[l]
  BY <1>6
<1>8. plan = [k \in 1 .. Len(firsts) |-> IdentOf(firsts[k])]
  BY <1>3, <1>5, <1>6 DEF UniqueIdents
<1>9. \A k \in 1 .. Len(firsts) : /\ order[k] \in I /\ order[k] \in DOMAIN es /\ order[k] \in Nat
                                  /\ es[order[k]] \in Entry /\ HasPID(es[order[k]])
                                  /\ IdentOf(firsts[k]) = IdentOf(es[order[k]])
                                  /\ IdentOf(firsts[k]).pid = es[order[k]].pid
  BY <1>1, <1>4, <1>7 DEF IdentOf
<1>10. /\ plan \in Seq([pid : Nat \ {0}, start : Nat])
      /\ Len(plan) = Len(firsts)
      /\ \A k \in 1 .. Len(firsts) : plan[k] = IdentOf(es[order[k]]) /\ plan[k].pid = es[order[k]].pid
  <2>1. \A k \in 1 .. Len(firsts) : IdentOf(firsts[k]) \in [pid : Nat \ {0}, start : Nat]
    <3> SUFFICES ASSUME NEW k \in 1 .. Len(firsts)
                 PROVE  IdentOf(es[order[k]]) \in [pid : Nat \ {0}, start : Nat]
      BY <1>9
    <3>1. es[order[k]].pid \in Nat \ {0} /\ es[order[k]].start \in Nat
      <4>1. es[order[k]] \in Entry /\ es[order[k]].pid > 0
        BY <1>9 DEF HasPID
      <4>2. \A e \in Entry : e.pid > 0 => e.pid \in Nat \ {0} /\ e.start \in Nat
        BY DEF Entry
      <4> QED
        BY <4>1, <4>2
    <3> QED
      BY <3>1 DEF IdentOf
  <2>2. plan \in Seq([pid : Nat \ {0}, start : Nat]) /\ Len(plan) = Len(firsts)
    BY <1>6, <1>8, <2>1
  <2> QED
    BY <1>8, <1>9, <2>2
<1>11. \A k, l \in 1 .. Len(firsts) : k < l => es[order[k]].pid # es[order[l]].pid
  <2> SUFFICES ASSUME NEW k \in 1 .. Len(firsts), NEW l \in 1 .. Len(firsts), k < l
               PROVE  es[order[k]].pid # es[order[l]].pid
    OBVIOUS
  <2>1. order[k] \in 1 .. order[l] - 1
    BY <1>1, <1>7, <1>9
  <2> QED
    BY <1>4, <1>9, <2>1
<1>12. ASSUME NEW r \in DOMAIN es, es[r].pid # 0
       PROVE  \E k \in 1 .. Len(firsts) : es[order[k]].pid = es[r].pid
  <2> DEFINE same == {j \in DOMAIN es : es[j].pid = es[r].pid}
  <2>0. same \in SUBSET Nat /\ same # {}
    BY <1>1
  <2> HIDE DEF same
  <2>1. PICK i \in same : \A j \in same : i <= j
    BY <2>0, LeastLemma
  <2>2. i \in I
    <3>1. i \in DOMAIN es /\ es[i].pid = es[r].pid /\ es[r].pid \in Nat
      BY <1>1 DEF same, Entry
    <3>2. ASSUME NEW l \in 1 .. i - 1, es[l].pid = es[i].pid PROVE FALSE
      <4>1. l \in DOMAIN es /\ l < i
        BY <1>1, <3>1
      <4>2. l \in same
        BY <3>1, <3>2, <4>1 DEF same
      <4> QED
        BY <1>1, <2>1, <3>1, <4>1, <4>2
    <3> QED
      BY <1>3, <1>12, <3>1, <3>2 DEF FirstOfPid, HasPID
  <2>3. PICK k \in 1 .. Len(firsts) : order[k] = i
    BY <1>7, <2>2
  <2>4. es[i].pid = es[r].pid
    BY DEF same
  <2> QED
    BY <2>3, <2>4
<1>13. \A k, l \in 1 .. Len(firsts) : k # l => es[order[k]].pid # es[order[l]].pid
  <2> SUFFICES ASSUME NEW k \in 1 .. Len(firsts), NEW l \in 1 .. Len(firsts), k # l
               PROVE  es[order[k]].pid # es[order[l]].pid
    OBVIOUS
  <2>1. Len(firsts) \in Nat
    BY <1>6
  <2>2. k < l \/ l < k
    BY <2>1
  <2> QED
    BY <1>11, <2>2
<1>14. \A k \in 1 .. Len(plan) : \E r \in DOMAIN es : plan[k] = IdentOf(es[r])
  BY <1>9, <1>10
<1>15. \A k, l \in 1 .. Len(plan) : k # l => plan[k].pid # plan[l].pid
  BY <1>10, <1>13
<1>16. \A r \in DOMAIN es : es[r].pid # 0 => \E k \in 1 .. Len(plan) : plan[k].pid = es[r].pid
  <2> SUFFICES ASSUME NEW r \in DOMAIN es, es[r].pid # 0
               PROVE  \E k \in 1 .. Len(plan) : plan[k].pid = es[r].pid
    OBVIOUS
  <2>1. PICK k \in 1 .. Len(firsts) : es[order[k]].pid = es[r].pid
    BY <1>12
  <2>2. plan[k].pid = es[r].pid /\ k \in 1 .. Len(plan)
    BY <1>10, <2>1
  <2> QED
    BY <2>2
<1> QED
  BY <1>10, <1>14, <1>15, <1>16

------------------------------------------------------------------------------
(* Finite sets. *)

(* Subsets of a finite set that are bad whatever element is taken from them
   would end in the empty one. *)
LEMMA SmallestLemma ==
    ASSUME NEW S, IsFiniteSet(S), NEW bad \in SUBSET SUBSET S,
           {} \notin bad,
           \A T \in bad : \A x \in T : T \ {x} \in bad
    PROVE  bad = {}
<1> SUFFICES ASSUME bad # {} PROVE FALSE
  OBVIOUS
<1> DEFINE R == StrictSubsetOrdering(S)
<1>1. IsWellFoundedOn(R, FiniteSubsetsOf(S))
  BY FS_StrictSubsetOrderingWellFounded
<1>2. bad \subseteq FiniteSubsetsOf(S)
  BY FS_FiniteSubsetsOfFinite
<1> HIDE DEF R
<1>3. \E T \in bad : \A U \in bad : ~(<<U, T>> \in R)
  BY <1>1, <1>2, WFMin
<1>4. PICK T \in bad : \A U \in bad : ~(<<U, T>> \in R)
  BY <1>3
<1>5. PICK x \in T : TRUE
  OBVIOUS
<1>6. T \ {x} \in bad /\ T \ {x} \subseteq T /\ T \ {x} # T /\ T \in SUBSET S
  BY <1>5
<1>7. <<T \ {x}, T>> \in R
  BY <1>6 DEF R, StrictSubsetOrdering
<1> QED
  BY <1>4, <1>6, <1>7

LEMMA UnionLemma ==
    ASSUME NEW A, IsFiniteSet(A), NEW B, IsFiniteSet(B)
    PROVE  IsFiniteSet(A \cup B)
<1> DEFINE bad == {T \in SUBSET B : ~IsFiniteSet(A \cup T)}
<1>1. {} \notin bad
  <2>1. A \cup {} = A
    OBVIOUS
  <2> QED
    BY <2>1
<1>2. ASSUME NEW T \in bad, NEW x \in T PROVE T \ {x} \in bad
  <2>1. A \cup T = (A \cup (T \ {x})) \cup {x}
    OBVIOUS
  <2> QED
    BY <2>1, FS_AddElement
<1>3. bad \in SUBSET SUBSET B
  OBVIOUS
<1>4. B \in bad <=> ~IsFiniteSet(A \cup B)
  OBVIOUS
<1> HIDE DEF bad
<1>5. bad = {}
  BY <1>1, <1>2, <1>3, SmallestLemma
<1> QED
  BY <1>4, <1>5

LEMMA UnionsLemma ==
    ASSUME NEW I, IsFiniteSet(I), NEW F, \A i \in I : IsFiniteSet(F[i])
    PROVE  IsFiniteSet(UNION {F[i] : i \in I})
<1> DEFINE bad == {T \in SUBSET I : ~IsFiniteSet(UNION {F[i] : i \in T})}
<1>1. {} \notin bad
  <2>1. UNION {F[i] : i \in {}} = {}
    OBVIOUS
  <2> QED
    BY <2>1, FS_EmptySet
<1>2. ASSUME NEW T \in bad, NEW x \in T PROVE T \ {x} \in bad
  <2>1. UNION {F[i] : i \in T} = (UNION {F[i] : i \in T \ {x}}) \cup F[x]
    OBVIOUS
  <2> QED
    BY <2>1, UnionLemma
<1>3. bad \in SUBSET SUBSET I
  OBVIOUS
<1>4. I \in bad <=> ~IsFiniteSet(UNION {F[i] : i \in I})
  OBVIOUS
<1> HIDE DEF bad
<1>5. bad = {}
  BY <1>1, <1>2, <1>3, SmallestLemma
<1> QED
  BY <1>4, <1>5

------------------------------------------------------------------------------
(* What Docker publishes, and the rows it becomes. *)
PublishedPort == [cid : Nat, name : Nat, addr : DOMAIN Canonical, port : Nat, type : {"tcp", "udp"}]
HostRow == {e \in Entry : e.source = "process"}
DockerRow == {e \in Entry : e.source = "docker" /\ e.pid = 0}

LEMMA PublishedLemma ==
    ASSUME NEW containers \in Seq(Container), NEW ports, ports = PublishedPorts(containers)
    PROVE  ports \in Seq(PublishedPort)
<1> DEFINE port(place) == containers[place[1]].ports[place[2]]
           all == UNION {{i} \X DOMAIN containers[i].ports : i \in DOMAIN containers}
           places == {q \in all : Reaches(port(q))}
           before == {p \in places \X places :
                         p[1][1] < p[2][1] \/ (p[1][1] = p[2][1] /\ p[1][2] < p[2][2])}
           order == Arranged(places, before)
           row == [k \in 1 .. Cardinality(places) |-> Published(containers[order[k][1]], port(order[k]))]
<1>1. ports = row
  BY DEF PublishedPorts
<1>2. /\ DOMAIN containers = 1 .. Len(containers) /\ Len(containers) \in Nat
      /\ \A i \in DOMAIN containers : containers[i] \in Container
  OBVIOUS
<1>3. \A i \in DOMAIN containers : /\ containers[i].ports \in Seq(PortMapping)
                                   /\ containers[i].names \in Seq(Nat)
                                   /\ containers[i].id \in Nat \X Nat
  BY <1>2 DEF Container
<1>4. \A i \in DOMAIN containers : \A j \in DOMAIN containers[i].ports :
         j \in Nat /\ containers[i].ports[j] \in PortMapping
  BY <1>3
<1>5. \A q \in all : /\ q = <<q[1], q[2]>> /\ q[1] \in DOMAIN containers
                     /\ q[2] \in DOMAIN containers[q[1]].ports
  OBVIOUS
<1>6. \A q \in all : q[1] \in Nat /\ q[2] \in Nat /\ port(q) \in PortMapping
  BY <1>2, <1>4, <1>5
<1>7. IsFiniteSet(all)
  <2> DEFINE F == [i \in DOMAIN containers |-> {i} \X DOMAIN containers[i].ports]
  <2>1. ASSUME NEW i \in DOMAIN containers PROVE IsFiniteSet(F[i])
    <3> DEFINE D == DOMAIN containers[i].ports
               f == [j \in D |-> <<i, j>>]
    <3>1. D = 1 .. Len(containers[i].ports) /\ Len(containers[i].ports) \in Nat
      BY <1>3
    <3>2. IsFiniteSet(D)
      BY <3>1, FS_Interval
    <3> HIDE DEF D
    <3>3. f \in Surjection(D, {i} \X D)
      <4>1. f \in [D -> {i} \X D]
        OBVIOUS
      <4>2. ASSUME NEW t \in {i} \X D PROVE \E j \in D : f[j] = t
        <5>1. t[2] \in D /\ t = <<i, t[2]>> /\ f[t[2]] = <<i, t[2]>>
          OBVIOUS
        <5> QED
          BY <5>1
      <4> HIDE DEF f
      <4> QED
        BY <4>1, <4>2 DEF Surjection
    <3>4. IsFiniteSet({i} \X D)
      BY <3>2, <3>3, FS_Surjection
    <3> QED
      BY <3>4 DEF D
  <2>2. IsFiniteSet(DOMAIN containers)
    BY <1>2, FS_Interval
  <2>3. all = UNION {F[i] : i \in DOMAIN containers}
    OBVIOUS
  <2> HIDE DEF F, all
  <2> QED
    BY <2>1, <2>2, <2>3, UnionsLemma
<1> HIDE DEF all, port
<1>8. places \in SUBSET all /\ IsFiniteSet(places)
  BY <1>7, FS_Subset
<1>9. IsOrder(places, before)
  BY <1>5, <1>6, <1>8 DEF IsOrder
<1> HIDE DEF before
<1>10. Cardinality(places) \in Nat /\ order \in [1 .. Cardinality(places) -> places]
  BY <1>8, <1>9, ArrangedLemma
<1> HIDE DEF places, order
<1>11. ASSUME NEW k \in 1 .. Cardinality(places)
       PROVE  Published(containers[order[k][1]], port(order[k])) \in PublishedPort
  <2>1. order[k] \in all /\ Reaches(port(order[k]))
    BY <1>10 DEF places
  <2>2. PICK c \in Container : c = containers[order[k][1]]
    BY <1>2, <1>5, <2>1
  <2>3. PICK p \in PortMapping : p = port(order[k])
    BY <1>6, <2>1
  <2>4. c.id[1] \in Nat /\ (IF c.names = <<>> THEN 0 ELSE c.names[1]) \in Nat
    <3>1. c.id \in Nat \X Nat /\ c.names \in Seq(Nat)
      BY DEF Container
    <3>2. c.names # <<>> => c.names[1] \in Nat
      BY <3>1
    <3> QED
      BY <3>1, <3>2
  <2>5. /\ p.public \in Nat /\ p.type \in {"tcp", "udp"}
        /\ (IF p.ip = 0 THEN Wildcard ELSE p.ip) \in DOMAIN Canonical
    BY <2>1, <2>3, CanonicalAssumption DEF PortMapping, Reaches
  <2>6. Published(c, p) \in PublishedPort
    BY <2>4, <2>5 DEF Published, PublishedPort
  <2> QED
    BY <2>2, <2>3, <2>6
<1> HIDE DEF PublishedPort
<1>12. row \in Seq(PublishedPort)
  BY <1>10, <1>11
<1> QED
  BY <1>1, <1>12

LEMMA DockerEntryLemma ==
    ASSUME NEW p \in PublishedPort
    PROVE  DockerEntry(p) \in DockerRow
<1>1. Canonical[p.addr] \in Nat
  BY CanonicalAssumption DEF PublishedPort
<1>2. (IF p.type = "udp" THEN 1 ELSE 0) \in {0, 1} /\ (IF p.name = 0 THEN p.cid ELSE p.name) \in Nat
  BY DEF PublishedPort
<1>3. DockerEntry(p) \in Entry
  BY <1>1, <1>2 DEF DockerEntry, Entry, PublishedPort
<1>4. DockerEntry(p).source = "docker" /\ DockerEntry(p).pid = 0
  BY DEF DockerEntry
<1> QED
  BY <1>3, <1>4 DEF DockerRow

(* An element is as often in two sequences if order leads from its places in
   the one to all of its places in the other, and never twice to the same. *)
LEMMA TimesLemma ==
    ASSUME NEW s, NEW t, NEW e, IsFiniteSet(DOMAIN s), NEW order,
           \A k \in DOMAIN t : t[k] = e => order[k] \in DOMAIN s /\ s[order[k]] = e,
           \A k, l \in DOMAIN t : t[k] = e /\ t[l] = e /\ order[k] = order[l] => k = l,
           \A i \in DOMAIN s : s[i] = e => \E k \in DOMAIN t : t[k] = e /\ order[k] = i
    PROVE  Times(t, e) = Times(s, e)
<1> DEFINE A == {k \in DOMAIN t : t[k] = e}
           B == {i \in DOMAIN s : s[i] = e}
           f == [k \in A |-> order[k]]
<1>1. f \in [A -> B] /\ \A k \in A : f[k] = order[k]
  OBVIOUS
<1>2. \A k, l \in A : f[k] = f[l] => k = l
  OBVIOUS
<1>3. \A i \in B : \E k \in A : f[k] = i
  OBVIOUS
<1>4. IsFiniteSet(B)
  BY FS_Subset
<1>5. Times(t, e) = Cardinality(A) /\ Times(s, e) = Cardinality(B)
  BY DEF Times
<1> HIDE DEF A, B, f
<1>6. f \in Surjection(A, B) /\ f \in Injection(A, B)
  BY <1>1, <1>2, <1>3 DEF Surjection, Injection, IsInjective
<1>7. Cardinality(A) = Cardinality(B)
  BY <1>4, <1>6, FS_Injection
<1> QED
  BY <1>5, <1>7

(* Sort rearranges the rows in the order of the table. *)
LEMMA SortLemma ==
    ASSUME NEW es \in Seq(Entry), NEW sorted, sorted = Sort(es)
    PROVE  /\ sorted \in Seq(Entry) /\ Len(sorted) = Len(es)
           /\ \A k \in DOMAIN sorted : \E i \in DOMAIN es : sorted[k] = es[i]
           /\ \A i \in DOMAIN es : \E k \in DOMAIN sorted : sorted[k] = es[i]
           /\ \A e : Times(sorted, e) = Times(es, e)
           /\ \A k, l \in DOMAIN sorted :
                 k < l => ~Less(Weight(sorted[l], "port"), Weight(sorted[k], "port"))
<1> DEFINE D == DOMAIN es
           weight == [i \in D |-> Weight(es[i], "port")]
           before == {p \in D \X D : StableBefore(weight[p[1]], weight[p[2]], FALSE, p[1] < p[2])}
           order == Arranged(D, before)
<1>1. D = 1 .. Len(es) /\ Len(es) \in Nat /\ \A i \in D : es[i] \in Entry
  OBVIOUS
<1>2. sorted = [k \in D |-> es[order[k]]]
  BY DEF Sort
<1>3. weight \in [D -> Weights]
  BY <1>1, WeightLemma DEF Columns, SortKeys
<1>4. D \in SUBSET Nat /\ IsFiniteSet(D) /\ Cardinality(D) = Len(es)
  <2>1. IsFiniteSet(1 .. Len(es)) /\ Cardinality(1 .. Len(es)) = Len(es)
    BY <1>1, FS_Interval
  <2> QED
    BY <1>1, <2>1
<1>5. \A i, j : <<i, j>> \in before => ~Less(weight[j], weight[i])
  <2> SUFFICES ASSUME NEW i \in D, NEW j \in D, <<i, j>> \in before
               PROVE  ~Less(weight[j], weight[i])
    OBVIOUS
  <2>1. weight[i] \in Weights /\ weight[j] \in Weights
    BY <1>3
  <2>2. Less(weight[i], weight[j]) \/ weight[i] = weight[j]
    BY DEF StableBefore, Before
  <2> QED
    BY <2>1, <2>2, LessLemma
<1>6. \A i \in D : weight[i] = Weight(es[i], "port")
  OBVIOUS
<1> HIDE DEF D, weight
<1>7. IsOrder(D, before)
  BY <1>3, <1>4, StableOrderLemma
<1> HIDE DEF before
<1>8. /\ order \in [1 .. Cardinality(D) -> D]
      /\ \A x \in D : \E k \in 1 .. Cardinality(D) : order[k] = x
      /\ \A k, l \in 1 .. Cardinality(D) : k < l => <<order[k], order[l]>> \in before
  BY <1>4, <1>7, ArrangedLemma
<1> HIDE DEF order
<1>9. /\ order \in [D -> D]
      /\ \A x \in D : \E k \in D : order[k] = x
      /\ \A k, l \in D : k < l => <<order[k], order[l]>> \in before
  BY <1>1, <1>4, <1>8
<1>10. DOMAIN sorted = D /\ \A k \in D : sorted[k] = es[order[k]] /\ sorted[k] \in Entry
  BY <1>1, <1>2, <1>9
<1>11. sorted \in Seq(Entry) /\ Len(sorted) = Len(es)
  <2> DEFINE row == [k \in 1 .. Len(es) |-> es[order[k]]]
  <2>1. sorted = row
    BY <1>1, <1>2
  <2>2. \A k \in 1 .. Len(es) : es[order[k]] \in Entry
    BY <1>1, <1>9
  <2> HIDE DEF D
  <2>3. row \in Seq(Entry) /\ Len(row) = Len(es)
    BY <1>1, <2>2
  <2> QED
    BY <2>1, <2>3
<1>12. \A k, l \in D : order[k] = order[l] => k = l
  <2>1. \A k \in D : <<order[k], order[k]>> \notin before
    BY <1>7, <1>9 DEF IsOrder
  <2>2. \A k, l \in D : k # l => k < l \/ l < k
    BY <1>1
  <2> QED
    BY <1>9, <2>1, <2>2
<1>13. ASSUME NEW e PROVE Times(sorted, e) = Times(es, e)
  <2>1. IsFiniteSet(DOMAIN es)
    BY <1>4 DEF D
  <2>2. \A k \in DOMAIN sorted : sorted[k] = e => order[k] \in DOMAIN es /\ es[order[k]] = e
    BY <1>9, <1>10 DEF D
  <2>3. \A k, l \in DOMAIN sorted : sorted[k] = e /\ sorted[l] = e /\ order[k] = order[l] => k = l
    BY <1>10, <1>12
  <2>4. \A i \in DOMAIN es : es[i] = e => \E k \in DOMAIN sorted : sorted[k] = e /\ order[k] = i
    BY <1>9, <1>10 DEF D
  <2> QED
    BY <2>1, <2>2, <2>3, <2>4, TimesLemma
<1>14. \A k \in DOMAIN sorted : \E i \in DOMAIN es : sorted[k] = es[i]
  BY <1>9, <1>10 DEF D
<1>15. \A i \in DOMAIN es : \E k \in DOMAIN sorted : sorted[k] = es[i]
  BY <1>9, <1>10 DEF D
<1>16. \A k, l \in DOMAIN sorted :
          k < l => ~Less(Weight(sorted[l], "port"), Weight(sorted[k], "port"))
  <2> SUFFICES ASSUME NEW k \in DOMAIN sorted, NEW l \in DOMAIN sorted, k < l
               PROVE  ~Less(Weight(sorted[l], "port"), Weight(sorted[k], "port"))
    OBVIOUS
  <2>1. <<order[k], order[l]>> \in before /\ order[k] \in D /\ order[l] \in D
    BY <1>9, <1>10
  <2>2. ~Less(weight[order[l]], weight[order[k]])
    BY <1>5, <2>1
  <2>3. weight[order[k]] = Weight(sorted[k], "port") /\ weight[order[l]] = Weight(sorted[l], "port")
    BY <1>6, <1>10, <2>1
  <2> QED
    BY <2>2, <2>3
<1> QED
  BY <1>11, <1>13, <1>14, <1>15, <1>16

(* The rows kept by mergeDocker, once for each time they were there. *)
LEMMA MergeLemma ==
    ASSUME NEW rows \in Seq(HostRow), NEW pub \in Seq(DockerRow),
           NEW merged, merged = MergeDocker(rows, pub)
    PROVE  /\ merged \in Seq(Entry)
           /\ \A m \in DOMAIN merged :
                 \/ \E i \in DOMAIN rows : merged[m] = rows[i]
                 \/ \E i \in DOMAIN pub : merged[m] = pub[i]
           /\ \A i \in DOMAIN rows :
                 Times(merged, rows[i]) = IF SupersededBy(rows[i], pub) THEN 0 ELSE Times(rows, rows[i])
           /\ \A i \in DOMAIN pub :
                 \/ Times(merged, pub[i]) = 1
                 \/ \E l \in 1 .. i - 1 : ListenerIdentity(pub[l]) = ListenerIdentity(pub[i])
           /\ \A m, n \in DOMAIN merged :
                 /\ merged[m].source = "docker"
                 /\ merged[n].source = "docker"
                 /\ ListenerIdentity(merged[m]) = ListenerIdentity(merged[n])
                 => m = n
           /\ \A id \in Identities(pub) : \E m \in DOMAIN merged :
                 merged[m].source = "docker" /\ ListenerIdentity(merged[m]) = id
<1> DEFINE keys == Identities(pub)
<1>1. /\ DOMAIN rows = 1 .. Len(rows) /\ Len(rows) \in Nat
      /\ DOMAIN pub = 1 .. Len(pub) /\ Len(pub) \in Nat
      /\ \A i \in DOMAIN rows : rows[i] \in HostRow
      /\ \A i \in DOMAIN pub : pub[i] \in DockerRow
  OBVIOUS
<1>2. {i \in DOMAIN rows : ~Replaced(rows[i], keys)} \in SUBSET Nat /\ FirstOfListener(pub) \in SUBSET Nat
  BY <1>1 DEF FirstOfListener
<1>3. PICK I \in SUBSET Nat : I = {i \in DOMAIN rows : ~Replaced(rows[i], keys)}
  BY <1>2
<1>4. PICK J \in SUBSET Nat : J = FirstOfListener(pub)
  BY <1>2
<1>5. PICK kept : kept = Keeping(rows, I)
  OBVIOUS
<1>6. PICK firsts : firsts = Keeping(pub, J)
  OBVIOUS
<1>7. /\ I \subseteq DOMAIN rows
      /\ \A i \in DOMAIN rows : i \in I <=> ~Replaced(rows[i], keys)
  BY <1>3
<1>8. /\ J \subseteq DOMAIN pub
      /\ \A i \in DOMAIN pub :
            i \in J <=> \A l \in 1 .. i - 1 : ListenerIdentity(pub[l]) # ListenerIdentity(pub[i])
  BY <1>4 DEF FirstOfListener
<1>9. /\ kept \in Seq(HostRow) /\ Len(kept) \in Nat /\ DOMAIN kept = 1 .. Len(kept)
      /\ \E order \in [1 .. Len(kept) -> I] :
            /\ \A k \in 1 .. Len(kept) : kept[k] = rows[order[k]]
            /\ \A i \in I : \E k \in 1 .. Len(kept) : order[k] = i
            /\ \A k, l \in 1 .. Len(kept) : k < l => order[k] < order[l]
  BY <1>5, <1>7, KeptLemma
<1>10. /\ firsts \in Seq(DockerRow) /\ Len(firsts) \in Nat /\ DOMAIN firsts = 1 .. Len(firsts)
       /\ \E order \in [1 .. Len(firsts) -> J] :
             /\ \A k \in 1 .. Len(firsts) : firsts[k] = pub[order[k]]
             /\ \A i \in J : \E k \in 1 .. Len(firsts) : order[k] = i
             /\ \A k, l \in 1 .. Len(firsts) : k < l => order[k] < order[l]
  BY <1>6, <1>8, KeptLemma
<1>11. PICK from :
             /\ from \in [1 .. Len(kept) -> I]
             /\ \A k \in 1 .. Len(kept) : kept[k] = rows[from[k]]
             /\ \A i \in I : \E k \in 1 .. Len(kept) : from[k] = i
             /\ \A k, l \in 1 .. Len(kept) : k < l => from[k] < from[l]
  BY <1>9
<1>12. PICK by \in [1 .. Len(firsts) -> J] :
             /\ \A k \in 1 .. Len(firsts) : firsts[k] = pub[by[k]]
             /\ \A i \in J : \E k \in 1 .. Len(firsts) : by[k] = i
             /\ \A k, l \in 1 .. Len(firsts) : k < l => by[k] < by[l]
  BY <1>10
<1>13. merged = kept \o firsts
  BY <1>3, <1>4, <1>5, <1>6 DEF MergeDocker
<1> DEFINE n == Len(kept)
           N == Len(kept) + Len(firsts)
<1>14. /\ merged \in Seq(Entry) /\ DOMAIN merged = 1 .. N
       /\ \A m \in 1 .. N : merged[m] = IF m <= n THEN kept[m] ELSE firsts[m - n]
  <2>1. kept \in Seq(Entry) /\ firsts \in Seq(Entry)
    <3>1. HostRow \subseteq Entry /\ DockerRow \subseteq Entry
      BY DEF HostRow, DockerRow
    <3> QED
      BY <1>9, <1>10, <3>1, SeqMonotonic
  <2> QED
    BY <1>13, <2>1, ConcatProperties, LenProperties
<1>15. n \in Nat /\ Len(firsts) \in Nat /\ N = n + Len(firsts)
  BY <1>9, <1>10
<1>16. /\ from \in [1 .. n -> I] /\ \A k \in 1 .. n : kept[k] = rows[from[k]]
       /\ \A i \in I : \E k \in 1 .. n : from[k] = i
       /\ \A k, l \in 1 .. n : k < l => from[k] < from[l]
  BY <1>11
<1> HIDE DEF n, N
<1>17. ASSUME NEW m \in 1 .. n
       PROVE  /\ m \in DOMAIN merged /\ from[m] \in I /\ from[m] \in DOMAIN rows
              /\ merged[m] = rows[from[m]]
  <2>1. m \in 1 .. N /\ m <= n
    BY <1>15
  <2> QED
    BY <1>7, <1>14, <1>16, <2>1
<1>18. ASSUME NEW m \in DOMAIN merged, m \notin 1 .. n
       PROVE  /\ m - n \in 1 .. Len(firsts) /\ by[m - n] \in J /\ by[m - n] \in DOMAIN pub
              /\ merged[m] = pub[by[m - n]]
  <2>1. m \in 1 .. N /\ ~(m <= n) /\ m - n \in 1 .. Len(firsts)
    BY <1>14, <1>15, <1>18
  <2> QED
    BY <1>8, <1>12, <1>14, <2>1
<1>19. ASSUME NEW k \in 1 .. Len(firsts)
       PROVE  n + k \in DOMAIN merged /\ merged[n + k] = pub[by[k]] /\ n + k \notin 1 .. n
  <2>1. PICK m \in 1 .. N : m = n + k
    BY <1>15
  <2>2. ~(m <= n) /\ m - n = k
    BY <1>15, <2>1
  <2>3. m \in DOMAIN merged /\ merged[m] = firsts[k]
    BY <1>14, <2>2
  <2>4. m \notin 1 .. n
    BY <1>15, <2>2
  <2> QED
    BY <1>12, <2>1, <2>3, <2>4
<1>20. \A i \in DOMAIN rows : rows[i].source = "process" /\ rows[i].pid \in Nat
  BY <1>1 DEF HostRow, Entry
<1>21. \A i \in DOMAIN pub : pub[i].source = "docker"
  BY <1>1 DEF DockerRow
<1>22. \A m \in DOMAIN merged : \/ \E i \in DOMAIN rows : merged[m] = rows[i]
                               \/ \E i \in DOMAIN pub : merged[m] = pub[i]
  BY <1>17, <1>18
<1>23. ASSUME NEW i \in DOMAIN rows
       PROVE  Times(merged, rows[i]) = IF SupersededBy(rows[i], pub) THEN 0 ELSE Times(rows, rows[i])
  <2>0. PICK e : e = rows[i]
    OBVIOUS
  <2>1. Replaced(e, keys) <=> SupersededBy(e, pub)
    BY <1>20, <2>0 DEF Replaced, SupersededBy, Identities, HasPID, IsDockerProxy
  <2>2. \A m \in DOMAIN merged : merged[m] = e => m \in 1 .. n
    BY <1>18, <1>20, <1>21, <2>0
  <2> HIDE DEF keys
  <2>3. CASE Replaced(e, keys)
    <3>1. \A m \in DOMAIN merged : merged[m] # e
      BY <1>7, <1>17, <2>2, <2>3
    <3>2. {m \in DOMAIN merged : merged[m] = e} = {}
      BY <3>1
    <3>3. Times(merged, e) = 0
      BY <3>2, FS_EmptySet DEF Times
    <3> QED
      BY <2>0, <2>1, <2>3, <3>3
  <2>4. CASE ~Replaced(e, keys)
    <3>1. IsFiniteSet(DOMAIN rows)
      BY <1>1, FS_Interval
    <3>2. \A m \in DOMAIN merged : merged[m] = e => from[m] \in DOMAIN rows /\ rows[from[m]] = e
      BY <1>17, <2>2
    <3>3. \A k, l \in 1 .. n : from[k] = from[l] => k = l
      <4> SUFFICES ASSUME NEW k \in 1 .. n, NEW l \in 1 .. n, k # l PROVE from[k] # from[l]
        OBVIOUS
      <4>1. from[k] \in Nat /\ from[l] \in Nat /\ (k < l \/ l < k)
        <5>1. from[k] \in I /\ from[l] \in I
          BY <1>16
        <5>2. k < l \/ l < k
          BY <1>15
        <5> QED
          BY <5>1, <5>2
      <4> QED
        BY <1>16, <4>1
    <3>4. \A k, l \in DOMAIN merged : merged[k] = e /\ merged[l] = e /\ from[k] = from[l] => k = l
      BY <2>2, <3>3
    <3>5. ASSUME NEW j \in DOMAIN rows, rows[j] = e
          PROVE  \E k \in DOMAIN merged : merged[k] = e /\ from[k] = j
      <4>1. PICK k \in 1 .. n : from[k] = j
        BY <1>7, <1>16, <2>4, <3>5
      <4> QED
        BY <1>17, <3>5, <4>1
    <3>6. \A j \in DOMAIN rows : rows[j] = e => \E k \in DOMAIN merged : merged[k] = e /\ from[k] = j
      BY <3>5
    <3>7. Times(merged, e) = Times(rows, e)
      BY <3>1, <3>2, <3>4, <3>6, TimesLemma, SMTT(60)
    <3> QED
      BY <2>0, <2>1, <2>4, <3>7
  <2> QED
    BY <2>3, <2>4
<1>24. ASSUME NEW m \in DOMAIN merged, NEW l \in DOMAIN merged,
              merged[m].source = "docker", merged[l].source = "docker",
              ListenerIdentity(merged[m]) = ListenerIdentity(merged[l])
       PROVE  m = l
  <2>1. m \notin 1 .. n /\ l \notin 1 .. n
    BY <1>17, <1>20, <1>24
  <2>2. PICK a \in 1 .. Len(firsts) : a = m - n /\ merged[m] = pub[by[a]] /\ by[a] \in J
    BY <1>18, <2>1
  <2>3. PICK b \in 1 .. Len(firsts) : b = l - n /\ merged[l] = pub[by[b]] /\ by[b] \in J
    BY <1>18, <2>1
  <2>4. ASSUME NEW x \in J, NEW y \in J, ListenerIdentity(pub[x]) = ListenerIdentity(pub[y])
        PROVE  ~(x < y)
    <3>1. x < y => x \in 1 .. y - 1
      BY <1>1, <1>8
    <3> QED
      BY <1>8, <2>4, <3>1
  <2>5. by[a] = by[b]
    <3>1. ListenerIdentity(pub[by[a]]) = ListenerIdentity(pub[by[b]])
      BY <1>24, <2>2, <2>3
    <3>2. ~(by[a] < by[b]) /\ ~(by[b] < by[a])
      BY <2>2, <2>3, <2>4, <3>1
    <3>3. by[a] \in Nat /\ by[b] \in Nat
      BY <2>2, <2>3
    <3> QED
      BY <3>2, <3>3
  <2>6. ~(a < b) /\ ~(b < a)
    <3>1. by[a] \in Nat /\ by[b] \in Nat
      BY <2>2, <2>3
    <3>2. ~(by[a] < by[b]) /\ ~(by[b] < by[a])
      BY <2>5, <3>1
    <3> QED
      BY <1>12, <3>2
  <2>7. m \in Nat /\ l \in Nat
    BY <1>14, <1>15
  <2> QED
    BY <1>15, <2>2, <2>3, <2>6, <2>7
<1>25. ASSUME NEW i \in DOMAIN pub
       PROVE  \/ Times(merged, pub[i]) = 1
              \/ \E l \in 1 .. i - 1 : ListenerIdentity(pub[l]) = ListenerIdentity(pub[i])
  <2> SUFFICES ASSUME i \in J PROVE Times(merged, pub[i]) = 1
    BY <1>8
  <2>1. PICK k \in 1 .. Len(firsts) : by[k] = i
    BY <1>12
  <2>2. n + k \in DOMAIN merged /\ merged[n + k] = pub[i]
    BY <1>19, <2>1
  <2>3. \A m \in DOMAIN merged : merged[m] = pub[i] => m = n + k
    BY <1>21, <1>24, <2>2
  <2>4. {m \in DOMAIN merged : merged[m] = pub[i]} = {n + k}
    BY <2>2, <2>3
  <2> QED
    BY <2>4, FS_Singleton DEF Times
<1>26. ASSUME NEW id \in Identities(pub)
       PROVE  \E m \in DOMAIN merged : merged[m].source = "docker" /\ ListenerIdentity(merged[m]) = id
  <2> DEFINE same == {i \in DOMAIN pub : ListenerIdentity(pub[i]) = id}
  <2>1. same \in SUBSET Nat /\ same # {}
    BY <1>1 DEF Identities
  <2>2. \A i : i \in same <=> i \in DOMAIN pub /\ ListenerIdentity(pub[i]) = id
    OBVIOUS
  <2> HIDE DEF same
  <2>3. PICK i \in same : \A j \in same : i <= j
    BY <2>1, LeastLemma
  <2>4. i \in J
    <3>1. ASSUME NEW l \in 1 .. i - 1, ListenerIdentity(pub[l]) = ListenerIdentity(pub[i]) PROVE FALSE
      <4>1. l \in DOMAIN pub /\ l < i /\ i \in Nat
        BY <1>1, <2>2
      <4>2. l \in same
        BY <2>2, <3>1, <4>1
      <4> QED
        BY <2>3, <4>1, <4>2
    <3> QED
      BY <1>8, <2>2, <3>1
  <2>5. PICK k \in 1 .. Len(firsts) : by[k] = i
    BY <1>12, <2>4
  <2> QED
    BY <1>19, <1>21, <2>2, <2>5
<1> QED
  BY <1>14, <1>22, <1>23, <1>24, <1>25, <1>26

------------------------------------------------------------------------------
(* List supplements what the platform found. *)
LEMMA SupplementedLemma ==
    ASSUME NEW rows \in Seq(HostRow), NEW pub \in Seq(DockerRow),
           NEW es, es = Sort(MergeDocker(rows, pub))
    PROVE  /\ es \in Seq(Entry)
           /\ \A k \in DOMAIN es : es[k].pid > 0 => es[k].source = "process"
           /\ Supplemented(rows, pub, es)
<1>1. PICK merged : merged = MergeDocker(rows, pub)
  OBVIOUS
<1>2. /\ merged \in Seq(Entry)
      /\ \A m \in DOMAIN merged :
            \/ \E i \in DOMAIN rows : merged[m] = rows[i]
            \/ \E i \in DOMAIN pub : merged[m] = pub[i]
      /\ \A i \in DOMAIN rows :
            Times(merged, rows[i]) = IF SupersededBy(rows[i], pub) THEN 0 ELSE Times(rows, rows[i])
      /\ \A i \in DOMAIN pub :
            \/ Times(merged, pub[i]) = 1
            \/ \E l \in 1 .. i - 1 : ListenerIdentity(pub[l]) = ListenerIdentity(pub[i])
      /\ \A m, n \in DOMAIN merged :
            /\ merged[m].source = "docker"
            /\ merged[n].source = "docker"
            /\ ListenerIdentity(merged[m]) = ListenerIdentity(merged[n])
            => m = n
      /\ \A id \in Identities(pub) : \E m \in DOMAIN merged :
            merged[m].source = "docker" /\ ListenerIdentity(merged[m]) = id
  BY <1>1, MergeLemma
<1>3. /\ es \in Seq(Entry) /\ Len(es) = Len(merged)
      /\ \A k \in DOMAIN es : \E i \in DOMAIN merged : es[k] = merged[i]
      /\ \A i \in DOMAIN merged : \E k \in DOMAIN es : es[k] = merged[i]
      /\ \A e : Times(es, e) = Times(merged, e)
      /\ \A k, l \in DOMAIN es : k < l => ~Less(Weight(es[l], "port"), Weight(es[k], "port"))
  BY <1>1, <1>2, SortLemma
<1>4. /\ \A i \in DOMAIN rows : rows[i] \in HostRow
      /\ \A i \in DOMAIN pub : pub[i] \in DockerRow
  OBVIOUS
<1>5. /\ \A i \in DOMAIN rows : rows[i].source = "process"
      /\ \A i \in DOMAIN pub : pub[i].source = "docker" /\ pub[i].pid = 0
  BY <1>4 DEF HostRow, DockerRow
<1>6. \A k \in DOMAIN es : \/ \E i \in DOMAIN rows : es[k] = rows[i]
                           \/ \E i \in DOMAIN pub : es[k] = pub[i]
  <2> SUFFICES ASSUME NEW k \in DOMAIN es
               PROVE  \/ \E i \in DOMAIN rows : es[k] = rows[i]
                      \/ \E i \in DOMAIN pub : es[k] = pub[i]
    OBVIOUS
  <2>1. PICK m \in DOMAIN merged : es[k] = merged[m]
    BY <1>3
  <2>2. \/ \E i \in DOMAIN rows : merged[m] = rows[i]
        \/ \E i \in DOMAIN pub : merged[m] = pub[i]
    BY <1>2
  <2> QED
    BY <2>1, <2>2
<1>7. \A k \in DOMAIN es : es[k].pid > 0 => es[k].source = "process"
  BY <1>5, <1>6
<1> DEFINE hostRows == {rows[k] : k \in DOMAIN rows}
           listed == {es[k] : k \in DOMAIN es}
           dockerRows == {e \in listed : e.source = "docker"}
<1>8. \A e \in hostRows : Times(es, e) = IF SupersededBy(e, pub) THEN 0 ELSE Times(rows, e)
  BY <1>2, <1>3
<1>9. \A e \in listed \ dockerRows : e \in hostRows
  BY <1>5, <1>6
<1>10. \A k \in DOMAIN pub :
          \/ Times(es, pub[k]) = 1
          \/ \E l \in 1 .. k - 1 : ListenerIdentity(pub[l]) = ListenerIdentity(pub[k])
  BY <1>2, <1>3
<1>11. Cardinality(dockerRows) = Cardinality(Identities(pub))
  <2> DEFINE place == [k \in DOMAIN es |-> es[k]]
             identity == [e \in dockerRows |-> ListenerIdentity(e)]
             known == Identities(pub)
  <2>1. IsFiniteSet(dockerRows)
    <3>1. DOMAIN es = 1 .. Len(es) /\ Len(es) \in Nat
      BY <1>3
    <3>2. IsFiniteSet(DOMAIN es)
      BY <3>1, FS_Interval
    <3>3. place \in [DOMAIN es -> listed] /\ \A e \in listed : \E k \in DOMAIN es : place[k] = e
      OBVIOUS
    <3>4. dockerRows \in SUBSET listed
      OBVIOUS
    <3> HIDE DEF listed, place, dockerRows
    <3>5. place \in Surjection(DOMAIN es, listed)
      BY <3>3 DEF Surjection
    <3> QED
      BY <3>2, <3>4, <3>5, FS_Surjection, FS_Subset
  <2>2. \A e \in dockerRows : \E m \in DOMAIN merged : merged[m] = e /\ merged[m].source = "docker"
    BY <1>3
  <2>3. \A e \in dockerRows : ListenerIdentity(e) \in known
    BY <1>5, <1>6 DEF Identities
  <2>4. \A id \in known : \E e \in dockerRows : ListenerIdentity(e) = id
    <3> SUFFICES ASSUME NEW id \in known PROVE \E e \in dockerRows : ListenerIdentity(e) = id
      OBVIOUS
    <3>1. PICK m \in DOMAIN merged : merged[m].source = "docker" /\ ListenerIdentity(merged[m]) = id
      BY <1>2
    <3>2. merged[m] \in dockerRows
      BY <1>3, <3>1
    <3> QED
      BY <3>1, <3>2
  <2>5. \A d, e \in dockerRows : ListenerIdentity(d) = ListenerIdentity(e) => d = e
    <3> SUFFICES ASSUME NEW d \in dockerRows, NEW e \in dockerRows,
                        ListenerIdentity(d) = ListenerIdentity(e)
                 PROVE  d = e
      OBVIOUS
    <3>1. PICK m \in DOMAIN merged : merged[m] = d /\ merged[m].source = "docker"
      BY <2>2
    <3>2. PICK n \in DOMAIN merged : merged[n] = e /\ merged[n].source = "docker"
      BY <2>2
    <3>3. m = n
      BY <1>2, <3>1, <3>2
    <3> QED
      BY <3>1, <3>2, <3>3
  <2> HIDE DEF dockerRows, known
  <2>6. identity \in [dockerRows -> known] /\ \A e \in dockerRows : identity[e] = ListenerIdentity(e)
    BY <2>3
  <2> HIDE DEF identity
  <2>7. identity \in Surjection(dockerRows, known)
    BY <2>4, <2>6 DEF Surjection
  <2>8. identity \in Injection(dockerRows, known)
    BY <2>5, <2>6 DEF Injection, IsInjective
  <2>9. Cardinality(dockerRows) = Cardinality(known)
    BY <2>1, <2>7, <2>8, FS_Surjection
  <2> QED
    BY <2>9 DEF known
<1>12. Supplemented(rows, pub, es)
  BY <1>3, <1>8, <1>9, <1>10, <1>11 DEF Supplemented
<1> QED
  BY <1>3, <1>7, <1>12

LEMMA ListLemma ==
    ASSUME NEW rows \in Hosts, NEW a \in Answers, NEW es, es = List(rows, a)
    PROVE  /\ es \in Seq(Entry)
           /\ \A k \in DOMAIN es : es[k].pid > 0 => es[k].source = "process"
           /\ LET ports == IF a.ok THEN PublishedPorts(a.containers) ELSE <<>>
              IN Supplemented(rows, [k \in DOMAIN ports |-> DockerEntry(ports[k])], es)
<1> DEFINE ports == IF a.ok THEN PublishedPorts(a.containers) ELSE <<>>
           pub == [k \in DOMAIN ports |-> DockerEntry(ports[k])]
<1>1. rows \in Seq(HostRow)
  BY HostsAssumption DEF HostRow
<1>2. ports \in Seq(PublishedPort)
  <2>1. a.ok => a.containers \in Seq(Container)
    BY AnswersAssumption
  <2>2. CASE a.ok
    BY <2>1, <2>2, PublishedLemma
  <2>3. CASE ~a.ok
    BY <2>3
  <2> QED
    BY <2>2, <2>3
<1>3. es = Sort(MergeDocker(rows, pub))
  BY DEF List
<1> HIDE DEF ports
<1>4. pub \in Seq(DockerRow)
  <2>1. DOMAIN ports = 1 .. Len(ports) /\ Len(ports) \in Nat /\ \A k \in DOMAIN ports : ports[k] \in PublishedPort
    BY <1>2
  <2>2. \A k \in DOMAIN ports : DockerEntry(ports[k]) \in DockerRow
    BY <2>1, DockerEntryLemma
  <2> QED
    BY <2>1, <2>2
<1> HIDE DEF pub
<1>5. /\ es \in Seq(Entry)
      /\ \A k \in DOMAIN es : es[k].pid > 0 => es[k].source = "process"
      /\ Supplemented(rows, pub, es)
  BY <1>1, <1>3, <1>4, SupplementedLemma
<1> QED
  BY <1>5 DEF pub, ports

------------------------------------------------------------------------------
(* The inductive invariant. What is still to be killed and what was tried make
   up the owners of the rows that were printed, in their order. *)
Ident == [pid : Nat \ {0}, start : Nat]
Outcome == [id : Ident, ok : BOOLEAN]

ConfigOK(c) ==
    /\ DOMAIN c = Flags \cup {"port", "query"}
    /\ c.port \in Nat \cup {NoPort} /\ c.query \in Nat
    /\ \A f \in Flags : c[f] \in BOOLEAN

Typed ==
    /\ args \in Seq(Arg) /\ words \in Seq(Arg)
    /\ ConfigOK(cfg)
    /\ pc \in {"parse", "mode", "list", "filter", "ask", "kill", "exit"}
    /\ entries \in Seq(Entry) /\ ids \in Seq(Ident) /\ tried \in Seq(Outcome)
    /\ printed \in BOOLEAN /\ yes \in BOOLEAN
    /\ exit \in {-1, 0, 1, 2}
    /\ pc = "exit" <=> exit # -1

Unstarted == pc \in {"parse", "mode", "filter"} => tried = <<>> /\ ids = <<>> /\ printed = FALSE
PortGiven == pc \in {"mode", "filter"} /\ cfg.kill => cfg.port # NoPort
Listed == pc = "filter" => host \in Hosts /\ docker \in Answers /\ entries = List(host, docker)

OfThePort(e) ==
    /\ e.pid > 0 => e.source = "process"
    /\ e.port = cfg.port
    /\ cfg.tcp # cfg.udp => (e.proto = 0 <=> cfg.tcp)
Underway ==
    pc \in {"ask", "kill"} \/ tried # <<>> =>
        /\ cfg.kill /\ printed /\ entries # <<>>
        /\ \A k \in DOMAIN entries : OfThePort(entries[k])
        /\ UniqueIdents(entries) # <<>>
        /\ Len(tried) + Len(ids) = Len(UniqueIdents(entries))
        /\ \A k \in 1 .. Len(tried) : tried[k].id = UniqueIdents(entries)[k]
        /\ \A k \in 1 .. Len(ids) : ids[k] = UniqueIdents(entries)[Len(tried) + k]
Agreed ==
    /\ pc = "ask" => tried = <<>>
    /\ pc = "kill" \/ tried # <<>> => cfg.yes \/ (yes /\ tty.stdin)
Ended ==
    pc = "exit" =>
        /\ tried # <<>> => /\ ids = <<>>
                           /\ exit = IF \E k \in DOMAIN tried : ~tried[k].ok THEN 1 ELSE 0
        /\ tried = <<>> /\ cfg.kill /\ printed => exit # 0
        /\ printed /\ Lookup => entries # <<>>
        /\ printed /\ ~cfg.kill => exit = 0

IInv == Typed /\ Unstarted /\ PortGiven /\ Listed /\ Underway /\ Agreed /\ Ended

LEMMA ConfigLemma ==
    ASSUME NEW c, ConfigOK(c)
    PROVE  /\ \A f \in Flags : ConfigOK([c EXCEPT ![f] = TRUE])
           /\ \A n \in Nat : ConfigOK([c EXCEPT !.query = n]) /\ ConfigOK([c EXCEPT !.port = n])
<1>1. "port" \notin Flags /\ "query" \notin Flags
  BY DEF Flags
<1> QED
  BY <1>1 DEF ConfigOK

LEMMA ShownLemma ==
    ASSUME entries \in Seq(Entry)
    PROVE  /\ Shown \in Seq(Entry)
           /\ \A k \in DOMAIN Shown : \E i \in DOMAIN entries :
                 Shown[k] = entries[i] /\ Wanted(entries[i])
<1>1. {k \in DOMAIN entries : Wanted(entries[k])} \in SUBSET Nat
  OBVIOUS
<1>2. PICK I \in SUBSET Nat : I = {k \in DOMAIN entries : Wanted(entries[k])}
  BY <1>1
<1>3. PICK kept : kept = Keeping(entries, I)
  OBVIOUS
<1>4. I \subseteq DOMAIN entries /\ \A i \in I : Wanted(entries[i])
  BY <1>2
<1>5. PICK rows \in Seq(Entry) : rows = entries
  OBVIOUS
<1>6. /\ kept \in Seq(Entry) /\ Len(kept) \in Nat /\ DOMAIN kept = 1 .. Len(kept)
      /\ \E order \in [1 .. Len(kept) -> I] :
            /\ \A k \in 1 .. Len(kept) : kept[k] = rows[order[k]]
            /\ \A i \in I : \E k \in 1 .. Len(kept) : order[k] = i
            /\ \A k, l \in 1 .. Len(kept) : k < l => order[k] < order[l]
  <2>1. kept = Keeping(rows, I) /\ I \subseteq DOMAIN rows
    BY <1>3, <1>4, <1>5
  <2> QED
    BY <2>1, KeptLemma
<1>7. PICK order \in [1 .. Len(kept) -> I] : \A k \in 1 .. Len(kept) : kept[k] = rows[order[k]]
  BY <1>6
<1>8. Shown = kept
  BY <1>2, <1>3 DEF Shown
<1>9. \A k \in DOMAIN kept : order[k] \in I /\ kept[k] = rows[order[k]]
  BY <1>6, <1>7
<1> QED
  BY <1>4, <1>5, <1>6, <1>8, <1>9

LEMMA WantedLemma ==
    ASSUME ConfigOK(cfg), cfg.port # NoPort, NEW e \in Entry, Wanted(e), e.pid > 0 => e.source = "process"
    PROVE  OfThePort(e)
<1>1. cfg.tcp \in BOOLEAN /\ cfg.udp \in BOOLEAN
  BY DEF ConfigOK, Flags
<1>2. e.proto \in {0, 1}
  BY DEF Entry
<1>3. e.port = cfg.port
  BY DEF Wanted, PortWanted
<1>4. cfg.tcp = cfg.udp \/ (IF e.proto = 1 THEN cfg.udp ELSE cfg.tcp)
  BY DEF Wanted, ProtoWanted
<1>5. cfg.tcp # cfg.udp => (e.proto = 0 <=> cfg.tcp)
  <2>1. CASE e.proto = 1
    BY <1>1, <1>4, <2>1
  <2>2. CASE e.proto = 0
    BY <1>1, <1>4, <2>2
  <2> QED
    BY <1>2, <2>1, <2>2
<1> QED
  BY <1>3, <1>5 DEF OfThePort

(* While arguments are parsed nothing else happens. *)
LEMMA ParsingLemma ==
    ASSUME IInv, pc = "parse", UNCHANGED <<pc, listing, killing, exit>>,
           args' \in Seq(Arg), words' \in Seq(Arg), ConfigOK(cfg')
    PROVE  IInv'
<1>1. tried = <<>> /\ ids = <<>> /\ printed = FALSE
  BY DEF IInv, Unstarted
<1>2. UNCHANGED <<host, docker, entries, printed, yes, ids, tried>>
  BY DEF listing, killing
<1>3. Typed'
  BY <1>2 DEF IInv, Typed
<1>4. /\ Unstarted' /\ PortGiven' /\ Listed' /\ Underway' /\ Agreed' /\ Ended'
  BY <1>1, <1>2 DEF Unstarted, PortGiven, Listed, Underway, Agreed, Ended
<1> QED
  BY <1>3, <1>4 DEF IInv

(* An exit before the kills have begun. *)
LEMMA LeavingLemma ==
    ASSUME IInv, tried = <<>>, NEW code \in {0, 1, 2}, Exit(code),
           UNCHANGED <<input, host, docker, yes, tried>>,
           entries' \in Seq(Entry), ids' \in Seq(Ident), printed' \in BOOLEAN,
           cfg.kill /\ printed' => code # 0,
           printed' /\ Lookup => entries' # <<>>,
           printed' /\ ~cfg.kill => code = 0
    PROVE  IInv'
<1>1. pc' = "exit" /\ exit' = code /\ UNCHANGED <<args, words, cfg, tty>>
  BY DEF Exit, input
<1>2. Typed'
  BY <1>1 DEF IInv, Typed
<1>3. /\ Unstarted' /\ PortGiven' /\ Listed' /\ Underway' /\ Agreed' /\ Ended'
  BY <1>1 DEF Unstarted, PortGiven, Listed, Underway, Agreed, Ended, Lookup
<1> QED
  BY <1>2, <1>3 DEF IInv

LEMMA InitLemma == Init => IInv
<1> SUFFICES ASSUME Init PROVE IInv
  OBVIOUS
<1>1. args \in Seq(Arg)
  BY ArgsAssumption DEF Init
<1>2. ConfigOK(cfg)
  BY DEF Init, NoConfig, NoPort, ConfigOK, Flags
<1>3. Typed
  <2>1. /\ words \in Seq(Arg) /\ entries \in Seq(Entry) /\ ids \in Seq(Ident) /\ tried \in Seq(Outcome)
        /\ printed \in BOOLEAN /\ yes \in BOOLEAN
    <3>1. /\ words = <<>> /\ entries = <<>> /\ ids = <<>> /\ tried = <<>>
          /\ printed = FALSE /\ yes = FALSE
      BY DEF Init
    <3>2. /\ words \in Seq(Arg) /\ entries \in Seq(Entry) /\ ids \in Seq(Ident)
          /\ tried \in Seq(Outcome)
      BY <3>1, EmptySeq
    <3> QED
      BY <3>1, <3>2
  <2>2. pc = "parse" /\ exit = -1
    BY DEF Init
  <2> QED
    BY <1>1, <1>2, <2>1, <2>2 DEF Typed
<1> QED
  BY <1>3 DEF Init, IInv, Unstarted, PortGiven, Listed, Underway, Agreed, Ended

LEMMA ParseLemma == IInv /\ Parse => IInv'
<1> SUFFICES ASSUME IInv, Parse PROVE IInv'
  OBVIOUS
<1>0. Typed /\ ConfigOK(cfg) /\ args \in Seq(Arg) /\ words \in Seq(Arg) /\ pc = "parse"
  BY DEF IInv, Typed, Parse, ParseFlag, ParseQuery, ParseQueryValue, ParseWord, ParseHelp,
         ParseError, ParseEnd
<1>1. args # <<>> => Head(args) \in Arg /\ Tail(args) \in Seq(Arg)
  BY <1>0
<1>2. \A a \in Arg : a.text \in Nat
  BY DEF Arg
<1>3. ASSUME ParseFlag PROVE IInv'
  <2>1. ConfigOK(cfg')
    BY <1>0, <1>3, ConfigLemma DEF ParseFlag
  <2> QED
    BY <1>0, <1>1, <1>3, <2>1, ParsingLemma DEF ParseFlag
<1>4. ASSUME ParseQuery PROVE IInv'
  <2>1. args[2] \in Arg /\ Tail(Tail(args)) \in Seq(Arg)
    <3>1. args # <<>> /\ Len(args) > 1
      BY <1>4 DEF ParseQuery
    <3>2. args[2] \in Arg /\ Tail(args) \in Seq(Arg) /\ Len(Tail(args)) = Len(args) - 1
      BY <1>0, <3>1
    <3>3. Tail(args) # <<>>
      <4>1. Len(args) \in Nat /\ Len(Tail(args)) # 0
        BY <1>0, <3>1, <3>2
      <4> QED
        BY <4>1, EmptySeq
    <3> QED
      BY <3>2, <3>3, HeadTailProperties
  <2>2. ConfigOK(cfg')
    BY <1>0, <1>2, <1>4, <2>1, ConfigLemma DEF ParseQuery
  <2> QED
    BY <1>0, <1>4, <2>1, <2>2, ParsingLemma DEF ParseQuery
<1>5. ASSUME ParseQueryValue PROVE IInv'
  <2>1. ConfigOK(cfg')
    BY <1>0, <1>1, <1>2, <1>5, ConfigLemma DEF ParseQueryValue
  <2> QED
    BY <1>0, <1>1, <1>5, <2>1, ParsingLemma DEF ParseQueryValue
<1>6. ASSUME ParseWord PROVE IInv'
  <2>1. words' \in Seq(Arg) /\ args' \in Seq(Arg)
    BY <1>0, <1>1, <1>6 DEF ParseWord
  <2> QED
    BY <1>0, <1>6, <2>1, ParsingLemma DEF ParseWord
<1>7. tried = <<>> /\ ids = <<>> /\ printed = FALSE
  BY <1>0 DEF IInv, Unstarted
<1>8. ASSUME NEW code \in {0, 2}, Exit(code), UNCHANGED <<input, listing, killing>> PROVE IInv'
  <2>1. UNCHANGED <<host, docker, entries, printed, yes, ids, tried>>
    BY <1>8 DEF listing, killing
  <2>2. entries' \in Seq(Entry) /\ ids' \in Seq(Ident) /\ printed' = FALSE
    BY <1>0, <1>7, <2>1 DEF Typed
  <2> QED
    BY <1>7, <1>8, <2>1, <2>2, LeavingLemma
<1>9. ASSUME ParseHelp PROVE IInv'
  BY <1>8, <1>9 DEF ParseHelp
<1>10. ASSUME ParseError PROVE IInv'
  BY <1>8, <1>10 DEF ParseError
<1>11. ASSUME ParseEnd PROVE IInv'
  <2>1. CASE BadWords \/ Contradicts(WithWords)
    <3>1. Exit(2) /\ UNCHANGED <<input, listing, killing>>
      BY <1>11, <2>1 DEF ParseEnd, input
    <3> QED
      BY <1>8, <3>1
  <2>2. CASE ~(BadWords \/ Contradicts(WithWords))
    <3>1. /\ cfg' = WithWords /\ words' = <<>> /\ pc' = "mode"
          /\ UNCHANGED <<exit, args, tty, host, docker, entries, printed, yes, ids, tried>>
      BY <1>11, <2>2 DEF ParseEnd, Goto, listing, killing
    <3>2. ConfigOK(WithWords)
      <4>1. words # <<>> => words[1].text \in Nat
        BY <1>0, <1>2
      <4> QED
        BY <1>0, <4>1, ConfigLemma DEF WithWords
    <3>3. WithWords.kill => WithWords.port # NoPort
      BY <2>2 DEF Contradicts
    <3>4. Typed'
      BY <1>0, <3>1, <3>2 DEF Typed
    <3>5. Unstarted' /\ PortGiven' /\ Listed' /\ Underway' /\ Agreed' /\ Ended'
      BY <1>7, <3>1, <3>3 DEF Unstarted, PortGiven, Listed, Underway, Agreed, Ended
    <3> QED
      BY <3>4, <3>5 DEF IInv
  <2> QED
    BY <2>1, <2>2
<1> QED
  BY <1>3, <1>4, <1>5, <1>6, <1>9, <1>10, <1>11 DEF Parse

LEMMA ListStepLemma == IInv /\ (UseTUI \/ ListAll) => IInv'
<1> SUFFICES ASSUME IInv, UseTUI \/ ListAll PROVE IInv'
  OBVIOUS
<1>1. Typed /\ pc = "mode" /\ tried = <<>> /\ ids = <<>> /\ printed = FALSE
  BY DEF IInv, Unstarted, UseTUI, ListAll
<1>2. ASSUME NEW code \in {0, 2}, Exit(code), UNCHANGED <<input, listing, killing>> PROVE IInv'
  <2>1. UNCHANGED <<host, docker, entries, printed, yes, ids, tried>>
    BY <1>2 DEF listing, killing
  <2>2. entries' \in Seq(Entry) /\ ids' \in Seq(Ident) /\ printed' = FALSE
    BY <1>1, <2>1 DEF Typed
  <2> QED
    BY <1>1, <1>2, <2>1, <2>2, LeavingLemma
<1>3. ASSUME UseTUI PROVE IInv'
  BY <1>2, <1>3 DEF UseTUI
<1>4. ASSUME ListAll PROVE IInv'
  <2>1. CASE Exit(2) /\ UNCHANGED listing
    BY <1>2, <1>4, <2>1 DEF ListAll
  <2>2. ASSUME NEW h \in Hosts, NEW a \in Answers,
               host' = h, docker' = a, entries' = List(h, a), Goto("filter")
        PROVE  IInv'
    <3>1. /\ pc' = "filter"
          /\ UNCHANGED <<exit, args, words, cfg, tty, printed, yes, ids, tried>>
      BY <1>4, <2>2 DEF ListAll, Goto, input, killing
    <3>2. entries' \in Seq(Entry)
      BY <2>2, ListLemma
    <3>3. Typed'
      BY <1>1, <3>1, <3>2 DEF Typed
    <3>4. PortGiven
      BY DEF IInv
    <3>5. Listed'
      BY <2>2 DEF Listed
    <3>6. Unstarted' /\ PortGiven' /\ Underway' /\ Agreed' /\ Ended'
      BY <1>1, <3>1, <3>4 DEF Unstarted, PortGiven, Underway, Agreed, Ended
    <3> QED
      BY <3>3, <3>5, <3>6 DEF IInv
  <2> QED
    BY <1>4, <2>1, <2>2 DEF ListAll
<1> QED
  BY <1>3, <1>4

(* The rows that pass the filters, of a listing that names owners. *)
LEMMA FilteredLemma ==
    ASSUME IInv, pc = "filter"
    PROVE  /\ Shown \in Seq(Entry)
           /\ cfg.kill => \A k \in DOMAIN Shown : OfThePort(Shown[k])
<1>1. Typed /\ Listed /\ PortGiven /\ entries \in Seq(Entry) /\ ConfigOK(cfg)
  BY DEF IInv, Typed
<1>2. \A k \in DOMAIN entries : entries[k] \in Entry /\ (entries[k].pid > 0 => entries[k].source = "process")
  <2>1. host \in Hosts /\ docker \in Answers /\ entries = List(host, docker)
    BY <1>1 DEF Listed
  <2>2. \A k \in DOMAIN entries : entries[k].pid > 0 => entries[k].source = "process"
    BY <2>1, ListLemma
  <2> QED
    BY <1>1, <2>2
<1>3. /\ Shown \in Seq(Entry)
      /\ \A k \in DOMAIN Shown : \E i \in DOMAIN entries : Shown[k] = entries[i] /\ Wanted(entries[i])
  BY <1>1, ShownLemma
<1>4. ASSUME cfg.kill, NEW k \in DOMAIN Shown PROVE OfThePort(Shown[k])
  <2>1. PICK i \in DOMAIN entries : Shown[k] = entries[i] /\ Wanted(entries[i])
    BY <1>3
  <2>2. cfg.port # NoPort
    BY <1>1, <1>4 DEF PortGiven
  <2>3. OfThePort(entries[i])
    BY <1>1, <1>2, <2>1, <2>2, WantedLemma
  <2> QED
    BY <2>1, <2>3
<1> QED
  BY <1>3, <1>4

LEMMA OutputLemma == IInv /\ Output => IInv'
<1> SUFFICES ASSUME IInv, Output PROVE IInv'
  OBVIOUS
<1>1. /\ Typed /\ pc = "filter" /\ tried = <<>> /\ ids = <<>> /\ printed = FALSE /\ ~cfg.kill
      /\ entries' = Shown /\ UNCHANGED <<input, host, docker, yes, ids, tried>>
  BY DEF IInv, Unstarted, Output
<1>2. entries' \in Seq(Entry) /\ ids' \in Seq(Ident)
  BY <1>1, FilteredLemma DEF Typed
<1>3. CASE Exit(1) /\ UNCHANGED printed
  <2>1. printed' = FALSE
    BY <1>1, <1>3
  <2> QED
    BY <1>1, <1>2, <1>3, <2>1, LeavingLemma
<1>4. CASE ~(Shown = <<>> /\ Lookup) /\ Exit(0) /\ printed' = TRUE
  BY <1>1, <1>2, <1>4, LeavingLemma
<1>5. CASE Exit(2) /\ UNCHANGED printed
  <2>1. printed' = FALSE
    BY <1>1, <1>5
  <2> QED
    BY <1>1, <1>2, <1>5, <2>1, LeavingLemma
<1> QED
  BY <1>3, <1>4, <1>5 DEF Output

LEMMA StartKillLemma == IInv /\ StartKill => IInv'
<1> SUFFICES ASSUME IInv, StartKill PROVE IInv'
  OBVIOUS
<1>1. /\ Typed /\ pc = "filter" /\ tried = <<>> /\ ids = <<>> /\ printed = FALSE /\ cfg.kill
      /\ entries' = Shown /\ ids' = UniqueIdents(Shown)
      /\ UNCHANGED <<input, host, docker, yes, tried>>
  BY DEF IInv, Unstarted, StartKill
<1>2. entries' \in Seq(Entry) /\ \A k \in DOMAIN entries' : OfThePort(entries'[k])
  BY <1>1, FilteredLemma
<1>3. ids' \in Seq(Ident)
  BY <1>1, <1>2, UniqueLemma DEF Ident
<1>4. CASE Shown = <<>> /\ Exit(1) /\ UNCHANGED printed
  <2>1. printed' = FALSE
    BY <1>1, <1>4
  <2> QED
    BY <1>1, <1>2, <1>3, <1>4, <2>1, LeavingLemma
<1>5. CASE Shown # <<>> /\ Exit(2) /\ UNCHANGED printed
  <2>1. printed' = FALSE
    BY <1>1, <1>5
  <2> QED
    BY <1>1, <1>2, <1>3, <1>5, <2>1, LeavingLemma
<1>6. CASE Shown # <<>> /\ printed' = TRUE /\ ids' = <<>> /\ Exit(1)
  BY <1>1, <1>2, <1>3, <1>6, LeavingLemma
<1>7. CASE /\ Shown # <<>> /\ printed' = TRUE /\ ids' # <<>>
           /\ Goto(IF cfg.yes THEN "kill" ELSE "ask")
  <2>1. /\ pc' = IF cfg.yes THEN "kill" ELSE "ask"
        /\ UNCHANGED <<exit, args, words, cfg, tty>>
    BY <1>1, <1>7 DEF Goto, input
  <2>2. pc' \in {"kill", "ask"} /\ (pc' = "kill" => cfg.yes)
    BY <2>1
  <2>3. Typed'
    BY <1>1, <1>2, <1>3, <1>7, <2>1, <2>2 DEF Typed
  <2>4. Underway'
    <3>1. \A k \in DOMAIN entries' : OfThePort(entries[k])'
      BY <1>2, <2>1 DEF OfThePort
    <3>2. tried' = <<>> /\ UniqueIdents(entries') = ids' /\ Len(ids') \in Nat /\ Len(tried') = 0
      BY <1>1, <1>3
    <3>3. \A k \in 1 .. Len(ids') : Len(tried') + k = k
      BY <3>2
    <3> QED
      BY <1>1, <1>7, <2>1, <3>1, <3>2, <3>3 DEF Underway
  <2>5. Unstarted' /\ PortGiven' /\ Listed' /\ Agreed' /\ Ended'
    BY <1>1, <2>1, <2>2 DEF Unstarted, PortGiven, Listed, Agreed, Ended
  <2> QED
    BY <2>3, <2>4, <2>5 DEF IInv
<1> QED
  BY <1>4, <1>5, <1>6, <1>7 DEF StartKill

LEMMA ConfirmLemma == IInv /\ Confirm => IInv'
<1> SUFFICES ASSUME IInv, Confirm PROVE IInv'
  OBVIOUS
<1>1. /\ Typed /\ Underway /\ pc = "ask" /\ tried = <<>> /\ cfg.kill /\ printed /\ entries # <<>>
      /\ UNCHANGED <<input, host, docker, entries, printed, ids, tried>>
  BY DEF IInv, Underway, Agreed, Confirm, listing
<1>2. ASSUME NEW code \in {1, 2}, Exit(code), UNCHANGED yes PROVE IInv'
  <2>1. entries' \in Seq(Entry) /\ ids' \in Seq(Ident) /\ printed' \in BOOLEAN /\ code # 0 /\ entries' # <<>>
    BY <1>1 DEF Typed
  <2> QED
    BY <1>1, <1>2, <2>1, LeavingLemma
<1>3. CASE ~tty.stdin /\ Exit(2) /\ UNCHANGED yes
  BY <1>2, <1>3
<1>4. CASE tty.stdin /\ Exit(1) /\ UNCHANGED yes
  BY <1>2, <1>4
<1>5. CASE tty.stdin /\ Exit(2) /\ UNCHANGED yes
  BY <1>2, <1>5
<1>6. CASE tty.stdin /\ Goto("kill") /\ yes' = TRUE
  <2>1. pc' = "kill" /\ UNCHANGED <<exit, args, words, cfg, tty>>
    BY <1>1, <1>6 DEF Goto, input
  <2>2. Typed'
    BY <1>1, <1>6, <2>1 DEF Typed
  <2>3. Underway'
    BY <1>1, <2>1 DEF Underway, OfThePort
  <2>4. Unstarted' /\ PortGiven' /\ Listed' /\ Agreed' /\ Ended'
    BY <1>1, <1>6, <2>1 DEF Unstarted, PortGiven, Listed, Agreed, Ended
  <2> QED
    BY <2>2, <2>3, <2>4 DEF IInv
<1> QED
  BY <1>3, <1>4, <1>5, <1>6 DEF Confirm

LEMMA KillOneLemma == IInv /\ KillOne => IInv'
<1> SUFFICES ASSUME IInv, KillOne PROVE IInv'
  OBVIOUS
<1>1. /\ Typed /\ Underway /\ Agreed /\ pc = "kill" /\ ids # <<>> /\ ids' = Tail(ids)
      /\ UNCHANGED <<args, words, cfg, tty, pc, host, docker, entries, printed, yes, exit>>
  BY DEF IInv, KillOne, input, listing
<1>2. PICK ok \in BOOLEAN : tried' = Append(tried, [id |-> Head(ids), ok |-> ok])
  BY DEF KillOne
<1>3. PICK plan : plan = UniqueIdents(entries)
  OBVIOUS
<1>4. /\ tried \in Seq(Outcome) /\ ids \in Seq(Ident)
      /\ Len(tried) \in Nat /\ Len(ids) \in Nat /\ Len(ids) > 0
  BY <1>1 DEF Typed
<1>5. /\ cfg.kill /\ printed /\ entries # <<>> /\ \A k \in DOMAIN entries : OfThePort(entries[k])
      /\ plan # <<>> /\ Len(tried) + Len(ids) = Len(plan)
      /\ \A k \in 1 .. Len(tried) : tried[k].id = plan[k]
      /\ \A k \in 1 .. Len(ids) : ids[k] = plan[Len(tried) + k]
  BY <1>1, <1>3 DEF Underway
<1>6. /\ Head(ids) \in Ident /\ Head(ids) = ids[1] /\ Tail(ids) \in Seq(Ident)
      /\ Len(Tail(ids)) = Len(ids) - 1
      /\ \A k \in 1 .. Len(Tail(ids)) : Tail(ids)[k] = ids[k + 1]
  BY <1>1, <1>4, HeadTailProperties
<1>7. [id |-> Head(ids), ok |-> ok] \in Outcome
  BY <1>6 DEF Outcome
<1>8. /\ tried' \in Seq(Outcome) /\ Len(tried') = Len(tried) + 1
      /\ \A k \in 1 .. Len(tried) : tried'[k] = tried[k]
      /\ tried'[Len(tried) + 1].id = ids[1]
  BY <1>2, <1>4, <1>6, <1>7
<1>9. Typed'
  BY <1>1, <1>6, <1>8 DEF Typed
<1>10. Underway'
  <2>1. Len(tried') + Len(ids') = Len(plan)
    BY <1>1, <1>4, <1>5, <1>6, <1>8
  <2>2. ASSUME NEW k \in 1 .. Len(tried') PROVE tried'[k].id = plan[k]
    <3>1. CASE k \in 1 .. Len(tried)
      BY <1>5, <1>8, <3>1
    <3>2. CASE k = Len(tried) + 1
      <4>1. ids[1] = plan[Len(tried) + 1]
        BY <1>4, <1>5
      <4> QED
        BY <1>8, <3>2, <4>1
    <3> QED
      BY <1>4, <1>8, <3>1, <3>2
  <2>3. ASSUME NEW k \in 1 .. Len(ids') PROVE ids'[k] = plan[Len(tried') + k]
    <3>1. ids'[k] = ids[k + 1] /\ k + 1 \in 1 .. Len(ids) /\ Len(tried') + k = Len(tried) + (k + 1)
      BY <1>1, <1>4, <1>6, <1>8
    <3> QED
      BY <1>5, <3>1
  <2>4. \A k \in DOMAIN entries' : OfThePort(entries[k])'
    BY <1>1, <1>5 DEF OfThePort
  <2>5. plan = UniqueIdents(entries')
    BY <1>1, <1>3
  <2> QED
    BY <1>1, <1>5, <2>1, <2>2, <2>3, <2>4, <2>5 DEF Underway
<1>11. Unstarted' /\ PortGiven' /\ Listed' /\ Agreed' /\ Ended'
  BY <1>1 DEF Unstarted, PortGiven, Listed, Agreed, Ended
<1> QED
  BY <1>9, <1>10, <1>11 DEF IInv

LEMMA ReportLemma == IInv /\ KillsReported => IInv'
<1> SUFFICES ASSUME IInv, KillsReported PROVE IInv'
  OBVIOUS
<1> DEFINE failed == \E k \in DOMAIN tried : ~tried[k].ok
<1>1. /\ Typed /\ Underway /\ Agreed /\ pc = "kill" /\ ids = <<>>
      /\ pc' = "exit" /\ exit' = IF failed THEN 1 ELSE 0
      /\ UNCHANGED <<args, words, cfg, tty, host, docker, entries, printed, yes, ids, tried>>
  BY DEF IInv, KillsReported, Exit, input, listing, killing
<1> HIDE DEF failed
<1>2. exit' \in {0, 1}
  BY <1>1
<1>3. Typed'
  BY <1>1, <1>2 DEF Typed
<1>4. Underway'
  BY <1>1 DEF Underway, OfThePort
<1>5. tried # <<>>
  <2>1. /\ UniqueIdents(entries) # <<>> /\ Len(tried) + Len(ids) = Len(UniqueIdents(entries))
        /\ entries \in Seq(Entry)
    BY <1>1 DEF Underway, Typed
  <2>2. UniqueIdents(entries) \in Seq([pid : Nat \ {0}, start : Nat])
    BY <2>1, UniqueLemma
  <2>3. Len(UniqueIdents(entries)) # 0 /\ Len(ids) = 0
    BY <1>1, <2>1, <2>2, EmptySeq
  <2> QED
    BY <2>1, <2>3
<1>6. Ended'
  <2>1. cfg.kill /\ printed /\ entries # <<>>
    BY <1>1 DEF Underway
  <2>2. exit' = IF (\E k \in DOMAIN tried' : ~tried'[k].ok) THEN 1 ELSE 0
    BY <1>1 DEF failed
  <2> QED
    BY <1>1, <1>5, <2>1, <2>2 DEF Ended
<1>7. Unstarted' /\ PortGiven' /\ Listed' /\ Agreed'
  BY <1>1 DEF Unstarted, PortGiven, Listed, Agreed
<1> QED
  BY <1>3, <1>4, <1>6, <1>7 DEF IInv

(* The invariant is inductive. *)
THEOREM Invariance == Spec => []IInv
<1>1. IInv /\ UNCHANGED vars => IInv'
  <2> SUFFICES ASSUME IInv, UNCHANGED vars PROVE IInv'
    OBVIOUS
  <2>1. UNCHANGED <<args, words, cfg, tty, pc, host, docker, entries, printed, yes, ids, tried, exit>>
    BY DEF vars, input, listing, killing
  <2>2. Typed' /\ Unstarted' /\ PortGiven' /\ Listed' /\ Agreed'
    BY <2>1 DEF IInv, Typed, Unstarted, PortGiven, Listed, Agreed
  <2>3. Underway' /\ Ended'
    BY <2>1 DEF IInv, Underway, OfThePort, Ended, Lookup
  <2> QED
    BY <2>2, <2>3 DEF IInv
<1>2. IInv /\ [Next]_vars => IInv'
  BY <1>1, ParseLemma, ListStepLemma, OutputLemma, StartKillLemma, ConfirmLemma, KillOneLemma,
     ReportLemma DEF Next, Run, Finished
<1> QED
  BY <1>2, InitLemma, PTL DEF Spec

(* Every variable has its type, and the program has ended when there is an exit
   code (main.go). *)
THEOREM TypeCorrect == Spec => []TypeOK
<1>1. IInv => TypeOK
  <2> SUFFICES ASSUME IInv PROVE TypeOK
    OBVIOUS
  <2>1. Typed
    BY DEF IInv
  <2>2. \A f \in {"tcp", "udp", "pid", "json", "kill", "yes"} : cfg[f] \in BOOLEAN
    BY <2>1 DEF Typed, ConfigOK, Flags
  <2>3. \A k \in DOMAIN entries : entries[k] \in Entry
    BY <2>1 DEF Typed
  <2>4. \A k \in DOMAIN tried : tried[k].ok \in BOOLEAN
    <3>1. \A k \in DOMAIN tried : tried[k] \in Outcome
      BY <2>1 DEF Typed
    <3> QED
      BY <3>1 DEF Outcome
  <2> QED
    BY <2>1, <2>2, <2>3, <2>4 DEF Typed, ConfigOK, TypeOK
<1> QED
  BY <1>1, Invariance, PTL

(* Whoever is killed owned a row that was printed, of the port and the protocol
   asked for, was agreed to, and is killed once (main.go:107-139). *)
THEOREM KillsAreAsked == Spec => []KilledAsAsked
<1>1. IInv => KilledAsAsked
  <2> SUFFICES ASSUME IInv PROVE KilledAsAsked
    OBVIOUS
  <2>1. Typed /\ Underway /\ Agreed
    BY DEF IInv
  <2>2. PICK es \in Seq(Entry) : es = entries
    BY <2>1 DEF Typed
  <2>3. PICK plan : plan = UniqueIdents(es)
    OBVIOUS
  <2>4. /\ plan \in Seq([pid : Nat \ {0}, start : Nat])
        /\ \A k \in 1 .. Len(plan) : \E r \in DOMAIN es : plan[k] = IdentOf(es[r])
        /\ \A k, l \in 1 .. Len(plan) : k # l => plan[k].pid # plan[l].pid
    <3>1. /\ plan \in Seq([pid : Nat \ {0}, start : Nat])
          /\ \A k \in 1 .. Len(plan) : \E r \in DOMAIN es : plan[k] = IdentOf(es[r])
      BY <2>3, UniqueLemma
    <3>2. \A k, l \in 1 .. Len(plan) : k # l => plan[k].pid # plan[l].pid
      BY <2>3, UniqueLemma
    <3> QED
      BY <3>1, <3>2
  <2>5. DOMAIN tried = 1 .. Len(tried) /\ Len(tried) \in Nat /\ Len(ids) \in Nat /\ Len(plan) \in Nat
    BY <2>1, <2>4 DEF Typed
  <2>6. CASE tried = <<>>
    <3>1. DOMAIN tried = {}
      BY <2>6
    <3> QED
      BY <3>1 DEF KilledAsAsked
  <2>7. CASE tried # <<>>
    <3>1. /\ printed /\ \A k \in DOMAIN entries : OfThePort(entries[k])
          /\ Len(tried) + Len(ids) = Len(plan)
          /\ \A k \in 1 .. Len(tried) : tried[k].id = plan[k]
      BY <2>1, <2>2, <2>3, <2>7 DEF Underway
    <3>2. cfg.yes \/ (yes /\ tty.stdin)
      BY <2>1, <2>7 DEF Agreed
    <3>3. \A k \in DOMAIN tried : k \in 1 .. Len(plan) /\ tried[k].id = plan[k]
      BY <2>5, <3>1
    <3>4. ASSUME NEW k \in DOMAIN tried
          PROVE  \E r \in DOMAIN entries :
                    LET e == entries[r]
                    IN /\ tried[k].id = IdentOf(e)
                       /\ e.source = "process" /\ e.port = cfg.port
                       /\ cfg.tcp # cfg.udp => (e.proto = 0 <=> cfg.tcp)
      <4>1. PICK r \in DOMAIN es : plan[k] = IdentOf(es[r])
        BY <2>4, <3>3
      <4>2. es[r].pid > 0
        <5>1. plan[k] \in [pid : Nat \ {0}, start : Nat]
          <6>1. plan \in Seq([pid : Nat \ {0}, start : Nat])
            BY <2>4
          <6> QED
            BY <3>3, <6>1, ElementOfSeq
        <5>2. plan[k].pid = es[r].pid
          BY <4>1 DEF IdentOf
        <5> QED
          BY <5>1, <5>2
      <4>3. OfThePort(entries[r]) /\ r \in DOMAIN entries /\ tried[k].id = IdentOf(entries[r])
        BY <2>2, <3>1, <3>3, <4>1
      <4> QED
        BY <2>2, <4>2, <4>3 DEF OfThePort
    <3>5. \A k, l \in DOMAIN tried : k # l => tried[k].id.pid # tried[l].id.pid
      BY <2>4, <3>3
    <3> QED
      BY <3>1, <3>2, <3>4, <3>5 DEF KilledAsAsked
  <2> QED
    BY <2>6, <2>7
<1> QED
  BY <1>1, Invariance, PTL

(* The exit code: 0 exactly if every owner of a printed row was killed, and
   after a lookup only if it found something (main.go:90-146). *)
THEOREM ExitCodeIsTrue == Spec => []ExitIsTrue
<1>1. IInv => ExitIsTrue
  <2> SUFFICES ASSUME IInv, pc = "exit" PROVE ExitIsTrue
    BY DEF ExitIsTrue
  <2>1. Typed /\ Underway /\ Ended
    BY DEF IInv
  <2>2. /\ tried = <<>> /\ cfg.kill /\ printed => exit # 0
        /\ printed /\ Lookup => entries # <<>>
        /\ printed /\ ~cfg.kill => exit = 0
    BY <2>1 DEF Ended
  <2>3. CASE tried = <<>>
    BY <2>2, <2>3 DEF ExitIsTrue
  <2>4. CASE tried # <<>>
    <3>1. PICK es \in Seq(Entry) : es = entries
      BY <2>1 DEF Typed
    <3>2. PICK plan : plan = UniqueIdents(es)
      OBVIOUS
    <3>3. /\ plan \in Seq([pid : Nat \ {0}, start : Nat])
          /\ \A k \in 1 .. Len(plan) : \E r \in DOMAIN es : plan[k] = IdentOf(es[r])
          /\ \A k, l \in 1 .. Len(plan) : k # l => plan[k].pid # plan[l].pid
          /\ \A r \in DOMAIN es : es[r].pid # 0 => \E k \in 1 .. Len(plan) : plan[k].pid = es[r].pid
      <4>1. /\ plan \in Seq([pid : Nat \ {0}, start : Nat])
            /\ \A k \in 1 .. Len(plan) : \E r \in DOMAIN es : plan[k] = IdentOf(es[r])
        BY <3>2, UniqueLemma
      <4>2. \A k, l \in 1 .. Len(plan) : k # l => plan[k].pid # plan[l].pid
        BY <3>2, UniqueLemma
      <4>3. \A r \in DOMAIN es : es[r].pid # 0 => \E k \in 1 .. Len(plan) : plan[k].pid = es[r].pid
        BY <3>2, UniqueLemma
      <4> QED
        BY <4>1, <4>2, <4>3
    <3>4. ids = <<>> /\ exit = IF \E k \in DOMAIN tried : ~tried[k].ok THEN 1 ELSE 0
      BY <2>1, <2>4 DEF Ended
    <3>5. plan # <<>> /\ Len(tried) + Len(ids) = Len(plan) /\ \A k \in 1 .. Len(tried) : tried[k].id = plan[k]
      BY <2>1, <2>4, <3>1, <3>2 DEF Underway
    <3>6. DOMAIN tried = 1 .. Len(tried) /\ Len(tried) \in Nat /\ Len(ids) = 0 /\ Len(plan) \in Nat
      BY <2>1, <3>3, <3>4 DEF Typed
    <3>7. DOMAIN tried = 1 .. Len(plan) /\ Len(plan) # 0
      <4>1. Len(plan) # 0
        BY <3>3, <3>5, EmptySeq
      <4> QED
        BY <3>5, <3>6, <4>1
    <3>8. \A k \in DOMAIN tried : tried[k].id.pid = plan[k].pid
      BY <3>5, <3>6
    <3>9. \A k \in DOMAIN tried : \E r \in DOMAIN es : plan[k].pid = es[r].pid /\ es[r].pid # 0
      <4> SUFFICES ASSUME NEW k \in DOMAIN tried
                   PROVE  \E r \in DOMAIN es : plan[k].pid = es[r].pid /\ es[r].pid # 0
        OBVIOUS
      <4>1. PICK r \in DOMAIN es : plan[k] = IdentOf(es[r])
        BY <3>3, <3>7
      <4>2. plan[k] \in [pid : Nat \ {0}, start : Nat]
        <5>1. plan \in Seq([pid : Nat \ {0}, start : Nat])
          BY <3>3
        <5> QED
          BY <3>7, <5>1, ElementOfSeq
      <4>3. plan[k].pid = es[r].pid
        BY <4>1 DEF IdentOf
      <4> QED
        BY <4>2, <4>3
    <3>10. {tried[k].id.pid : k \in DOMAIN tried} = Owners
      <4>1. ASSUME NEW p \in Owners PROVE \E k \in DOMAIN tried : tried[k].id.pid = p
        <5>1. PICK r \in DOMAIN es : es[r].pid = p /\ p # 0
          BY <3>1 DEF Owners
        <5>2. PICK k \in 1 .. Len(plan) : plan[k].pid = es[r].pid
          BY <3>3, <5>1
        <5> QED
          BY <3>7, <3>8, <5>1, <5>2
      <4>2. ASSUME NEW k \in DOMAIN tried PROVE tried[k].id.pid \in Owners
        <5>1. PICK r \in DOMAIN es : plan[k].pid = es[r].pid /\ es[r].pid # 0
          BY <3>9
        <5> QED
          BY <3>1, <3>8, <5>1 DEF Owners
      <4> QED
        BY <4>1, <4>2
    <3>11. CASE \E k \in DOMAIN tried : ~tried[k].ok
      <4>1. PICK k \in DOMAIN tried : ~tried[k].ok
        BY <3>11
      <4>2. \A l \in DOMAIN tried : tried[l].ok => tried[l].id.pid # tried[k].id.pid
        <5> SUFFICES ASSUME NEW l \in DOMAIN tried, tried[l].ok
                     PROVE  tried[l].id.pid # tried[k].id.pid
          OBVIOUS
        <5>1. l # k
          BY <4>1
        <5>2. plan[l].pid # plan[k].pid
          BY <3>3, <3>7, <5>1
        <5> QED
          BY <3>8, <5>2
      <4>3. tried[k].id.pid \notin Killed
        BY <4>2 DEF Killed
      <4>4. Killed # Owners /\ exit = 1
        BY <3>4, <3>10, <3>11, <4>3
      <4> QED
        BY <2>2, <2>4, <3>10, <4>4 DEF ExitIsTrue
    <3>12. CASE \A k \in DOMAIN tried : tried[k].ok
      <4>1. Killed = Owners
        BY <3>10, <3>12 DEF Killed
      <4>2. exit = 0
        BY <3>4, <3>12
      <4>3. Owners # {}
        <5>1. 1 \in DOMAIN tried
          BY <3>6, <3>7
        <5> QED
          BY <3>10, <5>1
      <4> QED
        BY <2>2, <3>10, <4>1, <4>2, <4>3 DEF ExitIsTrue
    <3> QED
      BY <3>11, <3>12
  <2> QED
    BY <2>3, <2>4
<1> QED
  BY <1>1, Invariance, PTL

(* Docker's rows supplement the host's, whatever either listing says
   (docker.go:15-67, list.go:4-12). *)
THEOREM DockerSupplements == Spec => []DockerPrecedence
<1>1. IInv => DockerPrecedence
  <2> SUFFICES ASSUME IInv, pc = "filter" PROVE DockerPrecedence
    BY DEF DockerPrecedence
  <2>1. host \in Hosts /\ docker \in Answers /\ entries = List(host, docker)
    BY DEF IInv, Listed
  <2> QED
    BY <2>1, ListLemma DEF DockerPrecedence
<1> QED
  BY <1>1, Invariance, PTL
=============================================================================
