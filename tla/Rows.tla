-------------------------------- MODULE Rows --------------------------------
(***************************************************************************)
(* The rows of the table as functions of the listing and of the user's     *)
(* settings: internal/listen/listen.go (keys, filters, order) and          *)
(* internal/tui/group.go (groups). A listing is a sequence of entries; a   *)
(* name, a project and an address are numbers in the order the code        *)
(* compares their texts in, V6 holding the addresses that are IPv6 and 0   *)
(* standing for a text that is no address.                                 *)
(***************************************************************************)
EXTENDS Integers, Sequences, FiniteSets

CONSTANT V6

ASSUME V6Assumption == V6 \subseteq Nat \ {0}

Entry == [proto : {0, 1}, port : Nat, addr : Nat, pid : Nat, start : Nat, name : Nat,
          project : Nat, source : {"process", "docker"}, cid : Nat]

SortKeys == <<"port", "name", "project", "pid", "proto", "addr">>

(* Entry.Key, the identity of a row. *)
Key(e) == <<e.proto, e.addr, e.port, e.pid>>

(* compareEntries: the column sorted by. *)
Column(e, key) ==
    CASE key = "port" -> e.port
      [] key = "name" -> e.name
      [] key = "project" -> e.project
      [] key = "pid" -> e.pid
      [] key = "proto" -> e.proto
      [] key = "addr" -> e.addr

(* SortBy: by the column, then port, protocol, address, pid; desc turns the
   whole comparison around. *)
Weight(e, key) == <<Column(e, key), e.port, e.proto, e.addr, e.pid>>
Less(v, w) == \E k \in 1 .. 5 : v[k] < w[k] /\ \A m \in 1 .. k - 1 : v[m] = w[m]
Before(v, w, desc) == IF desc THEN Less(w, v) ELSE Less(v, w)

(* The sort is stable: what compares equal keeps its order. *)
StableBefore(v, w, desc, first) ==
    \/ Before(v, w, desc)
    \/ v = w /\ first

(* S in the order of a strict total order on it, a set of pairs. *)
Arranged(S, before) ==
    LET rank == [x \in S |-> Cardinality({y \in S : <<y, x>> \in before}) + 1]
    IN [k \in 1 .. Cardinality(S) |-> CHOOSE x \in S : rank[x] = k]

(* The elements of s at the places in I, in their order: what a loop that
   appends some of s to a new slice leaves. *)
Keeping(s, I) ==
    LET order == Arranged(I, {p \in I \X I : p[1] < p[2]})
    IN [k \in 1 .. Cardinality(I) |-> s[order[k]]]

------------------------------------------------------------------------------
(* What is filtered out. A query stands for the entries its words match: 0 for
   the empty one, otherwise those of one name (the text a query is matched
   against is a matter of wording). *)

HasPID(e) == e.pid > 0
Family(addr) == IF addr = 0 THEN "all" ELSE IF addr \in V6 THEN "v6" ELSE "v4"
InFamily(e, family) == family = "all" \/ Family(e.addr) = family
MatchesQuery(e, query) == query = 0 \/ e.name = query

Filtered(es, onlyPID, family, query) ==
    Keeping(es, {i \in DOMAIN es : /\ onlyPID => HasPID(es[i])
                                   /\ InFamily(es[i], family)
                                   /\ MatchesQuery(es[i], query)})

------------------------------------------------------------------------------
(* Groups. *)

(* groupKeyForEntry: owner, protocol and port; a socket nobody owns is alone,
   known by its place in the filtered listing. *)
GroupOf(es, i) ==
    LET e == es[i]
        owner == IF e.pid > 0 THEN <<"process", e.pid>>
                 ELSE IF e.source = "docker" /\ e.cid # 0 THEN <<"docker", e.cid>>
                 ELSE <<"anonymous", i - 1>>
    IN [owner |-> owner, proto |-> e.proto, port |-> e.port]

IsGroupable(g) == g.owner[1] # "anonymous"

(* flattenGroups: groups in the order of their first row, each of them its
   first row alone, or all of its rows if it is expanded. *)
FlattenGroups(es, key, desc, expanded) ==
    LET all == DOMAIN es
        group == [i \in all |-> GroupOf(es, i)]
        members == [i \in all |-> {j \in all : group[j] = group[i]}]
        weight == [i \in all |-> Weight(es[i], key)]
        inOrder == {p \in all \X all : StableBefore(weight[p[1]], weight[p[2]], desc, p[1] < p[2])}
        lead == [i \in all |-> CHOOSE l \in members[i] :
                                  \A j \in members[i] \ {l} : <<l, j>> \in inOrder]
        first == [i \in all |-> CHOOSE f \in members[i] : \A j \in members[i] : f <= j]
        RowBefore(i, j) ==
            IF group[i] = group[j] THEN <<i, j>> \in inOrder
            ELSE StableBefore(weight[lead[i]], weight[lead[j]], desc, first[i] < first[j])
        Open(i) == group[i] \in expanded
        visible == {i \in all : i = lead[i] \/ Open(i)}
        Fold(i) == IF Cardinality(members[i]) = 1 THEN "none"
                   ELSE IF i # lead[i] THEN "child"
                   ELSE IF Open(i) THEN "expanded" ELSE "collapsed"
        RowOf(i) == [e |-> es[i], group |-> group[i], grouped |-> IsGroupable(group[i]),
                     fold |-> Fold(i)]
        order == Arranged(visible, {p \in visible \X visible : RowBefore(p[1], p[2])})
    IN [k \in 1 .. Cardinality(visible) |-> RowOf(order[k])]

------------------------------------------------------------------------------
(* Selection. Positions count from 0, as in the code. *)

(* viewRow.id *)
Id(r) == IF r.fold # "child" /\ r.grouped THEN <<"group", r.group>> ELSE <<"key", Key(r.e)>>

Has(rows, cursor) == 0 <= cursor /\ cursor < Len(rows)
At(rows, cursor) == rows[cursor + 1]

(* applyFilter: what to look for, in this order. *)
KeepRowOnly(r) == <<Id(r), <<"key", Key(r.e)>>>>     \* mutant: no group to fall back on
Keep(r) ==
    IF r.grouped THEN <<Id(r), <<"key", Key(r.e)>>, <<"group", r.group>>>>
    ELSE <<Id(r), <<"key", Key(r.e)>>>>

(* applyFilter: where the cursor goes in the new rows. *)
ReselectByPlace(old, cursor, new) == cursor          \* mutant: the selection is a position
Reselect(old, cursor, new) ==
    LET keep == IF Has(old, cursor) THEN Keep(At(old, cursor)) ELSE <<>>
        Hits(k) == {c \in 0 .. Len(new) - 1 :
                        Id(At(new, c)) = keep[k] \/ <<"key", Key(At(new, c).e)>> = keep[k]}
        found == {k \in DOMAIN keep : Hits(k) # {}}
        Least(S) == CHOOSE x \in S : \A y \in S : x <= y
    IN IF found # {} THEN Least(Hits(Least(found))) ELSE cursor

(* pageSize and clamp: the cursor within the rows, the page around the cursor. *)
PageSize(height) == IF height - 12 < 1 THEN 1 ELSE height - 12
ClampCursorAbove(c, n) == IF n = 0 THEN 0 ELSE IF c >= n THEN n - 1 ELSE c  \* mutant: below 0
ClampCursor(c, n) == IF n = 0 \/ c < 0 THEN 0 ELSE IF c >= n THEN n - 1 ELSE c
ClampOffsetTight(o, c, n, ps) ==                     \* mutant: off by one at the page's end
    IF n = 0 THEN 0 ELSE IF c < o THEN c ELSE IF c > o + ps THEN c - ps + 1 ELSE o
ClampOffset(o, c, n, ps) ==
    IF n = 0 THEN 0 ELSE IF c < o THEN c ELSE IF c >= o + ps THEN c - ps + 1 ELSE o
=============================================================================
