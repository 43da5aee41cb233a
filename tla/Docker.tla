------------------------------- MODULE Docker -------------------------------
(***************************************************************************)
(* List: the platform's rows, the ports Docker publishes merged into them, *)
(* and the order (internal/docker/docker.go, internal/listen/docker.go,    *)
(* list.go). A container is [id, names, ports]; an id is a pair of its     *)
(* first twelve characters and the rest.                                   *)
(***************************************************************************)
EXTENDS Rows

CONSTANTS
    Canonical,      \* Canonical[a]: normalizeAddr, an address as it is written
    Wildcard,       \* 0.0.0.0
    ProxyNames      \* the names that say docker-proxy

ASSUME CanonicalAssumption ==
    /\ Wildcard \in DOMAIN Canonical
    /\ \A a \in DOMAIN Canonical : a \in Nat /\ Canonical[a] \in Nat
    /\ \A a \in DOMAIN Canonical : Canonical[Canonical[a]] = Canonical[a]
ASSUME ProxyNamesAssumption == ProxyNames \subseteq Nat

(* A port without an address has ip 0. *)
PortMapping == [public : Nat, private : Nat, type : STRING, ip : {0} \cup DOMAIN Canonical]
Container == [id : Nat \X Nat, names : Seq(Nat), ports : Seq(PortMapping)]

(* publishedPorts: the ports that reach the host, by TCP or UDP. *)
Reaches(p) == p.public # 0 /\ p.private # 0 /\ p.type \in {"tcp", "udp"}
Published(c, p) ==
    [cid  |-> c.id[1],
     name |-> IF c.names = <<>> THEN 0 ELSE c.names[1],
     addr |-> IF p.ip = 0 THEN Wildcard ELSE p.ip,
     port |-> p.public,
     type |-> p.type]
PublishedPorts(containers) ==
    LET port(place) == containers[place[1]].ports[place[2]]
        all == UNION {{i} \X DOMAIN containers[i].ports : i \in DOMAIN containers}
        places == {q \in all : Reaches(port(q))}
        order == Arranged(places, {p \in places \X places :
                     p[1][1] < p[2][1] \/ (p[1][1] = p[2][1] /\ p[1][2] < p[2][2])})
    IN [k \in 1 .. Cardinality(places) |-> Published(containers[order[k][1]], port(order[k]))]

(* listWithDocker: the row of a published port; it has no process, and is named
   for the container, or for its id. *)
DockerEntry(p) ==
    [proto |-> IF p.type = "udp" THEN 1 ELSE 0, port |-> p.port, addr |-> Canonical[p.addr],
     pid |-> 0, start |-> 0, name |-> IF p.name = 0 THEN p.cid ELSE p.name,
     project |-> 0, source |-> "docker", cid |-> p.cid]

ListenerIdentity(e) == <<e.proto, Canonical[e.addr], e.port>>
IsDockerProxy(e) == e.name \in ProxyNames

(* mergeDocker: the first publication of each listener; it takes the place of
   host rows without an owner or owned by docker-proxy. *)
Identities(es) == {ListenerIdentity(es[k]) : k \in DOMAIN es}
ReplacedOwned(e, keys) == e.source # "docker" /\ ListenerIdentity(e) \in keys  \* mutant: owners too
Replaced(e, keys) ==
    e.source # "docker" /\ ListenerIdentity(e) \in keys /\ (~HasPID(e) \/ IsDockerProxy(e))
FirstOfListener(es) ==
    {k \in DOMAIN es : \A l \in 1 .. k - 1 : ListenerIdentity(es[l]) # ListenerIdentity(es[k])}
MergeDocker(entries, dockerEntries) ==
    LET keys == Identities(dockerEntries)
    IN Keeping(entries, {k \in DOMAIN entries : ~Replaced(entries[k], keys)})
          \o Keeping(dockerEntries, FirstOfListener(dockerEntries))

(* Sort is stable. *)
Sort(es) ==
    LET before == {p \in (DOMAIN es) \X (DOMAIN es) :
                      StableBefore(Weight(es[p[1]], "port"), Weight(es[p[2]], "port"), FALSE, p[1] < p[2])}
        order == Arranged(DOMAIN es, before)
    IN [k \in DOMAIN es |-> es[order[k]]]

(* List. The answer of the Docker Engine is its containers, or an error, which
   leaves the host's rows alone. *)
List(host, answer) ==
    LET published == IF answer.ok THEN PublishedPorts(answer.containers) ELSE <<>>
    IN Sort(MergeDocker(host, [k \in DOMAIN published |-> DockerEntry(published[k])]))

------------------------------------------------------------------------------
(* What List promises, said without its steps: one row for each published
   listener, of the container that published it first; every row of the host
   that an identified process other than docker-proxy owns, and every other one
   that no publication is about; nothing else, and in order. *)
Times(es, e) == Cardinality({k \in DOMAIN es : es[k] = e})
SupersededBy(e, pub) ==
    /\ \E k \in DOMAIN pub : ListenerIdentity(pub[k]) = ListenerIdentity(e)
    /\ e.pid = 0 \/ e.name \in ProxyNames
Supplemented(host, pub, es) ==
    LET hostRows == {host[k] : k \in DOMAIN host}
        listed == {es[k] : k \in DOMAIN es}
        dockerRows == {e \in listed : e.source = "docker"}
    IN /\ \A e \in hostRows :
             Times(es, e) = IF SupersededBy(e, pub) THEN 0 ELSE Times(host, e)
       /\ \A e \in listed \ dockerRows : e \in hostRows
       /\ \A k \in DOMAIN pub :
             \/ Times(es, pub[k]) = 1
             \/ \E l \in 1 .. k - 1 : ListenerIdentity(pub[l]) = ListenerIdentity(pub[k])
       /\ Cardinality(dockerRows) = Cardinality(Identities(pub))
       /\ \A k, l \in DOMAIN es : k < l => ~Less(Weight(es[l], "port"), Weight(es[k], "port"))
=============================================================================
