-------------------------------- MODULE MCCli --------------------------------
(***************************************************************************)
(* Small instances of Cli. Addresses: 1 is 0.0.0.0, 2 is ::, 3 is 0.0.0.0  *)
(* written as an IPv6 address, 4 is 127.0.0.1. Names: 1 a server, 2        *)
(* docker-proxy; 9 is a text that matches nothing.                         *)
(***************************************************************************)
EXTENDS Cli, SequencesExt

MCV6 == {2, 3}
MCCanonical == <<1, 2, 1, 4>>

Given(kind, text) == [kind |-> kind, text |-> text]
AnyArg == {Given(f, 9) : f \in Flags \cup {"q", "help", "unknown"}}
          \cup {Given("query", 1), Given("port", 80), Given("digits", 9), Given("word", 1), Given("word", 0)}
KillArg == {Given("kill", 9), Given("yes", 9), Given("port", 80), Given("tcp", 9), Given("pid", 9), Given("query", 1)}
MCArgs == UNION {[1 .. n -> AnyArg] : n \in 0 .. 3} \cup [1 .. 4 -> KillArg]

Host(proto, port, addr, pid, start, name) ==
    [proto |-> proto, port |-> port, addr |-> addr, pid |-> pid, start |-> start,
     name |-> name, project |-> 0, source |-> "process", cid |-> 0]
Pool == <<
    Host(0, 80, 1, 11, 1, 1), Host(0, 80, 2, 11, 1, 1),     \* one process, IPv4 and IPv6
    Host(0, 80, 1, 0, 0, 0),                                \* an owner that cannot be seen
    Host(0, 80, 1, 12, 2, 2),                               \* docker-proxy
    Host(1, 80, 1, 13, 0, 1),                               \* no start token
    Host(0, 81, 1, 11, 1, 1),                               \* another port
    Host(0, 80, 4, 14, 3, 3) >>
MCHosts ==
    {LET kept == SetToSortSeq(I, <) IN [k \in DOMAIN kept |-> Pool[kept[k]]] :
        I \in {I \in SUBSET DOMAIN Pool : Cardinality(I) <= 3}}

Port(public, private, type, ip) == [public |-> public, private |-> private, type |-> type, ip |-> ip]
Running(id, names, ports) == [id |-> id, names |-> names, ports |-> ports]
MCAnswers == {
    [ok |-> FALSE],
    [ok |-> TRUE, containers |-> <<>>],
    [ok |-> TRUE, containers |-> <<
        Running(<<101, 1>>, <<7>>, <<Port(80, 8080, "tcp", 0), Port(80, 8080, "tcp", 2)>>)>>],
    [ok |-> TRUE, containers |-> <<
        Running(<<101, 1>>, <<>>, <<Port(80, 8080, "udp", 3), Port(0, 8080, "tcp", 1)>>),
        Running(<<102, 1>>, <<7>>, <<Port(80, 8080, "tcp", 3), Port(80, 9, "sctp", 1),
                                       Port(80, 0, "tcp", 2), Port(80, 81, "tcp", 1)>>)>>]}
=============================================================================
