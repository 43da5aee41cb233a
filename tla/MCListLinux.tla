----------------------------- MODULE MCListLinux -----------------------------
(***************************************************************************)
(* Instances of ListLinux: init hands sockets to a service, the service    *)
(* exits and its pid is reused.                                            *)
(***************************************************************************)
EXTENDS ListLinux

(* Socket 1 is in the first table read, socket 2 in the last. *)
MCTableOf == [s \in Socks |-> IF s = 1 THEN "tcp" ELSE "udp6"]
MCEndpoint == [s \in Socks |-> s]

(* Two sockets of one process on one port, as with SO_REUSEPORT. *)
SameTable == [s \in Socks |-> "tcp"]
SamePort == [s \in Socks |-> 1]
=============================================================================
