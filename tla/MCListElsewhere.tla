--------------------------- MODULE MCListElsewhere ---------------------------
(***************************************************************************)
(* A small instance of ListElsewhere: three sockets in one list, two of    *)
(* them on one endpoint, as with SO_REUSEPORT.                             *)
(***************************************************************************)
EXTENDS ListElsewhere

MCTableOf == [s \in Socks |-> "udp"]
MCEndpoint == [s \in Socks |-> IF s = 3 THEN 2 ELSE s]
=============================================================================
