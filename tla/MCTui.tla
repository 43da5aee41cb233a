------------------------------- MODULE MCTui -------------------------------
(* Small machines for Tui. Viewed: process 10 listens with a pair of
   sockets that share one address (SO_REUSEPORT), a container publishes a port
   over both families and one socket belongs to nobody; then most of it is gone. Changing: process 10 ends, its pid and its port pass to
   another process. *)
EXTENDS Tui, TLC

Sock(port, addr, pid, start, name) ==
    [proto |-> 0, port |-> port, addr |-> addr, pid |-> pid, start |-> start,
     name |-> name, project |-> 5 - name, source |-> "process", cid |-> 0]
Published(port, addr) ==
    [Sock(port, addr, 0, 0, 3) EXCEPT !.source = "docker", !.cid = 7]

Mixed == <<Sock(4, 0, 0, 0, 4), Sock(1, 1, 10, 1, 2), Sock(1, 1, 10, 1, 2),
           Published(3, 9), Published(3, 2)>>
Fewer == <<Published(3, 9), Sock(2, 1, 20, 2, 1)>>
Viewed == <<Mixed, Fewer>>

Started == <<Sock(2, 1, 20, 2, 1), Sock(1, 1, 10, 1, 2), Sock(1, 9, 10, 1, 2)>>
Reused == <<Sock(2, 1, 20, 2, 1), Sock(1, 0, 0, 0, 4), Sock(1, 1, 10, 3, 2)>>
Changing == <<Started, Reused>>

GenSymmetry == Permutations(Gens) \cup Permutations(TickGens)
=============================================================================
