----------------------------- MODULE SocketTable -----------------------------
(***************************************************************************)
(* The machine a listing looks at: processes open sockets, pass them on    *)
(* and close them, exit, and leave their pids to others, all while the     *)
(* listing goes on. External, modelled from what the listings of           *)
(* internal/listen rely on, with the history their properties are about.   *)
(***************************************************************************)
EXTENDS ProcessTable, Sequences, FiniteSets

CONSTANTS
    Socks,          \* sockets, each opened once
    Fds,            \* file descriptor numbers
    TableOf,        \* TableOf[s]: the kernel's table socket s is in
    Endpoint,       \* Endpoint[s]: its protocol, address and port
    OthersProcs,    \* sets of incarnations that may belong to another user
    MaxChanges      \* bound: sockets opened, passed on and closed

ASSUME SocksAssumption == Socks \subseteq Nat \ {0}
ASSUME EndpointAssumption == Endpoint \in [Socks -> Nat]
ASSUME FdsAssumption == Fds \subseteq Nat
ASSUME MaxChangesAssumption == MaxChanges \in Nat

VARIABLES
    fdt,        \* fdt[i][n]: the socket fd n of incarnation i refers to, or 0
    opened,     \* sockets opened so far
    changes,    \* bound: what happened to sockets so far
    foreign,    \* incarnations lsoff may not look into
    pc,         \* the listing's next step
    up,         \* history: sockets there since the listing began
    present     \* history: incarnations that held a pid since the listing began

sockVars == <<fdt, opened, changes>>
history == <<up, present>>

Open(s) == \E i \in Incs, n \in Fds : fdt[i][n] = s
There(i) == life[i] \in {"running", "zombie"}
Holder(pid) == IF Free(pid) THEN 0 ELSE CHOOSE i \in Incs : Holds(i, pid)
Least(S) == CHOOSE x \in S : \A y \in S : x <= y

SocketTypeOK ==
    /\ ProcTypeOK
    /\ fdt \in [Incs -> [Fds -> Socks \cup {0}]]
    /\ opened \subseteq Socks /\ changes \in 0 .. MaxChanges
    /\ foreign \in OthersProcs

SocketInit ==
    /\ ProcInit
    /\ fdt = [i \in Incs |-> [n \in Fds |-> 0]]
    /\ opened = {} /\ changes = 0
    /\ foreign \in OthersProcs
    /\ pc = "idle"
    /\ up = {} /\ present = {}

(* The history of a listing, from its beginning and in every step of others. *)
Witness ==
    /\ up' = {s \in up : \E i \in Incs, n \in Fds : fdt'[i][n] = s}
    /\ present' = IF pc = "idle" THEN {} ELSE present \cup {i \in Incs : There(i)'}
StartWitness ==
    /\ up' = {s \in Socks : Open(s)}
    /\ present' = {i \in Incs : There(i)}

(* A new descriptor is the lowest that is free. *)
NewFd(i, n) == fdt[i][n] = 0 /\ \A m \in Fds : m < n => fdt[i][m] # 0

OpenSocket(i, n, s) ==
    /\ s \notin opened /\ NewFd(i, n)
    /\ fdt' = [fdt EXCEPT ![i][n] = s]
    /\ opened' = opened \cup {s}

(* dup, a fork that inherits, or a descriptor sent to another process. *)
PassOn(i, n, j, m) ==
    /\ fdt[i][n] # 0 /\ life[j] = "running" /\ j # SelfInc /\ NewFd(j, m)
    /\ fdt' = [fdt EXCEPT ![j][m] = fdt[i][n]]
    /\ UNCHANGED opened

CloseFd(i, n) ==
    /\ fdt[i][n] # 0
    /\ fdt' = [fdt EXCEPT ![i][n] = 0]
    /\ UNCHANGED opened

(* What running processes do to sockets of the tables the kernel has. *)
Sockets(lacking) ==
    /\ changes < MaxChanges /\ changes' = changes + 1
    /\ \E i \in {i \in Incs \ {SelfInc} : life[i] = "running"}, n \in Fds :
          \/ \E s \in Socks : TableOf[s] \notin lacking /\ OpenSocket(i, n, s)
          \/ \E j \in Incs, m \in Fds : PassOn(i, n, j, m)
          \/ CloseFd(i, n)
    /\ UNCHANGED <<procVars, foreign, pc>>
    /\ Witness

(* Processes come and go; those "pinned" are not reaped. *)
Processes(pinned) ==
    /\ \/ (\E pid \in Pids : Fork(pid)) /\ UNCHANGED fdt
       \/ \E i \in Incs : Exit(i) /\ fdt' = [fdt EXCEPT ![i] = [n \in Fds |-> 0]]
       \/ (\E i \in Incs \ pinned : Reap(i)) /\ UNCHANGED fdt
    /\ UNCHANGED <<opened, changes, foreign, pc>>
    /\ Witness
=============================================================================
