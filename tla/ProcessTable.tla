---------------------------- MODULE ProcessTable ----------------------------
(***************************************************************************)
(* The operating system a kill works against: external, modelled from what *)
(* internal/listen relies on. A process is an incarnation of a pid.        *)
(* Incarnations are numbered in order of birth, and the number stands for  *)
(* the start token of the process: the assumption, which the code shares,  *)
(* is that a pid is not reused within the resolution of its start token.   *)
(***************************************************************************)
EXTENDS Naturals

CONSTANTS
    Pids,       \* process ids
    InitPid,    \* pid 1
    SelfPid,    \* os.Getpid()
    MaxBirths   \* bound: processes ever started

ASSUME PidsAssumption ==
    /\ Pids \subseteq Nat /\ 0 \notin Pids
    /\ InitPid \in Pids /\ SelfPid \in Pids /\ InitPid # SelfPid
ASSUME MaxBirthsAssumption == MaxBirths \in Nat /\ MaxBirths >= 2

VARIABLES
    births,     \* processes started so far
    pidOf,      \* pidOf[i]: the pid of incarnation i
    life        \* life[i]: "unborn", "running", "zombie" or "gone"

procVars == <<births, pidOf, life>>

Incs == 1 .. MaxBirths
Born == 1 .. births
Lives == {"unborn", "running", "zombie", "gone"}

(* Incarnations 1 and 2 are init and lsoff itself. *)
InitInc == 1
SelfInc == 2

ProcTypeOK ==
    /\ births \in 2 .. MaxBirths
    /\ pidOf \in [Incs -> Pids]
    /\ life \in [Incs -> Lives]

ProcInit ==
    /\ births = 2
    /\ pidOf = [i \in Incs |-> IF i = SelfInc THEN SelfPid ELSE InitPid]
    /\ life = [i \in Incs |-> IF i \in {InitInc, SelfInc} THEN "running" ELSE "unborn"]

(* A process holds its pid until it is reaped. *)
Holds(i, pid) == i \in Born /\ pidOf[i] = pid /\ life[i] \in {"running", "zombie"}
Free(pid) == \A i \in Incs : ~Holds(i, pid)
Exited(i) == life[i] \in {"zombie", "gone"}

(* A process starts under a pid nobody holds, one used before included. *)
Fork(pid) ==
    /\ births < MaxBirths
    /\ Free(pid)
    /\ births' = births + 1
    /\ pidOf' = [pidOf EXCEPT ![births + 1] = pid]
    /\ life' = [life EXCEPT ![births + 1] = "running"]

(* A process ends, by itself or by a signal; init and lsoff outlive a kill. *)
Exit(i) ==
    /\ i \in Born \ {InitInc, SelfInc}
    /\ life[i] = "running"
    /\ life' = [life EXCEPT ![i] = "zombie"]
    /\ UNCHANGED <<births, pidOf>>

(* Its parent waits for it, and the pid is free again. *)
Reap(i) ==
    /\ i \in Incs
    /\ life[i] = "zombie"
    /\ life' = [life EXCEPT ![i] = "gone"]
    /\ UNCHANGED <<births, pidOf>>

ProcNext ==
    \/ \E pid \in Pids : Fork(pid)
    \/ \E i \in Incs : Exit(i) \/ Reap(i)
=============================================================================
