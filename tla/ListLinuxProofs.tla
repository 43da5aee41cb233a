--------------------------- MODULE ListLinuxProofs ---------------------------
(***************************************************************************)
(* Safety of the listing on Linux, for any number of sockets, descriptors, *)
(* processes and pids. What a process keeps under one fd is open all the   *)
(* time, so it is in the tables once they are read; its pid is its own all *)
(* the time, so the pass over that pid is a pass over it alone.            *)
(***************************************************************************)
EXTENDS ListLinux, ProcessTableProofs, FiniteSetTheorems, SequenceTheorems

Passing == pc \in {"fds", "link", "name", "start"}      \* amid the fds of one pid
Scanning == Passing \/ pc = "pid"
Current == Least(pids)

(* Only running processes have descriptors, of sockets that were opened. *)
SocketOK ==
    /\ ProcOK
    /\ SocketTypeOK
    /\ \A i \in Incs, n \in Fds :
          fdt[i][n] # 0 => life[i] = "running" /\ fdt[i][n] \in opened
    /\ IsFiniteSet(opened)

(* The history is one of what was there. *)
WitnessOK ==
    /\ kept \in [Incs -> SUBSET Fds]
    /\ pc # "idle" =>
          /\ present \subseteq Born
          /\ \A i \in Incs : There(i) => i \in present
          /\ \A s \in up : s \in Socks /\ Open(s)
          /\ \A i \in Incs : \A n \in kept[i] : i \in present /\ fdt[i][n] \in up

(* Where the scan is tells what it has. *)
PlaceOK ==
    /\ rows \in Seq(Row)
    /\ Passing => pids # {}
    /\ pc = "idle" => loaded = 0
    /\ pc \in {"idle", "tables"} => rows = <<>>
    /\ pc \notin {"link", "name", "start"} => hit = <<>>
    /\ pc \in {"name", "start"} => hit # <<>>

(* Of what was open all the time, the tables read so far have it. *)
FoundOK ==
    /\ pc = "tables" => \A s \in up : (\E k \in 1 .. loaded : TableOf[s] = Tables[k]) => s \in Known
    /\ Scanning \/ pc = "done" => up \subseteq Known

(* What was read by number is of a process that had that number; what could not
   be read is of one that has gone. *)
OfPid(i, pid) == i \in present /\ pidOf[i] = pid
TrueOfHit(x) ==
    /\ x \in {0} \cup Incs
    /\ x # 0 => OfPid(x, Current)
    /\ x = 0 => life[hit[2]] = "gone"
MetaOK ==
    /\ hit # <<>> => hit[1] \in Known /\ OfPid(hit[2], Current)
    /\ pc = "start" => meta = <<meta[1]>> /\ TrueOfHit(meta[1])
    /\ pc = "link" /\ hit # <<>> => TrueOfHit(meta[1]) /\ TrueOfHit(meta[2])

TrueOfPid(x, pid) ==
    /\ x # 0 => OfPid(x, pid)
    /\ x = 0 => \E j \in Incs : OfPid(j, pid) /\ life[j] = "gone"
RowOK(r) ==
    r.pid # 0 => OfPid(r.of, r.pid) /\ TrueOfPid(r.name, r.pid) /\ TrueOfPid(r.start, r.pid)

(* No row is of a pid still to be passed. *)
RowsOK ==
    /\ \A k \in DOMAIN rows : RowOK(rows[k])
    /\ RowPerOwnerOrLine
    /\ pc # "done" => \A k \in DOMAIN rows : rows[k].pid # 0
    /\ pc = "pid" => \A k \in DOMAIN rows : rows[k].pid \notin pids
    /\ Passing => \A k \in DOMAIN rows : rows[k].pid \notin pids \ {Current}
    /\ pc = "done" => \A s \in Known : s \in Matched

(* The pass over the pid of a process that keeps fd n is a pass over it. *)
HasRow(i, s) ==
    \E k \in DOMAIN rows :
        rows[k].sock = s /\ rows[k].pid = pidOf[i] /\ rows[k].name = i /\ rows[k].start = i
OwnPass(i, n) ==
    /\ dir = i
    /\ hit # <<>> => hit[2] = i
    /\ pc = "start" => meta[1] = i
    /\ pc = "link" /\ hit # <<>> => meta[1] = i /\ meta[2] = i
    /\ \A k \in DOMAIN rows : rows[k].pid = Current => rows[k].name = i /\ rows[k].start = i
    /\ pc = "link" => n \in fds \/ HasRow(i, fdt[i][n])
    /\ pc \in {"name", "start"} => n \in fds \/ HasRow(i, fdt[i][n]) \/ hit[1] = fdt[i][n]
OwnerOK(i, n) ==
    /\ Scanning => pidOf[i] \in pids \/ HasRow(i, fdt[i][n])
    /\ Passing /\ Current = pidOf[i] => OwnPass(i, n)
    /\ pc = "done" => HasRow(i, fdt[i][n])
OwnersOK == \A i \in Incs \ foreign : \A n \in kept[i] : OwnerOK(i, n)

IInv ==
    /\ TypeOK /\ SocketOK /\ WitnessOK
    /\ PlaceOK /\ FoundOK /\ MetaOK /\ RowsOK /\ OwnersOK

------------------------------------------------------------------------------
(* Helpers. *)
LEMMA LeastLemma ==
    ASSUME NEW S \in SUBSET Nat, S # {}
    PROVE  Least(S) \in S /\ \A y \in S : Least(S) <= y
<1> DEFINE Upto == {0 .. x : x \in S}
           R == StrictSubsetOrdering(Nat)
<1>1. Upto \subseteq FiniteSubsetsOf(Nat) /\ Upto # {}
  <2>1. ASSUME NEW x \in S PROVE 0 .. x \in FiniteSubsetsOf(Nat)
    <3>1. IsFiniteSet(0 .. x)
      BY FS_Interval
    <3>2. 0 .. x \subseteq Nat
      OBVIOUS
    <3> QED
      BY <3>1, <3>2 DEF FiniteSubsetsOf
  <2> QED
    BY <2>1
<1>2. IsWellFoundedOn(R, FiniteSubsetsOf(Nat))
  BY FS_StrictSubsetOrderingWellFounded
<1> HIDE DEF R
<1>3. \E u \in Upto : \A v \in Upto : ~(<<v, u>> \in R)
  <2> HIDE DEF Upto
  <2> QED
    BY <1>1, <1>2, WFMin
<1>4. PICK x \in S : \A y \in S : ~(<<0 .. y, 0 .. x>> \in R)
  BY <1>3
<1>5. ASSUME NEW y \in S, y < x PROVE FALSE
  <2>1. 0 .. y \subseteq 0 .. x /\ 0 .. y \subseteq Nat /\ 0 .. x \subseteq Nat
    BY <1>5
  <2>2. x \in 0 .. x /\ x \notin 0 .. y
    BY <1>5
  <2> QED
    BY <1>4, <2>1, <2>2 DEF R, StrictSubsetOrdering
<1>6. \A y \in S : x <= y
  BY <1>5
<1> QED
  BY <1>6 DEF Least

LEMMA HolderLemma ==
    ASSUME ProcOK, NEW pid \in Pids
    PROVE  /\ Holder(pid) = 0 <=> Free(pid)
           /\ Holder(pid) # 0 => Holder(pid) \in Incs /\ Holds(Holder(pid), pid)
           /\ \A i \in Incs : Holds(i, pid) => Holder(pid) = i
<1>1. CASE Free(pid)
  BY <1>1 DEF Holder, Free
<1>2. CASE ~Free(pid)
  <2>1. PICK i \in Incs : Holds(i, pid)
    BY <1>2 DEF Free
  <2>2. Holder(pid) = CHOOSE j \in Incs : Holds(j, pid)
    BY <1>2 DEF Holder
  <2>3. Holder(pid) \in Incs /\ Holds(Holder(pid), pid)
    BY <2>1, <2>2
  <2>4. 0 \notin Incs
    BY MaxBirthsAssumption DEF Incs
  <2> QED
    BY <1>2, <2>3, <2>4 DEF ProcOK
<1> QED
  BY <1>1, <1>2

(* SetToSeq lists a finite set, each element once. *)
LEMMA SetToSeqLemma ==
    ASSUME NEW S, IsFiniteSet(S)
    PROVE  /\ Cardinality(S) \in Nat
           /\ SetToSeq(S) \in [1 .. Cardinality(S) -> S]
           /\ \A k, l \in 1 .. Cardinality(S) : SetToSeq(S)[k] = SetToSeq(S)[l] => k = l
           /\ \A x \in S : \E k \in 1 .. Cardinality(S) : SetToSeq(S)[k] = x
<1>1. Cardinality(S) \in Nat /\ ExistsBijection(1 .. Cardinality(S), S)
  BY FS_CardinalityType
<1>2. \E f \in [1 .. Cardinality(S) -> S] : IsInjective(f)
  BY <1>1 DEF ExistsBijection, Bijection, Injection
<1>3. SetToSeq(S) \in [1 .. Cardinality(S) -> S] /\ IsInjective(SetToSeq(S))
  BY <1>2 DEF SetToSeq
<1>4. SetToSeq(S) \in Injection(1 .. Cardinality(S), S)
  BY <1>3 DEF Injection
<1>5. Cardinality(1 .. Cardinality(S)) = Cardinality(S)
  BY <1>1, FS_Interval
<1>6. SetToSeq(S) \in Surjection(1 .. Cardinality(S), S)
  BY <1>4, <1>5, FS_Injection
<1> QED
  BY <1>1, <1>3, <1>6 DEF IsInjective, Surjection
------------------------------------------------------------------------------
USE DEF Incs, Born, InitInc, SelfInc

LEMMA InitLemma == Init => IInv
<1> SUFFICES ASSUME Init PROVE IInv
  OBVIOUS
<1> USE DEF Init, SocketInit
<1>1. ProcOK
  BY ProcInitLemma
<1>2. SocketOK
  <2>1. SocketTypeOK
    BY <1>1, MaxChangesAssumption DEF SocketTypeOK, ProcOK
  <2> QED
    BY <1>1, <2>1, FS_EmptySet DEF SocketOK
<1>3. rows \in Seq(Row) /\ DOMAIN rows = {}
  OBVIOUS
<1>4. TypeOK
  <2>1. byInode \in [Socks -> Nat] /\ Known = {}
    BY DEF Known
  <2> QED
    BY <1>2, <1>3, <2>1, MaxBirthsAssumption DEF TypeOK, SocketOK
<1>5. WitnessOK
  BY DEF WitnessOK
<1>6. PlaceOK
  BY <1>3 DEF PlaceOK, Passing
<1>7. FoundOK /\ MetaOK
  BY DEF FoundOK, MetaOK, Scanning, Passing
<1>8. RowsOK
  BY <1>3 DEF RowsOK, RowPerOwnerOrLine, Nobodys, Passing
<1>9. OwnersOK
  BY DEF OwnersOK
<1> QED
  BY <1>2, <1>4, <1>5, <1>6, <1>7, <1>8, <1>9 DEF IInv

------------------------------------------------------------------------------
(* A step of others leaves what the listing has alone. *)

(* Processes come and go. *)
LEMMA ProcessesLemma ==
    ASSUME IInv, Processes({})
    PROVE  /\ SocketOK'
           /\ UNCHANGED <<opened, changes, foreign, pc>> /\ Witness
           /\ births <= births' /\ births' \in Nat
           /\ \A i \in Born : pidOf'[i] = pidOf[i] /\ (life[i] = "gone" => life'[i] = "gone")
<1>0. SocketOK /\ ProcOK /\ SocketTypeOK /\ ProcTypeOK
  BY DEF IInv, SocketOK, ProcOK
<1>1. ProcNext
  BY DEF Processes, ProcNext
<1>2. ProcOK' /\ births <= births' /\ births' \in Nat
  BY <1>0, <1>1, ProcLemma
<1>3. \A i \in Born : pidOf'[i] = pidOf[i] /\ (life[i] = "gone" => life'[i] = "gone")
  BY <1>0, <1>1, ProcLemma
<1>4. UNCHANGED <<opened, changes, foreign, pc>> /\ Witness
  BY DEF Processes
<1>5. /\ fdt' \in [Incs -> [Fds -> Socks \cup {0}]]
      /\ \A i \in Incs, n \in Fds :
            fdt'[i][n] # 0 => life'[i] = "running" /\ fdt'[i][n] \in opened
  <2>0. fdt \in [Incs -> [Fds -> Socks \cup {0}]] /\ births \in Nat
    BY <1>0 DEF SocketTypeOK, ProcTypeOK
  <2>1. CASE (\E pid \in Pids : Fork(pid)) /\ UNCHANGED fdt
    <3>1. \A i \in Incs : life[i] = "running" => life'[i] = "running"
      BY <1>0, <2>1 DEF Fork, ProcTypeOK
    <3> QED
      BY <1>0, <2>0, <2>1, <3>1 DEF SocketOK
  <2>2. CASE \E i \in Incs : Exit(i) /\ fdt' = [fdt EXCEPT ![i] = [n \in Fds |-> 0]]
    <3>1. PICK i \in Incs : Exit(i) /\ fdt' = [fdt EXCEPT ![i] = [n \in Fds |-> 0]]
      BY <2>2
    <3>2. \A j \in Incs : j # i => life'[j] = life[j]
      BY <1>0, <3>1 DEF Exit, ProcTypeOK
    <3> QED
      BY <1>0, <2>0, <3>1, <3>2 DEF SocketOK
  <2>3. CASE (\E i \in Incs : Reap(i)) /\ UNCHANGED fdt
    <3>1. \A i \in Incs : life[i] = "running" => life'[i] = "running"
      BY <1>0, <2>3 DEF Reap, ProcTypeOK
    <3> QED
      BY <1>0, <2>0, <2>3, <3>1 DEF SocketOK
  <2> QED
    BY <2>1, <2>2, <2>3 DEF Processes
<1>6. SocketTypeOK'
  BY <1>0, <1>2, <1>4, <1>5 DEF SocketTypeOK, ProcOK
<1> QED
  BY <1>0, <1>2, <1>3, <1>4, <1>5, <1>6 DEF SocketOK

(* Sockets are opened, passed on and closed. *)
LEMMA SocketsLemma ==
    ASSUME IInv, Sockets(lacking)
    PROVE  /\ SocketOK'
           /\ opened \subseteq opened'
           /\ UNCHANGED <<procVars, foreign, pc>> /\ Witness
<1>0. SocketOK /\ ProcOK /\ SocketTypeOK /\ ProcTypeOK
  BY DEF IInv, SocketOK, ProcOK
<1>1. UNCHANGED <<procVars, foreign, pc>> /\ Witness /\ changes < MaxChanges /\ changes' = changes + 1
  BY DEF Sockets
<1>2. ProcOK'
  <2>1. UNCHANGED <<births, pidOf, life>>
    BY <1>1 DEF procVars
  <2> QED
    BY <1>0, <2>1 DEF ProcOK, ProcTypeOK, Holds, Succession
<1>3. PICK i \in {i \in Incs \ {SelfInc} : life[i] = "running"}, n \in Fds :
          \/ \E s \in Socks : OpenSocket(i, n, s)
          \/ \E j \in Incs, m \in Fds : PassOn(i, n, j, m)
          \/ CloseFd(i, n)
  BY DEF Sockets
<1>4. /\ fdt \in [Incs -> [Fds -> Socks \cup {0}]] /\ IsFiniteSet(opened) /\ opened \subseteq Socks
      /\ \A k \in Incs, m \in Fds :
            fdt[k][m] # 0 => life[k] = "running" /\ fdt[k][m] \in opened
  BY <1>0 DEF SocketOK, SocketTypeOK
<1>5. /\ fdt' \in [Incs -> [Fds -> Socks \cup {0}]] /\ opened' \subseteq Socks
      /\ opened \subseteq opened' /\ IsFiniteSet(opened')
      /\ \A k \in Incs, m \in Fds :
            fdt'[k][m] # 0 => life[k] = "running" /\ fdt'[k][m] \in opened'
  <2>1. CASE \E s \in Socks : OpenSocket(i, n, s)
    <3>1. PICK s \in Socks : OpenSocket(i, n, s)
      BY <2>1
    <3>2. fdt' = [fdt EXCEPT ![i][n] = s] /\ opened' = opened \cup {s}
      BY <3>1 DEF OpenSocket
    <3>3. IsFiniteSet(opened')
      BY <1>4, <3>2, FS_AddElement
    <3>4. \A k \in Incs, m \in Fds : fdt'[k][m] = IF k = i /\ m = n THEN s ELSE fdt[k][m]
      BY <1>4, <3>2
    <3>5. fdt' \in [Incs -> [Fds -> Socks \cup {0}]]
      BY <1>4, <3>2
    <3> QED
      BY <1>3, <1>4, <3>2, <3>3, <3>4, <3>5
  <2>2. CASE \E j \in Incs, m \in Fds : PassOn(i, n, j, m)
    <3>1. PICK j \in Incs, m \in Fds : PassOn(i, n, j, m)
      BY <2>2
    <3>2. /\ fdt' = [fdt EXCEPT ![j][m] = fdt[i][n]] /\ opened' = opened
          /\ fdt[i][n] # 0 /\ life[j] = "running"
      BY <3>1 DEF PassOn
    <3>4. \A k \in Incs, l \in Fds : fdt'[k][l] = IF k = j /\ l = m THEN fdt[i][n] ELSE fdt[k][l]
      BY <1>4, <3>2
    <3>5. fdt' \in [Incs -> [Fds -> Socks \cup {0}]]
      BY <1>4, <3>2
    <3> QED
      BY <1>3, <1>4, <3>2, <3>4, <3>5
  <2>3. CASE CloseFd(i, n)
    <3>2. fdt' = [fdt EXCEPT ![i][n] = 0] /\ opened' = opened
      BY <2>3 DEF CloseFd
    <3>4. \A k \in Incs, l \in Fds : fdt'[k][l] = IF k = i /\ l = n THEN 0 ELSE fdt[k][l]
      BY <1>4, <3>2
    <3>5. fdt' \in [Incs -> [Fds -> Socks \cup {0}]]
      BY <1>4, <3>2
    <3> QED
      BY <1>4, <3>2, <3>4, <3>5
  <2> QED
    BY <1>3, <2>1, <2>2, <2>3
<1>6. SocketTypeOK'
  BY <1>0, <1>1, <1>2, <1>5, MaxChangesAssumption DEF SocketTypeOK, ProcOK
<1> QED
  BY <1>1, <1>2, <1>5, <1>6 DEF SocketOK, procVars

LEMMA MachineLemma ==
    ASSUME IInv, pc \notin {"done", "failed"}, Machine
    PROVE  IInv'
<1>0. SocketOK /\ ProcOK /\ SocketTypeOK /\ ProcTypeOK /\ TypeOK
  BY DEF IInv, SocketOK, ProcOK
<1>1. /\ UNCHANGED <<lacking, loaded, byInode, Known, pids, dir, fds, hit, meta, rows>>
      /\ kept' = [i \in Incs |-> {n \in kept[i] : fdt'[i][n] = fdt[i][n]}]
  BY DEF Known, Machine, scanVars
<1>2. /\ SocketOK' /\ SocketTypeOK' /\ opened \subseteq opened' /\ births \in Nat /\ births <= births'
      /\ UNCHANGED <<foreign, pc>> /\ Witness
      /\ \A i \in Born : pidOf'[i] = pidOf[i] /\ (life[i] = "gone" => life'[i] = "gone")
  <2>0. births \in Nat
    BY <1>0, MaxBirthsAssumption DEF ProcTypeOK
  <2>1. CASE Processes({})
    BY <2>0, <2>1, ProcessesLemma DEF SocketOK
  <2>2. CASE Sockets(lacking)
    BY <2>0, <2>2, SocketsLemma DEF SocketOK, procVars
  <2> QED
    BY <2>1, <2>2 DEF Machine
<1>3. Born \subseteq Incs /\ births' \in Nat
  BY <1>0, <1>2, MaxBirthsAssumption DEF ProcTypeOK, SocketTypeOK
<1>4. WitnessOK'
  <2>1. kept' \in [Incs -> SUBSET Fds]
    BY <1>1 DEF IInv, WitnessOK
  <2>2. ASSUME pc # "idle"
        PROVE  /\ present \cup {i \in Incs : There(i)'} = present'
               /\ up' = {s \in up : \E i \in Incs, n \in Fds : fdt'[i][n] = s}
    BY <1>2, <2>2 DEF Witness
  <2>3. \A i \in Incs : There(i)' => i \in Born'
    <3>1. \A i \in Incs : life'[i] = "unborn" <=> i > births'
      BY <1>2 DEF SocketOK, ProcOK
    <3> QED
      BY <1>3, <3>1 DEF There
  <2>4. ASSUME pc # "idle"
        PROVE  /\ present' \subseteq Born'
               /\ \A i \in Incs : There(i)' => i \in present'
    BY <1>2, <1>3, <2>2, <2>3, <2>4 DEF IInv, WitnessOK
  <2>5. ASSUME pc # "idle"
        PROVE  \A s \in up' : s \in Socks /\ Open(s)'
    BY <2>2, <2>5 DEF IInv, WitnessOK, Open
  <2>6. ASSUME pc # "idle", NEW i \in Incs, NEW n \in kept'[i]
        PROVE  i \in present' /\ fdt'[i][n] \in up'
    <3>1. n \in kept[i] /\ fdt'[i][n] = fdt[i][n] /\ n \in Fds
      BY <1>1, <2>1, <2>6
    <3>2. i \in present /\ fdt[i][n] \in up
      BY <2>6, <3>1 DEF IInv, WitnessOK
    <3> QED
      BY <2>2, <2>6, <3>1, <3>2
  <2> QED
    BY <1>2, <2>1, <2>4, <2>5, <2>6 DEF WitnessOK
<1>5. TypeOK'
  BY <1>0, <1>1, <1>2 DEF TypeOK
<1>6. ASSUME pc # "idle", NEW i, NEW pid, OfPid(i, pid)
      PROVE  OfPid(i, pid)' /\ (life[i] = "gone" => life'[i] = "gone")
  <2>1. i \in Born /\ i \in present'
    BY <1>2, <1>6 DEF IInv, WitnessOK, OfPid, Witness
  <2> QED
    BY <1>2, <1>6, <2>1 DEF OfPid
<1>7. up' \subseteq up
  BY <1>2 DEF Witness
<1>8. PlaceOK' /\ FoundOK'
  BY <1>1, <1>2, <1>7 DEF IInv, PlaceOK, FoundOK, Passing, Scanning
<1>9. MetaOK'
  <2>1. hit # <<>> => pc # "idle"
    BY DEF IInv, PlaceOK
  <2>2. hit # <<>> => hit'[1] \in Known' /\ OfPid(hit[2], Current)'
    BY <1>1, <1>6, <2>1 DEF IInv, MetaOK, Current
  <2>3. ASSUME NEW x, hit # <<>>, TrueOfHit(x) PROVE TrueOfHit(x)'
    BY <1>1, <1>6, <2>1, <2>3 DEF IInv, MetaOK, TrueOfHit, Current
  <2> QED
    BY <1>1, <1>2, <2>2, <2>3 DEF IInv, MetaOK, PlaceOK
<1>10. RowsOK'
  <2>1. rows # <<>> => pc # "idle"
    BY DEF IInv, PlaceOK
  <2>2. ASSUME NEW k \in DOMAIN rows PROVE RowOK(rows[k])'
    <3>1. pc # "idle" /\ RowOK(rows[k])
      BY <2>1 DEF IInv, RowsOK
    <3>2. \A x, pid : TrueOfPid(x, pid) => TrueOfPid(x, pid)'
      BY <1>6, <3>1 DEF TrueOfPid
    <3> QED
      BY <1>1, <1>6, <3>1, <3>2 DEF RowOK
  <2> QED
    BY <1>1, <1>2, <2>2 DEF IInv, RowsOK, RowPerOwnerOrLine, Nobodys, Passing, Current, Matched
<1>11. OwnersOK'
  <2>1. SUFFICES ASSUME NEW i \in Incs \ foreign, NEW n \in kept'[i]
                 PROVE  OwnerOK(i, n)'
    BY <1>2 DEF OwnersOK
  <2>2. n \in kept[i] /\ fdt'[i][n] = fdt[i][n]
    BY <1>1, <2>1
  <2>3. OwnerOK(i, n)
    BY <2>2 DEF IInv, OwnersOK
  <2>4. pc # "idle" => pidOf'[i] = pidOf[i]
    BY <1>2, <2>2 DEF IInv, WitnessOK
  <2> QED
    BY <1>1, <1>2, <2>2, <2>3, <2>4 DEF OwnerOK, OwnPass, HasRow, Passing, Scanning, Current
<1> QED
  BY <1>2, <1>4, <1>5, <1>8, <1>9, <1>10, <1>11 DEF IInv
------------------------------------------------------------------------------
(* A step of the listing leaves the machine alone. *)
LEMMA QuietLemma ==
    ASSUME IInv, Quietly, pc # "idle"
    PROVE  /\ SocketOK' /\ SocketTypeOK' /\ lacking' \subseteq Missing
           /\ pc' # "idle" => WitnessOK'
           /\ UNCHANGED <<births, pidOf, life, fdt, opened, changes, foreign, lacking, up, present, kept>>
<1>1. UNCHANGED <<births, pidOf, life, fdt, opened, changes, foreign, lacking, up, present, kept>>
  BY DEF Quietly, Listing, procVars, sockVars, history
<1>2. ProcOK'
  BY <1>1 DEF IInv, SocketOK, ProcOK, ProcTypeOK, Holds, Succession
<1>3. SocketTypeOK'
  BY <1>1, <1>2 DEF IInv, SocketOK, SocketTypeOK, ProcOK
<1>4. WitnessOK'
  BY <1>1 DEF IInv, WitnessOK, There, Open
<1> QED
  BY <1>1, <1>2, <1>3, <1>4 DEF IInv, SocketOK, TypeOK

LEMMA BeginLemma ==
    ASSUME IInv, Begin
    PROVE  IInv'
<1>1. /\ pc = "idle" /\ pc' = "tables" /\ loaded = 0 /\ rows = <<>> /\ hit = <<>>
      /\ UNCHANGED <<births, pidOf, life, fdt, opened, changes, foreign, lacking>>
      /\ UNCHANGED <<loaded, byInode, Known, pids, dir, fds, hit, meta, rows>>
      /\ kept' = [i \in Incs |-> {n \in Fds : fdt[i][n] # 0}]
      /\ up' = {s \in Socks : Open(s)} /\ present' = {i \in Incs : There(i)}
  BY DEF Known, Begin, Goto, Listing, procVars, sockVars, StartWitness, IInv, PlaceOK
<1>2. ProcOK'
  BY <1>1 DEF IInv, SocketOK, ProcOK, ProcTypeOK, Holds, Succession
<1>3. SocketTypeOK'
  BY <1>1, <1>2 DEF IInv, SocketOK, SocketTypeOK, ProcOK
<1>4. SocketOK'
  BY <1>1, <1>2, <1>3 DEF IInv, SocketOK
<1>5. WitnessOK'
  <2>1. \A i \in Incs : There(i) => i \in Born
    <3>1. /\ \A i \in Incs : life[i] = "unborn" <=> i > births
          /\ births \in Nat
      BY MaxBirthsAssumption DEF IInv, SocketOK, ProcOK, ProcTypeOK
    <3> QED
      BY <3>1, MaxBirthsAssumption DEF There
  <2>2. ASSUME NEW i \in Incs, NEW n \in Fds, fdt[i][n] # 0
        PROVE  There(i) /\ fdt[i][n] \in up'
    <3>1. life[i] = "running" /\ fdt[i][n] \in Socks
      BY <2>2 DEF IInv, SocketOK, SocketTypeOK
    <3> QED
      BY <1>1, <2>2, <3>1 DEF There, Open
  <2> QED
    BY <1>1, <2>1, <2>2 DEF WitnessOK, There, Open
<1>6. TypeOK'
  BY <1>1, <1>3 DEF IInv, TypeOK
<1>7. PlaceOK' /\ FoundOK' /\ MetaOK'
  BY <1>1 DEF IInv, PlaceOK, FoundOK, MetaOK, Passing, Scanning
<1>8. RowsOK'
  BY <1>1 DEF RowsOK, RowPerOwnerOrLine, Nobodys, Passing
<1>9. OwnersOK'
  BY <1>1 DEF OwnersOK, OwnerOK, Passing, Scanning
<1> QED
  BY <1>4, <1>5, <1>6, <1>7, <1>8, <1>9 DEF IInv

(* What is open all the time is found in its table, or in none that is left. *)
LEMMA TablesLemma ==
    ASSUME IInv, ReadTable \/ TableFails
    PROVE  IInv'
<1>1. /\ pc = "tables" /\ loaded \in 0 .. 3 /\ rows = <<>> /\ hit = <<>>
      /\ pc' \in {"tables", "failed"} /\ Quietly
      /\ UNCHANGED <<pids, dir, fds, hit, meta, rows>>
  BY DEF ReadTable, TableFails, Goto, IInv, PlaceOK, TypeOK
<1>2. /\ SocketOK' /\ SocketTypeOK' /\ lacking' \subseteq Missing /\ WitnessOK'
      /\ UNCHANGED <<births, pidOf, life, fdt, opened, changes, foreign, lacking, up, present, kept>>
  BY <1>1, QuietLemma
<1>3. /\ loaded' \in 0 .. 4 /\ byInode' \in [Socks -> Nat] /\ Known' \subseteq opened'
      /\ pc' = "tables" => \A s \in up : (\E k \in 1 .. loaded' : TableOf[s] = Tables[k]) => s \in Known'
  <2>0. /\ Known \subseteq opened /\ byInode \in [Socks -> Nat]
        /\ \A s \in Socks : Open(s) => s \in opened
    BY SocksAssumption DEF IInv, TypeOK, SocketOK, Open
  <2>1. CASE ReadTable
    <3> DEFINE named == {s \in Socks : Open(s) /\ TableOf[s] = Tables[loaded']}
    <3>0. PICK lines \in [named -> 1 .. MaxLines] :
             byInode' = [s \in Socks |-> byInode[s] + IF s \in named THEN lines[s] ELSE 0]
      BY <2>1 DEF ReadTable
    <3>1. /\ loaded' = loaded + 1 /\ byInode' \in [Socks -> Nat]
          /\ Known' = Known \cup named
      <4>1. \A s \in named : lines[s] \in Nat /\ lines[s] > 0
        BY LinesAssumption
      <4> HIDE DEF named
      <4>2. \A s \in Socks : byInode'[s] = byInode[s] + IF s \in named THEN lines[s] ELSE 0
        BY <3>0
      <4>3. \A s \in Socks :
               byInode'[s] \in Nat /\ (byInode'[s] > 0 <=> byInode[s] > 0 \/ s \in named)
        BY <2>0, <4>1, <4>2
      <4>4. named \subseteq Socks
        BY DEF named
      <4> QED
        BY <2>1, <3>0, <4>3, <4>4 DEF ReadTable, Known
    <3>2. ASSUME NEW s \in up, NEW k \in 1 .. loaded', TableOf[s] = Tables[k]
          PROVE  s \in Known'
      <4>1. s \in Socks /\ Open(s)
        BY <1>1 DEF IInv, WitnessOK
      <4>2. CASE k = loaded'
        BY <3>1, <3>2, <4>1, <4>2
      <4>3. CASE k # loaded'
        <5>1. k \in 1 .. loaded
          BY <1>1, <3>1, <4>3
        <5> QED
          BY <1>1, <3>1, <3>2, <5>1 DEF IInv, FoundOK
      <4> QED
        BY <4>2, <4>3
    <3> QED
      BY <1>1, <1>2, <2>0, <3>1, <3>2
  <2>2. CASE TableFails
    <3>1. UNCHANGED <<loaded, byInode, Known>> /\ pc' = "failed"
      BY <2>2 DEF TableFails, Goto, Known
    <3> QED
      BY <1>1, <1>2, <2>0, <3>1
  <2> QED
    BY <2>1, <2>2
<1>4. TypeOK'
  BY <1>1, <1>2, <1>3 DEF IInv, TypeOK
<1>5. PlaceOK' /\ FoundOK' /\ MetaOK'
  BY <1>1, <1>2, <1>3 DEF IInv, PlaceOK, FoundOK, MetaOK, Passing, Scanning
<1>6. RowsOK'
  BY <1>1 DEF RowsOK, RowPerOwnerOrLine, Nobodys, Passing
<1>7. OwnersOK'
  BY <1>1 DEF OwnersOK, OwnerOK, Passing, Scanning
<1> QED
  BY <1>2, <1>4, <1>5, <1>6, <1>7 DEF IInv

(* With the last table read, all of what is open all the time is found. *)
LEMMA AllFound ==
    ASSUME IInv, pc = "tables", loaded = 4
    PROVE  up \subseteq Known
<1> SUFFICES ASSUME NEW s \in up PROVE s \in Known
  OBVIOUS
<1>1. s \in Socks
  BY DEF IInv, WitnessOK
<1>2. TableOf[s] \in {Tables[1], Tables[2], Tables[3], Tables[4]}
  BY <1>1, TablesAssumption DEF Tables
<1> QED
  BY <1>2 DEF IInv, FoundOK

(* Who has a descriptor of what is open all the time holds its pid. *)
LEMMA RunningHolds ==
    ASSUME IInv, pc # "idle", NEW i \in Incs, NEW n \in Fds, fdt[i][n] \in up
    PROVE  /\ pidOf[i] \in Pids /\ Holds(i, pidOf[i])
           /\ Holder(pidOf[i]) = i
<1>1. fdt[i][n] \in Socks
  BY DEF IInv, WitnessOK
<1>2. life[i] = "running"
  BY <1>1, SocksAssumption DEF IInv, SocketOK
<1>3. i \in Born /\ pidOf[i] \in Pids
  BY <1>2, MaxBirthsAssumption DEF IInv, SocketOK, ProcOK, ProcTypeOK
<1>4. Holds(i, pidOf[i])
  BY <1>2, <1>3 DEF Holds
<1> QED
  BY <1>3, <1>4, HolderLemma DEF IInv, SocketOK

LEMMA ReadProcLemma ==
    ASSUME IInv, NothingFound \/ ReadProc
    PROVE  IInv'
<1>1. /\ pc = "tables" /\ loaded = 4 /\ rows = <<>> /\ hit = <<>> /\ up \subseteq Known /\ Quietly
      /\ UNCHANGED <<loaded, byInode, Known, dir, fds, hit, meta, rows>>
      /\ \/ pc' = "done" /\ Known = {} /\ pids' = pids
         \/ pc' = "pid" /\ pids' = {pid \in Pids : ~Free(pid)}
  BY AllFound DEF Known, NothingFound, ReadProc, Goto, IInv, PlaceOK
<1>2. /\ SocketOK' /\ SocketTypeOK' /\ lacking' \subseteq Missing /\ WitnessOK'
      /\ UNCHANGED <<births, pidOf, life, fdt, opened, changes, foreign, lacking, up, present, kept>>
  BY <1>1, QuietLemma
<1>3. TypeOK'
  BY <1>1, <1>2 DEF IInv, TypeOK
<1>4. PlaceOK' /\ FoundOK' /\ MetaOK'
  BY <1>1, <1>2 DEF IInv, PlaceOK, FoundOK, MetaOK, Passing, Scanning
<1>5. RowsOK'
  BY <1>1 DEF RowsOK, RowPerOwnerOrLine, Nobodys, Passing
<1>6. OwnersOK'
  <2>1. SUFFICES ASSUME NEW i \in Incs \ foreign, NEW n \in kept[i]
                 PROVE  OwnerOK(i, n)'
    BY <1>2 DEF OwnersOK
  <2>2. n \in Fds /\ fdt[i][n] \in up /\ fdt[i][n] \in Known
    BY <1>1, <2>1 DEF IInv, WitnessOK
  <2>3. pidOf[i] \in Pids /\ Holds(i, pidOf[i])
    BY <1>1, <2>2, RunningHolds
  <2>4. ~Free(pidOf[i])
    BY <2>3 DEF Free
  <2> QED
    BY <1>1, <1>2, <2>2, <2>3, <2>4 DEF OwnerOK, Passing, Scanning
<1> QED
  BY <1>2, <1>3, <1>4, <1>5, <1>6 DEF IInv

------------------------------------------------------------------------------
(* The pass over one pid. *)
LEMMA CurrentLemma ==
    ASSUME IInv, pids # {}
    PROVE  Current \in pids /\ Current \in Pids /\ Current # 0
<1>1. pids \subseteq Pids /\ pids \in SUBSET Nat
  BY PidsAssumption DEF IInv, TypeOK
<1> QED
  BY <1>1, LeastLemma, PidsAssumption DEF Current

(* Whoever keeps a descriptor keeps its socket open and holds its pid. *)
LEMMA OwnerHolds ==
    ASSUME IInv, pc # "idle", NEW i \in Incs, NEW n \in kept[i]
    PROVE  /\ n \in Fds /\ fdt[i][n] \in up /\ fdt[i][n] # 0
           /\ pidOf[i] \in Pids /\ ~Free(pidOf[i]) /\ Holder(pidOf[i]) = i
<1>1. n \in Fds /\ fdt[i][n] \in up /\ fdt[i][n] \in Socks
  BY DEF IInv, WitnessOK
<1> QED
  BY <1>1, RunningHolds, SocksAssumption DEF Free

LEMMA OpenFdDirLemma ==
    ASSUME IInv, OpenFdDir
    PROVE  IInv'
<1>1. /\ pc = "pid" /\ pids # {} /\ hit = <<>> /\ Quietly
      /\ UNCHANGED <<loaded, byInode, Known, fds, hit, meta, rows>>
      /\ \/ /\ Free(Current) \/ Holder(Current) \in foreign
            /\ pids' = pids \ {Current} /\ pc' = pc /\ dir' = dir
         \/ /\ ~Free(Current) /\ Holder(Current) \notin foreign
            /\ dir' = Holder(Current) /\ pc' = "fds" /\ pids' = pids
  BY DEF Known, OpenFdDir, Goto, IInv, PlaceOK, Current
<1>2. /\ SocketOK' /\ SocketTypeOK' /\ lacking' \subseteq Missing /\ WitnessOK'
      /\ UNCHANGED <<births, pidOf, life, fdt, opened, changes, foreign, lacking, up, present, kept>>
  BY <1>1, QuietLemma
<1>3. Current \in pids /\ Current \in Pids
  BY <1>1, CurrentLemma
<1>4. ~Free(Current) => Holder(Current) \in Incs /\ Holder(Current) # 0
  BY <1>3, HolderLemma DEF IInv, SocketOK
<1>5. TypeOK'
  BY <1>1, <1>2, <1>4 DEF IInv, TypeOK
<1>6. PlaceOK' /\ FoundOK' /\ MetaOK'
  BY <1>1, <1>2 DEF IInv, PlaceOK, FoundOK, MetaOK, Passing, Scanning
<1>7. RowsOK'
  <2>1. \A r : RowOK(r) => RowOK(r)'
    BY <1>2 DEF RowOK, TrueOfPid, OfPid
  <2>2. \A k \in DOMAIN rows : rows[k].pid \notin pids
    BY <1>1 DEF IInv, RowsOK
  <2> QED
    BY <1>1, <2>1, <2>2 DEF IInv, RowsOK, RowPerOwnerOrLine, Nobodys, Passing
<1>8. OwnersOK'
  <2>1. SUFFICES ASSUME NEW i \in Incs \ foreign, NEW n \in kept[i]
                 PROVE  OwnerOK(i, n)'
    BY <1>2 DEF OwnersOK
  <2>2. ~Free(pidOf[i]) /\ Holder(pidOf[i]) = i
    BY <1>1, OwnerHolds
  <2>3. pidOf[i] \in pids \/ HasRow(i, fdt[i][n])
    BY <1>1 DEF IInv, OwnersOK, OwnerOK, Scanning
  <2>4. HasRow(i, fdt[i][n]) => HasRow(i, fdt[i][n])'
    BY <1>1, <1>2 DEF HasRow
  <2>5. \A k \in DOMAIN rows : rows[k].pid # Current
    BY <1>1, <1>3 DEF IInv, RowsOK
  <2>6. CASE pids' = pids \ {Current} /\ pc' = pc
    BY <1>1, <1>2, <2>1, <2>2, <2>3, <2>4, <2>6 DEF OwnerOK, Passing, Scanning
  <2>7. CASE dir' = Holder(Current) /\ pc' = "fds" /\ pids' = pids
    <3>1. Current' = Current
      BY <2>7 DEF Current
    <3>2. pidOf[i] = Current => OwnPass(i, n)'
      BY <1>1, <2>2, <2>5, <2>7, <3>1 DEF OwnPass
    <3> QED
      BY <1>2, <2>3, <2>4, <2>7, <3>1, <3>2 DEF OwnerOK, Passing, Scanning
  <2> QED
    BY <1>1, <2>6, <2>7
<1> QED
  BY <1>2, <1>5, <1>6, <1>7, <1>8 DEF IInv

LEMMA ReadFdDirLemma ==
    ASSUME IInv, ReadFdDir
    PROVE  IInv'
<1>1. /\ pc = "fds" /\ pc' = "link" /\ pids # {} /\ hit = <<>> /\ Quietly
      /\ fds' = {n \in Fds : fdt[dir][n] # 0}
      /\ UNCHANGED <<loaded, byInode, Known, pids, dir, hit, meta, rows>>
  BY DEF Known, ReadFdDir, Goto, IInv, PlaceOK, Passing
<1>2. /\ SocketOK' /\ SocketTypeOK' /\ lacking' \subseteq Missing /\ WitnessOK'
      /\ UNCHANGED <<births, pidOf, life, fdt, opened, changes, foreign, lacking, up, present, kept>>
  BY <1>1, QuietLemma
<1>3. TypeOK'
  BY <1>1, <1>2 DEF IInv, TypeOK
<1>4. PlaceOK' /\ FoundOK' /\ MetaOK'
  BY <1>1, <1>2 DEF IInv, PlaceOK, FoundOK, MetaOK, Passing, Scanning
<1>5. RowsOK'
  <2>1. \A r : RowOK(r) => RowOK(r)'
    BY <1>2 DEF RowOK, TrueOfPid, OfPid
  <2> QED
    BY <1>1, <2>1 DEF IInv, RowsOK, RowPerOwnerOrLine, Nobodys, Passing, Current
<1>6. OwnersOK'
  <2>1. SUFFICES ASSUME NEW i \in Incs \ foreign, NEW n \in kept[i]
                 PROVE  OwnerOK(i, n)'
    BY <1>2 DEF OwnersOK
  <2>2. n \in Fds /\ fdt[i][n] # 0
    BY <1>1, OwnerHolds
  <2>3. OwnerOK(i, n)
    BY DEF IInv, OwnersOK
  <2> QED
    BY <1>1, <1>2, <2>2, <2>3 DEF OwnerOK, OwnPass, HasRow, Passing, Scanning, Current
<1> QED
  BY <1>2, <1>3, <1>4, <1>5, <1>6 DEF IInv

(* What AddRow adds: nothing, or a row no other repeats. *)
LEMMA AddRowLemma ==
    ASSUME IInv, Passing, NEW s \in Socks, NEW of \in Incs, NEW m,
           m[1] \in {0} \cup Incs, m[2] \in {0} \cup Incs, AddRow(s, of, m)
    PROVE  /\ rows' \in Seq(Row)
           /\ \A k \in DOMAIN rows : k \in DOMAIN rows' /\ rows'[k] = rows[k]
           /\ \A k \in DOMAIN rows' :
                 (k \in DOMAIN rows /\ rows'[k] = rows[k]) \/ rows'[k] = NewRow(s, of, m)
           /\ \E k \in DOMAIN rows' : rows'[k].sock = s /\ rows'[k].pid = Current
           /\ \A k \in DOMAIN rows' : rows'[k].pid # 0
           /\ RowPerOwnerOrLine'
<1>1. /\ Current \in Pids /\ Current # 0 /\ rows \in Seq(Row) /\ RowPerOwnerOrLine
      /\ \A k \in DOMAIN rows : rows[k].pid # 0
  BY CurrentLemma DEF IInv, PlaceOK, RowsOK, Passing
<1> DEFINE new == NewRow(s, of, m)
<1>2. new \in Row /\ new.sock = s /\ new.pid = Current
  BY <1>1 DEF NewRow, Row, Current
<1>3. CASE Seen(s)
  <2>1. rows' = rows
    BY <1>3 DEF AddRow
  <2> QED
    BY <1>1, <1>3, <2>1 DEF Seen, Current, RowPerOwnerOrLine, Nobodys
<1>4. CASE ~Seen(s)
  <2>1. rows' = Append(rows, new)
    BY <1>4 DEF AddRow
  <2> HIDE DEF new
  <2>2. /\ rows' \in Seq(Row) /\ Len(rows) \in Nat
        /\ DOMAIN rows = 1 .. Len(rows) /\ DOMAIN rows' = 1 .. Len(rows) + 1
        /\ \A k \in 1 .. Len(rows) : rows'[k] = rows[k]
        /\ rows'[Len(rows) + 1] = new
    BY <1>1, <1>2, <2>1
  <2>3. \A k \in DOMAIN rows : ~(rows[k].sock = s /\ rows[k].pid = Current)
    BY <1>4 DEF Seen, Current
  <2>4. \A k \in DOMAIN rows' : (k \in DOMAIN rows /\ rows'[k] = rows[k])
                               \/ (k = Len(rows) + 1 /\ rows'[k] = new)
    BY <2>2
  <2>5. \A k \in DOMAIN rows' : rows'[k].pid # 0
    BY <1>1, <1>2, <2>4
  <2>6. ASSUME NEW k \in DOMAIN rows', NEW l \in DOMAIN rows', k # l,
               rows'[k].sock = rows'[l].sock
        PROVE  rows'[k].pid # rows'[l].pid
    BY <1>1, <1>2, <2>3, <2>4, <2>6 DEF RowPerOwnerOrLine, Nobodys
  <2>7. RowPerOwnerOrLine'
    BY <2>5, <2>6 DEF RowPerOwnerOrLine, Nobodys
  <2> QED
    BY <1>2, <2>2, <2>4, <2>5, <2>7 DEF new
<1> QED
  BY <1>3, <1>4

(* A row made of what was read by number is true of the number. *)
LEMMA NewRowLemma ==
    ASSUME IInv, pc # "idle", hit # <<>>, NEW s, NEW of, NEW m,
           OfPid(of, Current), TrueOfHit(m[1]), TrueOfHit(m[2])
    PROVE  RowOK(NewRow(s, of, m))
<1>1. OfPid(hit[2], Current) /\ hit[2] \in Incs
  <2>1. births \in 2 .. MaxBirths
    BY DEF IInv, SocketOK, ProcOK, ProcTypeOK
  <2> QED
    BY <2>1, MaxBirthsAssumption DEF IInv, MetaOK, OfPid, WitnessOK
<1>2. \A x : TrueOfHit(x) => TrueOfPid(x, Current)
  BY <1>1 DEF TrueOfHit, TrueOfPid
<1> QED
  BY <1>2 DEF RowOK, NewRow, Current

(* Whoever holds a pid while the listing goes on is seen to. *)
LEMMA HolderIsPresent ==
    ASSUME IInv, pc # "idle", NEW pid \in Pids
    PROVE  /\ Holder(pid) \in {0} \cup Incs
           /\ Holder(pid) # 0 => OfPid(Holder(pid), pid)
           /\ \A i \in Incs : OfPid(i, pid) /\ Holder(pid) = 0 => life[i] = "gone"
<1>1. ProcOK
  BY DEF IInv, SocketOK
<1>2. Holder(pid) # 0 => Holder(pid) \in Incs /\ Holds(Holder(pid), pid)
  BY <1>1, HolderLemma
<1>3. Holder(pid) # 0 => OfPid(Holder(pid), pid)
  BY <1>2 DEF IInv, WitnessOK, There, OfPid, Holds
<1>4. ASSUME NEW i \in Incs, OfPid(i, pid), Holder(pid) = 0 PROVE life[i] = "gone"
  <2>1. ~Holds(i, pid)
    BY <1>1, <1>4, HolderLemma DEF Free
  <2>2. i \in Born
    BY <1>4 DEF IInv, WitnessOK, OfPid
  <2>3. life[i] \in Lives /\ life[i] # "unborn"
    BY <1>1, <2>2, MaxBirthsAssumption DEF ProcOK, ProcTypeOK
  <2> QED
    BY <1>4, <2>1, <2>2, <2>3 DEF Holds, OfPid, Lives
<1> QED
  BY <1>2, <1>3, <1>4

LEMMA ReadNameLemma ==
    ASSUME IInv, ReadName
    PROVE  IInv'
<1>1. /\ pc = "name" /\ pc' = "start" /\ pids # {} /\ hit # <<>> /\ Quietly
      /\ meta' = <<Holder(Current)>>
      /\ UNCHANGED <<loaded, byInode, Known, pids, dir, fds, hit, rows>>
  BY DEF Known, ReadName, Goto, IInv, PlaceOK, Passing, Current
<1>2. /\ SocketOK' /\ SocketTypeOK' /\ lacking' \subseteq Missing /\ WitnessOK'
      /\ UNCHANGED <<births, pidOf, life, fdt, opened, changes, foreign, lacking, up, present, kept>>
  BY <1>1, QuietLemma
<1>3. TypeOK'
  BY <1>1, <1>2 DEF IInv, TypeOK
<1>4. PlaceOK' /\ FoundOK'
  BY <1>1, <1>2 DEF IInv, PlaceOK, FoundOK, Passing, Scanning
<1>5. MetaOK'
  <2>1. Current \in Pids /\ OfPid(hit[2], Current) /\ hit[1] \in Known
    BY <1>1, CurrentLemma DEF IInv, MetaOK
  <2>2. hit[2] \in Incs
    <3>1. births \in 2 .. MaxBirths
      BY DEF IInv, SocketOK, ProcOK, ProcTypeOK
    <3> QED
      BY <1>1, <2>1, <3>1, MaxBirthsAssumption DEF IInv, OfPid, WitnessOK
  <2>3. TrueOfHit(Holder(Current))
    BY <1>1, <2>1, <2>2, HolderIsPresent DEF TrueOfHit
  <2> QED
    BY <1>1, <1>2, <2>1, <2>3 DEF MetaOK, TrueOfHit, OfPid, Current
<1>6. RowsOK'
  <2>1. \A r : RowOK(r) => RowOK(r)'
    BY <1>2 DEF RowOK, TrueOfPid, OfPid
  <2> QED
    BY <1>1, <2>1 DEF IInv, RowsOK, RowPerOwnerOrLine, Nobodys, Passing, Current
<1>7. OwnersOK'
  <2>1. SUFFICES ASSUME NEW i \in Incs \ foreign, NEW n \in kept[i]
                 PROVE  OwnerOK(i, n)'
    BY <1>2 DEF OwnersOK
  <2>2. Holder(pidOf[i]) = i
    BY <1>1, OwnerHolds
  <2>3. OwnerOK(i, n)
    BY DEF IInv, OwnersOK
  <2>4. meta'[1] = Holder(Current)
    BY <1>1
  <2> QED
    BY <1>1, <1>2, <2>2, <2>3, <2>4 DEF OwnerOK, OwnPass, HasRow, Passing, Scanning, Current
<1> QED
  BY <1>2, <1>3, <1>4, <1>5, <1>6, <1>7 DEF IInv

LEMMA ReadLinkLemma ==
    ASSUME IInv, ReadLink
    PROVE  IInv'
<1> DEFINE h == Holder(Current)
           n0 == Least(fds)
           s == IF h = 0 \/ h \in foreign THEN 0 ELSE fdt[h][n0]
<1>1. /\ pc = "link" /\ pids # {} /\ fds # {} /\ Quietly
      /\ fds' = fds \ {n0}
      /\ \/ s \notin Known /\ UNCHANGED <<pc, hit, rows>>
         \/ s \in Known /\ hit = <<>> /\ hit' = <<s, h>> /\ pc' = "name" /\ UNCHANGED rows
         \/ s \in Known /\ hit # <<>> /\ AddRow(s, h, meta) /\ UNCHANGED <<pc, hit>>
      /\ UNCHANGED <<loaded, byInode, Known, pids, dir, meta>>
  BY DEF Known, ReadLink, Goto, IInv, PlaceOK, Passing, Current
<1>2. /\ SocketOK' /\ SocketTypeOK' /\ lacking' \subseteq Missing
      /\ UNCHANGED <<births, pidOf, life, fdt, opened, changes, foreign, lacking, up, present, kept>>
  BY <1>1, QuietLemma
<1>3. WitnessOK'
  BY <1>1, QuietLemma
<1>4. Current \in Pids /\ Current \in pids
  BY <1>1, CurrentLemma
<1>5. s \in Known => s \in Socks /\ h \in Incs /\ h # 0 /\ OfPid(h, Current)
  <2>1. Known \subseteq Socks
    BY DEF IInv, TypeOK, SocketTypeOK
  <2>2. h \in {0} \cup Incs /\ (h # 0 => OfPid(h, Current))
    BY <1>1, <1>4, HolderIsPresent
  <2> QED
    BY <2>1, <2>2, SocksAssumption
<1> HIDE DEF s, h, n0
<1>6. /\ rows' \in Seq(Row) /\ RowPerOwnerOrLine'
      /\ \A k \in DOMAIN rows : k \in DOMAIN rows' /\ rows'[k] = rows[k]
      /\ \A k \in DOMAIN rows' :
            (k \in DOMAIN rows /\ rows'[k] = rows[k])
            \/ (hit # <<>> /\ OfPid(h, Current) /\ rows'[k] = NewRow(s, h, meta))
      /\ \A k \in DOMAIN rows' : rows'[k].pid # 0
      /\ s \in Known /\ hit # <<>> =>
            \E k \in DOMAIN rows' : rows'[k].sock = s /\ rows'[k].pid = Current
  <2>1. CASE UNCHANGED rows /\ (s \notin Known \/ hit = <<>>)
    BY <1>1, <2>1 DEF IInv, PlaceOK, RowsOK, RowPerOwnerOrLine, Nobodys
  <2>2. CASE s \in Known /\ hit # <<>> /\ AddRow(s, h, meta)
    <3>1. meta[1] \in {0} \cup Incs /\ meta[2] \in {0} \cup Incs
      BY <1>1, <2>2 DEF IInv, MetaOK, TrueOfHit
    <3> QED
      BY <1>1, <1>5, <2>2, <3>1, AddRowLemma DEF Passing
  <2> QED
    BY <1>1, <2>1, <2>2
<1>7. TypeOK'
  <2>1. \A k \in DOMAIN rows' : rows'[k] \in Row
    BY <1>6
  <2> QED
    BY <1>1, <1>2, <2>1 DEF IInv, TypeOK
<1>8. hit = <<>> /\ pc' = "name" => hit' # <<>> /\ hit'[1] = s /\ hit'[2] = h
  <2>1. hit = <<>> /\ pc' = "name" => hit' = <<s, h>>
    BY <1>1
  <2> QED
    BY <2>1
<1>9. PlaceOK' /\ FoundOK'
  BY <1>1, <1>2, <1>6, <1>8 DEF IInv, PlaceOK, FoundOK, Passing, Scanning
<1>10. MetaOK'
  <2>1. CASE UNCHANGED <<pc, hit>>
    BY <1>1, <1>2, <2>1 DEF IInv, MetaOK, TrueOfHit, OfPid, Current
  <2>2. CASE s \in Known /\ pc' = "name" /\ hit = <<>>
    BY <1>1, <1>2, <1>5, <1>8, <2>2 DEF MetaOK, OfPid, Current
  <2> QED
    BY <1>1, <2>1, <2>2
<1>11. RowsOK'
  <2>1. \A r : RowOK(r) => RowOK(r)'
    BY <1>2 DEF RowOK, TrueOfPid, OfPid
  <2>2. hit # <<>> /\ OfPid(h, Current) => RowOK(NewRow(s, h, meta))
    BY <1>1, NewRowLemma DEF IInv, MetaOK
  <2>3. ASSUME NEW k \in DOMAIN rows' PROVE RowOK(rows[k])'
    <3>1. PICK r : r = rows'[k] /\ RowOK(r)
      BY <1>6, <2>2 DEF IInv, RowsOK
    <3> QED
      BY <2>1, <3>1 DEF RowOK
  <2>4. \A k \in DOMAIN rows' : rows'[k].pid \notin pids \ {Current}
    BY <1>1, <1>6 DEF IInv, RowsOK, Passing, NewRow, Current
  <2>5. pc' \in {"link", "name"} /\ Current' = Current
    BY <1>1 DEF Current
  <2> QED
    BY <1>1, <1>6, <2>3, <2>4, <2>5 DEF RowsOK
<1>12. OwnersOK'
  <2>1. SUFFICES ASSUME NEW i \in Incs \ foreign, NEW n \in kept[i]
                 PROVE  OwnerOK(i, n)'
    BY <1>2 DEF OwnersOK
  <2>2. Holder(pidOf[i]) = i /\ fdt[i][n] \in Known /\ fdt[i][n] # 0
    BY <1>1, OwnerHolds DEF IInv, FoundOK, Scanning, Passing
  <2>3. OwnerOK(i, n)
    BY DEF IInv, OwnersOK
  <2>4. HasRow(i, fdt[i][n]) => HasRow(i, fdt[i][n])'
    BY <1>2, <1>6 DEF HasRow
  <2>5. pc' \in {"link", "name"} /\ Current' = Current
    BY <1>1 DEF Current
  <2>6. ASSUME Current = pidOf[i] PROVE OwnPass(i, n)'
    <3>1. OwnPass(i, n) /\ h = i
      BY <1>1, <2>2, <2>3, <2>6 DEF OwnerOK, Passing, h
    <3>2. s = fdt[i][n0]
      <4>1. i # 0
        BY MaxBirthsAssumption
      <4> QED
        BY <2>1, <3>1, <4>1 DEF s
    <3>3. \A k \in DOMAIN rows' : rows'[k].pid = Current => rows'[k].name = i /\ rows'[k].start = i
      BY <1>1, <1>6, <3>1 DEF OwnPass, NewRow
    <3>4. s \in Known /\ hit # <<>> /\ n = n0 => HasRow(i, fdt[i][n])'
      BY <1>2, <1>6, <2>6, <3>2, <3>3 DEF HasRow
    <3>5. n \in fds' \/ HasRow(i, fdt[i][n])' \/ (pc' = "name" /\ hit'[1] = fdt[i][n])
      BY <1>1, <1>8, <2>2, <2>4, <3>1, <3>2, <3>4 DEF OwnPass
    <3>6. CASE UNCHANGED <<pc, hit>>
      BY <1>1, <1>2, <2>5, <3>1, <3>3, <3>5, <3>6 DEF OwnPass
    <3>7. CASE pc' = "name" /\ hit = <<>>
      BY <1>1, <1>2, <1>8, <2>5, <3>1, <3>3, <3>5, <3>7 DEF OwnPass
    <3> QED
      BY <1>1, <3>6, <3>7
  <2> QED
    BY <1>1, <1>2, <2>3, <2>4, <2>5, <2>6 DEF OwnerOK, Passing, Scanning
<1> QED
  BY <1>2, <1>3, <1>7, <1>9, <1>10, <1>11, <1>12 DEF IInv

LEMMA ReadStartLemma ==
    ASSUME IInv, ReadStart
    PROVE  IInv'
<1> DEFINE h == Holder(Current)
<1>1. /\ pc = "start" /\ pc' = "link" /\ pids # {} /\ hit # <<>> /\ Quietly
      /\ meta' = Append(meta, h) /\ AddRow(hit[1], hit[2], meta')
      /\ UNCHANGED <<loaded, byInode, Known, pids, dir, fds, hit>>
  BY DEF Known, ReadStart, Goto, IInv, PlaceOK, Passing, Current
<1>2. /\ SocketOK' /\ SocketTypeOK' /\ lacking' \subseteq Missing
      /\ UNCHANGED <<births, pidOf, life, fdt, opened, changes, foreign, lacking, up, present, kept>>
  BY <1>1, QuietLemma
<1>3. WitnessOK'
  BY <1>1, QuietLemma
<1>4. Current \in Pids /\ Current \in pids
  BY <1>1, CurrentLemma
<1>5. /\ hit[1] \in Socks /\ hit[1] \in Known
      /\ hit[2] \in Incs /\ OfPid(hit[2], Current)
  <2>1. Known \subseteq Socks
    BY DEF IInv, TypeOK, SocketTypeOK
  <2>2. births \in 2 .. MaxBirths
    BY DEF IInv, SocketOK, ProcOK, ProcTypeOK
  <2> QED
    BY <1>1, <2>1, <2>2, MaxBirthsAssumption DEF IInv, MetaOK, OfPid, WitnessOK
<1>6. /\ h \in {0} \cup Incs
      /\ TrueOfHit(h)
  BY <1>1, <1>4, <1>5, HolderIsPresent DEF TrueOfHit
<1>7. meta'[1] = meta[1] /\ meta'[2] = h
  <2>1. PICK x : meta = <<x>>
    BY <1>1 DEF IInv, MetaOK
  <2> HIDE DEF h
  <2>2. <<x>> \in Seq({x, h}) /\ Len(<<x>>) = 1 /\ h \in {x, h}
    OBVIOUS
  <2>3. Append(<<x>>, h)[1] = x /\ Append(<<x>>, h)[2] = h
    BY <2>2
  <2> QED
    BY <1>1, <2>1, <2>3
<1>8. TrueOfHit(meta'[1]) /\ TrueOfHit(meta'[2])
  BY <1>1, <1>6, <1>7 DEF IInv, MetaOK
<1> DEFINE m == meta'
<1>9. AddRow(hit[1], hit[2], m) /\ m[1] \in {0} \cup Incs /\ m[2] \in {0} \cup Incs
  BY <1>1, <1>8 DEF TrueOfHit
<1>10. RowOK(NewRow(hit[1], hit[2], m))
  BY <1>1, <1>5, <1>8, NewRowLemma
<1> HIDE DEF m, h
<1>11. /\ rows' \in Seq(Row) /\ RowPerOwnerOrLine'
       /\ \A k \in DOMAIN rows : k \in DOMAIN rows' /\ rows'[k] = rows[k]
       /\ \A k \in DOMAIN rows' :
             (k \in DOMAIN rows /\ rows'[k] = rows[k]) \/ rows'[k] = NewRow(hit[1], hit[2], m)
       /\ \A k \in DOMAIN rows' : rows'[k].pid # 0
       /\ \E k \in DOMAIN rows' : rows'[k].sock = hit[1] /\ rows'[k].pid = Current
  BY <1>1, <1>5, <1>9, AddRowLemma DEF Passing
<1>12. TypeOK'
  <2>1. \A k \in DOMAIN rows' : rows'[k] \in Row
    BY <1>11
  <2> QED
    BY <1>1, <1>2, <2>1 DEF IInv, TypeOK
<1>13. PlaceOK' /\ FoundOK'
  BY <1>1, <1>2, <1>11 DEF IInv, PlaceOK, FoundOK, Passing, Scanning
<1>14. MetaOK'
  BY <1>1, <1>2, <1>5, <1>8 DEF MetaOK, TrueOfHit, OfPid, Current
<1>15. RowsOK'
  <2>1. \A r : RowOK(r) => RowOK(r)'
    BY <1>2 DEF RowOK, TrueOfPid, OfPid
  <2>2. ASSUME NEW k \in DOMAIN rows' PROVE RowOK(rows[k])'
    <3>1. PICK r : r = rows'[k] /\ RowOK(r)
      BY <1>10, <1>11 DEF IInv, RowsOK
    <3> QED
      BY <2>1, <3>1 DEF RowOK
  <2>3. \A k \in DOMAIN rows' : rows'[k].pid \notin pids \ {Current}
    BY <1>1, <1>11 DEF IInv, RowsOK, Passing, NewRow, Current
  <2> QED
    BY <1>1, <1>11, <2>2, <2>3 DEF RowsOK, Current
<1>16. OwnersOK'
  <2>1. SUFFICES ASSUME NEW i \in Incs \ foreign, NEW n \in kept[i]
                 PROVE  OwnerOK(i, n)'
    BY <1>2 DEF OwnersOK
  <2>2. Holder(pidOf[i]) = i
    BY <1>1, OwnerHolds
  <2>3. OwnerOK(i, n)
    BY DEF IInv, OwnersOK
  <2>4. HasRow(i, fdt[i][n]) => HasRow(i, fdt[i][n])'
    BY <1>2, <1>11 DEF HasRow
  <2>5. ASSUME Current = pidOf[i] PROVE OwnPass(i, n)'
    <3>1. OwnPass(i, n) /\ h = i
      BY <1>1, <2>2, <2>3, <2>5 DEF OwnerOK, Passing, h
    <3>2. m[1] = i /\ m[2] = i
      BY <1>1, <1>7, <3>1 DEF OwnPass, m
    <3>3. \A k \in DOMAIN rows' : rows'[k].pid = Current => rows'[k].name = i /\ rows'[k].start = i
      BY <1>1, <1>11, <3>1, <3>2 DEF OwnPass, NewRow
    <3>4. HasRow(i, hit[1])'
      BY <1>1, <1>2, <1>11, <2>5, <3>3 DEF HasRow
    <3> QED
      BY <1>1, <1>2, <2>4, <3>1, <3>2, <3>3, <3>4 DEF OwnPass, m, Current
  <2> QED
    BY <1>1, <1>2, <2>3, <2>4, <2>5 DEF OwnerOK, Passing, Scanning, Current
<1> QED
  BY <1>2, <1>3, <1>12, <1>13, <1>14, <1>15, <1>16 DEF IInv

LEMMA NextPidLemma ==
    ASSUME IInv, NextPid
    PROVE  IInv'
<1>1. /\ pc = "link" /\ pc' = "pid" /\ pids # {} /\ fds = {} /\ Quietly
      /\ pids' = pids \ {Current} /\ dir' = 0 /\ hit' = <<>>
      /\ UNCHANGED <<loaded, byInode, Known, fds, rows>>
  BY DEF Known, NextPid, Goto, IInv, PlaceOK, Passing, Current
<1>2. /\ SocketOK' /\ SocketTypeOK' /\ lacking' \subseteq Missing /\ WitnessOK'
      /\ UNCHANGED <<births, pidOf, life, fdt, opened, changes, foreign, lacking, up, present, kept>>
  BY <1>1, QuietLemma
<1>3. TypeOK'
  BY <1>1, <1>2 DEF IInv, TypeOK
<1>4. PlaceOK' /\ FoundOK' /\ MetaOK'
  BY <1>1, <1>2 DEF IInv, PlaceOK, FoundOK, MetaOK, Passing, Scanning
<1>5. RowsOK'
  <2>1. \A r : RowOK(r) => RowOK(r)'
    BY <1>2 DEF RowOK, TrueOfPid, OfPid
  <2> QED
    BY <1>1, <2>1 DEF IInv, RowsOK, RowPerOwnerOrLine, Nobodys, Passing
<1>6. OwnersOK'
  <2>1. SUFFICES ASSUME NEW i \in Incs \ foreign, NEW n \in kept[i]
                 PROVE  OwnerOK(i, n)'
    BY <1>2 DEF OwnersOK
  <2>2. OwnerOK(i, n)
    BY DEF IInv, OwnersOK
  <2>3. HasRow(i, fdt[i][n]) => HasRow(i, fdt[i][n])'
    BY <1>1, <1>2 DEF HasRow
  <2>4. Current = pidOf[i] => HasRow(i, fdt[i][n])
    BY <1>1, <2>2 DEF OwnerOK, OwnPass, Passing
  <2> QED
    BY <1>1, <1>2, <2>2, <2>3, <2>4 DEF OwnerOK, Passing, Scanning
<1> QED
  BY <1>2, <1>3, <1>4, <1>5, <1>6 DEF IInv

(* The lines nobody owns are finitely many: as many of a socket as it has. *)
LEMMA RestLemma ==
    ASSUME IInv
    PROVE  /\ IsFiniteSet(Rest)
           /\ \A x : x \in Rest <=> \E s \in Known \ Matched : \E l \in 1 .. byInode[s] : x = <<s, l>>
           /\ Known \subseteq Socks /\ \A s \in Known : byInode[s] \in Nat /\ byInode[s] > 0
<1>1. /\ Known \subseteq opened /\ opened \subseteq Socks /\ IsFiniteSet(opened)
      /\ byInode \in [Socks -> Nat]
  BY DEF IInv, TypeOK, SocketTypeOK, SocketOK
<1>2. Known \subseteq Socks /\ \A s \in Known : byInode[s] \in Nat /\ byInode[s] > 0
  BY <1>1 DEF Known
<1> DEFINE LinesOf(s) == {s} \X (1 .. byInode[s])
           All == {LinesOf(s) : s \in Known \ Matched}
<1>3. IsFiniteSet(All)
  <2> DEFINE f == [s \in Known \ Matched |-> LinesOf(s)]
  <2>1. IsFiniteSet(Known \ Matched)
    BY <1>1, FS_Subset
  <2>2. f \in Surjection(Known \ Matched, All)
    BY DEF Surjection
  <2> QED
    BY <2>1, <2>2, FS_Surjection
<1>4. ASSUME NEW s \in Known PROVE IsFiniteSet(LinesOf(s))
  <2>1. IsFiniteSet({s})
    BY FS_Singleton
  <2>2. 1 \in Int /\ byInode[s] \in Int
    BY <1>2
  <2>3. IsFiniteSet(1 .. byInode[s])
    BY <2>2, FS_Interval
  <2> QED
    BY <2>1, <2>3, FS_Product
<1>5. IsFiniteSet(UNION All)
  BY <1>3, <1>4, FS_UNION
<1> QED
  BY <1>2, <1>5 DEF Rest

(* The rows nobody owns: one for every line of a socket no row has. *)
LEMMA AddRestLemma ==
    ASSUME IInv, AddRest
    PROVE  IInv'
<1> DEFINE N == Cardinality(Rest)
           line(k) == SetToSeq(Rest)[k]
           unowned(k) == [sock |-> line(k)[1], pid |-> 0, name |-> 0, start |-> 0, of |-> 0]
           rest == [k \in 1 .. N |-> unowned(k)]
<1>1. /\ pc = "pid" /\ pc' = "done" /\ pids = {} /\ hit = <<>> /\ Quietly
      /\ rows' = rows \o rest
      /\ UNCHANGED <<loaded, byInode, Known, pids, dir, fds, hit, meta>>
  BY DEF Known, AddRest, Goto, IInv, PlaceOK
<1>2. /\ SocketOK' /\ SocketTypeOK' /\ lacking' \subseteq Missing
      /\ UNCHANGED <<births, pidOf, life, fdt, opened, changes, foreign, lacking, up, present, kept>>
  BY <1>1, QuietLemma
<1>3. WitnessOK'
  BY <1>1, QuietLemma
<1>4. /\ N \in Nat
      /\ \A k \in 1 .. N : line(k) \in Rest
      /\ \A k, l \in 1 .. N : line(k) = line(l) => k = l
      /\ \A x \in Rest : \E k \in 1 .. N : line(k) = x
  BY RestLemma, SetToSeqLemma
<1> HIDE DEF N, line
<1>5. \A k \in 1 .. N : /\ line(k)[1] \in Known \ Matched /\ line(k)[1] \in Socks
                       /\ line(k)[2] \in 1 .. byInode[line(k)[1]]
                       /\ line(k) = <<line(k)[1], line(k)[2]>>
  <2> SUFFICES ASSUME NEW k \in 1 .. N
               PROVE  /\ line(k)[1] \in Known \ Matched /\ line(k)[1] \in Socks
                      /\ line(k)[2] \in 1 .. byInode[line(k)[1]]
                      /\ line(k) = <<line(k)[1], line(k)[2]>>
    OBVIOUS
  <2>1. \E s \in Known \ Matched : \E l \in 1 .. byInode[s] : line(k) = <<s, l>>
    BY <1>4, RestLemma
  <2> QED
    BY <2>1, RestLemma
<1>6. /\ rest \in Seq(Row) /\ Len(rest) = N
      /\ \A k \in 1 .. N : rest[k].sock = line(k)[1] /\ rest[k].pid = 0
  <2>1. \A k \in 1 .. N : unowned(k) \in Row
    BY <1>5 DEF Row
  <2> QED
    BY <1>4, <2>1
<1> HIDE DEF rest, unowned
<1>7. rows \in Seq(Row) /\ DOMAIN rows = 1 .. Len(rows) /\ Len(rows) \in Nat
  BY DEF IInv, PlaceOK
<1>8. /\ rows' \in Seq(Row)
      /\ DOMAIN rows' = 1 .. Len(rows) + N
      /\ \A k \in DOMAIN rows : k \in DOMAIN rows' /\ rows'[k] = rows[k]
      /\ \A k \in DOMAIN rows' : k \notin DOMAIN rows =>
            k - Len(rows) \in 1 .. N /\ rows'[k] = rest[k - Len(rows)]
      /\ \A k \in 1 .. N : Len(rows) + k \in DOMAIN rows' /\ rows'[Len(rows) + k] = rest[k]
  <2>1. /\ rows' \in Seq(Row) /\ Len(rows') = Len(rows) + N
        /\ \A k \in 1 .. Len(rows) + N :
              rows'[k] = IF k <= Len(rows) THEN rows[k] ELSE rest[k - Len(rows)]
    BY <1>1, <1>6, <1>7, ConcatProperties
  <2>2. DOMAIN rows' = 1 .. Len(rows) + N
    BY <2>1, LenProperties
  <2>3. \A k \in DOMAIN rows : k \in DOMAIN rows' /\ rows'[k] = rows[k]
    BY <1>4, <1>7, <2>1, <2>2
  <2>4. \A k \in DOMAIN rows' : k \notin DOMAIN rows =>
            k - Len(rows) \in 1 .. N /\ rows'[k] = rest[k - Len(rows)]
    BY <1>4, <1>7, <2>1, <2>2
  <2>5. ASSUME NEW k \in 1 .. N
        PROVE  Len(rows) + k \in DOMAIN rows' /\ rows'[Len(rows) + k] = rest[k]
    <3>1. Len(rows) + k \in 1 .. Len(rows) + N /\ ~(Len(rows) + k <= Len(rows))
          /\ Len(rows) + k - Len(rows) = k
      BY <1>4, <1>7
    <3> QED
      BY <2>1, <2>2, <3>1
  <2> QED
    BY <2>1, <2>2, <2>3, <2>4, <2>5
<1>9. \A k \in DOMAIN rows : rows[k].sock \in Matched /\ rows[k].pid # 0
  BY <1>1 DEF IInv, RowsOK, Matched
<1>10. \A k \in DOMAIN rows' : k \notin DOMAIN rows =>
          /\ k - Len(rows) \in 1 .. N
          /\ rows'[k].pid = 0 /\ rows'[k].sock = line(k - Len(rows))[1]
          /\ rows'[k].sock \in Known \ Matched
  BY <1>5, <1>6, <1>8
<1>11. RowPerOwnerOrLine'
  <2>1. ASSUME NEW k \in DOMAIN rows', NEW l \in DOMAIN rows', k # l,
               rows'[k].sock = rows'[l].sock, rows'[k].pid # 0
        PROVE  rows'[l].pid \notin {0, rows'[k].pid}
    <3>1. k \in DOMAIN rows
      BY <1>10, <2>1
    <3>2. l \in DOMAIN rows
      BY <1>8, <1>9, <1>10, <2>1, <3>1
    <3> QED
      BY <1>8, <2>1, <3>1, <3>2 DEF IInv, RowsOK, RowPerOwnerOrLine
  <2>2. ASSUME NEW s \in Socks, Nobodys(s)' # {}
        PROVE  Cardinality(Nobodys(s)') = byInode[s]
    <3>1. \A k \in DOMAIN rows' : k \in Nobodys(s)' <=> k \notin DOMAIN rows /\ rows'[k].sock = s
      BY <1>8, <1>9, <1>10 DEF Nobodys
    <3>2. s \in Known \ Matched /\ byInode[s] \in Nat
      BY <1>10, <2>2, <3>1, RestLemma DEF Nobodys
    <3> DEFINE at(k) == line(k - Len(rows))[2]
               f == [k \in Nobodys(s)' |-> at(k)]
    <3>3. \A k \in Nobodys(s)' :
             /\ k - Len(rows) \in 1 .. N
             /\ at(k) \in 1 .. byInode[s] /\ line(k - Len(rows)) = <<s, at(k)>>
      BY <1>5, <1>10, <3>1 DEF Nobodys
    <3>4. \A k, l \in Nobodys(s)' : at(k) = at(l) => k = l
      <4>1. Nobodys(s)' \subseteq 1 .. Len(rows) + N
        BY <1>8 DEF Nobodys
      <4> SUFFICES ASSUME NEW k \in Nobodys(s)', NEW l \in Nobodys(s)', at(k) = at(l)
                   PROVE  k = l
        OBVIOUS
      <4>2. line(k - Len(rows)) = line(l - Len(rows))
        BY <3>3
      <4>3. k - Len(rows) = l - Len(rows)
        BY <1>4, <3>3, <4>2
      <4> QED
        BY <1>4, <1>7, <4>1, <4>3
    <3>5. \A j \in 1 .. byInode[s] : \E k \in Nobodys(s)' : at(k) = j
      <4> SUFFICES ASSUME NEW j \in 1 .. byInode[s] PROVE \E k \in Nobodys(s)' : at(k) = j
        OBVIOUS
      <4>1. PICK k \in 1 .. N : line(k) = <<s, j>>
        BY <1>4, <3>2, RestLemma
      <4>2. Len(rows) + k \in DOMAIN rows' /\ rows'[Len(rows) + k] = rest[k]
        BY <1>8
      <4>3. Len(rows) + k \notin DOMAIN rows /\ Len(rows) + k - Len(rows) = k
        BY <1>4, <1>7
      <4>4. Len(rows) + k \in Nobodys(s)'
        BY <1>6, <3>1, <4>1, <4>2, <4>3
      <4> QED
        BY <4>1, <4>3, <4>4
    <3>6. f \in Bijection(Nobodys(s)', 1 .. byInode[s])
      <4> HIDE DEF at
      <4>1. f \in [Nobodys(s)' -> 1 .. byInode[s]]
        BY <3>3
      <4> QED
        BY <3>4, <3>5, <4>1 DEF Bijection, Injection, Surjection, IsInjective
    <3>7. IsFiniteSet(1 .. byInode[s]) /\ Cardinality(1 .. byInode[s]) = byInode[s]
      BY <3>2, FS_Interval
    <3>8. IsFiniteSet(Nobodys(s)')
      <4>1. IsFiniteSet(1 .. Len(rows) + N)
        BY <1>4, <1>7, FS_Interval
      <4>2. Nobodys(s)' \subseteq 1 .. Len(rows) + N
        BY <1>8 DEF Nobodys
      <4> QED
        BY <4>1, <4>2, FS_Subset
    <3> QED
      BY <3>6, <3>7, <3>8, FS_Bijection DEF ExistsBijection
  <2> QED
    BY <1>1, <2>1, <2>2 DEF RowPerOwnerOrLine
<1>12. TypeOK'
  <2>1. \A k \in DOMAIN rows' : rows'[k] \in Row
    <3>1. rows' \in Seq(Row)
      BY <1>8
    <3> QED
      BY <3>1
  <2> QED
    BY <1>1, <1>2, <2>1 DEF IInv, TypeOK
<1>13. PlaceOK' /\ FoundOK' /\ MetaOK'
  BY <1>1, <1>2, <1>8 DEF IInv, PlaceOK, FoundOK, MetaOK, Passing, Scanning
<1>14. RowsOK'
  <2>1. \A r : RowOK(r) => RowOK(r)'
    BY <1>2 DEF RowOK, TrueOfPid, OfPid
  <2>2. ASSUME NEW k \in DOMAIN rows' PROVE RowOK(rows[k])'
    <3>1. PICK r : r = rows'[k] /\ RowOK(r)
      BY <1>8, <1>10 DEF IInv, RowsOK, RowOK
    <3> QED
      BY <2>1, <3>1 DEF RowOK
  <2>3. ASSUME NEW s \in Known PROVE \E k \in DOMAIN rows' : rows'[k].sock = s
    <3>1. CASE s \in Matched
      BY <1>8, <3>1 DEF Matched
    <3>2. CASE s \notin Matched
      <4>1. <<s, 1>> \in Rest
        BY <2>3, <3>2, RestLemma
      <4>2. PICK k \in 1 .. N : line(k) = <<s, 1>>
        BY <1>4, <4>1
      <4>3. line(k)[1] = s
        BY <4>2
      <4> QED
        BY <1>6, <1>8, <4>3
    <3> QED
      BY <3>1, <3>2
  <2> QED
    BY <1>1, <1>11, <2>2, <2>3 DEF RowsOK, Matched, Passing
<1>15. OwnersOK'
  <2>1. SUFFICES ASSUME NEW i \in Incs \ foreign, NEW n \in kept[i]
                 PROVE  OwnerOK(i, n)'
    BY <1>2 DEF OwnersOK
  <2>2. HasRow(i, fdt[i][n])
    BY <1>1 DEF IInv, OwnersOK, OwnerOK, Scanning
  <2>3. HasRow(i, fdt[i][n])'
    BY <1>2, <1>8, <2>2 DEF HasRow
  <2> QED
    BY <1>1, <1>2, <2>3 DEF OwnerOK, Passing, Scanning
<1> QED
  BY <1>2, <1>3, <1>12, <1>13, <1>14, <1>15 DEF IInv

LEMMA StutterLemma ==
    ASSUME IInv, UNCHANGED vars
    PROVE  IInv'
<1>1. /\ UNCHANGED <<births, pidOf, life, fdt, opened, changes, foreign, lacking, pc>>
      /\ UNCHANGED <<loaded, byInode, Known, pids, dir, fds, hit, meta, rows, up, present, kept>>
  BY DEF Known, vars, procVars, sockVars, scanVars, history
<1>2. SocketOK' /\ SocketTypeOK'
  BY <1>1 DEF IInv, SocketOK, SocketTypeOK, ProcOK, ProcTypeOK, Holds, Succession
<1>3. TypeOK' /\ WitnessOK'
  BY <1>1, <1>2 DEF IInv, TypeOK, WitnessOK, There, Open
<1>4. PlaceOK' /\ FoundOK' /\ MetaOK'
  BY <1>1 DEF IInv, PlaceOK, FoundOK, MetaOK, TrueOfHit, OfPid, Passing, Scanning, Current
<1>5. RowsOK'
  BY <1>1 DEF IInv, RowsOK, RowOK, TrueOfPid, OfPid, RowPerOwnerOrLine, Nobodys, Matched, Passing, Current
<1>6. OwnersOK'
  BY <1>1 DEF IInv, OwnersOK, OwnerOK, OwnPass, HasRow, Passing, Scanning, Current
<1> QED
  BY <1>2, <1>3, <1>4, <1>5, <1>6 DEF IInv

------------------------------------------------------------------------------
(* The inductive invariant holds in every reachable state. *)
THEOREM Invariance == Spec => []IInv
<1>1. Init => IInv
  BY InitLemma
<1>2. IInv /\ [Next]_vars => IInv'
  BY BeginLemma, TablesLemma, ReadProcLemma, OpenFdDirLemma, ReadFdDirLemma, ReadLinkLemma,
     ReadNameLemma, ReadStartLemma, NextPidLemma, AddRestLemma, MachineLemma, StutterLemma
     DEF Next, Scan, Finished
<1> QED
  BY <1>1, <1>2, PTL DEF Spec

(* Every variable keeps its type, and a directory is open just while one is
   looked through. *)
THEOREM TypeCorrect == Spec => []TypeOK
<1>1. IInv => TypeOK
  BY DEF IInv
<1> QED
  BY <1>1, Invariance, PTL

(* A socket that is there all the time is listed (listen_linux.go:71-82). *)
THEOREM NothingIsMissed == Spec => []ThereIsListed
<1>1. IInv => ThereIsListed
  <2> SUFFICES ASSUME IInv, pc = "done", NEW s \in up PROVE RowsFor(s) # {}
    BY DEF ThereIsListed
  <2>1. s \in Matched
    BY DEF IInv, FoundOK, RowsOK
  <2> QED
    BY <2>1 DEF Matched, RowsFor
<1> QED
  BY <1>1, Invariance, PTL

(* Every process that keeps a socket under one fd, and whose fds may be read, is
   listed with it, under its own name and start token (listen_linux.go:119-147). *)
THEOREM NoOwnerIsMissed == Spec => []OwnersAreListed
<1>1. IInv => OwnersAreListed
  <2> SUFFICES ASSUME IInv, pc = "done", NEW i \in present \ foreign, NEW n \in kept[i]
               PROVE  \E r \in RowsFor(fdt[i][n]) : r.pid = pidOf[i] /\ r.name = i /\ r.start = i
    BY DEF OwnersAreListed
  <2>1. i \in Incs
    <3>1. present \subseteq Born /\ births \in 2 .. MaxBirths
      BY DEF IInv, WitnessOK, SocketOK, ProcOK, ProcTypeOK
    <3> QED
      BY <3>1, MaxBirthsAssumption
  <2>2. HasRow(i, fdt[i][n])
    BY <2>1 DEF IInv, OwnersOK, OwnerOK
  <2> QED
    BY <2>2 DEF HasRow, RowsFor
<1> QED
  BY <1>1, Invariance, PTL

(* One row for a socket and an owner, one for each line of a socket without one,
   and never both (listen_linux.go:71-85, 124-130). *)
THEOREM OneRowToOwnerOrLine == Spec => []RowPerOwnerOrLine
<1>1. IInv => RowPerOwnerOrLine
  BY DEF IInv, RowsOK
<1> QED
  BY <1>1, Invariance, PTL

(* All of a row was read of processes that had its pid during the listing; what
   is missing, because one of them has gone (listen_linux.go:106-177). *)
THEOREM RowsAreOfHolders == Spec => []RowOfHolders
<1>1. IInv => RowOfHolders
  <2> DEFINE holders(pid) == {i \in present : pidOf[i] = pid}
  <2> SUFFICES ASSUME IInv, NEW k \in DOMAIN rows, rows[k].pid # 0
               PROVE  /\ rows[k].of \in holders(rows[k].pid)
                      /\ {rows[k].name, rows[k].start} \subseteq holders(rows[k].pid) \cup {0}
                      /\ 0 \in {rows[k].name, rows[k].start} =>
                            \E i \in holders(rows[k].pid) : life[i] = "gone"
    BY DEF RowOfHolders
  <2>1. RowOK(rows[k])
    BY DEF IInv, RowsOK
  <2>2. \A x : TrueOfPid(x, rows[k].pid) =>
            /\ x \in holders(rows[k].pid) \cup {0}
            /\ x = 0 => \E i \in holders(rows[k].pid) : life[i] = "gone"
    BY DEF TrueOfPid, OfPid
  <2>3. rows[k].of \in holders(rows[k].pid)
    BY <2>1 DEF RowOK, OfPid
  <2> QED
    BY <2>1, <2>2, <2>3 DEF RowOK
<1> QED
  BY <1>1, Invariance, PTL
==============================================================================
