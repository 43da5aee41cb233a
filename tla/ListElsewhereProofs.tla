------------------------ MODULE ListElsewhereProofs ------------------------
(***************************************************************************)
(* Safety of the listings of Windows and macOS, for any number of sockets, *)
(* descriptors, processes and lists of any size. A list read whole has all *)
(* that was open all the time; one that outgrew every attempt was overrun  *)
(* by sockets that were opened meanwhile. On Windows a row says what was   *)
(* cached of its pid, read of one process, whose handle kept the pid; on   *)
(* macOS a row's strings are read during the one pass over its pid.        *)
(***************************************************************************)
EXTENDS ListElsewhere, ProcessTableProofs, FiniteSetTheorems, SequenceTheorems

Passing == pc \in {"link", "name", "start"}     \* amid the fds of one pid
Current == Least(pids)
OnWindows == platform = "windows"

Row == [sock : Socks, pid : Pids \cup {0}, info : Info, of : {0} \cup Incs]
Found == [sock : Socks, of : Incs]

(* Only running processes have descriptors, of sockets that were opened. *)
SocketOK ==
    /\ ProcOK
    /\ SocketTypeOK
    /\ \A i \in Incs, n \in Fds :
          fdt[i][n] # 0 => life[i] = "running" /\ fdt[i][n] \in opened
    /\ IsFiniteSet(opened)

(* The history is one of what was there. *)
WitnessOK ==
    /\ before \subseteq opened
    /\ pc # "idle" =>
          /\ present \subseteq Born
          /\ \A i \in Incs : There(i) => i \in present
          /\ \A s \in up : s \in Socks /\ Open(s)

(* Where the listing is tells what it has. *)
PlaceOK ==
    /\ rows \in Seq(Row) /\ found \in Seq(Found)
    /\ pc \in {"pids", "pid"} \/ Passing => platform = "darwin"
    /\ pc \in {"row", "peb"} => OnWindows
    /\ pc \in {"idle", "pids", "pid"} \/ Passing => loaded = 0 /\ missed = {} /\ found = <<>>
    /\ pc \in {"idle", "pids"} => rows = <<>>
    /\ pc = "idle" => cache = [pid \in Pids |-> Unknown]
    /\ loaded <= Len(Tables)
    /\ OnWindows /\ pc \in {"ask", "fetch"} => found = <<>>
    /\ pc = "peb" => found # <<>>
    /\ Passing => pids # {}
    /\ ~Passing => hit = <<>>
    /\ pc \in {"name", "start"} => hit # <<>>

(* Of what was open all the time, the lists read so far have it. *)
ListRead(s) == \E j \in 1 .. loaded : TableOf[s] \in Tables[j]
PassedOver(s) == \E m \in missed : TableOf[s] \in Tables[m[1]]
Shown(s) == \E k \in DOMAIN rows : Endpoint[rows[k].sock] = Endpoint[s]
FoundOK ==
    /\ \A s \in up : ListRead(s) =>
          PassedOver(s) \/ Shown(s) \/ \E k \in DOMAIN found : found[k].sock = s
    /\ ThereIsListed

(* On Windows each list is read once, and no socket is in two of them; on macOS
   rows without a process come last. *)
OnceOK ==
    /\ ListedOnce
    /\ OnWindows =>
          /\ \A k, l \in DOMAIN found : k # l => found[k].sock # found[l].sock
          /\ \A k \in DOMAIN found, l \in DOMAIN rows : found[k].sock # rows[l].sock
          /\ \A k \in DOMAIN found : ListRead(found[k].sock)
          /\ \A k \in DOMAIN rows : ListRead(rows[k].sock)
    /\ OnWindows \/ pc # "done" => \A k \in DOMAIN rows : rows[k].pid # 0

(* What was read by number is of a process that had that number. *)
OfPid(i, pid) == i \in present /\ pidOf[i] = pid
Reads(info) == {info.name, info.start, info.cwd} \ {0}
InfoOK(info, pid) == \A x \in Reads(info) : OfPid(x, pid)
OfOne(info) == \A x, y \in Reads(info) : x = y
Owner == pidOf[Head(found).of]
WindowsOK ==
    /\ \A pid \in Pids : cache[pid] # Unknown => InfoOK(cache[pid], pid) /\ OfOne(cache[pid])
    /\ \A k \in DOMAIN found : found[k].of \in present
    /\ \A k \in DOMAIN rows : rows[k].info = cache[rows[k].pid] /\ cache[rows[k].pid] # Unknown
    /\ pc = "peb" =>
          /\ Holds(handle, Owner)
          /\ cache[Owner] # Unknown /\ cache[Owner].cwd = 0
          /\ {cache[Owner].name, cache[Owner].start} \subseteq {0, handle}
          /\ \A k \in DOMAIN rows : rows[k].pid # Owner

TrueOfHit(x) == x \in {0} \cup Incs /\ (x # 0 => OfPid(x, Current))
MetaOK ==
    /\ hit # <<>> => hit[1] \in Socks /\ hit[2] \in Incs
    /\ pc = "start" => meta = <<meta[1]>> /\ TrueOfHit(meta[1])
    /\ pc = "link" /\ hit # <<>> => TrueOfHit(meta[1]) /\ TrueOfHit(meta[2])
InfoOf(m) == [name |-> m[1], start |-> m[2], cwd |-> m[1]]
DarwinOK ==
    /\ MetaOK
    /\ pc = "pid" => \A k \in DOMAIN rows : rows[k].pid \notin pids
    /\ Passing => \A k \in DOMAIN rows :
          /\ rows[k].pid \notin pids \ {Current}
          /\ rows[k].pid = Current => pc = "link" /\ hit # <<>> /\ rows[k].info = InfoOf(meta)

RowsOK ==
    /\ \A k \in DOMAIN rows : IF rows[k].pid = 0 THEN rows[k].info = NoInfo
                              ELSE InfoOK(rows[k].info, rows[k].pid)
    /\ \A k, l \in DOMAIN rows : rows[k].pid = rows[l].pid => rows[k].info = rows[l].info
    /\ IF OnWindows THEN WindowsOK ELSE DarwinOK

(* A list that holds more than there was room for holds a socket opened since:
   one for each attempt on Windows, and one more than the room on macOS. *)
Growth == Cardinality(opened \ before)
Outgrown == IF OnWindows THEN tries ELSE tries * Slack
GrowthOK ==
    /\ pc = "fetch" => Cardinality(Content(loaded + 1)) + Outgrown <= size + Growth
    /\ pc \notin {"fetch", "failed"} => tries = 0
    /\ GaveUpOnGrowth

IInv ==
    /\ TypeOK /\ SocketOK /\ WitnessOK /\ PlaceOK
    /\ FoundOK /\ OnceOK /\ RowsOK /\ GrowthOK

------------------------------------------------------------------------------
(* Helpers. *)
LEMMA LeastLemma ==
    ASSUME NEW S \in SUBSET Nat, S # {}
    PROVE  Least(S) \in S /\ \A y \in S : Least(S) <= y
<1> DEFINE Upto == {0 .. x : x \in S}
           R == StrictSubsetOrdering(Nat)
<1>1. Upto \subseteq FiniteSubsetsOf(Nat) /\ Upto # {}
  <2>1. ASSUME NEW x \in S PROVE 0 .. x \in FiniteSubsetsOf(Nat)
    <3>1. IsFiniteSet(0 .. x)
      BY FS_Interval
    <3>2. 0 .. x \subseteq Nat
      OBVIOUS
    <3> QED
      BY <3>1, <3>2 DEF FiniteSubsetsOf
  <2> QED
    BY <2>1
<1>2. IsWellFoundedOn(R, FiniteSubsetsOf(Nat))
  BY FS_StrictSubsetOrderingWellFounded
<1> HIDE DEF R
<1>3. \E u \in Upto : \A v \in Upto : ~(<<v, u>> \in R)
  <2> HIDE DEF Upto
  <2> QED
    BY <1>1, <1>2, WFMin
<1>4. PICK x \in S : \A y \in S : ~(<<0 .. y, 0 .. x>> \in R)
  BY <1>3
<1>5. ASSUME NEW y \in S, y < x PROVE FALSE
  <2>1. 0 .. y \subseteq 0 .. x /\ 0 .. y \subseteq Nat /\ 0 .. x \subseteq Nat
    BY <1>5
  <2>2. x \in 0 .. x /\ x \notin 0 .. y
    BY <1>5
  <2> QED
    BY <1>4, <2>1, <2>2 DEF R, StrictSubsetOrdering
<1>6. \A y \in S : x <= y
  BY <1>5
<1> QED
  BY <1>6 DEF Least

(* The holder of a pid is the one process that holds it. *)
LEMMA HolderLemma ==
    ASSUME ProcOK, NEW pid \in Pids
    PROVE  /\ Holder(pid) = 0 <=> Free(pid)
           /\ Holder(pid) # 0 => Holder(pid) \in Incs /\ Holds(Holder(pid), pid)
           /\ \A i \in Incs : Holds(i, pid) => Holder(pid) = i
<1>1. CASE Free(pid)
  BY <1>1 DEF Holder, Free
<1>2. CASE ~Free(pid)
  <2>1. PICK i \in Incs : Holds(i, pid)
    BY <1>2 DEF Free
  <2>2. Holder(pid) = CHOOSE j \in Incs : Holds(j, pid)
    BY <1>2 DEF Holder
  <2>3. Holder(pid) \in Incs /\ Holds(Holder(pid), pid)
    BY <2>1, <2>2
  <2>4. 0 \notin Incs
    BY MaxBirthsAssumption DEF Incs
  <2> QED
    BY <1>2, <2>3, <2>4 DEF ProcOK
<1> QED
  BY <1>1, <1>2

(* SetToSeq lists a finite set, each element once. *)
LEMMA SetToSeqLemma ==
    ASSUME NEW S, IsFiniteSet(S)
    PROVE  /\ Cardinality(S) \in Nat
           /\ SetToSeq(S) \in [1 .. Cardinality(S) -> S]
           /\ \A k, l \in 1 .. Cardinality(S) : SetToSeq(S)[k] = SetToSeq(S)[l] => k = l
           /\ \A x \in S : \E k \in 1 .. Cardinality(S) : SetToSeq(S)[k] = x
<1>1. Cardinality(S) \in Nat /\ ExistsBijection(1 .. Cardinality(S), S)
  BY FS_CardinalityType
<1>2. \E f \in [1 .. Cardinality(S) -> S] : IsInjective(f)
  BY <1>1 DEF ExistsBijection, Bijection, Injection
<1>3. SetToSeq(S) \in [1 .. Cardinality(S) -> S] /\ IsInjective(SetToSeq(S))
  BY <1>2 DEF SetToSeq
<1>4. SetToSeq(S) \in Injection(1 .. Cardinality(S), S)
  BY <1>3 DEF Injection
<1>5. Cardinality(1 .. Cardinality(S)) = Cardinality(S)
  BY <1>1, FS_Interval
<1>6. SetToSeq(S) \in Surjection(1 .. Cardinality(S), S)
  BY <1>4, <1>5, FS_Injection
<1> QED
  BY <1>1, <1>3, <1>6 DEF IsInjective, Surjection

------------------------------------------------------------------------------
USE DEF Incs, Born, InitInc, SelfInc

(* The invariant holds before the listing begins. *)
LEMMA InitLemma == Init => IInv
<1> SUFFICES ASSUME Init PROVE IInv
  OBVIOUS
<1> USE DEF Init, SocketInit
<1>1. ProcOK
  BY ProcInitLemma
<1>2. SocketOK
  <2>1. SocketTypeOK
    BY <1>1, MaxChangesAssumption DEF SocketTypeOK, ProcOK
  <2> QED
    BY <1>1, <2>1, FS_EmptySet DEF SocketOK
<1>3. rows \in Seq(Row) /\ DOMAIN rows = {} /\ found \in Seq(Found) /\ DOMAIN found = {}
  OBVIOUS
<1>4. TypeOK
  BY <1>2, <1>3, AttemptsAssumption, PlatformsAssumption, MaxBirthsAssumption
     DEF TypeOK, SocketOK, NoInfo, Unknown
<1>5. WitnessOK
  BY DEF WitnessOK
<1>6. PlaceOK
  BY <1>3 DEF PlaceOK, Passing, OnWindows, Tables
<1>7. FoundOK /\ OnceOK
  BY <1>3 DEF FoundOK, OnceOK, ThereIsListed, ListedOnce
<1>8. RowsOK
  BY <1>3 DEF RowsOK, WindowsOK, DarwinOK, MetaOK, Passing
<1>9. GrowthOK
  BY DEF GrowthOK, GaveUpOnGrowth
<1> QED
  BY <1>2, <1>4, <1>5, <1>6, <1>7, <1>8, <1>9 DEF IInv

------------------------------------------------------------------------------
(* A step of others leaves what the listing has alone. *)

(* Processes come and go; a process whose handle is held keeps its pid. *)
LEMMA ProcessesLemma ==
    ASSUME SocketOK, NEW pinned, Processes(pinned)
    PROVE  /\ SocketOK'
           /\ UNCHANGED <<opened, changes, foreign, pc>> /\ Witness
           /\ births <= births' /\ births' \in Nat
           /\ \A i \in Born : pidOf'[i] = pidOf[i]
           /\ \A i \in pinned, pid \in Pids : Holds(i, pid) => Holds(i, pid)'
           /\ \A i \in Incs, n \in Fds : fdt'[i][n] \in {0, fdt[i][n]}
<1>0. ProcOK /\ SocketTypeOK /\ ProcTypeOK
  BY DEF SocketOK, ProcOK
<1>1. ProcNext
  BY DEF Processes, ProcNext
<1>2. ProcOK' /\ births <= births' /\ births' \in Nat /\ \A i \in Born : pidOf'[i] = pidOf[i]
  BY <1>0, <1>1, ProcLemma
<1>3. UNCHANGED <<opened, changes, foreign, pc>> /\ Witness
  BY DEF Processes
<1>4. fdt \in [Incs -> [Fds -> Socks \cup {0}]] /\ births \in Nat
  BY <1>0 DEF SocketTypeOK, ProcTypeOK
<1>5. /\ fdt' \in [Incs -> [Fds -> Socks \cup {0}]]
      /\ \A i \in Incs, n \in Fds : fdt'[i][n] \in {0, fdt[i][n]}
      /\ \A i \in Incs, n \in Fds :
            fdt'[i][n] # 0 => life'[i] = "running" /\ fdt'[i][n] \in opened
      /\ \A i \in pinned, pid \in Pids : Holds(i, pid) => Holds(i, pid)'
  <2>1. CASE (\E pid \in Pids : Fork(pid)) /\ UNCHANGED fdt
    <3>1. /\ \A i \in Incs : life[i] = "running" => life'[i] = "running"
          /\ \A i \in Born : life'[i] = life[i] /\ pidOf'[i] = pidOf[i] /\ i \in Born'
      BY <1>0, <1>4, <2>1 DEF Fork, ProcTypeOK
    <3> QED
      BY <1>0, <1>4, <2>1, <3>1 DEF SocketOK, Holds
  <2>2. CASE \E i \in Incs : Exit(i) /\ fdt' = [fdt EXCEPT ![i] = [n \in Fds |-> 0]]
    <3>1. PICK i \in Incs : Exit(i) /\ fdt' = [fdt EXCEPT ![i] = [n \in Fds |-> 0]]
      BY <2>2
    <3>2. /\ \A j \in Incs : j # i => life'[j] = life[j]
          /\ life'[i] = "zombie" /\ UNCHANGED <<births, pidOf>>
      BY <1>0, <3>1 DEF Exit, ProcTypeOK
    <3>3. \A j, pid : Holds(j, pid) => j \in Incs
      BY <1>0, MaxBirthsAssumption DEF Holds, ProcTypeOK
    <3> QED
      BY <1>0, <1>4, <3>1, <3>2, <3>3 DEF SocketOK, Holds
  <2>3. CASE (\E i \in Incs \ pinned : Reap(i)) /\ UNCHANGED fdt
    <3>1. PICK i \in Incs \ pinned : Reap(i)
      BY <2>3
    <3>2. /\ \A j \in Incs : j # i => life'[j] = life[j]
          /\ life[i] = "zombie" /\ UNCHANGED <<births, pidOf>>
      BY <1>0, <3>1 DEF Reap, ProcTypeOK
    <3>3. \A j, pid : Holds(j, pid) => j \in Incs
      BY <1>0, MaxBirthsAssumption DEF Holds, ProcTypeOK
    <3> QED
      BY <1>0, <1>4, <2>3, <3>1, <3>2, <3>3 DEF SocketOK, Holds
  <2> QED
    BY <2>1, <2>2, <2>3 DEF Processes
<1>6. SocketTypeOK'
  BY <1>0, <1>2, <1>3, <1>5 DEF SocketTypeOK, ProcOK
<1> QED
  BY <1>2, <1>3, <1>5, <1>6 DEF SocketOK

(* Sockets are opened, passed on and closed: a descriptor that changes is closed,
   or refers to what another refers to, or to the one socket that was opened. *)
LEMMA SocketsLemma ==
    ASSUME SocketOK, Sockets({})
    PROVE  /\ SocketOK'
           /\ UNCHANGED <<procVars, foreign, pc>> /\ Witness
           /\ \/ /\ opened' = opened
                 /\ \A i \in Incs, n \in Fds : fdt'[i][n] = 0 \/ \E j \in Incs, m \in Fds : fdt'[i][n] = fdt[j][m]
              \/ \E s \in Socks \ opened :
                    /\ opened' = opened \cup {s}
                    /\ \A i \in Incs, n \in Fds : fdt'[i][n] \in {s, fdt[i][n]}
<1>0. ProcOK /\ SocketTypeOK /\ ProcTypeOK
  BY DEF SocketOK, ProcOK
<1>1. UNCHANGED <<procVars, foreign, pc>> /\ Witness /\ changes < MaxChanges /\ changes' = changes + 1
  BY DEF Sockets
<1>2. ProcOK'
  <2>1. UNCHANGED <<births, pidOf, life>>
    BY <1>1 DEF procVars
  <2> QED
    BY <1>0, <2>1 DEF ProcOK, ProcTypeOK, Holds, Succession
<1>3. PICK i \in {i \in Incs \ {SelfInc} : life[i] = "running"}, n \in Fds :
          \/ \E s \in Socks : OpenSocket(i, n, s)
          \/ \E j \in Incs, m \in Fds : PassOn(i, n, j, m)
          \/ CloseFd(i, n)
  BY DEF Sockets
<1>4. /\ fdt \in [Incs -> [Fds -> Socks \cup {0}]] /\ IsFiniteSet(opened) /\ opened \subseteq Socks
      /\ \A k \in Incs, m \in Fds :
            fdt[k][m] # 0 => life[k] = "running" /\ fdt[k][m] \in opened
  BY <1>0 DEF SocketOK, SocketTypeOK
<1> DEFINE Safe == /\ fdt' \in [Incs -> [Fds -> Socks \cup {0}]] /\ opened' \subseteq Socks
                   /\ IsFiniteSet(opened')
                   /\ \A k \in Incs, m \in Fds :
                         fdt'[k][m] # 0 => life[k] = "running" /\ fdt'[k][m] \in opened'
           Old == /\ opened' = opened
                  /\ \A k \in Incs, m \in Fds :
                        fdt'[k][m] = 0 \/ \E j \in Incs, l \in Fds : fdt'[k][m] = fdt[j][l]
           New(s) == /\ opened' = opened \cup {s}
                     /\ \A k \in Incs, m \in Fds : fdt'[k][m] \in {s, fdt[k][m]}
<1>5. Safe /\ (Old \/ \E s \in Socks \ opened : New(s))
  <2>1. CASE \E s \in Socks : OpenSocket(i, n, s)
    <3>1. PICK s \in Socks : OpenSocket(i, n, s)
      BY <2>1
    <3>2. fdt' = [fdt EXCEPT ![i][n] = s] /\ opened' = opened \cup {s} /\ s \notin opened
      BY <3>1 DEF OpenSocket
    <3>3. IsFiniteSet(opened')
      BY <1>4, <3>2, FS_AddElement
    <3>4. \A k \in Incs, m \in Fds : fdt'[k][m] = IF k = i /\ m = n THEN s ELSE fdt[k][m]
      BY <1>4, <3>2
    <3>5. fdt' \in [Incs -> [Fds -> Socks \cup {0}]]
      BY <1>4, <3>2
    <3>6. Safe
      BY <1>3, <1>4, <3>2, <3>3, <3>4, <3>5
    <3>7. New(s)
      BY <3>2, <3>4
    <3> QED
      BY <3>2, <3>6, <3>7
  <2>2. CASE \E j \in Incs, m \in Fds : PassOn(i, n, j, m)
    <3>1. PICK j \in Incs, m \in Fds : PassOn(i, n, j, m)
      BY <2>2
    <3>2. /\ fdt' = [fdt EXCEPT ![j][m] = fdt[i][n]] /\ opened' = opened
          /\ fdt[i][n] # 0 /\ life[j] = "running"
      BY <3>1 DEF PassOn
    <3>4. \A k \in Incs, l \in Fds : fdt'[k][l] = IF k = j /\ l = m THEN fdt[i][n] ELSE fdt[k][l]
      BY <1>4, <3>2
    <3>5. fdt' \in [Incs -> [Fds -> Socks \cup {0}]]
      BY <1>4, <3>2
    <3> QED
      BY <1>3, <1>4, <3>2, <3>4, <3>5
  <2>3. CASE CloseFd(i, n)
    <3>2. fdt' = [fdt EXCEPT ![i][n] = 0] /\ opened' = opened
      BY <2>3 DEF CloseFd
    <3>4. \A k \in Incs, l \in Fds : fdt'[k][l] = IF k = i /\ l = n THEN 0 ELSE fdt[k][l]
      BY <1>4, <3>2
    <3>5. fdt' \in [Incs -> [Fds -> Socks \cup {0}]]
      BY <1>4, <3>2
    <3> QED
      BY <1>4, <3>2, <3>4, <3>5
  <2> QED
    BY <1>3, <2>1, <2>2, <2>3
<1>6. SocketTypeOK'
  BY <1>0, <1>1, <1>2, <1>5, MaxChangesAssumption DEF SocketTypeOK, ProcOK
<1> QED
  BY <1>1, <1>2, <1>5, <1>6 DEF SocketOK, procVars

(* What is open was open, or is the one socket opened now. *)
LEMMA MachineSteps ==
    ASSUME SocketOK, Machine
    PROVE  /\ SocketOK'
           /\ UNCHANGED <<platform, before, scanVars, foreign, pc>> /\ Witness
           /\ births \in Nat /\ births' \in Nat /\ births <= births' /\ births' <= MaxBirths
           /\ \A i \in Born : pidOf'[i] = pidOf[i] /\ i \in Born' /\ i \in Incs
           /\ \A i \in Pinned, pid \in Pids : Holds(i, pid) => Holds(i, pid)'
           /\ \E new \in SUBSET (Socks \ opened) :
                 /\ new = {} \/ \E s : new = {s}
                 /\ opened' = opened \cup new
                 /\ \A s \in Socks : Open(s)' => Open(s) \/ s \in new
<1>1. UNCHANGED <<platform, before, scanVars>>
  BY DEF Machine
<1>2. ProcTypeOK /\ births \in Nat /\ births <= MaxBirths
  BY MaxBirthsAssumption DEF SocketOK, SocketTypeOK, ProcTypeOK
<1>3. CASE Processes(Pinned)
  <2>1. \A s \in Socks : Open(s)' => Open(s)
    BY <1>3, ProcessesLemma, SocksAssumption DEF Open
  <2>2. births' <= MaxBirths
    BY <1>3, ProcessesLemma, MaxBirthsAssumption DEF SocketOK, SocketTypeOK, ProcTypeOK
  <2>3. /\ SocketOK'
        /\ UNCHANGED <<opened, changes, foreign, pc>> /\ Witness
        /\ births <= births' /\ births' \in Nat
        /\ \A i \in Born : pidOf'[i] = pidOf[i]
        /\ \A i \in Pinned, pid \in Pids : Holds(i, pid) => Holds(i, pid)'
    BY <1>3, ProcessesLemma
  <2>4. \A i \in Born : i \in Born' /\ i \in Incs
    BY <1>2, <2>3, MaxBirthsAssumption
  <2>5. opened' = opened \cup {} /\ {} \in SUBSET (Socks \ opened)
    BY <2>3
  <2> QED
    BY <1>1, <1>2, <2>1, <2>2, <2>3, <2>4, <2>5
<1>4. CASE Sockets({})
  <2>1. SocketOK' /\ UNCHANGED <<births, pidOf, life, foreign, pc>> /\ Witness
    BY <1>4, SocketsLemma DEF procVars
  <2>2. \A i, pid : Holds(i, pid) => Holds(i, pid)'
    BY <2>1 DEF Holds
  <2>3. \A i \in Born : i \in Born' /\ i \in Incs
    BY <1>2, <2>1, MaxBirthsAssumption
  <2>4. \E new \in SUBSET (Socks \ opened) :
           /\ new = {} \/ \E s : new = {s}
           /\ opened' = opened \cup new
           /\ \A s \in Socks : Open(s)' => Open(s) \/ s \in new
    <3>1. CASE /\ opened' = opened
               /\ \A i \in Incs, n \in Fds :
                     fdt'[i][n] = 0 \/ \E j \in Incs, m \in Fds : fdt'[i][n] = fdt[j][m]
      <4>1. \A s \in Socks : Open(s)' => Open(s)
        BY <3>1, SocksAssumption DEF Open
      <4>2. opened' = opened \cup {} /\ {} \in SUBSET (Socks \ opened)
        BY <3>1
      <4> QED
        BY <4>1, <4>2
    <3>2. CASE \E s \in Socks \ opened :
                  /\ opened' = opened \cup {s}
                  /\ \A i \in Incs, n \in Fds : fdt'[i][n] \in {s, fdt[i][n]}
      <4>1. PICK s \in Socks \ opened :
                  /\ opened' = opened \cup {s}
                  /\ \A i \in Incs, n \in Fds : fdt'[i][n] \in {s, fdt[i][n]}
        BY <3>2
      <4>2. \A t \in Socks : Open(t)' => Open(t) \/ t \in {s}
        BY <4>1 DEF Open
      <4>3. {s} \in SUBSET (Socks \ opened)
        BY <4>1
      <4> QED
        BY <4>1, <4>2, <4>3
    <3> QED
      BY <1>4, <3>1, <3>2, SocketsLemma
  <2>5. births' \in Nat /\ births <= births' /\ births' <= MaxBirths /\ UNCHANGED <<foreign, pc>>
    BY <1>2, <2>1
  <2>6. \A i \in Born : pidOf'[i] = pidOf[i]
    BY <2>1
  <2> QED
    BY <1>1, <1>2, <2>1, <2>2, <2>3, <2>4, <2>5, <2>6
<1>5. Processes(Pinned) \/ Sockets({})
  BY DEF Machine
<1> QED
  BY <1>3, <1>4, <1>5

(* What a list holds was opened; it does not grow by more than was opened. *)
LEMMA ContentLemma ==
    ASSUME SocketOK, NEW k
    PROVE  /\ Content(k) \subseteq opened /\ IsFiniteSet(Content(k))
           /\ Cardinality(Content(k)) \in Nat
<1>1. Content(k) \subseteq opened
  BY SocksAssumption DEF Content, Open, SocketOK
<1>2. IsFiniteSet(opened)
  BY DEF SocketOK
<1> QED
  BY <1>1, <1>2, FS_Subset, FS_CardinalityType

(* A step of others makes a list longer by no more than the sockets it opens. *)
LEMMA GrowthLemma ==
    ASSUME SocketOK, WitnessOK, Machine, NEW k
    PROVE  /\ Growth \in Nat /\ Growth' \in Nat /\ Growth <= Growth'
           /\ Cardinality(Content(k)) \in Nat /\ Cardinality(Content(k)') \in Nat
           /\ Cardinality(Content(k)') + Growth <= Cardinality(Content(k)) + Growth'
<1>1. PICK new \in SUBSET (Socks \ opened) :
           /\ new = {} \/ \E s : new = {s}
           /\ opened' = opened \cup new
           /\ \A s \in Socks : Open(s)' => Open(s) \/ s \in new
  BY MachineSteps
<1>2. UNCHANGED <<before, platform>> /\ SocketOK'
  BY MachineSteps
<1>3. Content(k)' \subseteq Content(k) \cup new
  <2>1. Tables' = Tables
    BY <1>2 DEF Tables
  <2> QED
    BY <1>1, <2>1 DEF Content
<1>4. /\ IsFiniteSet(opened \ before) /\ IsFiniteSet(Content(k))
      /\ Growth \in Nat /\ Cardinality(Content(k)) \in Nat
  BY ContentLemma, FS_Subset, FS_CardinalityType DEF SocketOK, Growth
<1>5. CASE new = {}
  <2>1. opened' = opened /\ Content(k)' \subseteq Content(k) /\ Growth' = Growth
    BY <1>1, <1>2, <1>3, <1>5 DEF Growth
  <2>2. Cardinality(Content(k)') <= Cardinality(Content(k)) /\ Cardinality(Content(k)') \in Nat
    BY <1>4, <2>1, FS_Subset, FS_CardinalityType
  <2> QED
    BY <1>4, <2>1, <2>2
<1>6. CASE \E s : new = {s}
  <2>1. PICK s : new = {s}
    BY <1>6
  <2>2. opened' \ before' = (opened \ before) \cup {s} /\ s \notin opened \ before
    BY <1>1, <1>2, <2>1 DEF WitnessOK
  <2>3. Growth' = Growth + 1
    BY <1>4, <2>2, FS_AddElement DEF Growth
  <2>4. /\ IsFiniteSet(Content(k) \cup {s})
        /\ Cardinality(Content(k) \cup {s}) \in {Cardinality(Content(k)), Cardinality(Content(k)) + 1}
    BY <1>4, FS_AddElement
  <2>5. Cardinality(Content(k)') <= Cardinality(Content(k) \cup {s}) /\ Cardinality(Content(k)') \in Nat
    BY <1>3, <2>1, <2>4, FS_Subset, FS_CardinalityType
  <2> QED
    BY <1>4, <2>3, <2>4, <2>5
<1> QED
  BY <1>1, <1>5, <1>6

(* What the machine does meanwhile keeps the invariant: no property is about who
   has a socket or a pid now, but about what was read and what was there. *)
LEMMA MachineLemma ==
    ASSUME IInv, pc \notin {"done", "failed"}, Machine
    PROVE  IInv'
<1>0. SocketOK /\ SocketTypeOK /\ ProcTypeOK /\ WitnessOK /\ PlaceOK /\ TypeOK
  BY DEF IInv, SocketOK, SocketTypeOK
<1>1. /\ UNCHANGED <<size, tries, loaded, missed, found, cache, handle, pids, fds, hit, meta, rows>>
      /\ UNCHANGED <<platform, before, foreign, pc>>
  BY <1>0, MachineSteps DEF scanVars, tableVars, windowsVars, darwinVars
<1>2. /\ SocketOK' /\ Witness /\ births \in Nat /\ births' \in Nat /\ births <= births'
      /\ births' <= MaxBirths
      /\ \A i \in Born : pidOf'[i] = pidOf[i] /\ i \in Born' /\ i \in Incs
      /\ \A i \in Pinned, pid \in Pids : Holds(i, pid) => Holds(i, pid)'
      /\ opened \subseteq opened'
  BY <1>0, MachineSteps
<1>3. Tables' = Tables
  BY <1>1 DEF Tables
<1>4. TypeOK'
  <2>1. SocketTypeOK'
    BY <1>2 DEF SocketOK
  <2> QED
    BY <1>0, <1>1, <1>2, <2>1 DEF TypeOK
<1>5. WitnessOK'
  <2>1. ASSUME pc # "idle"
        PROVE  /\ present' = present \cup {i \in Incs : There(i)'}
               /\ up' = {s \in up : \E i \in Incs, n \in Fds : fdt'[i][n] = s}
    BY <1>2, <2>1 DEF Witness
  <2>2. \A i \in Incs : There(i)' => i \in Born'
    <3>1. \A i \in Incs : life'[i] = "unborn" <=> i > births'
      BY <1>2 DEF SocketOK, ProcOK
    <3> QED
      BY <1>2, <3>1 DEF There
  <2>3. ASSUME pc # "idle"
        PROVE  present' \subseteq Born' /\ \A i \in Incs : There(i)' => i \in present'
    BY <1>0, <1>2, <2>1, <2>2, <2>3 DEF WitnessOK
  <2>4. ASSUME pc # "idle"
        PROVE  \A s \in up' : s \in Socks /\ Open(s)'
    BY <1>0, <2>1, <2>4 DEF WitnessOK, Open
  <2>5. before' \subseteq opened'
    BY <1>0, <1>1, <1>2 DEF WitnessOK
  <2> QED
    BY <1>1, <2>3, <2>4, <2>5 DEF WitnessOK
<1>6. ASSUME pc # "idle", NEW i, NEW pid, OfPid(i, pid)
      PROVE  OfPid(i, pid)'
  <2>1. i \in Born /\ i \in present'
    BY <1>0, <1>2, <1>6 DEF WitnessOK, OfPid, Witness
  <2> QED
    BY <1>2, <1>6, <2>1 DEF OfPid
<1>7. up' \subseteq up
  BY <1>2 DEF Witness
<1>8. PlaceOK'
  BY <1>0, <1>1, <1>3 DEF PlaceOK, Passing, OnWindows
<1>9. FoundOK' /\ OnceOK'
  BY <1>1, <1>3, <1>7 DEF IInv, FoundOK, OnceOK, ThereIsListed, ListedOnce, PassedOver, Shown,
     ListRead, OnWindows, Key
<1>10. RowsOK'
  <2>1. \A info, pid : pc # "idle" /\ InfoOK(info, pid) => InfoOK(info, pid)'
    BY <1>6 DEF InfoOK
  <2>2. \A k \in DOMAIN rows : IF rows[k].pid = 0 THEN rows[k].info = NoInfo
                               ELSE InfoOK(rows[k].info, rows[k].pid)'
    BY <1>0, <1>1, <2>1 DEF IInv, PlaceOK, RowsOK
  <2>3. \A k, l \in DOMAIN rows : rows[k].pid = rows[l].pid => rows[k].info = rows[l].info
    BY DEF IInv, RowsOK
  <2>4. ASSUME OnWindows PROVE WindowsOK'
    <3>0. WindowsOK
      BY <2>4 DEF IInv, RowsOK
    <3>1. \A k \in DOMAIN found : found[k].of \in present /\ pidOf'[found[k].of] = pidOf[found[k].of]
                                  /\ pc # "idle" /\ found[k].of \in present'
      BY <1>0, <1>2, <3>0 DEF WindowsOK, WitnessOK, PlaceOK, Witness, Passing
    <3>2. ASSUME pc = "peb"
          PROVE  Owner' = Owner /\ Owner \in Pids /\ Holds(handle, Owner)'
      <4>1. found # <<>> /\ found \in Seq(Found) /\ 1 \in DOMAIN found
            /\ Head(found) = found[1] /\ found[1] \in Found
        BY <1>0, <3>2 DEF PlaceOK
      <4>2. Owner' = Owner
        BY <1>1, <3>1, <4>1 DEF Owner
      <4>3. Owner \in Pids
        <5>1. found[1].of \in Incs /\ pidOf \in [Incs -> Pids]
          BY <1>0, <4>1 DEF Found, ProcTypeOK
        <5> QED
          BY <4>1, <5>1 DEF Owner
      <4>4. handle \in Pinned
        BY <1>0, <3>2 DEF TypeOK, Pinned
      <4> QED
        <5>1. Holds(handle, Owner)
          BY <3>0, <3>2 DEF WindowsOK
        <5>2. handle' = handle
          BY <1>1
        <5> HIDE DEF Owner
        <5> QED
          BY <1>2, <4>2, <4>3, <4>4, <5>1, <5>2 DEF Holds
    <3>3. \A pid \in Pids : cache[pid] # Unknown => InfoOK(cache[pid], pid)'
      BY <1>0, <1>1, <2>1, <3>0 DEF WindowsOK, PlaceOK
    <3> QED
      BY <1>1, <3>0, <3>1, <3>2, <3>3 DEF WindowsOK, OfOne
  <2>5. ASSUME ~OnWindows PROVE DarwinOK'
    <3>0. DarwinOK /\ MetaOK
      BY <2>5 DEF IInv, RowsOK, DarwinOK
    <3>1. \A x : pc # "idle" /\ TrueOfHit(x) => TrueOfHit(x)'
      BY <1>1, <1>6 DEF TrueOfHit, Current
    <3>2. MetaOK'
      BY <1>0, <1>1, <3>0, <3>1 DEF MetaOK, PlaceOK, Passing
    <3> QED
      BY <1>1, <3>0, <3>2 DEF DarwinOK, Passing, Current
  <2> QED
    BY <1>1, <2>2, <2>3, <2>4, <2>5 DEF RowsOK, OnWindows
<1>11. GrowthOK'
  <2>1. Growth \in Nat /\ Growth' \in Nat /\ Growth <= Growth'
    BY <1>0, GrowthLemma
  <2>2. ASSUME pc = "fetch"
        PROVE  (Cardinality(Content(loaded + 1)) + Outgrown <= size + Growth)'
    <3>0. PICK k : k = loaded + 1
      OBVIOUS
    <3>1. Cardinality(Content(k)') + Growth <= Cardinality(Content(k)) + Growth'
      BY <1>0, GrowthLemma
    <3>2. Cardinality(Content(k)) \in Nat /\ Cardinality(Content(k)') \in Nat
      BY <1>0, GrowthLemma
    <3>3. Cardinality(Content(k)) + Outgrown <= size + Growth
      BY <2>2, <3>0 DEF IInv, GrowthOK
    <3>4. Outgrown \in Nat /\ size \in Nat
      BY <1>0, AttemptsAssumption DEF Outgrown, TypeOK
    <3>5. Outgrown' = Outgrown /\ size' = size /\ Cardinality(Content(loaded + 1))' = Cardinality(Content(k)')
      BY <1>1, <3>0 DEF Outgrown, OnWindows
    <3> QED
      BY <2>1, <3>0, <3>1, <3>2, <3>3, <3>4, <3>5
  <2>3. GaveUpOnGrowth'
    <3>1. ASSUME NEW m \in missed, m[2] = "grown"
          PROVE  Growth' >= IF platform = "windows" THEN Attempts ELSE Attempts * Slack + 1
      <4>1. Growth >= IF platform = "windows" THEN Attempts ELSE Attempts * Slack + 1
        BY <3>1 DEF IInv, GrowthOK, GaveUpOnGrowth, Growth
      <4>2. Attempts \in Nat /\ Attempts * Slack + 1 \in Nat
        BY AttemptsAssumption
      <4> QED
        BY <2>1, <4>1, <4>2
    <3> QED
      BY <1>1, <3>1 DEF GaveUpOnGrowth, Growth
  <2> QED
    BY <1>1, <2>2, <2>3 DEF IInv, GrowthOK
<1> QED
  BY <1>2, <1>4, <1>5, <1>8, <1>9, <1>10, <1>11 DEF IInv
------------------------------------------------------------------------------
(* A step of the listing leaves the machine alone. *)
LEMMA QuietLemma ==
    ASSUME IInv, Quietly, pc # "idle"
    PROVE  /\ SocketOK' /\ SocketTypeOK' /\ WitnessOK'
           /\ UNCHANGED <<births, pidOf, life, fdt, opened, changes, foreign, platform>>
           /\ UNCHANGED <<up, present, before>>
           /\ Tables' = Tables /\ Growth' = Growth /\ \A k : Content(k)' = Content(k)
<1>1. /\ UNCHANGED <<births, pidOf, life, fdt, opened, changes, foreign, platform>>
      /\ UNCHANGED <<up, present, before>>
  BY DEF Quietly, Listing, procVars, sockVars, history
<1>2. ProcOK'
  BY <1>1 DEF IInv, SocketOK, ProcOK, ProcTypeOK, Holds, Succession
<1>3. SocketTypeOK'
  BY <1>1, <1>2 DEF IInv, SocketOK, SocketTypeOK, ProcOK
<1>4. WitnessOK'
  BY <1>1 DEF IInv, WitnessOK, There, Open
<1>5. Tables' = Tables /\ Growth' = Growth /\ \A k : Content(k)' = Content(k)
  BY <1>1 DEF Tables, Growth, Content, Open
<1> QED
  BY <1>1, <1>2, <1>3, <1>4, <1>5 DEF IInv, SocketOK

(* The listing begins. *)
LEMMA BeginLemma ==
    ASSUME IInv, Begin
    PROVE  IInv'
<1>1. /\ pc = "idle" /\ pc' = IF platform = "windows" THEN "ask" ELSE "pids"
      /\ UNCHANGED <<births, pidOf, life, fdt, opened, changes, foreign, platform>>
      /\ UNCHANGED <<tries, loaded, missed, found, cache, handle, pids, fds, hit, meta, rows>>
      /\ before' = opened
      /\ up' = {s \in Socks : Open(s)} /\ present' = {i \in Incs : There(i)}
      /\ size' = IF platform = "windows" THEN 0 ELSE Cardinality({i \in Incs : There(i)})
  BY DEF Begin, Goto, Listing, procVars, sockVars, windowsVars, darwinVars, StartWitness
<1>2. /\ SocketOK /\ ProcOK /\ ProcTypeOK /\ TypeOK /\ PlaceOK
      /\ loaded = 0 /\ missed = {} /\ found = <<>> /\ rows = <<>> /\ hit = <<>> /\ tries = 0
      /\ cache = [pid \in Pids |-> Unknown]
  BY <1>1 DEF IInv, SocketOK, ProcOK, PlaceOK, Passing, GrowthOK
<1>3. ProcOK'
  BY <1>1, <1>2 DEF ProcOK, ProcTypeOK, Holds, Succession
<1>4. SocketTypeOK' /\ SocketOK'
  BY <1>1, <1>2, <1>3 DEF SocketOK, SocketTypeOK, ProcOK
<1>5. size' \in Nat
  <2>1. IsFiniteSet(Incs)
    BY FS_Interval, MaxBirthsAssumption
  <2> QED
    BY <1>1, <2>1, FS_Subset, FS_CardinalityType
<1>6. platform \in {"darwin", "windows"}
  BY <1>2, PlatformsAssumption DEF TypeOK
<1>7. TypeOK'
  BY <1>1, <1>2, <1>4, <1>5 DEF TypeOK
<1>8. WitnessOK'
  <2>1. \A i \in Incs : There(i) => i \in Born
    <3>1. births \in Nat /\ \A i \in Incs : life[i] = "unborn" <=> i > births
      BY <1>2, MaxBirthsAssumption DEF ProcOK, ProcTypeOK
    <3> QED
      BY <3>1, MaxBirthsAssumption DEF There
  <2> QED
    BY <1>1, <2>1 DEF WitnessOK, There, Open
<1>9. PlaceOK'
  BY <1>1, <1>2, <1>6 DEF PlaceOK, Passing, OnWindows, Tables
<1>10. FoundOK' /\ OnceOK'
  BY <1>1, <1>2 DEF FoundOK, OnceOK, ThereIsListed, ListedOnce, ListRead
<1>11. RowsOK'
  BY <1>1, <1>2 DEF RowsOK, WindowsOK, DarwinOK, MetaOK, Passing
<1>12. GrowthOK'
  BY <1>1, <1>2 DEF GrowthOK, GaveUpOnGrowth
<1> QED
  BY <1>4, <1>7, <1>8, <1>9, <1>10, <1>11, <1>12 DEF IInv

------------------------------------------------------------------------------
(* The lists. *)
TableStep ==
    /\ pc \in {"ask", "fetch"} /\ Quietly
    /\ pc' \in {"ask", "fetch", "row", "failed"} /\ (pc' = "row" => OnWindows)
    /\ UNCHANGED <<windowsVars, darwinVars, rows>>

(* Reading a list disturbs neither the rows nor what is known of processes. *)
LEMMA TableStepLemma ==
    ASSUME IInv, TableStep, found' \in Seq(Found),
           OnWindows => \A k \in DOMAIN found' : found'[k].of \in present
    PROVE  RowsOK'
<1>1. /\ UNCHANGED <<births, pidOf, life, present, platform, cache, handle, pids, fds, hit, meta, rows>>
      /\ pc \in {"ask", "fetch"} /\ pc' \in {"ask", "fetch", "row", "failed"}
  BY QuietLemma DEF TableStep, windowsVars, darwinVars
<1>2. hit = <<>>
  BY <1>1 DEF IInv, PlaceOK, Passing
<1>3. \A info, pid : InfoOK(info, pid) => InfoOK(info, pid)'
  BY <1>1 DEF InfoOK, OfPid
<1>4. OnWindows => WindowsOK'
  BY <1>1, <1>3 DEF IInv, RowsOK, WindowsOK, OfOne
<1>5. DarwinOK'
  BY <1>1, <1>2 DEF DarwinOK, MetaOK, Passing
<1> QED
  BY <1>1, <1>3, <1>4, <1>5 DEF IInv, RowsOK, OnWindows

(* One list more has been read or passed over. *)
LEMMA ListReadLemma ==
    ASSUME TypeOK, Tables' = Tables, loaded' = loaded + 1, NEW s
    PROVE  ListRead(s)' <=> ListRead(s) \/ TableOf[s] \in Tables[loaded + 1]
<1>1. loaded \in Nat
  BY DEF TypeOK
<1>2. 1 .. loaded' = (1 .. loaded) \cup {loaded + 1}
  BY <1>1
<1> QED
  BY <1>2 DEF ListRead

(* Windows has four lists, macOS two. *)
LEMMA TablesLemma ==
    ASSUME TypeOK
    PROVE  /\ Len(Tables) = IF OnWindows THEN 4 ELSE 2
           /\ OnWindows => Tables = <<{"tcp"}, {"tcp6"}, {"udp"}, {"udp6"}>>
           /\ ~OnWindows => Tables = <<{"tcp", "tcp6"}, {"udp", "udp6"}>> /\ platform = "darwin"
BY PlatformsAssumption DEF TypeOK, OnWindows, Tables

(* What a size query says has been there. *)
LEMMA AskSizeLemma ==
    ASSUME IInv, AskSize
    PROVE  IInv'
<1>1. /\ pc = "ask" /\ pc' = "fetch" /\ TableStep /\ Quietly
      /\ size' = Cardinality(Content(loaded + 1))
      /\ UNCHANGED <<tries, loaded, missed, found, cache, handle, pids, fds, hit, meta, rows>>
  BY DEF AskSize, Reading, Goto, TableStep, windowsVars, darwinVars
<1>2. /\ SocketOK' /\ SocketTypeOK' /\ WitnessOK'
      /\ UNCHANGED <<births, pidOf, life, fdt, opened, changes, foreign, platform, up, present, before>>
      /\ Tables' = Tables /\ Growth' = Growth /\ \A k : Content(k)' = Content(k)
  BY <1>1, QuietLemma
<1>3. TypeOK /\ PlaceOK /\ SocketOK /\ WitnessOK /\ RowsOK /\ tries = 0
  BY <1>1 DEF IInv, GrowthOK
<1>4. Cardinality(Content(loaded + 1)) \in Nat /\ Growth \in Nat
  <2>1. IsFiniteSet(opened \ before)
    BY <1>3, FS_Subset DEF SocketOK
  <2> QED
    BY <1>3, <2>1, ContentLemma, FS_CardinalityType DEF Growth
<1>5. TypeOK'
  BY <1>1, <1>2, <1>3, <1>4 DEF TypeOK
<1>6. PlaceOK'
  BY <1>1, <1>2, <1>3 DEF PlaceOK, Passing, OnWindows
<1>7. FoundOK' /\ OnceOK'
  BY <1>1, <1>2 DEF IInv, FoundOK, OnceOK, ThereIsListed, ListedOnce, PassedOver, Shown,
     ListRead, OnWindows, Key
<1>8. RowsOK'
  <2>1. OnWindows => \A k \in DOMAIN found : found[k].of \in present
    BY <1>3 DEF RowsOK, WindowsOK
  <2> QED
    BY <1>1, <1>3, <2>1, TableStepLemma DEF PlaceOK
<1>9. GrowthOK'
  <2>1. Outgrown' = 0
    BY <1>1, <1>3, AttemptsAssumption DEF Outgrown
  <2>2. (Cardinality(Content(loaded + 1)) + Outgrown <= size + Growth)'
    BY <1>1, <1>2, <1>4, <2>1
  <2> QED
    BY <1>1, <1>2, <2>2 DEF IInv, GrowthOK, GaveUpOnGrowth
<1> QED
  BY <1>2, <1>5, <1>6, <1>7, <1>8, <1>9 DEF IInv

(* There are at most four lists. *)
LEMMA PlaceToReadLemma ==
    ASSUME TypeOK, loaded < Len(Tables)
    PROVE  loaded \in Nat /\ loaded \in 0 .. 3 /\ loaded + 1 \in 1 .. 4 /\ loaded + 1 <= Len(Tables)
<1>1. PICK n : n = Len(Tables)
  OBVIOUS
<1>2. n = 4 \/ n = 2
  BY <1>1, TablesLemma
<1>3. loaded \in 0 .. 4 /\ loaded < n
  BY <1>1 DEF TypeOK
<1>4. loaded \in 0 .. 3 /\ loaded + 1 <= n
  BY <1>2, <1>3
<1> QED
  BY <1>1, <1>4

(* One list more, of which nothing more is known: it was empty or passed over. *)
LEMMA NextListLemma ==
    ASSUME IInv, TableStep, pc' \in {"ask", "row"}, loaded < Len(Tables), NextList(pc'),
           missed \subseteq missed', missed' \subseteq missed \cup {<<loaded + 1, "error">>, <<loaded + 1, "grown">>},
           GaveUpOnGrowth', found' = found, pc' = "row" => OnWindows,
           \A s \in up : TableOf[s] \in Tables[loaded + 1] => PassedOver(s)'
    PROVE  IInv'
<1>1. /\ pc \in {"ask", "fetch"} /\ loaded' = loaded + 1 /\ tries' = 0 /\ size' = 0 /\ Quietly
      /\ UNCHANGED <<found, cache, handle, pids, fds, hit, meta, rows>>
  BY DEF TableStep, NextList, windowsVars, darwinVars
<1>2. /\ SocketOK' /\ SocketTypeOK' /\ WitnessOK'
      /\ UNCHANGED <<births, pidOf, life, fdt, opened, changes, foreign, platform, up, present, before>>
      /\ Tables' = Tables /\ Growth' = Growth /\ \A k : Content(k)' = Content(k)
  BY <1>1, QuietLemma
<1>3. TypeOK /\ PlaceOK /\ RowsOK /\ loaded \in 0 .. 3 /\ loaded + 1 <= Len(Tables) /\ loaded \in Nat
  BY PlaceToReadLemma DEF IInv
<1>4. TypeOK'
  <2>1. missed' \subseteq (1 .. 4) \X {"error", "grown"}
    BY <1>3 DEF TypeOK
  <2> QED
    BY <1>1, <1>2, <1>3, <2>1, AttemptsAssumption DEF TypeOK
<1>5. PlaceOK'
  BY <1>1, <1>2, <1>3 DEF PlaceOK, Passing, OnWindows
<1>6. FoundOK'
  <2>1. \A s : PassedOver(s) => PassedOver(s)'
    BY <1>2 DEF PassedOver
  <2>2. \A s : Shown(s)' <=> Shown(s)
    BY <1>1 DEF Shown
  <2>3. \A s : ListRead(s)' <=> ListRead(s) \/ TableOf[s] \in Tables[loaded + 1]
    BY <1>1, <1>2, <1>3, ListReadLemma
  <2> QED
    BY <1>1, <1>2, <2>1, <2>2, <2>3 DEF IInv, FoundOK, ThereIsListed
<1>7. OnceOK'
  <2>1. \A s : ListRead(s) => ListRead(s)'
    BY <1>1, <1>2, <1>3, ListReadLemma
  <2> QED
    BY <1>1, <1>2, <2>1 DEF IInv, OnceOK, ListedOnce, OnWindows, Key
<1>8. RowsOK'
  <2>1. OnWindows => \A k \in DOMAIN found : found[k].of \in present
    BY <1>3 DEF RowsOK, WindowsOK
  <2> QED
    BY <1>1, <1>3, <2>1, TableStepLemma DEF PlaceOK
<1>9. GrowthOK'
  BY <1>1 DEF GrowthOK
<1> QED
  BY <1>2, <1>4, <1>5, <1>6, <1>7, <1>8, <1>9 DEF IInv

(* A list without sockets misses none. *)
LEMMA NothingThereLemma ==
    ASSUME IInv, NothingThere
    PROVE  IInv'
<1>1. /\ pc = "ask" /\ pc' = "ask" /\ TableStep /\ Quietly /\ loaded < Len(Tables) /\ NextList(pc')
      /\ missed' = missed /\ found' = found /\ Content(loaded + 1) = {}
  BY DEF NothingThere, Reading, NextList, Goto, TableStep
<1>2. platform' = platform /\ Growth' = Growth
  BY <1>1, QuietLemma
<1>3. \A s \in up : TableOf[s] \notin Tables[loaded + 1]
  BY <1>1 DEF IInv, WitnessOK, Content
<1>4. GaveUpOnGrowth'
  BY <1>1, <1>2 DEF IInv, GrowthOK, GaveUpOnGrowth, Growth
<1> QED
  BY <1>1, <1>3, <1>4, NextListLemma

(* What a list that outgrew the last attempt shows. *)
LEMMA OutgrownLemma ==
    ASSUME IInv, pc = "fetch", ~Fits
    PROVE  /\ Growth \in Nat /\ size \in Nat /\ tries \in Nat /\ Room \in Nat
           /\ OnWindows => Cardinality(Content(loaded + 1)) \in Nat /\ tries + 1 <= Growth
           /\ ~OnWindows => tries * Slack + Slack + 1 <= Growth
           /\ Cardinality(Content(loaded + 1)) + Outgrown <= size + Growth
<1>1. /\ SocketOK /\ WitnessOK /\ size \in Nat /\ tries \in Nat /\ Slack \in Nat
      /\ platform \in {"darwin", "windows"}
  BY AttemptsAssumption, PlatformsAssumption DEF IInv, TypeOK
<1>2. Cardinality(Content(loaded + 1)) \in Nat /\ Growth \in Nat
  <2>1. IsFiniteSet(opened \ before)
    BY <1>1, FS_Subset DEF SocketOK
  <2> QED
    BY <1>1, <2>1, ContentLemma, FS_CardinalityType DEF Growth
<1>3. Cardinality(Content(loaded + 1)) + Outgrown <= size + Growth
  BY DEF IInv, GrowthOK
<1>4. Room = (IF OnWindows THEN size ELSE size + Slack) /\ Cardinality(Content(loaded + 1)) > Room
  BY <1>1, <1>2 DEF Fits, Room, OnWindows
<1>5. tries * Slack \in Nat
  BY <1>1
<1> QED
  BY <1>1, <1>2, <1>3, <1>4, <1>5 DEF Outgrown

(* A list passed over, or failed: as too large only after it outgrew every read. *)
LEMMA MissLemma ==
    ASSUME IInv, ReadFails \/ GiveUp
    PROVE  IInv'
<1>1. PICK why \in {"error", "grown"} :
          /\ Miss(why) /\ pc \in {"ask", "fetch"} /\ loaded < Len(Tables)
          /\ why = "grown" => pc = "fetch" /\ ~Fits /\ tries = Attempts - 1
  BY DEF ReadFails, GiveUp, Reading
<1>2. /\ missed' = missed \cup {<<loaded + 1, why>>} /\ Quietly
      /\ UNCHANGED <<found, windowsVars, darwinVars, rows>>
      /\ \/ OnWindows /\ pc' = "failed" /\ UNCHANGED <<size, tries, loaded>>
         \/ ~OnWindows /\ pc' = "ask" /\ NextList("ask")
  BY <1>1 DEF Miss, Goto, NextList, OnWindows
<1>3. /\ SocketOK' /\ SocketTypeOK' /\ WitnessOK'
      /\ UNCHANGED <<births, pidOf, life, fdt, opened, changes, foreign, platform, up, present, before>>
      /\ Tables' = Tables /\ Growth' = Growth /\ \A k : Content(k)' = Content(k)
  BY <1>1, <1>2, QuietLemma
<1>4. TableStep
  BY <1>1, <1>2 DEF TableStep
<1>5. GaveUpOnGrowth'
  <2>1. ASSUME why = "grown"
        PROVE  Growth >= IF platform = "windows" THEN Attempts ELSE Attempts * Slack + 1
    <3>1. /\ Growth \in Nat /\ tries \in Nat
          /\ OnWindows => tries + 1 <= Growth
          /\ ~OnWindows => tries * Slack + Slack + 1 <= Growth
      BY <1>1, <2>1, OutgrownLemma
    <3>2. tries = Attempts - 1 /\ Attempts \in Nat /\ Slack \in Nat
      BY <1>1, <2>1, AttemptsAssumption
    <3>3. tries * Slack + Slack = Attempts * Slack
      BY <3>1, <3>2
    <3> QED
      BY <3>1, <3>2, <3>3 DEF OnWindows
  <2> QED
    BY <1>2, <1>3, <2>1 DEF IInv, GrowthOK, GaveUpOnGrowth, Growth
<1>6. CASE ~OnWindows /\ pc' = "ask" /\ NextList("ask")
  <2>1. \A s \in up : TableOf[s] \in Tables[loaded + 1] => PassedOver(s)'
    <3>1. PICK m : m = <<loaded + 1, why>>
      OBVIOUS
    <3>2. m \in missed' /\ m[1] = loaded + 1
      BY <1>2, <3>1
    <3>3. UNCHANGED Tables
      BY <1>3
    <3> QED
      BY <3>2, <3>3 DEF PassedOver
  <2> QED
    BY <1>1, <1>2, <1>4, <1>5, <1>6, <2>1, NextListLemma
<1>7. CASE OnWindows /\ pc' = "failed" /\ UNCHANGED <<size, tries, loaded>>
  <2>1. TypeOK /\ PlaceOK /\ RowsOK /\ UNCHANGED <<cache, handle, pids, fds, hit, meta, rows>>
    BY <1>2 DEF IInv, windowsVars, darwinVars
  <2>2. TypeOK'
    <3>1. loaded + 1 \in 1 .. 4
      BY <1>1, <2>1, PlaceToReadLemma
    <3>2. missed' \subseteq (1 .. 4) \X {"error", "grown"}
      BY <1>2, <2>1, <3>1 DEF TypeOK
    <3> QED
      BY <1>1, <1>2, <1>3, <1>7, <2>1, <3>2 DEF TypeOK
  <2>3. PlaceOK'
    BY <1>1, <1>2, <1>3, <1>7, <2>1 DEF PlaceOK, Passing, OnWindows
  <2>4. FoundOK'
    <3>1. \A s : PassedOver(s) => PassedOver(s)'
      BY <1>2, <1>3 DEF PassedOver
    <3> QED
      BY <1>2, <1>3, <1>7, <3>1 DEF IInv, FoundOK, ThereIsListed, Shown, ListRead
  <2>5. OnceOK'
    BY <1>2, <1>3, <1>7 DEF IInv, OnceOK, ListedOnce, OnWindows, Key, ListRead
  <2>6. RowsOK'
    <3>1. OnWindows => \A k \in DOMAIN found : found[k].of \in present
      BY <2>1 DEF RowsOK, WindowsOK
    <3> QED
      BY <1>2, <1>4, <2>1, <3>1, TableStepLemma DEF PlaceOK
  <2>7. GrowthOK'
    BY <1>5, <1>7 DEF GrowthOK
  <2> QED
    BY <1>3, <2>2, <2>3, <2>4, <2>5, <2>6, <2>7 DEF IInv
<1> QED
  BY <1>2, <1>6, <1>7

(* Another attempt: each is paid for by a socket opened since the last. *)
LEMMA RetryLemma ==
    ASSUME IInv, Retry
    PROVE  IInv'
<1>1. /\ pc = "fetch" /\ pc' = "fetch" /\ ~Fits /\ TableStep /\ Quietly
      /\ tries < Attempts - 1 /\ tries' = tries + 1
      /\ size' = IF OnWindows THEN Cardinality(Content(loaded + 1)) ELSE Room
      /\ UNCHANGED <<loaded, missed, found, cache, handle, pids, fds, hit, meta, rows>>
  BY DEF Retry, Reading, TableStep, OnWindows, windowsVars, darwinVars
<1>2. /\ SocketOK' /\ SocketTypeOK' /\ WitnessOK'
      /\ UNCHANGED <<births, pidOf, life, fdt, opened, changes, foreign, platform, up, present, before>>
      /\ Tables' = Tables /\ Growth' = Growth /\ \A k : Content(k)' = Content(k)
  BY <1>1, QuietLemma
<1>3. TypeOK /\ PlaceOK /\ RowsOK
  BY DEF IInv
<1>4. /\ Growth \in Nat /\ size \in Nat /\ tries \in Nat /\ Room \in Nat /\ size' \in Nat
      /\ OnWindows => Cardinality(Content(loaded + 1)) \in Nat /\ tries + 1 <= Growth
      /\ Cardinality(Content(loaded + 1)) + Outgrown <= size + Growth
  BY <1>1, OutgrownLemma
<1>5. TypeOK'
  BY <1>1, <1>2, <1>3, <1>4, AttemptsAssumption DEF TypeOK
<1>6. PlaceOK'
  BY <1>1, <1>2, <1>3 DEF PlaceOK, Passing, OnWindows
<1>7. FoundOK' /\ OnceOK'
  BY <1>1, <1>2 DEF IInv, FoundOK, OnceOK, ThereIsListed, ListedOnce, PassedOver, Shown,
     ListRead, OnWindows, Key
<1>8. RowsOK'
  <2>1. OnWindows => \A k \in DOMAIN found : found[k].of \in present
    BY <1>3 DEF RowsOK, WindowsOK
  <2> QED
    BY <1>1, <1>3, <2>1, TableStepLemma DEF PlaceOK
<1>9. GrowthOK'
  <2>1. OnWindows' = OnWindows /\ Cardinality(Content(loaded + 1))' = Cardinality(Content(loaded + 1))
    BY <1>1, <1>2 DEF OnWindows
  <2>2. CASE OnWindows
    BY <1>1, <1>2, <1>4, <2>1, <2>2 DEF IInv, GrowthOK, GaveUpOnGrowth, Outgrown
  <2>3. CASE ~OnWindows
    <3>1. size' = size + Slack /\ Slack \in Nat
      BY <1>1, <2>3, AttemptsAssumption DEF Room, OnWindows
    <3>2. Outgrown = tries * Slack /\ Outgrown' = (tries + 1) * Slack /\ Outgrown' = Outgrown + Slack
      BY <1>1, <1>4, <2>1, <2>3, <3>1 DEF Outgrown
    <3>3. Cardinality(Content(loaded + 1)) \in Nat
      BY ContentLemma DEF IInv
    <3>4. Outgrown \in Nat
      BY <1>4, <3>1, <3>2
    <3>5. (Cardinality(Content(loaded + 1)) + Outgrown <= size + Growth)'
      BY <1>2, <1>4, <2>1, <3>1, <3>2, <3>3, <3>4
    <3> QED
      BY <1>1, <1>2, <3>5 DEF IInv, GrowthOK, GaveUpOnGrowth
  <2> QED
    BY <2>2, <2>3
<1> QED
  BY <1>2, <1>5, <1>6, <1>7, <1>8, <1>9 DEF IInv

(* What a place in a concatenation holds. *)
LEMMA ConcatLemma ==
    ASSUME NEW T, NEW f \in Seq(T), NEW g \in Seq(T), NEW h, h = f \o g
    PROVE  /\ h \in Seq(T)
           /\ \A k \in DOMAIN f : k \in DOMAIN h /\ h[k] = f[k]
           /\ \A k \in DOMAIN g : \E l \in DOMAIN h : l = Len(f) + k /\ h[l] = g[k]
           /\ \A k \in DOMAIN h :
                 \/ k \in DOMAIN f /\ h[k] = f[k]
                 \/ \E l \in DOMAIN g : k = Len(f) + l /\ l = k - Len(f) /\ h[k] = g[l]
<1>1. /\ h \in Seq(T) /\ Len(h) = Len(f) + Len(g) /\ Len(f) \in Nat /\ Len(g) \in Nat
      /\ \A k \in 1 .. Len(f) + Len(g) : h[k] = IF k <= Len(f) THEN f[k] ELSE g[k - Len(f)]
  BY ConcatProperties
<1>2. DOMAIN f = 1 .. Len(f) /\ DOMAIN g = 1 .. Len(g) /\ DOMAIN h = 1 .. Len(f) + Len(g)
  BY <1>1
<1>3. \A k \in DOMAIN f : k \in DOMAIN h /\ h[k] = f[k]
  BY <1>1, <1>2
<1>4. ASSUME NEW k \in DOMAIN g
      PROVE  Len(f) + k \in DOMAIN h /\ h[Len(f) + k] = g[k]
  <2>1. Len(f) + k \in 1 .. Len(f) + Len(g) /\ (Len(f) + k) - Len(f) = k /\ ~(Len(f) + k <= Len(f))
    BY <1>1, <1>2
  <2> QED
    BY <1>1, <1>2, <2>1
<1>5. ASSUME NEW k \in DOMAIN h, k \notin DOMAIN f
      PROVE  /\ k - Len(f) \in DOMAIN g /\ k = Len(f) + (k - Len(f)) /\ h[k] = g[k - Len(f)]
  BY <1>1, <1>2, <1>5
<1> QED
  BY <1>1, <1>3, <1>4, <1>5

(* A list that is read has each of its sockets once, with a process that has it. *)
LEMMA ReadLemma ==
    ASSUME IInv, pc # "idle", NEW k, NEW S, S = Content(k), NEW R, R = Read(S)
    PROVE  /\ R \in Seq(Found)
           /\ \A n \in DOMAIN R : R[n].sock \in S /\ R[n].of \in present
           /\ \A n, m \in DOMAIN R : R[n].sock = R[m].sock => n = m
           /\ \A s \in S : \E n \in DOMAIN R : R[n].sock = s
<1>1. /\ IsFiniteSet(S) /\ S \subseteq Socks /\ SocketOK
      /\ \A i \in Incs : There(i) => i \in present
      /\ \A s \in S : Open(s)
  BY ContentLemma DEF IInv, WitnessOK, Content
<1>2. ASSUME NEW s \in S
      PROVE  OwnerOf(s) \in Incs /\ OwnerOf(s) \in present
  <2>1. PICK I : I = {i \in Incs : \E n \in Fds : fdt[i][n] = s}
    OBVIOUS
  <2>2. I # {} /\ I \in SUBSET Nat
    BY <1>1, <2>1, MaxBirthsAssumption DEF Open
  <2>3. Least(I) \in I
    BY <2>2, LeastLemma
  <2>4. s # 0
    BY <1>1, SocksAssumption
  <2>5. \A i \in I : life[i] = "running"
    BY <1>1, <2>1, <2>4 DEF SocketOK
  <2>6. OwnerOf(s) \in I
    BY <2>1, <2>3 DEF OwnerOf
  <2> QED
    BY <1>1, <2>1, <2>5, <2>6 DEF There
<1>3. PICK c, f : c = Cardinality(S) /\ f = SetToSeq(S)
  OBVIOUS
<1>4. /\ c \in Nat /\ f \in [1 .. c -> S]
      /\ \A n, m \in 1 .. c : f[n] = f[m] => n = m
      /\ \A x \in S : \E n \in 1 .. c : f[n] = x
  BY <1>1, <1>3, SetToSeqLemma
<1>5. R = [n \in 1 .. c |-> [sock |-> f[n], of |-> OwnerOf(f[n])]]
  BY <1>3 DEF Read
<1>6. DOMAIN R = 1 .. c /\ \A n \in 1 .. c : R[n].sock = f[n] /\ R[n].of = OwnerOf(f[n]) /\ f[n] \in S
  BY <1>4, <1>5
<1>7. R \in [1 .. c -> Found]
  BY <1>1, <1>2, <1>4, <1>5 DEF Found
<1>8. R \in Seq(Found)
  BY <1>4, <1>7
<1>9. \A n \in DOMAIN R : R[n].sock \in S /\ R[n].of \in present
  BY <1>2, <1>6
<1>10. \A n, m \in DOMAIN R : R[n].sock = R[m].sock => n = m
  BY <1>4, <1>6
<1>11. \A s \in S : \E n \in DOMAIN R : R[n].sock = s
  BY <1>4, <1>6
<1> QED
  BY <1>8, <1>9, <1>10, <1>11

(* No address family has two lists. *)
LEMMA TablesApartLemma ==
    ASSUME TypeOK, OnWindows, NEW j \in 1 .. 4, NEW k \in 1 .. 4, NEW t,
           t \in Tables[j], t \in Tables[k]
    PROVE  j = k
<1>1. Tables = <<{"tcp"}, {"tcp6"}, {"udp"}, {"udp6"}>>
  BY TablesLemma
<1>2. Tables[1] = {"tcp"} /\ Tables[2] = {"tcp6"} /\ Tables[3] = {"udp"} /\ Tables[4] = {"udp6"}
  BY <1>1
<1>3. j \in {1, 2, 3, 4} /\ k \in {1, 2, 3, 4}
  OBVIOUS
<1> QED
  BY <1>2, <1>3

(* A list that fits is read whole. *)
LEMMA FetchLemma ==
    ASSUME IInv, Fetch
    PROVE  IInv'
<1>1. /\ pc = "fetch" /\ pc' = (IF OnWindows THEN "row" ELSE "ask") /\ TableStep /\ Quietly
      /\ loaded < Len(Tables) /\ loaded' = loaded + 1 /\ tries' = 0 /\ size' = 0
      /\ found' = found \o Read(Content(loaded + 1))
      /\ UNCHANGED <<missed, cache, handle, pids, fds, hit, meta, rows>>
  BY DEF Fetch, Reading, NextList, Goto, TableStep, OnWindows, windowsVars, darwinVars
<1>2. /\ SocketOK' /\ SocketTypeOK' /\ WitnessOK'
      /\ UNCHANGED <<births, pidOf, life, fdt, opened, changes, foreign, platform, up, present, before>>
      /\ Tables' = Tables /\ Growth' = Growth /\ \A k : Content(k)' = Content(k)
  BY <1>1, QuietLemma
<1>3. /\ TypeOK /\ SocketOK /\ WitnessOK /\ PlaceOK /\ RowsOK /\ FoundOK /\ OnceOK
      /\ found \in Seq(Found)
  BY DEF IInv, PlaceOK
<1>4. loaded \in Nat /\ loaded \in 0 .. 3 /\ loaded + 1 \in 1 .. 4 /\ loaded + 1 <= Len(Tables)
  BY <1>1, <1>3, PlaceToReadLemma
<1>5. PICK S, R, next : next = loaded + 1 /\ S = Content(next) /\ R = Read(S)
  OBVIOUS
<1>6. /\ R \in Seq(Found)
      /\ \A n \in DOMAIN R : R[n].sock \in S /\ R[n].of \in present
      /\ \A n, m \in DOMAIN R : R[n].sock = R[m].sock => n = m
      /\ \A s \in S : \E n \in DOMAIN R : R[n].sock = s
  BY <1>1, <1>5, ReadLemma
<1>7. found' = found \o R
  BY <1>1, <1>5
<1>8. /\ found' \in Seq(Found)
      /\ \A k \in DOMAIN found : k \in DOMAIN found' /\ found'[k] = found[k]
      /\ \A k \in DOMAIN R : \E l \in DOMAIN found' : found'[l] = R[k]
      /\ \A k \in DOMAIN found' :
            \/ k \in DOMAIN found /\ found'[k] = found[k]
            \/ \E l \in DOMAIN R : found'[k] = R[l]
  <2>1. PICK h : h = found \o R /\ h = found'
    BY <1>7
  <2>2. /\ h \in Seq(Found)
        /\ \A k \in DOMAIN found : k \in DOMAIN h /\ h[k] = found[k]
        /\ \A k \in DOMAIN R : \E l \in DOMAIN h : l = Len(found) + k /\ h[l] = R[k]
        /\ \A k \in DOMAIN h :
              \/ k \in DOMAIN found /\ h[k] = found[k]
              \/ \E l \in DOMAIN R : k = Len(found) + l /\ l = k - Len(found) /\ h[k] = R[l]
    BY <1>3, <1>6, <2>1, ConcatLemma
  <2> QED
    BY <2>1, <2>2
<1>9. OnWindows => found' = R
  BY <1>1, <1>3, <1>6, <1>7 DEF PlaceOK
<1>10. S \subseteq opened /\ \A s \in S : s \in Socks /\ TableOf[s] \in Tables[loaded + 1]
  BY <1>3, <1>5, ContentLemma DEF Content
<1>11. \A s : ListRead(s)' <=> ListRead(s) \/ TableOf[s] \in Tables[loaded + 1]
  BY <1>1, <1>2, <1>3, ListReadLemma
<1>12. TypeOK'
  <2>1. \A k \in DOMAIN found' : found'[k].sock \in opened
    BY <1>3, <1>6, <1>8, <1>10 DEF TypeOK
  <2> QED
    BY <1>1, <1>2, <1>3, <1>4, <2>1, AttemptsAssumption DEF TypeOK
<1>13. PlaceOK'
  BY <1>1, <1>2, <1>3, <1>4, <1>8 DEF PlaceOK, Passing, OnWindows
<1>14. FoundOK'
  <2>1. ASSUME NEW s \in up, ListRead(s)'
        PROVE  PassedOver(s) \/ Shown(s) \/ \E k \in DOMAIN found' : found'[k].sock = s
    <3>1. CASE ListRead(s)
      BY <1>3, <1>8, <3>1 DEF FoundOK
    <3>2. CASE TableOf[s] \in Tables[loaded + 1]
      <4>1. s \in S
        BY <1>1, <1>3, <1>5, <3>2 DEF WitnessOK, Content
      <4> QED
        BY <1>6, <1>8, <4>1
    <3> QED
      BY <1>11, <2>1, <3>1, <3>2
  <2>2. \A s : (PassedOver(s)' <=> PassedOver(s)) /\ (Shown(s)' <=> Shown(s))
    BY <1>1, <1>2 DEF PassedOver, Shown
  <2> QED
    BY <1>1, <1>2, <2>1, <2>2 DEF FoundOK, ThereIsListed
<1>15. OnceOK'
  <2>1. ListedOnce' /\ (OnWindows' <=> OnWindows)
    BY <1>1, <1>2, <1>3 DEF OnceOK, ListedOnce, Key, OnWindows
  <2>2. ASSUME OnWindows
        PROVE  /\ \A k, l \in DOMAIN found' : k # l => found'[k].sock # found'[l].sock
               /\ \A k \in DOMAIN found', l \in DOMAIN rows : found'[k].sock # rows[l].sock
               /\ \A k \in DOMAIN found' : \E j \in 1 .. loaded' : TableOf[found'[k].sock] \in Tables'[j]
               /\ \A k \in DOMAIN rows : \E j \in 1 .. loaded' : TableOf[rows[k].sock] \in Tables'[j]
    <3>1. \A k \in DOMAIN found' : TableOf[found'[k].sock] \in Tables[loaded + 1]
      BY <1>6, <1>9, <1>10, <2>2
    <3>2. \A k \in DOMAIN rows : ListRead(rows[k].sock)
      BY <1>3, <2>2 DEF OnceOK
    <3>3. \A k \in DOMAIN rows : TableOf[rows[k].sock] \notin Tables[loaded + 1]
      <4>1. SUFFICES ASSUME NEW k \in DOMAIN rows, TableOf[rows[k].sock] \in Tables[loaded + 1]
                     PROVE  FALSE
        OBVIOUS
      <4>2. PICK j \in 1 .. loaded : TableOf[rows[k].sock] \in Tables[j]
        BY <3>2 DEF ListRead
      <4>3. j \in 1 .. 4 /\ j # loaded + 1
        BY <1>4
      <4> QED
        BY <1>3, <1>4, <2>2, <4>1, <4>2, <4>3, TablesApartLemma
    <3>4. \A k, l \in DOMAIN found' : k # l => found'[k].sock # found'[l].sock
      BY <1>6, <1>9, <2>2
    <3>5. \A k \in DOMAIN found', l \in DOMAIN rows : found'[k].sock # rows[l].sock
      BY <3>1, <3>3
    <3>0. \A s : TableOf[s] \in Tables[loaded + 1] \/ ListRead(s)
                => \E j \in 1 .. loaded' : TableOf[s] \in Tables'[j]
      BY <1>11 DEF ListRead
    <3>6. \A k \in DOMAIN found' : \E j \in 1 .. loaded' : TableOf[found'[k].sock] \in Tables'[j]
      BY <3>0, <3>1
    <3>7. \A k \in DOMAIN rows : \E j \in 1 .. loaded' : TableOf[rows[k].sock] \in Tables'[j]
      BY <3>0, <3>2
    <3> QED
      BY <3>4, <3>5, <3>6, <3>7
  <2>3. OnWindows \/ pc' # "done" => \A k \in DOMAIN rows : rows[k].pid # 0
    BY <1>1, <1>3 DEF OnceOK
  <2>4. UNCHANGED rows
    BY <1>1
  <2> QED
    BY <2>1, <2>2, <2>3, <2>4 DEF OnceOK, ListRead
<1>16. RowsOK'
  <2>1. OnWindows => \A k \in DOMAIN found' : found'[k].of \in present
    BY <1>6, <1>9
  <2> QED
    BY <1>1, <1>8, <2>1, TableStepLemma
<1>17. GrowthOK'
  BY <1>1, <1>2 DEF IInv, GrowthOK, GaveUpOnGrowth
<1> QED
  BY <1>2, <1>12, <1>13, <1>14, <1>15, <1>16, <1>17 DEF IInv

(* Every list is passed over. *)
LEMMA WalkFailsLemma ==
    ASSUME IInv, WalkFails
    PROVE  IInv'
<1>1. /\ ~OnWindows /\ pc = "fetch" /\ pc' = "ask" /\ TableStep /\ Quietly
      /\ loaded' = Len(Tables) /\ tries' = 0 /\ size' = 0 /\ found' = <<>>
      /\ missed' = missed \cup ((1 .. Len(Tables)) \X {"error"})
      /\ UNCHANGED <<cache, handle, pids, fds, hit, meta, rows>>
  BY DEF WalkFails, Reading, Goto, TableStep, OnWindows, windowsVars, darwinVars
<1>2. /\ SocketOK' /\ SocketTypeOK' /\ WitnessOK'
      /\ UNCHANGED <<births, pidOf, life, fdt, opened, changes, foreign, platform, up, present, before>>
      /\ Tables' = Tables /\ Growth' = Growth /\ \A k : Content(k)' = Content(k)
  BY <1>1, QuietLemma
<1>3. TypeOK /\ SocketOK /\ PlaceOK /\ RowsOK /\ OnceOK
  BY DEF IInv
<1>4. PICK n : n = Len(Tables) /\ n = 2
  BY <1>1, <1>3, TablesLemma
<1>5. /\ loaded' = n /\ missed' = missed \cup ((1 .. 2) \X {"error"})
      /\ DOMAIN found' = {} /\ found' \in Seq(Found)
  BY <1>1, <1>4
<1>6. TypeOK'
  <2>1. missed' \subseteq (1 .. 4) \X {"error", "grown"}
    BY <1>3, <1>5 DEF TypeOK
  <2>2. loaded' \in 0 .. 4 /\ tries' \in 0 .. Attempts - 1 /\ size' \in Nat
    BY <1>1, <1>4, <1>5, AttemptsAssumption
  <2> QED
    BY <1>1, <1>2, <1>3, <1>5, <2>1, <2>2 DEF TypeOK
<1>7. PlaceOK'
  <2>1. loaded' <= Len(Tables')
    BY <1>2, <1>4, <1>5
  <2> QED
    BY <1>1, <1>2, <1>3, <1>5, <2>1 DEF PlaceOK, Passing, OnWindows
<1>8. FoundOK'
  <2>1. ASSUME NEW s \in up, ListRead(s)' PROVE PassedOver(s)'
    <3>1. PICK j \in 1 .. loaded' : TableOf[s] \in Tables'[j]
      BY <1>2, <2>1 DEF ListRead
    <3>2. PICK m : m = <<j, "error">>
      OBVIOUS
    <3>3. m \in missed' /\ m[1] = j
      BY <1>4, <1>5, <3>2
    <3> QED
      BY <1>2, <3>1, <3>3 DEF PassedOver
  <2> QED
    BY <1>1, <1>2, <2>1 DEF FoundOK, ThereIsListed
<1>9. OnceOK'
  BY <1>1, <1>2, <1>3 DEF OnceOK, ListedOnce, Key, OnWindows
<1>10. RowsOK'
  BY <1>1, <1>5, TableStepLemma
<1>11. GrowthOK'
  <2>1. \A m \in missed' : m[2] = "grown" => m \in missed
    BY <1>5
  <2> QED
    BY <1>1, <1>2, <2>1 DEF IInv, GrowthOK, GaveUpOnGrowth
<1> QED
  BY <1>2, <1>6, <1>7, <1>8, <1>9, <1>10, <1>11 DEF IInv

------------------------------------------------------------------------------
(* What is left of a sequence without its head. *)
LEMMA TailLemma ==
    ASSUME NEW T, NEW f \in Seq(T), f # <<>>, NEW t, t = Tail(f)
    PROVE  /\ 1 \in DOMAIN f /\ Head(f) = f[1] /\ f[1] \in T
           /\ t \in Seq(T)
           /\ \A k \in DOMAIN t : \E l \in DOMAIN f : l = k + 1 /\ t[k] = f[l]
           /\ \A k \in DOMAIN f : k # 1 => k - 1 \in DOMAIN t /\ t[k - 1] = f[k]
<1>1. Len(f) \in Nat /\ Len(f) # 0 /\ DOMAIN f = 1 .. Len(f) /\ Head(f) = f[1]
  BY EmptySeq
<1>2. t \in Seq(T) /\ Len(t) = Len(f) - 1 /\ \A k \in 1 .. Len(t) : t[k] = f[k + 1]
  BY HeadTailProperties
<1>3. DOMAIN t = 1 .. Len(f) - 1
  BY <1>2
<1>4. 1 \in DOMAIN f /\ f[1] \in T
  BY <1>1
<1>5. ASSUME NEW k \in DOMAIN t PROVE k + 1 \in DOMAIN f /\ t[k] = f[k + 1]
  BY <1>1, <1>2, <1>3
<1>6. ASSUME NEW k \in DOMAIN f, k # 1 PROVE k - 1 \in DOMAIN t /\ t[k - 1] = f[k]
  <2>1. k - 1 \in 1 .. Len(f) - 1 /\ (k - 1) + 1 = k
    BY <1>1, <1>6
  <2> QED
    BY <1>2, <1>3, <2>1
<1> QED
  BY <1>1, <1>2, <1>4, <1>5, <1>6

(* What is appended comes last. *)
LEMMA AppendLemma ==
    ASSUME NEW T, NEW f \in Seq(T), NEW x \in T, NEW h, h = Append(f, x)
    PROVE  /\ h \in Seq(T)
           /\ \A k \in DOMAIN f : k \in DOMAIN h /\ h[k] = f[k]
           /\ \E k \in DOMAIN h : h[k] = x
           /\ \A k \in DOMAIN h : (k \in DOMAIN f /\ h[k] = f[k]) \/ (k = Len(f) + 1 /\ h[k] = x)
<1>1. /\ h \in Seq(T) /\ Len(h) = Len(f) + 1 /\ Len(f) \in Nat
      /\ \A k \in 1 .. Len(f) : h[k] = f[k]
      /\ h[Len(f) + 1] = x
  BY AppendProperties
<1>2. DOMAIN f = 1 .. Len(f) /\ DOMAIN h = 1 .. Len(f) + 1
  BY <1>1
<1>3. Len(f) + 1 \in DOMAIN h
  BY <1>1, <1>2
<1>4. \A k \in DOMAIN h : k \in DOMAIN f \/ k = Len(f) + 1
  BY <1>1, <1>2
<1>5. \A k \in DOMAIN f : k \in DOMAIN h /\ h[k] = f[k]
  BY <1>1, <1>2
<1>6. \E k \in DOMAIN h : h[k] = x
  BY <1>1, <1>3
<1>7. \A k \in DOMAIN h : (k \in DOMAIN f /\ h[k] = f[k]) \/ (k = Len(f) + 1 /\ h[k] = x)
  BY <1>1, <1>4, <1>5
<1> QED
  BY <1>1, <1>5, <1>6, <1>7

(* Windows. The owner of the row at hand. *)
LEMMA OwnerLemma ==
    ASSUME IInv, pc \in {"row", "peb"}, found # <<>>
    PROVE  /\ OnWindows /\ WindowsOK /\ 1 \in DOMAIN found /\ Head(found) = found[1]
           /\ found[1] \in Found /\ found[1].of \in Incs /\ found[1].of \in present
           /\ pidOf[found[1].of] = Owner
           /\ Owner \in Pids /\ Owner # 0
<1>1. OnWindows /\ WindowsOK /\ found \in Seq(Found)
  BY DEF IInv, PlaceOK, RowsOK
<1>2. 1 \in DOMAIN found /\ Head(found) = found[1] /\ found[1] \in Found
  BY <1>1, TailLemma
<1>3. found[1].of \in Incs /\ found[1].of \in present
  BY <1>1, <1>2 DEF Found, WindowsOK
<1>4. pidOf \in [Incs -> Pids] /\ 0 \notin Pids
  BY PidsAssumption DEF IInv, SocketOK, SocketTypeOK, ProcTypeOK
<1> QED
  BY <1>1, <1>2, <1>3, <1>4 DEF Owner

(* A socket of the table becomes a row, with what is cached of its pid. *)
LEMMA MakeEntryLemma ==
    ASSUME IInv, MakeEntry
    PROVE  IInv'
<1>1. PICK f, r : /\ f = Head(found) /\ cache[pidOf[f.of]] # Unknown
                  /\ r = [sock |-> f.sock, pid |-> pidOf[f.of], info |-> cache[pidOf[f.of]], of |-> f.of]
                  /\ rows' = Append(rows, r)
  BY DEF MakeEntry
<1>2. /\ pc = "row" /\ pc' = "row" /\ Quietly /\ found # <<>> /\ found' = Tail(found)
      /\ UNCHANGED <<size, tries, loaded, missed, cache, handle, pids, fds, hit, meta>>
  BY DEF MakeEntry, windowsVars, darwinVars
<1>3. /\ SocketOK' /\ SocketTypeOK' /\ WitnessOK'
      /\ UNCHANGED <<births, pidOf, life, fdt, opened, changes, foreign, platform, up, present, before>>
      /\ Tables' = Tables /\ Growth' = Growth /\ \A k : Content(k)' = Content(k)
  BY <1>2, QuietLemma
<1>4. /\ TypeOK /\ SocketOK /\ WitnessOK /\ PlaceOK /\ RowsOK /\ FoundOK /\ OnceOK
      /\ found \in Seq(Found) /\ rows \in Seq(Row)
  BY DEF IInv, PlaceOK
<1>5. /\ OnWindows /\ WindowsOK /\ 1 \in DOMAIN found /\ f = found[1] /\ f \in Found
      /\ f.of \in Incs /\ f.of \in present /\ pidOf[f.of] = Owner /\ Owner \in Pids /\ Owner # 0
  BY <1>1, <1>2, OwnerLemma
<1>6. /\ found' \in Seq(Found)
      /\ \A k \in DOMAIN found' : \E l \in DOMAIN found : l = k + 1 /\ found'[k] = found[l]
      /\ \A k \in DOMAIN found : k # 1 => k - 1 \in DOMAIN found' /\ found'[k - 1] = found[k]
  <2>1. PICK t : t = Tail(found) /\ t = found'
    BY <1>2
  <2>2. PICK g : g = found /\ g \in Seq(Found) /\ g # <<>> /\ t = Tail(g)
    BY <1>2, <1>4, <2>1
  <2>3. t \in Seq(Found)
    BY <2>2, TailLemma
  <2>4. \A k \in DOMAIN t : \E l \in DOMAIN g : l = k + 1 /\ t[k] = g[l]
    BY <2>2, TailLemma
  <2>5. \A k \in DOMAIN g : k # 1 => k - 1 \in DOMAIN t /\ t[k - 1] = g[k]
    BY <2>2, TailLemma
  <2> QED
    BY <2>1, <2>2, <2>3, <2>4, <2>5
<1>7. r \in Row /\ r.sock = f.sock /\ r.pid = Owner /\ r.info = cache[Owner] /\ r.of = f.of /\ r.info \in Info
  <2>1. cache[Owner] \in Info
    BY <1>1, <1>4, <1>5 DEF TypeOK
  <2> QED
    BY <1>1, <1>5, <2>1 DEF Row, Found
<1>8. /\ rows' \in Seq(Row)
      /\ \A k \in DOMAIN rows : k \in DOMAIN rows' /\ rows'[k] = rows[k]
      /\ \E k \in DOMAIN rows' : rows'[k] = r
      /\ \A k \in DOMAIN rows' :
            (k \in DOMAIN rows /\ rows'[k] = rows[k]) \/ (k = Len(rows) + 1 /\ rows'[k] = r)
  BY <1>1, <1>4, <1>7, AppendLemma
<1>9. TypeOK'
  <2>1. \A k \in DOMAIN found' : found'[k].sock \in opened
    BY <1>4, <1>6 DEF TypeOK
  <2>2. \A k \in DOMAIN rows' : rows'[k] \in Row
    BY <1>8
  <2>3. \A k \in DOMAIN rows' : rows'[k].sock \in Socks /\ rows'[k].pid \in Pids \cup {0}
                                /\ rows'[k].info \in Info /\ rows'[k].of \in {0} \cup Incs
    BY <2>2 DEF Row
  <2> QED
    BY <1>2, <1>3, <1>4, <2>1, <2>3 DEF TypeOK
<1>10. PlaceOK'
  BY <1>2, <1>3, <1>4, <1>5, <1>6, <1>8 DEF PlaceOK, Passing, OnWindows
<1>11. FoundOK'
  <2>1. \A s : ListRead(s)' <=> ListRead(s)
    BY <1>2, <1>3 DEF ListRead
  <2>2. \A s : Shown(s) => Shown(s)'
    BY <1>8 DEF Shown
  <2>3. ASSUME NEW k \in DOMAIN found
        PROVE  \/ \E n \in DOMAIN rows' : Endpoint[rows'[n].sock] = Endpoint[found[k].sock]
               \/ \E l \in DOMAIN found' : found'[l].sock = found[k].sock
    <3>1. CASE k = 1
      BY <1>5, <1>7, <1>8, <3>1
    <3> QED
      BY <1>6, <3>1
  <2>4. \A s : PassedOver(s) => PassedOver(s)'
    BY <1>2, <1>3 DEF PassedOver
  <2> QED
    <3>1. ASSUME NEW s \in up, ListRead(s)
          PROVE  PassedOver(s)' \/ Shown(s)' \/ \E k \in DOMAIN found' : found'[k].sock = s
      <4>1. CASE PassedOver(s) \/ Shown(s)
        BY <2>2, <2>4, <4>1
      <4>2. CASE \E k \in DOMAIN found : found[k].sock = s
        <5>1. PICK k \in DOMAIN found : found[k].sock = s
          BY <4>2
        <5> QED
          BY <2>3, <5>1 DEF Shown
      <4> QED
        BY <1>4, <3>1, <4>1, <4>2 DEF FoundOK
    <3> QED
      BY <1>2, <1>3, <2>1, <3>1 DEF FoundOK, ThereIsListed
<1>12. OnceOK'
  <2>1. \A k \in DOMAIN found' : found'[k].sock # f.sock
    BY <1>4, <1>5, <1>6 DEF OnceOK
  <2>2. \A k, l \in DOMAIN found' : k # l => found'[k].sock # found'[l].sock
    BY <1>4, <1>5, <1>6 DEF OnceOK
  <2>3. \A k \in DOMAIN rows : rows[k].sock # f.sock
    BY <1>4, <1>5 DEF OnceOK
  <2>4. \A k, l \in DOMAIN rows' : k # l => rows'[k].sock # rows'[l].sock
    BY <1>4, <1>5, <1>7, <1>8, <2>3 DEF OnceOK, ListedOnce, OnWindows
  <2>5. \A k \in DOMAIN found', l \in DOMAIN rows' : found'[k].sock # rows'[l].sock
    BY <1>4, <1>5, <1>6, <1>7, <1>8, <2>1 DEF OnceOK
  <2>6. \A s : ListRead(s)' <=> ListRead(s)
    BY <1>2, <1>3 DEF ListRead
  <2>7. /\ \A k \in DOMAIN found' : ListRead(found'[k].sock)
        /\ \A k \in DOMAIN rows' : ListRead(rows'[k].sock)
    BY <1>4, <1>5, <1>6, <1>7, <1>8 DEF OnceOK
  <2>8. \A k \in DOMAIN rows' : rows'[k].pid # 0
    BY <1>4, <1>5, <1>7, <1>8 DEF OnceOK
  <2>9. platform' = "windows"
    BY <1>3, <1>5 DEF OnWindows
  <2>10. /\ \A k \in DOMAIN found' : \E j \in 1 .. loaded' : TableOf[found'[k].sock] \in Tables'[j]
         /\ \A k \in DOMAIN rows' : \E j \in 1 .. loaded' : TableOf[rows'[k].sock] \in Tables'[j]
    BY <1>2, <1>3, <2>7 DEF ListRead
  <2> QED
    BY <2>2, <2>4, <2>5, <2>8, <2>9, <2>10 DEF OnceOK, ListedOnce, OnWindows, ListRead
<1>13. RowsOK'
  <2>1. \A info, pid : InfoOK(info, pid)' <=> InfoOK(info, pid)
    BY <1>3 DEF InfoOK, OfPid
  <2>2. \A k \in DOMAIN rows' : rows'[k].info = cache[rows'[k].pid] /\ cache[rows'[k].pid] # Unknown
    BY <1>1, <1>5, <1>7, <1>8 DEF WindowsOK
  <2>3. \A k \in DOMAIN rows' : rows'[k].pid \in Pids /\ rows'[k].pid # 0
    <3>1. \A k \in DOMAIN rows' : rows'[k] \in Row
      BY <1>8
    <3>2. \A k \in DOMAIN rows' : rows'[k].pid # 0
      BY <1>4, <1>5, <1>7, <1>8 DEF OnceOK
    <3> QED
      BY <3>1, <3>2 DEF Row
  <2>4. \A k \in DOMAIN rows' : InfoOK(rows'[k].info, rows'[k].pid)
    BY <1>5, <2>2, <2>3 DEF WindowsOK
  <2>5. \A k \in DOMAIN found' : found'[k].of \in present
    BY <1>5, <1>6 DEF WindowsOK
  <2>6. WindowsOK'
    BY <1>2, <1>3, <1>5, <2>1, <2>2, <2>5 DEF WindowsOK, OfOne
  <2>7. \A k \in DOMAIN rows' : \A x \in Reads(rows'[k].info) : x \in present' /\ pidOf'[x] = rows'[k].pid
    BY <1>3, <2>4 DEF InfoOK, OfPid
  <2>8. \A k, l \in DOMAIN rows' : rows'[k].pid = rows'[l].pid => rows'[k].info = rows'[l].info
    BY <2>2
  <2>9. OnWindows'
    BY <1>3, <1>5 DEF OnWindows
  <2> QED
    BY <2>3, <2>6, <2>7, <2>8, <2>9 DEF RowsOK, InfoOK, OfPid, Reads
<1>14. GrowthOK'
  BY <1>2, <1>3 DEF IInv, GrowthOK, GaveUpOnGrowth
<1> QED
  BY <1>3, <1>9, <1>10, <1>11, <1>12, <1>13, <1>14 DEF IInv

(* Looking an owner up disturbs no list and no row. *)
LookupStep ==
    /\ pc \in {"row", "peb"} /\ found # <<>> /\ Quietly
    /\ pc' \in {"row", "peb"}
    /\ UNCHANGED <<tableVars, darwinVars, rows>>

LEMMA LookupLemma ==
    ASSUME IInv, LookupStep
    PROVE  /\ SocketOK' /\ SocketTypeOK' /\ WitnessOK' /\ PlaceOK' /\ FoundOK' /\ OnceOK' /\ GrowthOK'
           /\ UNCHANGED <<size, tries, loaded, missed, found, pids, fds, hit, meta, rows>>
           /\ UNCHANGED <<births, pidOf, life, opened, present, platform>>
<1>1. UNCHANGED <<size, tries, loaded, missed, found, pids, fds, hit, meta, rows>>
  BY DEF LookupStep, tableVars, darwinVars
<1>2. pc # "idle" /\ Quietly
  BY DEF LookupStep
<1>3. /\ SocketOK' /\ SocketTypeOK' /\ WitnessOK'
      /\ UNCHANGED <<births, pidOf, life, fdt, opened, changes, foreign, platform, up, present, before>>
      /\ Tables' = Tables /\ Growth' = Growth /\ \A k : Content(k)' = Content(k)
  BY <1>2, QuietLemma
<1>4. PlaceOK /\ OnWindows /\ FoundOK /\ OnceOK /\ pc # "done"
  BY DEF IInv, LookupStep, PlaceOK
<1>5. PlaceOK'
  BY <1>1, <1>3, <1>4 DEF LookupStep, PlaceOK, Passing, OnWindows
<1>6. FoundOK' /\ OnceOK'
  BY <1>1, <1>3, <1>4 DEF LookupStep, FoundOK, OnceOK, ThereIsListed, ListedOnce, PassedOver, Shown,
     ListRead, OnWindows, Key
<1>7. GrowthOK'
  BY <1>1, <1>3 DEF LookupStep, IInv, GrowthOK, GaveUpOnGrowth
<1> QED
  BY <1>1, <1>3, <1>5, <1>6, <1>7

(* A row says what was cached of its pid, as long as that does not change. *)
LEMMA CachedLemma ==
    ASSUME IInv, LookupStep,
           NEW now \in Info, now # Unknown, cache' = [cache EXCEPT ![Owner] = now],
           InfoOK(now, Owner), OfOne(now),
           \A k \in DOMAIN rows : rows[k].pid # Owner,
           handle' \in {0} \cup Incs, handle' # 0 <=> pc' = "peb",
           pc' = "peb" => /\ Holds(handle', Owner) /\ now.cwd = 0
                          /\ {now.name, now.start} \subseteq {0, handle'}
    PROVE  IInv'
<1>1. /\ SocketOK' /\ SocketTypeOK' /\ WitnessOK' /\ PlaceOK' /\ FoundOK' /\ OnceOK' /\ GrowthOK'
      /\ UNCHANGED <<size, tries, loaded, missed, found, pids, fds, hit, meta, rows>>
      /\ UNCHANGED <<births, pidOf, life, opened, present, platform>>
  BY LookupLemma
<1>2. pc \in {"row", "peb"} /\ found # <<>> /\ pc' \in {"row", "peb"}
  BY DEF LookupStep
<1>3. OnWindows /\ WindowsOK /\ Owner \in Pids
  BY <1>2, OwnerLemma
<1>4. TypeOK /\ RowsOK /\ cache \in [Pids -> Info \cup {Unknown}]
  BY DEF IInv, TypeOK
<1>5. Owner' = Owner
  BY <1>1 DEF Owner
<1> HIDE DEF Owner
<1>6. /\ cache' \in [Pids -> Info \cup {Unknown}] /\ cache'[Owner] = now
      /\ \A pid \in Pids : pid # Owner => cache'[pid] = cache[pid]
  BY <1>3, <1>4
<1>7. TypeOK'
  BY <1>1, <1>2, <1>4, <1>6 DEF TypeOK
<1>8. RowsOK'
  <2>1. \A info, pid : InfoOK(info, pid)' <=> InfoOK(info, pid)
    BY <1>1 DEF InfoOK, OfPid
  <2>2. \A k \in DOMAIN rows : rows[k].pid \in Pids
    <3>1. \A k \in DOMAIN rows : rows[k].pid \in Pids \cup {0} /\ rows[k].pid # 0
      BY <1>3, <1>4 DEF TypeOK, IInv, OnceOK
    <3> QED
      BY <3>1
  <2>3. \A k \in DOMAIN rows : rows[k].info = cache'[rows[k].pid] /\ cache'[rows[k].pid] # Unknown
    BY <1>3, <1>6, <2>2 DEF WindowsOK
  <2>4. \A pid \in Pids : cache'[pid] # Unknown => InfoOK(cache'[pid], pid) /\ OfOne(cache'[pid])
    BY <1>3, <1>6 DEF WindowsOK
  <2>5. \A pid \in Pids : cache'[pid] # Unknown =>
           /\ \A x \in Reads(cache'[pid]) : x \in present /\ pidOf[x] = pid
           /\ OfOne(cache'[pid])
    BY <2>4 DEF InfoOK, OfPid
  <2>6. WindowsOK'
    <3>1. pc' = "peb" => /\ Holds(handle, Owner)'
                         /\ cache'[Owner] # Unknown /\ cache'[Owner].cwd = 0
                         /\ {cache'[Owner].name, cache'[Owner].start} \subseteq {0, handle'}
                         /\ \A k \in DOMAIN rows : rows[k].pid # Owner
      BY <1>1, <1>5, <1>6 DEF Holds
    <3>2. \A k \in DOMAIN found : found[k].of \in present
      BY <1>3 DEF WindowsOK
    <3> QED
      BY <1>1, <1>5, <2>3, <2>5, <3>1, <3>2 DEF WindowsOK, InfoOK, OfPid, Reads, OfOne
  <2>7. OnWindows'
    BY <1>1, <1>3 DEF OnWindows
  <2> QED
    BY <1>1, <1>4, <2>1, <2>6, <2>7 DEF RowsOK, InfoOK, OfPid, Reads
<1> QED
  BY <1>1, <1>7, <1>8 DEF IInv

(* Who may be read under a pid had it. *)
LEMMA ReadableLemma ==
    ASSUME IInv, pc # "idle", NEW pid \in Pids, NEW h \in Readable(pid)
    PROVE  h \in Incs /\ h # 0 /\ Holds(h, pid) /\ OfPid(h, pid)
<1>1. h \in Incs /\ Holds(h, pid) /\ life[h] = "running" /\ h # 0
  BY MaxBirthsAssumption DEF Readable
<1>2. h \in present
  BY <1>1 DEF IInv, WitnessOK, There
<1> QED
  BY <1>1, <1>2 DEF OfPid, Holds

(* Name and start token: of whoever holds the pid, which the handle then keeps. *)
LEMMA QueryProcessLemma ==
    ASSUME IInv, QueryProcess
    PROVE  IInv'
<1>1. /\ pc = "row" /\ found # <<>> /\ Quietly /\ UNCHANGED <<tableVars, darwinVars, rows>>
      /\ cache[Owner] = Unknown
  BY DEF QueryProcess, Owner
<1>2. OnWindows /\ WindowsOK /\ Owner \in Pids /\ handle = 0 /\ pc # "idle"
  BY <1>1, OwnerLemma DEF IInv, TypeOK
<1>3. \A k \in DOMAIN rows : rows[k].pid # Owner
  BY <1>1, <1>2 DEF WindowsOK
<1>4. CASE cache' = [cache EXCEPT ![Owner] = NoInfo] /\ UNCHANGED <<pc, handle>>
  <2>1. NoInfo \in Info /\ NoInfo # Unknown /\ Reads(NoInfo) = {}
    BY MaxBirthsAssumption DEF NoInfo, Info, Unknown, Reads
  <2>2. InfoOK(NoInfo, Owner) /\ OfOne(NoInfo)
    BY <2>1 DEF InfoOK, OfOne
  <2>3. LookupStep
    BY <1>1, <1>4 DEF LookupStep
  <2>4. handle' \in {0} \cup Incs /\ (handle' # 0 <=> pc' = "peb") /\ pc' # "peb"
    BY <1>1, <1>2, <1>4
  <2> QED
    BY <1>3, <1>4, <2>1, <2>2, <2>3, <2>4, CachedLemma
<1>5. CASE \E h \in Readable(Owner) : \E start \in {h, 0} :
              /\ cache' = [cache EXCEPT ![Owner] = [NoInfo EXCEPT !.name = h, !.start = start]]
              /\ handle' = h /\ pc' = "peb"
  <2>0. PICK h \in Readable(Owner) : \E start \in {h, 0} :
              /\ cache' = [cache EXCEPT ![Owner] = [NoInfo EXCEPT !.name = h, !.start = start]]
              /\ handle' = h /\ pc' = "peb"
    BY <1>5
  <2>1. PICK start \in {h, 0} :
              /\ cache' = [cache EXCEPT ![Owner] = [NoInfo EXCEPT !.name = h, !.start = start]]
              /\ handle' = h /\ pc' = "peb"
    BY <2>0
  <2>2. h \in Incs /\ h # 0 /\ Holds(h, Owner) /\ OfPid(h, Owner)
    BY <1>2, <2>1, ReadableLemma
  <2>3. PICK now : now = [NoInfo EXCEPT !.name = h, !.start = start]
    OBVIOUS
  <2>4. now = [name |-> h, start |-> start, cwd |-> 0]
    BY <2>3 DEF NoInfo
  <2>5. /\ now \in Info /\ now # Unknown /\ Reads(now) = {h} /\ now.cwd = 0
        /\ {now.name, now.start} \subseteq {0, h}
    BY <2>2, <2>4 DEF Info, Unknown, Reads
  <2>6. InfoOK(now, Owner) /\ OfOne(now)
    BY <2>2, <2>5 DEF InfoOK, OfOne
  <2>7. LookupStep
    BY <1>1, <2>1 DEF LookupStep
  <2>8. handle' \in {0} \cup Incs /\ (handle' # 0 <=> pc' = "peb") /\ Holds(handle', Owner)
    BY <2>1, <2>2
  <2>9. cache' = [cache EXCEPT ![Owner] = now] /\ {now.name, now.start} \subseteq {0, handle'}
    BY <2>1, <2>3, <2>5
  <2> QED
    BY <1>3, <2>5, <2>6, <2>7, <2>8, <2>9, CachedLemma
<1> QED
  BY <1>4, <1>5 DEF QueryProcess, Owner, Goto

(* The directory: of the same process, as the first handle still keeps the pid. *)
LEMMA QueryPebLemma ==
    ASSUME IInv, QueryPeb
    PROVE  IInv'
<1>1. /\ pc = "peb" /\ pc' = "row" /\ Quietly /\ UNCHANGED <<tableVars, darwinVars, rows>>
      /\ handle' = 0
  BY DEF QueryPeb, Goto
<1>2. found # <<>> /\ pc # "idle"
  BY <1>1 DEF IInv, PlaceOK
<1>3. OnWindows /\ WindowsOK /\ Owner \in Pids
  BY <1>1, <1>2, OwnerLemma
<1>4. PICK cwd \in Readable(Owner) \cup {0} : cache' = [cache EXCEPT ![Owner].cwd = cwd]
  BY DEF QueryPeb, Owner
<1>5. /\ Holds(handle, Owner) /\ handle \in Incs /\ handle # 0
      /\ cache[Owner] # Unknown /\ cache[Owner].cwd = 0
      /\ {cache[Owner].name, cache[Owner].start} \subseteq {0, handle}
      /\ InfoOK(cache[Owner], Owner)
      /\ \A k \in DOMAIN rows : rows[k].pid # Owner
  BY <1>1, <1>3 DEF WindowsOK, IInv, TypeOK
<1>6. cache[Owner] \in Info /\ cache \in [Pids -> Info \cup {Unknown}]
  BY <1>3, <1>5 DEF IInv, TypeOK
<1>7. PICK now : now = [cache[Owner] EXCEPT !.cwd = cwd]
  OBVIOUS
<1>8. cache' = [cache EXCEPT ![Owner] = now]
  BY <1>3, <1>4, <1>6, <1>7
<1>9. cwd \in {0, handle} /\ (cwd # 0 => OfPid(cwd, Owner))
  <2>1. CASE cwd \in Readable(Owner)
    <3>1. cwd \in Incs /\ Holds(cwd, Owner) /\ OfPid(cwd, Owner)
      BY <1>2, <1>3, <2>1, ReadableLemma
    <3>2. cwd = handle
      BY <1>3, <1>5, <3>1 DEF IInv, SocketOK, ProcOK
    <3> QED
      BY <3>1, <3>2
  <2> QED
    BY <1>4, <2>1
<1>10. /\ now.name = cache[Owner].name /\ now.start = cache[Owner].start /\ now.cwd = cwd
       /\ now \in Info
  BY <1>5, <1>6, <1>7, <1>9 DEF Info
<1>11. now # Unknown
  BY <1>9, <1>5, <1>10, MaxBirthsAssumption DEF Unknown
<1>12. Reads(now) \subseteq {handle}
  BY <1>5, <1>9, <1>10 DEF Reads
<1>13. OfOne(now)
  BY <1>12 DEF OfOne
<1>14. InfoOK(now, Owner)
  BY <1>5, <1>9, <1>10 DEF InfoOK, Reads
<1>15. LookupStep
  BY <1>1, <1>2 DEF LookupStep
<1>16. handle' \in {0} \cup Incs /\ (handle' # 0 <=> pc' = "peb") /\ pc' # "peb"
  BY <1>1
<1> QED
  BY <1>5, <1>8, <1>10, <1>11, <1>13, <1>14, <1>15, <1>16, CachedLemma

(* On to the next table. *)
LEMMA TableDoneLemma ==
    ASSUME IInv, TableDone
    PROVE  IInv'
<1>1. /\ pc = "row" /\ pc' = "ask" /\ Quietly /\ found = <<>>
      /\ UNCHANGED <<size, tries, loaded, missed, found, cache, handle, pids, fds, hit, meta, rows>>
  BY DEF TableDone, Goto, scanVars, tableVars, windowsVars, darwinVars
<1>2. /\ SocketOK' /\ SocketTypeOK' /\ WitnessOK'
      /\ UNCHANGED <<births, pidOf, life, fdt, opened, changes, foreign, platform, up, present, before>>
      /\ Tables' = Tables /\ Growth' = Growth /\ \A k : Content(k)' = Content(k)
  BY <1>1, QuietLemma
<1>3. TypeOK /\ PlaceOK /\ RowsOK /\ OnWindows
  BY <1>1 DEF IInv, PlaceOK
<1>4. TypeOK'
  BY <1>1, <1>2, <1>3 DEF TypeOK
<1>5. PlaceOK'
  BY <1>1, <1>2, <1>3 DEF PlaceOK, Passing, OnWindows
<1>6. FoundOK' /\ OnceOK'
  BY <1>1, <1>2 DEF IInv, FoundOK, OnceOK, ThereIsListed, ListedOnce, PassedOver, Shown,
     ListRead, OnWindows, Key
<1>7. RowsOK'
  BY <1>1, <1>2, <1>3 DEF RowsOK, WindowsOK, OnWindows, InfoOK, OfPid
<1>8. GrowthOK'
  BY <1>1, <1>2 DEF IInv, GrowthOK, GaveUpOnGrowth
<1> QED
  BY <1>2, <1>4, <1>5, <1>6, <1>7, <1>8 DEF IInv

(* All lists together have every address family. *)
LEMMA AllReadLemma ==
    ASSUME IInv, loaded = Len(Tables), NEW s \in Socks
    PROVE  ListRead(s)
<1>1. TableOf[s] \in {"tcp", "tcp6", "udp", "udp6"}
  BY TablesAssumption
<1>2. CASE OnWindows
  <2>1. Tables = <<{"tcp"}, {"tcp6"}, {"udp"}, {"udp6"}>> /\ loaded = 4
    BY <1>2, TablesLemma DEF IInv
  <2>2. /\ Tables[1] = {"tcp"} /\ Tables[2] = {"tcp6"} /\ Tables[3] = {"udp"} /\ Tables[4] = {"udp6"}
    BY <2>1
  <2>3. 1 \in 1 .. loaded /\ 2 \in 1 .. loaded /\ 3 \in 1 .. loaded /\ 4 \in 1 .. loaded
    BY <2>1
  <2> QED
    BY <1>1, <2>2, <2>3 DEF ListRead
<1>3. CASE ~OnWindows
  <2>1. Tables = <<{"tcp", "tcp6"}, {"udp", "udp6"}>> /\ loaded = 2
    BY <1>3, TablesLemma DEF IInv
  <2>2. Tables[1] = {"tcp", "tcp6"} /\ Tables[2] = {"udp", "udp6"}
    BY <2>1
  <2>3. 1 \in 1 .. loaded /\ 2 \in 1 .. loaded
    BY <2>1
  <2> QED
    BY <1>1, <2>2, <2>3 DEF ListRead
<1> QED
  BY <1>2, <1>3

(* All tables are read: the listing of Windows is done. *)
LEMMA AllTablesLemma ==
    ASSUME IInv, AllTables
    PROVE  IInv'
<1>1. /\ OnWindows /\ pc = "ask" /\ pc' = "done" /\ loaded = Len(Tables) /\ Quietly
      /\ UNCHANGED <<size, tries, loaded, missed, found, cache, handle, pids, fds, hit, meta, rows>>
  BY DEF AllTables, Goto, OnWindows, scanVars, tableVars, windowsVars, darwinVars
<1>2. /\ SocketOK' /\ SocketTypeOK' /\ WitnessOK'
      /\ UNCHANGED <<births, pidOf, life, fdt, opened, changes, foreign, platform, up, present, before>>
      /\ Tables' = Tables /\ Growth' = Growth /\ \A k : Content(k)' = Content(k)
  BY <1>1, QuietLemma
<1>3. TypeOK /\ PlaceOK /\ RowsOK /\ FoundOK /\ OnceOK /\ found = <<>> /\ WitnessOK
  BY <1>1 DEF IInv, PlaceOK
<1>4. TypeOK'
  BY <1>1, <1>2, <1>3 DEF TypeOK
<1>5. PlaceOK'
  BY <1>1, <1>2, <1>3 DEF PlaceOK, Passing, OnWindows
<1>6. FoundOK'
  <2>1. \A s \in up : PassedOver(s) \/ Shown(s)
    <3>1. \A s \in up : s \in Socks
      BY <1>1, <1>3 DEF WitnessOK
    <3>2. \A s \in up : ListRead(s)
      BY <1>1, <3>1, AllReadLemma
    <3> QED
      BY <1>3, <3>2 DEF FoundOK
  <2> QED
    BY <1>1, <1>2, <1>3, <2>1 DEF FoundOK, ThereIsListed, PassedOver, Shown, ListRead
<1>7. OnceOK'
  BY <1>1, <1>2, <1>3 DEF OnceOK, ListedOnce, ListRead, OnWindows, Key
<1>8. RowsOK'
  BY <1>1, <1>2, <1>3 DEF RowsOK, WindowsOK, OnWindows, InfoOK, OfPid
<1>9. GrowthOK'
  BY <1>1, <1>2 DEF IInv, GrowthOK, GaveUpOnGrowth
<1> QED
  BY <1>2, <1>4, <1>5, <1>6, <1>7, <1>8, <1>9 DEF IInv

------------------------------------------------------------------------------
(* macOS. A step of the pass over the processes, which reads none of the lists. *)
PassStep ==
    /\ pc \in {"pids", "pid", "link", "name", "start"} /\ Quietly
    /\ pc' \in {"pid", "link", "name", "start", "ask", "failed"}
    /\ UNCHANGED <<tries, loaded, missed, found, windowsVars>>

(* What is so of the rows of processes. *)
RowsGood ==
    /\ \A k \in DOMAIN rows : rows[k].pid # 0 /\ InfoOK(rows[k].info, rows[k].pid)
    /\ \A k, l \in DOMAIN rows : k # l => Key(rows[k]) # Key(rows[l])
    /\ \A k, l \in DOMAIN rows : rows[k].pid = rows[l].pid => rows[k].info = rows[l].info

(* What is so during the pass, and what such a step leaves alone. *)
LEMMA PassFactsLemma ==
    ASSUME IInv, PassStep
    PROVE  /\ SocketOK' /\ SocketTypeOK' /\ WitnessOK' /\ RowsGood
           /\ ~OnWindows /\ platform = "darwin" /\ DarwinOK /\ TypeOK /\ PlaceOK /\ pids \subseteq Nat
           /\ loaded = 0 /\ missed = {} /\ found = <<>> /\ tries = 0 /\ handle = 0 /\ rows \in Seq(Row)
           /\ UNCHANGED <<births, pidOf, life, opened, present, up, platform, before>>
           /\ UNCHANGED <<tries, loaded, missed, found, cache, handle>>
           /\ \A info, pid : InfoOK(info, pid)' <=> InfoOK(info, pid)
           /\ \A x, pid : OfPid(x, pid)' <=> OfPid(x, pid)
<1>1. UNCHANGED <<tries, loaded, missed, found, cache, handle>>
  BY DEF PassStep, windowsVars
<1>2. pc # "idle" /\ Quietly
  BY DEF PassStep
<1>3. /\ SocketOK' /\ SocketTypeOK' /\ WitnessOK'
      /\ UNCHANGED <<births, pidOf, life, fdt, opened, changes, foreign, platform, up, present, before>>
  BY <1>2, QuietLemma
<1>4. TypeOK /\ PlaceOK /\ RowsOK /\ OnceOK /\ ListedOnce
  BY DEF IInv, OnceOK
<1>5. /\ platform = "darwin" /\ ~OnWindows /\ loaded = 0 /\ missed = {} /\ found = <<>> /\ handle = 0
      /\ rows \in Seq(Row) /\ tries = 0
  BY <1>4 DEF PassStep, PlaceOK, Passing, OnWindows, TypeOK, IInv, GrowthOK
<1>6. DarwinOK
  BY <1>4, <1>5 DEF RowsOK
<1>7. \A k \in DOMAIN rows : rows[k].pid # 0
  BY <1>4 DEF OnceOK, PassStep
<1>8. RowsGood
  BY <1>4, <1>5, <1>7 DEF RowsGood, RowsOK, ListedOnce
<1>9. /\ \A info, pid : InfoOK(info, pid)' <=> InfoOK(info, pid)
      /\ \A x, pid : OfPid(x, pid)' <=> OfPid(x, pid)
  BY <1>3 DEF InfoOK, OfPid
<1>10. pids \subseteq Nat
  BY <1>4, PidsAssumption DEF TypeOK
<1> QED
  BY <1>1, <1>3, <1>4, <1>5, <1>6, <1>8, <1>9, <1>10

(* What a step of the pass has to show. *)
LEMMA PassLemma ==
    ASSUME IInv, PassStep, rows' \in Seq(Row), RowsGood', DarwinOK',
           size' \in Nat, pids' \subseteq Pids, fds' \subseteq Fds,
           Passing' => pids' # {}, ~Passing' => hit' = <<>>, pc' \in {"name", "start"} => hit' # <<>>
    PROVE  IInv'
<1>1. /\ SocketOK' /\ SocketTypeOK' /\ WitnessOK'
      /\ ~OnWindows /\ platform = "darwin" /\ TypeOK /\ PlaceOK
      /\ loaded = 0 /\ missed = {} /\ found = <<>> /\ tries = 0 /\ handle = 0
      /\ UNCHANGED <<opened, present, up, platform, before>>
      /\ UNCHANGED <<tries, loaded, missed, found, cache, handle>>
  BY PassFactsLemma
<1>2. pc' \in {"pid", "link", "name", "start", "ask", "failed"}
  BY DEF PassStep
<1>3. DOMAIN found = {} /\ found \in Seq(Found)
  BY <1>1
<1>4. ~OnWindows' /\ platform' = "darwin"
  BY <1>1 DEF OnWindows
<1>5. \A k \in DOMAIN rows' : rows'[k].sock \in Socks /\ rows'[k].pid \in Pids \cup {0}
                              /\ rows'[k].info \in Info /\ rows'[k].of \in {0} \cup Incs
  <2>1. \A k \in DOMAIN rows' : rows'[k] \in Row
    OBVIOUS
  <2> QED
    BY <2>1 DEF Row
<1>6. TypeOK'
  BY <1>1, <1>2, <1>3, <1>5 DEF TypeOK
<1>7. PlaceOK'
  <2>1. loaded' <= Len(Tables')
    <3>1. Len(Tables) = 2 /\ Tables' = Tables
      BY <1>1, TablesLemma DEF Tables
    <3> QED
      BY <1>1, <3>1
  <2> QED
    BY <1>1, <1>2, <1>3, <1>4, <2>1 DEF PlaceOK, Passing, OnWindows
<1>8. FoundOK'
  BY <1>1, <1>2 DEF FoundOK, ListRead, ThereIsListed
<1>9. OnceOK'
  <2>1. ListedOnce'
    BY <1>4 DEF RowsGood, ListedOnce
  <2> QED
    BY <1>4, <2>1 DEF OnceOK, RowsGood
<1>10. RowsOK'
  BY <1>4 DEF RowsOK, RowsGood
<1>11. GrowthOK'
  BY <1>1, <1>2 DEF GrowthOK, GaveUpOnGrowth
<1> QED
  BY <1>1, <1>6, <1>7, <1>8, <1>9, <1>10, <1>11 DEF IInv

(* The same, of a step that adds no row. *)
LEMMA PassNoRowLemma ==
    ASSUME IInv, PassStep, rows' = rows, DarwinOK',
           size' \in Nat, pids' \subseteq Pids, fds' \subseteq Fds,
           Passing' => pids' # {}, ~Passing' => hit' = <<>>, pc' \in {"name", "start"} => hit' # <<>>
    PROVE  IInv'
<1>1. /\ RowsGood /\ rows \in Seq(Row)
      /\ UNCHANGED <<present, pidOf>>
  BY PassFactsLemma
<1>2. RowsGood'
  BY <1>1 DEF RowsGood, InfoOK, OfPid, Key
<1> QED
  BY <1>1, <1>2, PassLemma

(* The pids that fit; there are no rows yet. *)
LEMMA ReadPidsLemma ==
    ASSUME IInv, ReadPids
    PROVE  IInv'
<1>1. /\ pc = "pids" /\ pc' = "pid" /\ size' = 0 /\ PassStep /\ pids' \subseteq Pids
      /\ UNCHANGED <<fds, hit, meta, rows>>
  BY DEF ReadPids, Goto, PassStep
<1>2. /\ rows = <<>> /\ DOMAIN rows = {} /\ hit = <<>> /\ fds \subseteq Fds
  BY <1>1 DEF IInv, PlaceOK, Passing, TypeOK
<1>3. DarwinOK'
  BY <1>1, <1>2 DEF DarwinOK, MetaOK, Passing
<1> QED
  BY <1>1, <1>2, <1>3, PassNoRowLemma DEF Passing

(* The pids cannot be listed. *)
LEMMA PidsFailLemma ==
    ASSUME IInv, PidsFail
    PROVE  IInv'
<1>1. /\ pc = "pids" /\ pc' = "failed" /\ PassStep
      /\ UNCHANGED <<size, pids, fds, hit, meta, rows>>
  BY DEF PidsFail, Goto, PassStep, scanVars, tableVars, darwinVars
<1>2. hit = <<>> /\ fds \subseteq Fds /\ pids \subseteq Pids /\ size \in Nat
  BY <1>1 DEF IInv, PlaceOK, Passing, TypeOK
<1>3. DarwinOK'
  BY <1>1, <1>2 DEF DarwinOK, MetaOK, Passing
<1> QED
  BY <1>1, <1>2, <1>3, PassNoRowLemma DEF Passing

(* The pass is over. *)
LEMMA AllPidsLemma ==
    ASSUME IInv, AllPids
    PROVE  IInv'
<1>1. /\ pc = "pid" /\ pc' = "ask" /\ PassStep
      /\ UNCHANGED <<size, pids, fds, hit, meta, rows>>
  BY DEF AllPids, Goto, PassStep, scanVars, tableVars, darwinVars
<1>2. hit = <<>> /\ fds \subseteq Fds /\ pids \subseteq Pids /\ size \in Nat
  BY <1>1 DEF IInv, PlaceOK, Passing, TypeOK
<1>3. DarwinOK'
  BY <1>1, <1>2 DEF DarwinOK, MetaOK, Passing
<1> QED
  BY <1>1, <1>2, <1>3, PassNoRowLemma DEF Passing

(* The pid at hand is one of those left; who holds it now had it. *)
LEMMA CurrentLemma ==
    ASSUME IInv, PassStep, pids # {}
    PROVE  /\ Current \in pids /\ Current \in Pids /\ Current # 0
           /\ TrueOfHit(Holder(Current))
<1>1. pids \subseteq Pids /\ pids \in SUBSET Nat /\ ProcOK /\ pc # "idle"
  BY PidsAssumption DEF PassStep, IInv, TypeOK, SocketOK
<1>2. Current \in pids
  BY <1>1, LeastLemma DEF Current
<1>3. Current \in Pids /\ Current # 0
  BY <1>1, <1>2, PidsAssumption
<1>4. ASSUME Holder(Current) # 0
      PROVE  Holder(Current) \in Incs /\ OfPid(Holder(Current), Current)
  <2>1. Holder(Current) \in Incs /\ Holds(Holder(Current), Current)
    BY <1>1, <1>3, <1>4, HolderLemma
  <2>2. Holder(Current) \in present /\ pidOf[Holder(Current)] = Current
    BY <1>1, <2>1 DEF IInv, WitnessOK, There, Holds
  <2> QED
    BY <2>1, <2>2 DEF OfPid
<1> QED
  BY <1>2, <1>3, <1>4 DEF TrueOfHit

(* The descriptors of one process, or none. *)
LEMMA ReadFdsLemma ==
    ASSUME IInv, ReadFds
    PROVE  IInv'
<1>1. /\ pc = "pid" /\ pids # {} /\ PassStep
      /\ UNCHANGED <<size, hit, meta, rows>>
      /\ \/ pids' = pids \ {Current} /\ UNCHANGED <<pc, fds>>
         \/ fds' \subseteq Fds /\ pc' = "link" /\ UNCHANGED pids
  BY DEF ReadFds, Goto, PassStep, tableVars, Current
<1>2. DarwinOK /\ hit = <<>> /\ fds \subseteq Fds /\ pids \subseteq Pids /\ size \in Nat
  BY <1>1, PassFactsLemma DEF PlaceOK, Passing, TypeOK
<1>3. \A k \in DOMAIN rows : rows[k].pid \notin pids
  BY <1>1, <1>2 DEF DarwinOK
<1>4. Current \in pids
  BY <1>1, CurrentLemma
<1>5. CASE pids' = pids \ {Current} /\ UNCHANGED <<pc, fds>>
  <2>1. DarwinOK'
    BY <1>1, <1>2, <1>3, <1>5 DEF DarwinOK, MetaOK, Passing
  <2> QED
    BY <1>1, <1>2, <1>5, <2>1, PassNoRowLemma DEF Passing
<1>6. CASE fds' \subseteq Fds /\ pc' = "link" /\ UNCHANGED pids
  <2>1. DarwinOK'
    BY <1>1, <1>2, <1>3, <1>4, <1>6 DEF DarwinOK, MetaOK, Passing, Current
  <2> QED
    BY <1>1, <1>2, <1>6, <2>1, PassNoRowLemma DEF Passing
<1> QED
  BY <1>1, <1>5, <1>6

(* The pid is left for good: no later row is of it. *)
LEMMA NextPidLemma ==
    ASSUME IInv, NextPid
    PROVE  IInv'
<1>1. /\ pc = "link" /\ pc' = "pid" /\ PassStep /\ pids' = pids \ {Current}
      /\ hit' = <<>> /\ UNCHANGED <<size, fds, rows>>
  BY DEF NextPid, Goto, PassStep, tableVars, Current
<1>2. DarwinOK /\ fds \subseteq Fds /\ pids \subseteq Pids /\ size \in Nat
  BY <1>1, PassFactsLemma DEF TypeOK
<1>3. \A k \in DOMAIN rows : rows[k].pid \notin pids'
  BY <1>1, <1>2 DEF DarwinOK, Passing
<1>4. DarwinOK'
  BY <1>1, <1>3 DEF DarwinOK, MetaOK, Passing
<1> QED
  BY <1>1, <1>2, <1>4, PassNoRowLemma DEF Passing

(* The name, of whoever holds the pid now. *)
LEMMA ReadNameLemma ==
    ASSUME IInv, ReadName
    PROVE  IInv'
<1>1. /\ pc = "name" /\ pc' = "start" /\ PassStep /\ meta' = <<Holder(Current)>>
      /\ UNCHANGED <<size, pids, fds, hit, rows>>
  BY DEF ReadName, Goto, PassStep, tableVars, Current
<1>2. /\ DarwinOK /\ fds \subseteq Fds /\ pids \subseteq Pids /\ size \in Nat
      /\ pids # {} /\ hit # <<>>
      /\ UNCHANGED <<present, pidOf>>
  BY <1>1, PassFactsLemma DEF TypeOK, PlaceOK, Passing
<1>3. TrueOfHit(Holder(Current))
  BY <1>1, <1>2, CurrentLemma
<1>4. meta'[1] = Holder(Current) /\ meta' = <<meta'[1]>>
  BY <1>1
<1>5. MetaOK'
  <2>1. Current' = Current
    BY <1>1 DEF Current
  <2>2. meta'[1] \in {0} \cup Incs /\ (meta'[1] # 0 => meta'[1] \in present /\ pidOf[meta'[1]] = Current)
    BY <1>3, <1>4 DEF TrueOfHit, OfPid
  <2>3. TrueOfHit(meta[1])'
    BY <1>2, <2>1, <2>2 DEF TrueOfHit, OfPid
  <2> QED
    BY <1>1, <1>2, <1>4, <2>3 DEF DarwinOK, MetaOK
<1>6. DarwinOK'
  BY <1>1, <1>2, <1>5 DEF DarwinOK, Passing, Current
<1> QED
  BY <1>1, <1>2, <1>6, PassNoRowLemma DEF Passing

(* A row for a descriptor of the pid at hand. *)
LEMMA AddRowLemma ==
    ASSUME IInv, PassStep, Passing, NEW s \in Socks, NEW of \in Incs, NEW m, AddRow(s, of, m),
           TrueOfHit(m[1]), TrueOfHit(m[2]),
           \A k \in DOMAIN rows : rows[k].pid = Current => rows[k].info = InfoOf(m)
    PROVE  /\ rows' \in Seq(Row) /\ RowsGood'
           /\ \A k \in DOMAIN rows' :
                 /\ rows'[k].pid \notin pids \ {Current}
                 /\ rows'[k].pid = Current => rows'[k].info = InfoOf(m)
<1>1. PICK r : /\ r = [sock |-> s, pid |-> Current, of |-> of, info |-> InfoOf(m)]
               /\ rows' = IF Key(r) \in Keys THEN rows ELSE Append(rows, r)
  BY DEF AddRow, InfoOf, Current
<1>2. /\ RowsGood /\ DarwinOK /\ rows \in Seq(Row) /\ pids # {}
      /\ UNCHANGED <<present, pidOf>>
  BY PassFactsLemma DEF PlaceOK
<1>3. Current \in Pids /\ Current # 0
  BY <1>2, CurrentLemma
<1>4. r.sock = s /\ r.pid = Current /\ r.info = InfoOf(m) /\ r \in Row
  BY <1>1, <1>3 DEF TrueOfHit, InfoOf, Info, Row
<1>5. InfoOK(r.info, Current)
  BY <1>4 DEF InfoOf, InfoOK, Reads, TrueOfHit
<1>6. \A k \in DOMAIN rows : rows[k].pid \notin pids \ {Current}
  BY <1>2 DEF DarwinOK
<1>7. CASE Key(r) \in Keys
  <2>1. rows' = rows
    BY <1>1, <1>7
  <2>2. RowsGood'
    BY <1>2, <2>1 DEF RowsGood, InfoOK, OfPid, Key
  <2> QED
    BY <1>2, <1>6, <2>1, <2>2
<1>8. CASE Key(r) \notin Keys
  <2>1. rows' = Append(rows, r)
    BY <1>1, <1>8
  <2>2. /\ rows' \in Seq(Row)
        /\ \A k \in DOMAIN rows : k \in DOMAIN rows' /\ rows'[k] = rows[k]
        /\ \E k \in DOMAIN rows' : rows'[k] = r
        /\ \A k \in DOMAIN rows' :
              (k \in DOMAIN rows /\ rows'[k] = rows[k]) \/ (k = Len(rows) + 1 /\ rows'[k] = r)
    BY <1>2, <1>4, <2>1, AppendLemma
  <2>3. PICK h : /\ h = rows' /\ h \in Seq(Row)
                 /\ \A k \in DOMAIN h :
                       (k \in DOMAIN rows /\ h[k] = rows[k]) \/ (k = Len(rows) + 1 /\ h[k] = r)
    BY <2>2
  <2>4. \A k \in DOMAIN h : h[k].pid # 0 /\ InfoOK(h[k].info, h[k].pid)
    BY <1>2, <1>3, <1>4, <1>5, <2>3 DEF RowsGood
  <2>5. \A k, l \in DOMAIN h : k # l => Key(h[k]) # Key(h[l])
    <3>1. \A k \in DOMAIN rows : Key(rows[k]) # Key(r)
      BY <1>8 DEF Keys
    <3> QED
      BY <1>2, <2>3, <3>1 DEF RowsGood
  <2>6. \A k, l \in DOMAIN h : h[k].pid = h[l].pid => h[k].info = h[l].info
    BY <1>2, <1>4, <2>3 DEF RowsGood
  <2>7. RowsGood'
    BY <1>2, <2>3, <2>4, <2>5, <2>6 DEF RowsGood, InfoOK, OfPid, Key
  <2>8. \A k \in DOMAIN h : h[k].pid \notin pids \ {Current} /\ (h[k].pid = Current => h[k].info = InfoOf(m))
    BY <1>4, <1>6, <2>3
  <2> QED
    BY <2>3, <2>7, <2>8
<1> QED
  BY <1>7, <1>8

(* A descriptor, of whoever holds the pid now: the first hit, or one more row. *)
LEMMA ReadSocketLemma ==
    ASSUME IInv, ReadSocket
    PROVE  IInv'
<1>1. PICK h, s : /\ h = Holder(Current)
                  /\ s = IF h \in foreign \cup {0} THEN 0 ELSE fdt[h][Least(fds)]
                  /\ \/ s = 0 /\ UNCHANGED <<pc, hit, rows>>
                     \/ s # 0 /\ hit = <<>> /\ hit' = <<s, h>> /\ pc' = "name" /\ UNCHANGED rows
                     \/ s # 0 /\ hit # <<>> /\ AddRow(s, h, meta) /\ UNCHANGED <<pc, hit>>
  BY DEF ReadSocket, Goto, Current
<1>2. /\ pc = "link" /\ PassStep /\ fds # {} /\ fds' \subseteq fds /\ UNCHANGED <<size, pids, meta>>
  BY DEF ReadSocket, Goto, PassStep, tableVars
<1>3. /\ DarwinOK /\ MetaOK /\ fds \subseteq Fds /\ pids \subseteq Pids /\ size \in Nat /\ pids # {}
      /\ UNCHANGED <<present, pidOf>> /\ Passing
  BY <1>2, PassFactsLemma DEF DarwinOK, TypeOK, PlaceOK, Passing
<1>4. Current' = Current /\ Current \in pids /\ TrueOfHit(h)
  BY <1>1, <1>2, <1>3, CurrentLemma DEF Current
<1>5. ASSUME s # 0 PROVE h \in Incs /\ s \in Socks
  <2>1. h \in Incs /\ s = fdt[h][Least(fds)]
    BY <1>1, <1>4, <1>5 DEF TrueOfHit
  <2>2. Least(fds) \in Fds
    <3>1. fds \in SUBSET Nat
      BY <1>3, FdsAssumption
    <3> QED
      BY <1>2, <1>3, <3>1, LeastLemma
  <2>3. fdt \in [Incs -> [Fds -> Socks \cup {0}]]
    BY DEF IInv, TypeOK, SocketTypeOK
  <2> QED
    BY <1>5, <2>1, <2>2, <2>3
<1>6. \A x : TrueOfHit(x)' <=> TrueOfHit(x)
  BY <1>3, <1>4 DEF TrueOfHit, OfPid
<1>7. CASE s = 0 /\ UNCHANGED <<pc, hit, rows>>
  <2>1. MetaOK'
    BY <1>2, <1>3, <1>4, <1>7 DEF MetaOK, TrueOfHit, OfPid
  <2>2. DarwinOK'
    BY <1>2, <1>3, <1>4, <1>7, <2>1 DEF DarwinOK, Passing
  <2> QED
    BY <1>2, <1>3, <1>7, <2>2, PassNoRowLemma DEF Passing
<1>8. CASE s # 0 /\ hit = <<>> /\ hit' = <<s, h>> /\ pc' = "name" /\ UNCHANGED rows
  <2>1. MetaOK'
    BY <1>5, <1>8 DEF MetaOK
  <2>2. \A k \in DOMAIN rows : rows[k].pid \notin pids \ {Current} /\ rows[k].pid # Current
    BY <1>3, <1>8 DEF DarwinOK
  <2>3. DarwinOK'
    BY <1>2, <1>4, <1>8, <2>1, <2>2 DEF DarwinOK, Passing
  <2>4. hit' # <<>>
    BY <1>8
  <2> QED
    BY <1>2, <1>3, <1>8, <2>3, <2>4, PassNoRowLemma DEF Passing
<1>9. CASE s # 0 /\ hit # <<>> /\ AddRow(s, h, meta) /\ UNCHANGED <<pc, hit>>
  <2>1. TrueOfHit(meta[1]) /\ TrueOfHit(meta[2])
    BY <1>2, <1>3, <1>9 DEF MetaOK
  <2>2. \A k \in DOMAIN rows : rows[k].pid = Current => rows[k].info = InfoOf(meta)
    BY <1>3 DEF DarwinOK
  <2>3. /\ rows' \in Seq(Row) /\ RowsGood'
        /\ \A k \in DOMAIN rows' :
              /\ rows'[k].pid \notin pids \ {Current}
              /\ rows'[k].pid = Current => rows'[k].info = InfoOf(meta)
    BY <1>2, <1>3, <1>5, <1>9, <2>1, <2>2, AddRowLemma
  <2>4. MetaOK'
    BY <1>2, <1>3, <1>4, <1>9 DEF MetaOK, TrueOfHit, OfPid
  <2>5. DarwinOK'
    BY <1>2, <1>4, <1>9, <2>3, <2>4 DEF DarwinOK, Passing, InfoOf
  <2> QED
    BY <1>2, <1>3, <1>9, <2>3, <2>5, PassLemma DEF Passing
<1> QED
  BY <1>1, <1>7, <1>8, <1>9

(* The start token, which completes the strings of this pid and its first row. *)
LEMMA ReadStartLemma ==
    ASSUME IInv, ReadStart
    PROVE  IInv'
<1>1. PICK m : /\ m = meta' /\ m = Append(meta, Holder(Current)) /\ AddRow(hit[1], hit[2], m)
  BY DEF ReadStart, AddRow, Current
<1>2. /\ pc = "start" /\ pc' = "link" /\ PassStep /\ UNCHANGED <<size, pids, fds, hit>>
  BY DEF ReadStart, Goto, PassStep, tableVars
<1>3. /\ DarwinOK /\ MetaOK /\ fds \subseteq Fds /\ pids \subseteq Pids /\ size \in Nat /\ pids # {}
      /\ UNCHANGED <<present, pidOf>> /\ Passing /\ hit # <<>>
  BY <1>2, PassFactsLemma DEF DarwinOK, TypeOK, PlaceOK, Passing
<1>4. Current' = Current /\ Current \in pids /\ TrueOfHit(Holder(Current))
  BY <1>2, <1>3, CurrentLemma DEF Current
<1>5. TrueOfHit(m[1]) /\ TrueOfHit(m[2])
  <2>1. TrueOfHit(meta[1]) /\ meta = <<meta[1]>>
    BY <1>2, <1>3 DEF MetaOK
  <2>2. PICK a, b : a = meta[1] /\ b = Holder(Current) /\ meta = <<a>>
    BY <2>1
  <2>3. PICK T, f : T = {0} \cup Incs /\ f = <<a>>
    OBVIOUS
  <2>4. a \in T /\ b \in T
    BY <1>4, <2>1, <2>2, <2>3 DEF TrueOfHit
  <2>5. f \in Seq(T) /\ Len(f) = 1 /\ f[1] = a
    BY <2>3, <2>4
  <2>6. m = Append(f, b)
    BY <1>1, <2>2, <2>3
  <2>7. m[Len(f) + 1] = b /\ \A i \in 1 .. Len(f) : m[i] = f[i]
    BY <2>4, <2>5, <2>6, AppendProperties
  <2>8. m[1] = a /\ m[2] = b
    BY <2>5, <2>7
  <2> QED
    BY <1>4, <2>1, <2>2, <2>8
<1>6. hit[1] \in Socks /\ hit[2] \in Incs
  BY <1>3 DEF MetaOK
<1>7. \A k \in DOMAIN rows : rows[k].pid # Current
  BY <1>2, <1>3 DEF DarwinOK
<1>8. /\ rows' \in Seq(Row) /\ RowsGood'
      /\ \A k \in DOMAIN rows' :
            /\ rows'[k].pid \notin pids \ {Current}
            /\ rows'[k].pid = Current => rows'[k].info = InfoOf(m)
  BY <1>1, <1>2, <1>3, <1>5, <1>6, <1>7, AddRowLemma
<1>9. MetaOK'
  BY <1>1, <1>2, <1>3, <1>4, <1>5, <1>6 DEF MetaOK, TrueOfHit, OfPid
<1>10. DarwinOK'
  BY <1>1, <1>2, <1>3, <1>4, <1>8, <1>9 DEF DarwinOK, Passing, InfoOf
<1> QED
  BY <1>2, <1>3, <1>8, <1>10, PassLemma DEF Passing

(* What mergeUnowned adds: a row for each endpoint of a list that has none. *)
LEMMA NobodysLemma ==
    ASSUME IInv, NEW N, N = Nobodys(FirstUnowned)
    PROVE  /\ N \in Seq(Row)
           /\ \A n \in DOMAIN N : N[n].pid = 0 /\ N[n].info = NoInfo /\ ~Owned(Endpoint[N[n].sock])
           /\ \A n, m \in DOMAIN N : Endpoint[N[n].sock] = Endpoint[N[m].sock] => n = m
           /\ \A k \in DOMAIN found :
                 \/ Owned(Endpoint[found[k].sock])
                 \/ \E n \in DOMAIN N : Endpoint[N[n].sock] = Endpoint[found[k].sock]
<1>1. found \in Seq(Found) /\ DOMAIN found = 1 .. Len(found) /\ Len(found) \in Nat
  BY DEF IInv, PlaceOK
<1>2. \A k \in DOMAIN found : found[k].sock \in Socks /\ k \in Nat
  <2>1. \A k \in DOMAIN found : found[k] \in Found
    BY <1>1
  <2> QED
    BY <1>1, <2>1 DEF Found
<1>3. PICK I, c, f : I = FirstUnowned /\ c = Cardinality(I) /\ f = SetToSeq(I)
  OBVIOUS
<1>4. I \subseteq DOMAIN found /\ IsFiniteSet(I)
  <2>1. I \subseteq 1 .. Len(found)
    BY <1>1, <1>3 DEF FirstUnowned, Unowned
  <2>2. IsFiniteSet(1 .. Len(found))
    BY <1>1, FS_Interval
  <2> QED
    BY <1>1, <2>1, <2>2, FS_Subset
<1>5. /\ c \in Nat /\ f \in [1 .. c -> I]
      /\ \A n, m \in 1 .. c : f[n] = f[m] => n = m
      /\ \A x \in I : \E n \in 1 .. c : f[n] = x
  BY <1>3, <1>4, SetToSeqLemma
<1>6. N = [n \in 1 .. c |-> [sock |-> found[f[n]].sock, pid |-> 0, info |-> NoInfo, of |-> 0]]
  BY <1>3 DEF Nobodys
<1>7. DOMAIN N = 1 .. c /\ \A n \in 1 .. c :
         /\ N[n].sock = found[f[n]].sock /\ N[n].pid = 0 /\ N[n].info = NoInfo
         /\ f[n] \in I /\ f[n] \in DOMAIN found
  BY <1>4, <1>5, <1>6
<1>8. N \in Seq(Row)
  <2>1. NoInfo \in Info
    BY DEF NoInfo, Info
  <2>2. \A n \in 1 .. c : found[f[n]].sock \in Socks
    BY <1>2, <1>7
  <2>3. N \in [1 .. c -> Row]
    BY <1>6, <2>1, <2>2 DEF Row
  <2> QED
    BY <1>5, <2>3
<1>9. \A n \in DOMAIN N : ~Owned(Endpoint[N[n].sock])
  <2>1. \A k \in I : ~Owned(Endpoint[found[k].sock])
    BY <1>3 DEF FirstUnowned, Unowned
  <2> QED
    BY <1>7, <2>1
<1>10. ASSUME NEW k \in I, NEW l \in I, Endpoint[found[k].sock] = Endpoint[found[l].sock]
       PROVE  k = l
  <2>1. /\ \A j \in 1 .. k - 1 : Endpoint[found[j].sock] # Endpoint[found[k].sock]
        /\ \A j \in 1 .. l - 1 : Endpoint[found[j].sock] # Endpoint[found[l].sock]
    BY <1>3 DEF FirstUnowned
  <2>2. k \in Nat /\ l \in Nat /\ k >= 1 /\ l >= 1
    BY <1>1, <1>4
  <2>3. ~(k < l) /\ ~(l < k)
    BY <1>10, <2>1, <2>2
  <2> QED
    BY <2>2, <2>3
<1>11. \A n, m \in DOMAIN N : Endpoint[N[n].sock] = Endpoint[N[m].sock] => n = m
  BY <1>5, <1>7, <1>10
<1>12. ASSUME NEW k \in DOMAIN found, ~Owned(Endpoint[found[k].sock])
       PROVE  \E n \in DOMAIN N : Endpoint[N[n].sock] = Endpoint[found[k].sock]
  <2>1. PICK e : e = Endpoint[found[k].sock]
    OBVIOUS
  <2>2. PICK L : L = {l \in DOMAIN found : Endpoint[found[l].sock] = e}
    OBVIOUS
  <2>3. L \in SUBSET Nat /\ L # {}
    BY <1>2, <2>1, <2>2
  <2>4. PICK x : x \in L /\ \A y \in L : x <= y
    BY <2>3, LeastLemma
  <2>5. x \in DOMAIN found /\ Endpoint[found[x].sock] = e /\ x \in Nat
    BY <1>2, <2>2, <2>4
  <2>6. \A j \in 1 .. x - 1 : j \in DOMAIN found /\ j \notin L
    BY <1>1, <2>4, <2>5
  <2>7. x \in I
    BY <1>3, <1>12, <2>1, <2>2, <2>5, <2>6 DEF FirstUnowned, Unowned
  <2>8. PICK n \in 1 .. c : f[n] = x
    BY <1>5, <2>7
  <2> QED
    BY <1>7, <2>1, <2>5, <2>8
<1>13. \A n \in DOMAIN N : N[n].pid = 0 /\ N[n].info = NoInfo
  BY <1>7
<1> QED
  BY <1>8, <1>9, <1>11, <1>12, <1>13

(* mergeUnowned completes the listing of macOS. *)
LEMMA MergeUnownedLemma ==
    ASSUME IInv, MergeUnowned
    PROVE  IInv'
<1>1. /\ ~OnWindows /\ platform = "darwin" /\ pc = "ask" /\ pc' = "done" /\ loaded = Len(Tables) /\ Quietly
      /\ UNCHANGED <<size, tries, loaded, missed, found, cache, handle, pids, fds, hit, meta>>
  BY DEF MergeUnowned, Goto, OnWindows, tableVars, windowsVars, darwinVars
<1>2. /\ SocketOK' /\ SocketTypeOK' /\ WitnessOK'
      /\ UNCHANGED <<births, pidOf, life, fdt, opened, changes, foreign, platform, up, present, before>>
      /\ Tables' = Tables /\ Growth' = Growth /\ \A k : Content(k)' = Content(k)
  BY <1>1, QuietLemma
<1>3. /\ TypeOK /\ PlaceOK /\ RowsOK /\ FoundOK /\ OnceOK /\ WitnessOK /\ DarwinOK
      /\ rows \in Seq(Row) /\ found \in Seq(Found) /\ hit = <<>>
      /\ \A k \in DOMAIN rows : rows[k].pid # 0
  BY <1>1 DEF IInv, PlaceOK, OnceOK, RowsOK, Passing
<1>4. PICK N : N = Nobodys(FirstUnowned)
  OBVIOUS
<1>5. /\ N \in Seq(Row)
      /\ \A n \in DOMAIN N : N[n].pid = 0 /\ N[n].info = NoInfo /\ ~Owned(Endpoint[N[n].sock])
      /\ \A n, m \in DOMAIN N : Endpoint[N[n].sock] = Endpoint[N[m].sock] => n = m
      /\ \A k \in DOMAIN found :
            \/ Owned(Endpoint[found[k].sock])
            \/ \E n \in DOMAIN N : Endpoint[N[n].sock] = Endpoint[found[k].sock]
  BY <1>4, NobodysLemma
<1>6. rows' = rows \o N
  BY <1>4 DEF MergeUnowned
<1>7. /\ rows' \in Seq(Row)
      /\ \A k \in DOMAIN rows : k \in DOMAIN rows' /\ rows'[k] = rows[k]
      /\ \A k \in DOMAIN N : \E l \in DOMAIN rows' : l = Len(rows) + k /\ rows'[l] = N[k]
      /\ \A k \in DOMAIN rows' :
            \/ k \in DOMAIN rows /\ rows'[k] = rows[k]
            \/ \E l \in DOMAIN N : k = Len(rows) + l /\ l = k - Len(rows) /\ rows'[k] = N[l]
  BY <1>3, <1>5, <1>6, ConcatLemma
<1>8. TypeOK'
  <2>1. \A k \in DOMAIN rows' : rows'[k] \in Row
    BY <1>7
  <2>2. \A k \in DOMAIN rows' : rows'[k].sock \in Socks /\ rows'[k].pid \in Pids \cup {0}
                                /\ rows'[k].info \in Info /\ rows'[k].of \in {0} \cup Incs
    BY <2>1 DEF Row
  <2> QED
    BY <1>1, <1>2, <1>3, <2>2 DEF TypeOK
<1>9. PlaceOK'
  BY <1>1, <1>2, <1>3, <1>7 DEF PlaceOK, Passing, OnWindows
<1>10. \A e : Owned(e) <=> \E k \in DOMAIN rows : Endpoint[rows[k].sock] = e
  BY DEF Owned, Key
<1>11. FoundOK'
  <2>1. ASSUME NEW s \in up
        PROVE  PassedOver(s) \/ \E k \in DOMAIN rows' : Endpoint[rows'[k].sock] = Endpoint[s]
    <3>1. s \in Socks
      BY <1>1, <1>3 DEF WitnessOK
    <3>2. ListRead(s)
      BY <1>1, <3>1, AllReadLemma
    <3>3. CASE \E k \in DOMAIN rows : Endpoint[rows[k].sock] = Endpoint[s]
      BY <1>7, <3>3
    <3>4. CASE \E k \in DOMAIN found : found[k].sock = s
      <4>1. PICK k \in DOMAIN found : found[k].sock = s
        BY <3>4
      <4>2. CASE Owned(Endpoint[s])
        BY <1>10, <3>3, <4>2
      <4>3. CASE \E n \in DOMAIN N : Endpoint[N[n].sock] = Endpoint[s]
        <5>1. PICK n \in DOMAIN N : Endpoint[N[n].sock] = Endpoint[s]
          BY <4>3
        <5>2. PICK l \in DOMAIN rows' : rows'[l] = N[n]
          BY <1>7
        <5> QED
          BY <5>1, <5>2
      <4> QED
        BY <1>5, <4>1, <4>2, <4>3
    <3> QED
      BY <1>3, <3>2, <3>3, <3>4 DEF FoundOK, Shown
  <2> QED
    BY <1>1, <1>2, <2>1 DEF FoundOK, ThereIsListed, PassedOver, Shown, ListRead
<1>12. OnceOK'
  <2>1. ASSUME NEW k \in DOMAIN rows', NEW l \in DOMAIN rows', k # l
        PROVE  /\ Key(rows'[k]) # Key(rows'[l])
               /\ Endpoint[rows'[k].sock] = Endpoint[rows'[l].sock] => rows'[k].pid # 0
    <3>1. CASE (k \in DOMAIN rows /\ rows'[k] = rows[k]) /\ (l \in DOMAIN rows /\ rows'[l] = rows[l])
      BY <1>1, <1>3, <2>1, <3>1 DEF OnceOK, ListedOnce
    <3>2. CASE (k \in DOMAIN rows /\ rows'[k] = rows[k]) /\ (\E m \in DOMAIN N : rows'[l] = N[m])
      <4>1. Endpoint[rows'[k].sock] # Endpoint[rows'[l].sock]
        BY <1>5, <1>10, <3>2
      <4> QED
        BY <4>1 DEF Key
    <3>3. CASE (\E n \in DOMAIN N : rows'[k] = N[n]) /\ (l \in DOMAIN rows /\ rows'[l] = rows[l])
      <4>1. Endpoint[rows'[k].sock] # Endpoint[rows'[l].sock]
        BY <1>5, <1>10, <3>3
      <4> QED
        BY <4>1 DEF Key
    <3>4. CASE /\ \E n \in DOMAIN N : k = Len(rows) + n /\ rows'[k] = N[n]
               /\ \E m \in DOMAIN N : l = Len(rows) + m /\ rows'[l] = N[m]
      <4>1. Endpoint[rows'[k].sock] # Endpoint[rows'[l].sock]
        BY <1>5, <2>1, <3>4
      <4> QED
        BY <4>1 DEF Key
    <3>5. /\ (k \in DOMAIN rows /\ rows'[k] = rows[k]) \/ (\E n \in DOMAIN N : k = Len(rows) + n /\ rows'[k] = N[n])
          /\ (l \in DOMAIN rows /\ rows'[l] = rows[l]) \/ (\E m \in DOMAIN N : l = Len(rows) + m /\ rows'[l] = N[m])
      BY <1>7
    <3> QED
      BY <3>1, <3>2, <3>3, <3>4, <3>5
  <2>2. platform' = "darwin" /\ ~OnWindows'
    BY <1>1, <1>2 DEF OnWindows
  <2>3. \A k, l \in DOMAIN rows' : k # l =>
           /\ <<Endpoint[rows'[k].sock], rows'[k].pid>> # <<Endpoint[rows'[l].sock], rows'[l].pid>>
           /\ Endpoint[rows'[k].sock] = Endpoint[rows'[l].sock] => rows'[k].pid # 0
    BY <2>1 DEF Key
  <2> QED
    BY <1>1, <2>2, <2>3 DEF OnceOK, ListedOnce, Key
<1>13. RowsOK'
  <2>1. DarwinOK' /\ ~OnWindows'
    BY <1>1, <1>2, <1>3 DEF DarwinOK, MetaOK, Passing, OnWindows
  <2>2. \A k \in DOMAIN rows' : IF rows'[k].pid = 0 THEN rows'[k].info = NoInfo
                                ELSE InfoOK(rows'[k].info, rows'[k].pid)
    BY <1>3, <1>5, <1>7 DEF RowsOK
  <2>3. \A k, l \in DOMAIN rows' : rows'[k].pid = rows'[l].pid => rows'[k].info = rows'[l].info
    BY <1>3, <1>5, <1>7 DEF RowsOK
  <2> QED
    BY <1>2, <2>1, <2>2, <2>3 DEF RowsOK, InfoOK, OfPid
<1>14. GrowthOK'
  BY <1>1, <1>2 DEF IInv, GrowthOK, GaveUpOnGrowth
<1> QED
  BY <1>2, <1>8, <1>9, <1>11, <1>12, <1>13, <1>14 DEF IInv

------------------------------------------------------------------------------
(* The end, or nothing at all. *)
LEMMA StutterLemma ==
    ASSUME IInv, UNCHANGED vars
    PROVE  IInv'
<1>1. /\ UNCHANGED <<births, pidOf, life, fdt, opened, changes, foreign, pc, up, present, platform, before>>
      /\ UNCHANGED <<size, tries, loaded, missed, found, cache, handle, pids, fds, hit, meta, rows>>
  BY DEF vars, procVars, sockVars, history, scanVars, tableVars, windowsVars, darwinVars
<1>2. SocketOK'
  BY <1>1 DEF IInv, SocketOK, SocketTypeOK, ProcOK, ProcTypeOK, Holds, Succession
<1>3. TypeOK'
  BY <1>1, <1>2 DEF IInv, TypeOK, SocketOK
<1>4. WitnessOK'
  BY <1>1 DEF IInv, WitnessOK, There, Open
<1>5. PlaceOK'
  BY <1>1 DEF IInv, PlaceOK, Passing, OnWindows, Tables
<1>6. FoundOK' /\ OnceOK'
  BY <1>1 DEF IInv, FoundOK, OnceOK, ThereIsListed, ListedOnce, PassedOver, Shown, ListRead, OnWindows,
     Key, Tables
<1>7. RowsOK'
  <2>1. \A info, pid : InfoOK(info, pid)' <=> InfoOK(info, pid)
    BY <1>1 DEF InfoOK, OfPid
  <2>2. OnWindows => WindowsOK'
    BY <1>1, <2>1 DEF IInv, RowsOK, WindowsOK, OnWindows, Owner, Holds, OfOne
  <2>3. ~OnWindows => DarwinOK'
    BY <1>1 DEF IInv, RowsOK, DarwinOK, MetaOK, TrueOfHit, OfPid, Passing, OnWindows, Current
  <2> QED
    BY <1>1, <2>1, <2>2, <2>3 DEF IInv, RowsOK, OnWindows, InfoOK, OfPid
<1>8. GrowthOK'
  BY <1>1 DEF IInv, GrowthOK, GaveUpOnGrowth, Growth, Outgrown, OnWindows, Content, Open, Tables
<1> QED
  BY <1>2, <1>3, <1>4, <1>5, <1>6, <1>7, <1>8 DEF IInv

(* Every step keeps the invariant. *)
LEMMA NextLemma == IInv /\ [Next]_vars => IInv'
<1> SUFFICES ASSUME IInv, [Next]_vars PROVE IInv'
  OBVIOUS
<1>1. CASE Begin
  BY <1>1, BeginLemma
<1>2. CASE Lists
  BY <1>2, AskSizeLemma, NothingThereLemma, MissLemma, FetchLemma, RetryLemma DEF Lists
<1>3. CASE Windows
  BY <1>3, MakeEntryLemma, QueryProcessLemma, QueryPebLemma, TableDoneLemma, AllTablesLemma DEF Windows
<1>4. CASE Darwin
  BY <1>4, ReadPidsLemma, PidsFailLemma, ReadFdsLemma, ReadSocketLemma, ReadNameLemma, ReadStartLemma,
     NextPidLemma, AllPidsLemma, WalkFailsLemma, MergeUnownedLemma DEF Darwin
<1>5. CASE pc \notin {"done", "failed"} /\ Machine
  BY <1>5, MachineLemma
<1>6. CASE Finished \/ UNCHANGED vars
  BY <1>6, StutterLemma DEF Finished
<1> QED
  BY <1>1, <1>2, <1>3, <1>4, <1>5, <1>6 DEF Next

(* IInv is an invariant of the listings of Windows and macOS. *)
THEOREM Invariance == Spec => []IInv
BY InitLemma, NextLemma, PTL DEF Spec

(* A listing of Windows or macOS keeps the types of its state: sockets it read
   were opened, and a process object is held open only for the second look at a
   process (listen_windows.go:156-182). *)
THEOREM TypeCorrect == Spec => []TypeOK
BY Invariance, PTL DEF IInv

(* Whatever the number and the growth of the lists: an endpoint that is bound all
   the time is listed, unless its list was passed over (listen_windows.go:360-376,
   listen_darwin.go:20-25). *)
THEOREM NothingIsMissed == Spec => []ThereIsListed
<1>1. IInv => ThereIsListed
  BY DEF IInv, FoundOK
<1> QED
  BY <1>1, Invariance, PTL

(* No socket has two rows on Windows; no two rows have one Key on macOS, and no
   endpoint is both a process' and nobody's (sysctl_darwin.go:62-65). *)
THEOREM NothingIsListedTwice == Spec => []ListedOnce
<1>1. IInv => ListedOnce
  BY DEF IInv, OnceOK
<1> QED
  BY <1>1, Invariance, PTL

(* However pids are reused during a listing, a row is about one process as long
   as its pid stays with it, and on Windows its strings are one process' in any
   case (listen_windows.go:156-182). *)
THEOREM RowsAreOfOneProcess == Spec => []OneProcessToARow
<1>1. ASSUME IInv PROVE OneProcessToARow
  <2>1. /\ RowsOK /\ TypeOK /\ PlaceOK /\ OnceOK
    BY <1>1 DEF IInv
  <2>2. SUFFICES ASSUME NEW k \in DOMAIN rows
                 PROVE  LET r == rows[k]
                            read == {r.info.name, r.info.start, r.info.cwd} \ {0}
                        IN /\ r.pid # 0 /\ {i \in present : pidOf[i] = r.pid} = {r.of} => read \subseteq {r.of}
                           /\ platform = "windows" => Cardinality(read) <= 1
                           /\ \A l \in DOMAIN rows : rows[l].pid = r.pid => rows[l].info = r.info
    BY DEF OneProcessToARow
  <2> DEFINE r == rows[k]
             read == Reads(r.info)
  <2>3. read = {r.info.name, r.info.start, r.info.cwd} \ {0}
    BY DEF Reads
  <2>4. r.pid # 0 => \A x \in read : x \in present /\ pidOf[x] = r.pid
    BY <2>1 DEF RowsOK, InfoOK, OfPid
  <2>5. ASSUME platform = "windows" PROVE Cardinality(read) <= 1
    <3>1. \A x, y \in read : x = y
      <4>1. WindowsOK /\ r.pid # 0
        BY <2>1, <2>5 DEF RowsOK, OnceOK, OnWindows
      <4>2. r.pid \in Pids /\ r.info = cache[r.pid] /\ cache[r.pid] # Unknown
        BY <2>1, <4>1 DEF TypeOK, WindowsOK
      <4> QED
        BY <4>1, <4>2 DEF WindowsOK, OfOne
    <3>2. CASE read = {}
      BY <3>2, FS_EmptySet
    <3>3. CASE read # {}
      <4>1. PICK x \in read : TRUE
        BY <3>3
      <4>2. read = {x}
        BY <3>1, <4>1
      <4> HIDE DEF read
      <4> QED
        BY <4>2, FS_Singleton
    <3> QED
      BY <3>2, <3>3
  <2>6. \A l \in DOMAIN rows : rows[l].pid = r.pid => rows[l].info = r.info
    BY <2>1 DEF RowsOK
  <2> QED
    BY <2>3, <2>4, <2>5, <2>6
<1> QED
  BY <1>1, Invariance, PTL

(* A list is given up as too large only if at least as many sockets as there were
   attempts, or room was added, were opened during the listing
   (listen_windows.go:360-375, helper_darwin.c:79-103). *)
THEOREM OnlyGrowthGivesUp == Spec => []GaveUpOnGrowth
<1>1. IInv => GaveUpOnGrowth
  BY DEF IInv, GrowthOK
<1> QED
  BY <1>1, Invariance, PTL
=====
