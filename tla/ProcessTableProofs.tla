------------------------- MODULE ProcessTableProofs -------------------------
(***************************************************************************)
(* The invariant of the process table, and what its steps leave true: what *)
(* the proofs about kills and about listings share.                        *)
(***************************************************************************)
EXTENDS ProcessTable, TLAPS

(* A pid goes to a new process only when the one before it is gone. *)
Succession ==
    \A i, j \in Born : i < j /\ pidOf[i] = pidOf[j] => life[i] = "gone"

(* The processes: born in order, one holder to a pid, init and lsoff alive. *)
ProcOK ==
    /\ ProcTypeOK
    /\ \A i \in Incs : life[i] = "unborn" <=> i > births
    /\ \A i, j \in Incs : \A pid \in Pids : Holds(i, pid) /\ Holds(j, pid) => i = j
    /\ Succession
    /\ pidOf[InitInc] = InitPid /\ pidOf[SelfInc] = SelfPid
    /\ life[InitInc] = "running" /\ life[SelfInc] = "running"

USE DEF Incs, Born, InitInc, SelfInc

LEMMA ProcInitLemma == ProcInit => ProcOK
<1> SUFFICES ASSUME ProcInit PROVE ProcOK
  OBVIOUS
<1>1. ProcTypeOK
  BY PidsAssumption, MaxBirthsAssumption DEF ProcInit, ProcTypeOK, Lives
<1>2. \A i \in Incs : life[i] = "unborn" <=> i > births
  BY MaxBirthsAssumption DEF ProcInit
<1>3. Succession
  BY PidsAssumption, MaxBirthsAssumption DEF ProcInit, Succession
<1>4. \A i, j \in Incs : \A pid \in Pids : Holds(i, pid) /\ Holds(j, pid) => i = j
  BY PidsAssumption, MaxBirthsAssumption DEF ProcInit, Holds
<1>5. /\ pidOf[InitInc] = InitPid /\ pidOf[SelfInc] = SelfPid
      /\ life[InitInc] = "running" /\ life[SelfInc] = "running"
  BY MaxBirthsAssumption DEF ProcInit
<1> QED
  BY <1>1, <1>2, <1>3, <1>4, <1>5 DEF ProcOK

(* No step of the processes gives a pid back to a process that lost it, or
   brings one back to life. *)
LEMMA ProcLemma ==
    ASSUME ProcOK, ProcNext
    PROVE  /\ ProcOK'
           /\ births <= births' /\ births' \in Nat
           /\ \A i \in Born : pidOf'[i] = pidOf[i]
           /\ \A i \in Born : life[i] = "gone" => life'[i] = "gone"
           /\ \A i \in Born : Exited(i) => Exited(i)'
           /\ \A i \in Incs, pid \in Pids : Holds(i, pid)' => Holds(i, pid) \/ i > births
<1> USE DEF ProcOK, ProcTypeOK
<1>0. births \in Nat /\ births >= 2 /\ Born \subseteq Incs
  BY MaxBirthsAssumption
<1>1. CASE \E pid \in Pids : Fork(pid)
  <2>1. PICK pid \in Pids : Fork(pid)
    BY <1>1
  <2>2. ProcTypeOK'
    BY <2>1, MaxBirthsAssumption DEF Fork, Lives
  <2>3. /\ births' = births + 1
        /\ \A i \in Incs : /\ pidOf'[i] = IF i = births + 1 THEN pid ELSE pidOf[i]
                           /\ life'[i] = IF i = births + 1 THEN "running" ELSE life[i]
    BY <2>1 DEF Fork
  <2>4. \A i \in Incs : life'[i] = "unborn" <=> i > births'
    BY <2>3, <2>1 DEF Fork
  <2>5. \A i \in Incs, p \in Pids : Holds(i, p)' => Holds(i, p) \/ (i = births + 1 /\ p = pid)
    BY <2>3 DEF Holds
  <2>6. \A i, j \in Incs : \A p \in Pids : Holds(i, p)' /\ Holds(j, p)' => i = j
    BY <2>5, <2>1 DEF Fork, Free
  <2>7. \A i \in Born : i # births + 1 /\ pidOf'[i] = pidOf[i] /\ life'[i] = life[i]
    BY <1>0, <2>3
  <2>61. Succession'
    <3>1. \A i \in Born : pidOf[i] = pid => life[i] = "gone"
      BY <1>0, <2>1 DEF Fork, Free, Holds, Lives
    <3>2. births + 1 \in Incs /\ pidOf'[births + 1] = pid
      BY <2>1, <2>3, MaxBirthsAssumption DEF Fork
    <3>3. \A i \in Born' : i # births + 1 => i \in Born
      BY <1>0, <2>3
    <3>4. ASSUME NEW i \in Born', NEW j \in Born', i < j, pidOf'[i] = pidOf'[j]
          PROVE  life'[i] = "gone"
      <4>1. i \in Born /\ i # births + 1
        BY <1>0, <2>3, <3>4
      <4>2. pidOf'[i] = pidOf[i] /\ life'[i] = life[i]
        BY <1>0, <2>3, <4>1
      <4>3. CASE j = births + 1
        BY <3>1, <3>2, <3>4, <4>1, <4>2, <4>3
      <4>4. CASE j # births + 1
        BY <1>0, <2>3, <3>3, <3>4, <4>1, <4>2, <4>4 DEF Succession
      <4> QED
        BY <4>3, <4>4
    <3> QED
      BY <3>4 DEF Succession
  <2>8. ProcOK'
    <3>1. births \in 2 .. MaxBirths
      OBVIOUS
    <3>2. 1 \in Born /\ 2 \in Born /\ 1 \in Incs /\ 2 \in Incs
      BY <3>1, MaxBirthsAssumption
    <3>3. /\ pidOf'[1] = InitPid /\ pidOf'[2] = SelfPid
          /\ life'[1] = "running" /\ life'[2] = "running"
      BY <2>7, <3>2
    <3> QED
      BY <2>2, <2>4, <2>6, <2>61, <3>3
  <2>9. \A i \in Incs, p \in Pids : Holds(i, p)' => Holds(i, p) \/ i > births
    BY <2>5
  <2>10. births <= births' /\ births' \in Nat
    BY <1>0, <2>3
  <2>11. \A i \in Born : pidOf'[i] = pidOf[i]
    BY <2>7
  <2>12. \A i \in Born : /\ life[i] = "gone" => life'[i] = "gone"
                         /\ Exited(i) => Exited(i)'
    BY <2>7 DEF Exited
  <2> HIDE DEF ProcOK, ProcTypeOK
  <2> QED
    BY <2>8, <2>9, <2>10, <2>11, <2>12
<1>2. CASE \E i \in Incs : Exit(i) \/ Reap(i)
  <2>1. PICK i \in Incs : Exit(i) \/ Reap(i)
    BY <1>2
  <2>2. /\ ProcTypeOK' /\ births' = births /\ pidOf' = pidOf
        /\ \A j \in Incs : j # i => life'[j] = life[j]
        /\ \/ life[i] = "running" /\ life'[i] = "zombie" /\ i \notin {InitInc, SelfInc}
           \/ life[i] = "zombie" /\ life'[i] = "gone"
    BY <2>1 DEF Exit, Reap, Lives
  <2>3. \A j \in Incs, p \in Pids : Holds(j, p)' => Holds(j, p)
    BY <2>2 DEF Holds
  <2>4. \A j \in Incs : life'[j] = "unborn" <=> j > births'
    BY <2>2
  <2>5. ProcOK'
    <3>1. \A j, k \in Incs : \A p \in Pids : Holds(j, p)' /\ Holds(k, p)' => j = k
      BY <2>3
    <3>2. Succession'
      BY <1>0, <2>2 DEF Succession
    <3> QED
      BY <2>2, <2>4, <3>1, <3>2, MaxBirthsAssumption
  <2>6. \A j \in Born : /\ life[j] = "gone" => life'[j] = "gone"
                        /\ Exited(j) => Exited(j)'
    BY <1>0, <2>2 DEF Exited
  <2> QED
    BY <1>0, <2>2, <2>3, <2>5, <2>6
<1> QED
  BY <1>1, <1>2 DEF ProcNext

(* A process that was listed under a pid it no longer holds is gone, and
   whoever holds the pid came later. *)
LEMMA GaveWay ==
    ASSUME ProcOK, NEW i \in Born, NEW pid \in Pids, pidOf[i] = pid, ~Holds(i, pid)
    PROVE  /\ i \in Incs /\ life[i] = "gone" /\ Exited(i)
           /\ \A j \in Incs : Holds(j, pid) => j \in Born /\ pidOf[j] = pid /\ j > i
<1>1. i \in Incs /\ life[i] \in Lives /\ life[i] # "unborn" /\ births \in Nat
  BY MaxBirthsAssumption DEF ProcOK, ProcTypeOK
<1>2. life[i] = "gone"
  BY <1>1 DEF Holds, Lives
<1>3. ASSUME NEW j \in Incs, Holds(j, pid)
      PROVE  j \in Born /\ pidOf[j] = pid /\ j > i
  <2>1. j \in Born /\ pidOf[j] = pid /\ life[j] # "gone"
    BY <1>3 DEF Holds
  <2>2. ~(j < i) /\ j # i
    BY <1>2, <2>1 DEF ProcOK, Succession
  <2> QED
    BY <1>1, <2>1, <2>2, MaxBirthsAssumption
<1> QED
  BY <1>1, <1>2, <1>3 DEF Exited
=============================================================================
