------------------------- MODULE KillElsewhereProofs -------------------------
(***************************************************************************)
(* Safety of listen.Kill on macOS, Windows and the other Unixes, for any   *)
(* number of calls, pids and processes. A number that was checked belongs  *)
(* to the listed process, or later to one born since; a handle that was    *)
(* compared belongs to the listed process for good.                        *)
(***************************************************************************)
EXTENDS KillElsewhere, KillCallSteps, ProcessTableProofs

(* Where a call is tells the platform. By number, whoever holds the pid after a
   check is the listed process or was born since; the handle is of a process
   that had the pid, the listed one or a later one. *)
Holding(c) ==
    /\ pc[c] \in {"signal", "wait", "killByNumber"} => platform # "windows"
    /\ pc[c] \in {"verify", "term"} =>
          /\ handle[c] \in Born
          /\ pidOf[handle[c]] = ident[c].pid
          /\ handle[c] # ident[c].start =>
                handle[c] > ident[c].start /\ life[ident[c].start] = "gone"
    /\ pc[c] = "term" => handle[c] = ident[c].start
    /\ pc[c] \in {"signal", "killByNumber"} =>
          \A i \in Incs : Holds(i, ident[c].pid) => i = ident[c].start \/ i > since[c]

(* A signal that reached the right process. *)
Right(s) == s.inc = ident[s.by].start \/ (platform # "windows" /\ s.inc > s.since)

(* What a call answers is true. *)
Reused(id) == life[id.start] = "gone" /\ \E i \in Born : i > id.start /\ pidOf[i] = id.pid
Truthful(c) ==
    /\ result[c] = "killed" /\ ~flaky => Doomed(ident[c].start)
    /\ result[c] = "mismatch" => Reused(ident[c])

CallOK(c) == Given(c) /\ SentSoFar(c) /\ Holding(c) /\ Truthful(c)

SentOK == SentByCalls /\ NeverInitOrSelf /\ \A s \in sent : Right(s)

IInv ==
    /\ TypeOK
    /\ ProcOK
    /\ \A c \in Calls : CallOK(c)
    /\ SentOK

USE DEF Incs, Born, InitInc, SelfInc

------------------------------------------------------------------------------
(* The steps of a call. *)
LEMMA CalledLemma ==
    ASSUME CallTypeOK, NEW c \in Calls, Called(c)
    PROVE  /\ pc[c] = "idle" /\ result[c] = "none"
           /\ \E id \in Ident :
                 /\ Listed(id)
                 /\ ident' = [ident EXCEPT ![c] = id]
                 /\ \/ Allowed(id) /\ pc' = [pc EXCEPT ![c] = "open"] /\ result' = result
                    \/ /\ ~Allowed(id) /\ pc' = [pc EXCEPT ![c] = "done"]
                       /\ result' = [result EXCEPT ![c] = "refused"]
           /\ since' = [since EXCEPT ![c] = births]
           /\ UNCHANGED <<flaky, expired, sent, procVars>>
<1>1. pc[c] = "idle" /\ result[c] = "none"
  BY DEF Called, CallTypeOK
<1> QED
  BY <1>1 DEF Called, Goto, Return

(* What a step of c under way does to its program counter and its answer. *)
LEMMA ProceedsLemma ==
    ASSUME CallTypeOK, NEW c \in Calls, Proceeds(c)
    PROVE  /\ pc' \in [Calls -> Steps] /\ result' \in [Calls -> Results]
           /\ result[c] = "none" /\ pc'[c] # "idle"
           /\ pc'[c] = "done" <=> result'[c] # "none"
           /\ result'[c] # "refused"
           /\ \A d \in Calls \ {c} : pc'[d] = pc[d] /\ result'[d] = result[d]
           /\ sent \subseteq sent'
           /\ \A s \in sent' \ sent : s.by = c /\ s.since = since[c] /\ s.inc \in Incs
<1>1. /\ pc \in [Calls -> Steps] /\ result \in [Calls -> Results] /\ result[c] = "none"
      /\ pc[c] \notin {"idle", "done"}
  BY DEF CallTypeOK, Proceeds, UnderWay
<1>2. CASE Looks(c)
  BY <1>1, <1>2 DEF Looks, Goto, Steps
<1>3. CASE Answers(c)
  BY <1>1, <1>3 DEF Answers, Return, Goto, Steps, Results
<1>4. CASE SendsTerm(c)
  BY <1>1, <1>4 DEF SendsTerm, Sends, Goto, Steps
<1>5. CASE SendsKill(c)
  BY <1>1, <1>5 DEF SendsKill, Sends, Return, Goto, Steps, Results
<1> QED
  BY <1>2, <1>3, <1>4, <1>5 DEF Proceeds

LEMMA ProceedsKeepsTypes ==
    ASSUME CallTypeOK, NEW c \in Calls, Proceeds(c),
           UNCHANGED <<flaky, expired, since, procVars>>
    PROVE  CallTypeOK'
<1>1. sent' \subseteq Signal
  <2>1. sent \subseteq Signal /\ since[c] \in Nat
    BY DEF CallTypeOK
  <2>2. \A i \in Incs : \A sig \in {"TERM", "KILL"} :
            [by |-> c, inc |-> i, sig |-> sig, since |-> since[c]] \in Signal
    BY <2>1 DEF Signal
  <2>3. CASE UNCHANGED sent
    BY <2>1, <2>3
  <2>4. CASE \E i \in Incs : \E sig \in {"TERM", "KILL"} : Sends(c, i, sig)
    BY <2>1, <2>2, <2>4 DEF Sends
  <2> QED
    BY <2>3, <2>4 DEF Proceeds, Looks, Answers, SendsTerm, SendsKill
<1>2. \A d \in Calls : pc'[d] = "done" <=> result'[d] # "none"
  BY ProceedsLemma DEF CallTypeOK
<1> QED
  BY <1>1, <1>2, ProceedsLemma DEF CallTypeOK, ProcTypeOK, procVars, Proceeds

LEMMA ProceedsKeepsSent ==
    ASSUME CallTypeOK, NEW c \in Calls, Proceeds(c),
           SentByCalls, \A d \in Calls : SentSoFar(d)
    PROVE  SentByCalls' /\ \A d \in Calls : SentSoFar(d)'
<1>1. \A s \in sent : s.by \in Calls
  BY DEF CallTypeOK, Signal
<1>2. SentByCalls'
  BY <1>1, ProceedsLemma DEF SentByCalls
<1>3. ASSUME NEW d \in Calls \ {c} PROVE SentSoFar(d)'
  BY <1>3, ProceedsLemma DEF SentSoFar
<1>4. SentSoFar(c)'
  <2>0. pc \in [Calls -> Steps] /\ pc[c] \notin {"idle", "done"}
    BY DEF CallTypeOK, Proceeds, UnderWay
  <2>1. CASE Looks(c)
    BY <2>0, <2>1 DEF Looks, Goto, SentSoFar
  <2>2. CASE Answers(c) \/ SendsKill(c)
    BY <2>0, <2>2 DEF Answers, SendsKill, Return, Goto, SentSoFar
  <2>3. CASE SendsTerm(c)
    BY <2>0, <2>3 DEF SendsTerm, Sends, Goto, SentSoFar
  <2> QED
    BY <2>1, <2>2, <2>3 DEF Proceeds
<1> QED
  BY <1>2, <1>3, <1>4

LEMMA ProceedsKeepsGiven ==
    ASSUME CallTypeOK, NEW c \in Calls, Proceeds(c), UNCHANGED <<since, procVars>>,
           NEW d \in Calls, Given(d)
    PROVE  Given(d)'
<1>1. pc'[d] # "idle" /\ result'[d] # "refused" => pc[d] # "idle" /\ result[d] # "refused"
  BY ProceedsLemma DEF Proceeds, UnderWay
<1> QED
  BY <1>1 DEF Given, Allowed, Proceeds, procVars

------------------------------------------------------------------------------
LEMMA InitLemma == Init => IInv
<1> SUFFICES ASSUME Init PROVE IInv
  OBVIOUS
<1>1. ProcOK /\ ProcTypeOK
  BY ProcInitLemma DEF Init, CallInit, ProcOK
<1>2. TypeOK
  BY <1>1, MayFailAssumption, PlatformsAssumption
     DEF Init, CallInit, TypeOK, CallTypeOK, Steps, Results, Ident, Signal
<1>3. \A c \in Calls : CallOK(c)
  BY DEF Init, CallInit, CallOK, Given, SentSoFar, Holding, Truthful
<1>4. SentOK
  BY DEF Init, CallInit, SentOK, SentByCalls, NeverInitOrSelf
<1> QED
  BY <1>1, <1>2, <1>3, <1>4 DEF IInv

(* The types of what a step may leave alone, and the ident of a call under way. *)
LEMMA PartsLemma ==
    ASSUME IInv
    PROVE  /\ CallTypeOK /\ ProcOK
           /\ ident \in [Calls -> Ident] /\ handle \in [Calls -> {0} \cup Incs]
           /\ expired \in [Calls -> BOOLEAN] /\ since \in [Calls -> Nat]
           /\ pc \in [Calls -> Steps] /\ result \in [Calls -> Results]
           /\ births \in Nat /\ Born \subseteq Incs
           /\ \A c \in Calls : pc[c] # "done" => result[c] = "none"
           /\ \A c \in Calls : pc[c] \notin {"idle", "done"} =>
                 /\ Allowed(ident[c]) /\ ident[c].pid \in Pids
                 /\ ident[c].start \in Born /\ pidOf[ident[c].start] = ident[c].pid
                 /\ ident[c].start <= since[c] /\ since[c] <= births
BY MaxBirthsAssumption DEF IInv, TypeOK, CallTypeOK, ProcOK, ProcTypeOK, CallOK, Given, Allowed, Ident

LEMMA ProcessesLemma ==
    ASSUME IInv, Processes
    PROVE  IInv'
<1>1. ProcNext /\ UNCHANGED <<flaky, pc, ident, expired, result, since, sent, platform, handle>>
  BY DEF Processes, callVars, hostVars
<1>2. /\ ProcOK'
      /\ births <= births' /\ births' \in Nat
      /\ \A i \in Born : pidOf'[i] = pidOf[i]
      /\ \A i \in Born : life[i] = "gone" => life'[i] = "gone"
      /\ \A i \in Born : Exited(i) => Exited(i)'
      /\ \A i \in Incs, pid \in Pids : Holds(i, pid)' => Holds(i, pid) \/ i > births
  BY <1>1, ProcLemma DEF IInv
<1>3. births \in Nat /\ since \in [Calls -> Nat] /\ ident \in [Calls -> Ident] /\ MaxBirths \in Nat
  BY PartsLemma, MaxBirthsAssumption
<1>4. TypeOK'
  BY <1>1, <1>2 DEF IInv, TypeOK, CallTypeOK, ProcOK
<1>5. ASSUME NEW c \in Calls PROVE CallOK(c)'
  <2>1. Given(c)'
    BY <1>1, <1>2, <1>3 DEF IInv, CallOK, Given, Allowed
  <2>2. SentSoFar(c)'
    BY <1>1 DEF IInv, CallOK, SentSoFar
  <2>3. Holding(c)'
    <3>1. CASE pc[c] \in {"verify", "term"}
      <4>1. ident[c].start \in Born
        BY <3>1, PartsLemma
      <4> QED
        BY <1>1, <1>2, <1>3, <3>1, <4>1 DEF IInv, CallOK, Holding
    <3>2. CASE pc[c] \in {"signal", "killByNumber"}
      <4>1. ident[c].pid \in Pids /\ since[c] <= births
        BY <3>2, PartsLemma
      <4> QED
        BY <1>1, <1>2, <1>3, <3>2, <4>1 DEF IInv, CallOK, Holding
    <3>3. CASE pc[c] \notin {"verify", "term", "signal", "killByNumber"}
      BY <1>1, <3>3 DEF IInv, CallOK, Holding
    <3> QED
      BY <3>1, <3>2, <3>3
  <2>4. Truthful(c)'
    <3>1. CASE result[c] \in {"killed", "mismatch"}
      <4>1. ident[c].start \in Born /\ Truthful(c)
        BY <3>1 DEF IInv, CallOK, Given, TypeOK, CallTypeOK
      <4> QED
        BY <1>1, <1>2, <1>3, <3>1, <4>1 DEF Truthful, Doomed, Killed, Reused
    <3>2. CASE result[c] \notin {"killed", "mismatch"}
      BY <1>1, <3>2 DEF Truthful
    <3> QED
      BY <3>1, <3>2
  <2> QED
    BY <2>1, <2>2, <2>3, <2>4 DEF CallOK
<1>6. SentOK'
  BY <1>1 DEF IInv, SentOK, SentByCalls, NeverInitOrSelf, Right
<1> QED
  BY <1>2, <1>4, <1>5, <1>6 DEF IInv

(* A step of c under way is right if c itself holds what it should, signals the
   right process if any, and answers the truth. *)
LEMMA StepLemma ==
    ASSUME IInv, NEW c \in Calls, Proceeds(c),
           UNCHANGED <<flaky, expired, since, procVars, platform>>,
           handle' \in [Calls -> {0} \cup Incs],
           \A d \in Calls \ {c} : handle'[d] = handle[d],
           Holding(c)', Truthful(c)',
           \A s \in sent' \ sent : Right(s) /\ s.inc \notin {InitInc, SelfInc}
    PROVE  IInv'
<1> USE DEF procVars
<1>1. CallTypeOK /\ SentByCalls /\ UNCHANGED ident /\ \A d \in Calls : SentSoFar(d)
  BY DEF IInv, TypeOK, SentOK, CallOK, Proceeds
<1>2. /\ sent \subseteq sent'
      /\ \A d \in Calls \ {c} : pc'[d] = pc[d] /\ result'[d] = result[d]
  BY <1>1, ProceedsLemma
<1>3. TypeOK'
  BY <1>1, ProceedsKeepsTypes DEF IInv, TypeOK
<1>4. ProcOK'
  BY DEF IInv, ProcOK, Succession, ProcTypeOK, Holds
<1>5. SentByCalls' /\ \A d \in Calls : SentSoFar(d)'
  BY <1>1, ProceedsKeepsSent
<1>6. ASSUME NEW d \in Calls PROVE Given(d)'
  BY <1>1, ProceedsKeepsGiven DEF IInv, CallOK
<1>7. ASSUME NEW d \in Calls \ {c} PROVE Holding(d)' /\ Truthful(d)'
  <2>1. Holding(d)'
    BY <1>1, <1>2 DEF IInv, CallOK, Holding, Holds
  <2>2. Truthful(d)'
    BY <1>1, <1>2 DEF IInv, CallOK, Truthful, Doomed, Exited, Killed, Reused
  <2> QED
    BY <2>1, <2>2
<1>8. SentOK'
  <2>1. NeverInitOrSelf'
    BY DEF IInv, SentOK, NeverInitOrSelf
  <2>2. \A s \in sent' : Right(s)'
    BY <1>1 DEF IInv, SentOK, Right
  <2> QED
    BY <1>5, <2>1, <2>2 DEF SentOK
<1> QED
  BY <1>3, <1>4, <1>5, <1>6, <1>7, <1>8 DEF IInv, CallOK

------------------------------------------------------------------------------
(* The steps. *)
LEMMA CallLemma ==
    ASSUME IInv, NEW c \in Calls, Call(c)
    PROVE  IInv'
<1>0. CallTypeOK /\ Called(c) /\ UNCHANGED <<platform, handle>>
  BY DEF Call, IInv, TypeOK, hostVars
<1>1. PICK id \in Ident :
        /\ Listed(id)
        /\ ident' = [ident EXCEPT ![c] = id]
        /\ \/ Allowed(id) /\ pc' = [pc EXCEPT ![c] = "open"] /\ result' = result
           \/ /\ ~Allowed(id) /\ pc' = [pc EXCEPT ![c] = "done"]
              /\ result' = [result EXCEPT ![c] = "refused"]
  BY <1>0, CalledLemma
<1>2. /\ pc[c] = "idle" /\ result[c] = "none"
      /\ since' = [since EXCEPT ![c] = births]
      /\ UNCHANGED <<flaky, expired, sent, procVars>>
  BY <1>0, CalledLemma
<1>3. /\ ident \in [Calls -> Ident] /\ since \in [Calls -> Nat] /\ births \in Nat
      /\ pc \in [Calls -> Steps] /\ result \in [Calls -> Results]
  BY PartsLemma
<1>4. TypeOK'
  <2>1. pc' \in [Calls -> Steps] /\ result' \in [Calls -> Results]
    BY <1>1, <1>3 DEF Steps, Results
  <2>2. \A d \in Calls : pc'[d] = "done" <=> result'[d] # "none"
    BY <1>0, <1>1, <1>2, <1>3 DEF CallTypeOK
  <2> QED
    BY <1>0, <1>1, <1>2, <1>3, <2>1, <2>2 DEF IInv, TypeOK, CallTypeOK, ProcTypeOK, procVars
<1>5. ProcOK'
  BY <1>2 DEF IInv, ProcOK, Succession, ProcTypeOK, Holds, procVars
<1>6. \A s \in sent : s.by \in Calls /\ s.by # c
  BY <1>0, <1>2 DEF IInv, SentOK, SentByCalls, CallTypeOK, Signal
<1>7. CallOK(c)'
  <2>1. Given(c)'
    BY <1>1, <1>2, <1>3 DEF Given, Allowed, Listed, procVars
  <2>2. SentSoFar(c)'
    BY <1>2, <1>6 DEF SentSoFar
  <2>3. Holding(c)' /\ Truthful(c)'
    BY <1>1, <1>2, <1>3 DEF Holding, Truthful
  <2> QED
    BY <2>1, <2>2, <2>3 DEF CallOK
<1>8. ASSUME NEW d \in Calls \ {c} PROVE CallOK(d)'
  <2>1. pc'[d] = pc[d] /\ result'[d] = result[d] /\ ident'[d] = ident[d] /\ since'[d] = since[d]
    BY <1>1, <1>2, <1>3
  <2> QED
    BY <1>0, <1>2, <2>1
       DEF IInv, CallOK, Given, Allowed, SentSoFar, Holding, Holds, Truthful, Doomed, Exited, Killed,
           Reused, procVars
<1>9. SentOK'
  <2>1. \A s \in sent : ident'[s.by] = ident[s.by] /\ pc'[s.by] # "idle"
    BY <1>1, <1>3, <1>6 DEF IInv, SentOK, SentByCalls
  <2> QED
    BY <1>0, <1>2, <2>1 DEF IInv, SentOK, SentByCalls, NeverInitOrSelf, Right
<1> QED
  BY <1>4, <1>5, <1>7, <1>8, <1>9 DEF IInv

LEMMA DeadlineLemma ==
    ASSUME IInv, NEW c \in Calls, DeadlinePasses(c)
    PROVE  IInv'
<1>1. /\ pc[c] \in {"poll", "wait"}
      /\ expired' = [expired EXCEPT ![c] = TRUE]
      /\ since' = [since EXCEPT ![c] = births]
      /\ UNCHANGED <<flaky, procVars, ident, handle, platform, pc, result, sent>>
  BY DEF DeadlinePasses, TimeUp, hostVars
<1>2. TypeOK'
  BY <1>1, PartsLemma DEF IInv, TypeOK, CallTypeOK, ProcTypeOK, procVars
<1>3. ProcOK'
  BY <1>1 DEF IInv, ProcOK, Succession, ProcTypeOK, Holds, procVars
<1>4. ASSUME NEW d \in Calls PROVE CallOK(d)'
  <2>1. Given(d)'
    BY <1>1, PartsLemma DEF IInv, CallOK, Given, Allowed, procVars
  <2>2. SentSoFar(d)' /\ Truthful(d)'
    BY <1>1 DEF IInv, CallOK, SentSoFar, Truthful, Doomed, Exited, Killed, Reused, procVars
  <2>3. Holding(d)'
    BY <1>1, PartsLemma DEF IInv, CallOK, Holding, Holds, procVars
  <2> QED
    BY <2>1, <2>2, <2>3 DEF CallOK
<1>5. SentOK'
  BY <1>1 DEF IInv, SentOK, SentByCalls, NeverInitOrSelf, Right
<1> QED
  BY <1>2, <1>3, <1>4, <1>5 DEF IInv

LEMMA StutterLemma ==
    ASSUME IInv, UNCHANGED vars
    PROVE  IInv'
<1> USE DEF vars, procVars, callVars, hostVars
<1>1. TypeOK' /\ ProcOK'
  BY DEF IInv, TypeOK, CallTypeOK, ProcTypeOK, ProcOK, Succession, Holds
<1>2. ASSUME NEW c \in Calls PROVE CallOK(c)'
  BY DEF IInv, CallOK, Given, Allowed, SentSoFar, Holding, Holds, Truthful, Doomed, Exited, Killed,
         Reused
<1>3. SentOK'
  BY DEF IInv, SentOK, SentByCalls, NeverInitOrSelf, Right
<1> QED
  BY <1>1, <1>2, <1>3 DEF IInv

(* What a look at the pid of a call under way says of the listed process. *)
LEMMA LookLemma ==
    ASSUME IInv, NEW c \in Calls, UnderWay(c)
    PROVE  /\ Verified(c) =>
                 \A i \in Incs : Holds(i, ident[c].pid) => i = ident[c].start
           /\ LooksGone(c) => Doomed(ident[c].start)
           /\ LooksReused(c) => Doomed(ident[c].start) /\ Reused(ident[c])
<1>1. /\ ProcOK /\ ident[c].pid \in Pids /\ ident[c].start \in Born /\ ident[c].start \in Incs
      /\ pidOf[ident[c].start] = ident[c].pid
  BY PartsLemma DEF UnderWay
<1>2. Verified(c) => \A i \in Incs : Holds(i, ident[c].pid) => i = ident[c].start
  BY <1>1 DEF ProcOK, Verified
<1>3. ASSUME ~Holds(ident[c].start, ident[c].pid)
      PROVE  /\ Doomed(ident[c].start) /\ life[ident[c].start] = "gone"
             /\ \A j \in Incs : Holds(j, ident[c].pid) =>
                   j \in Born /\ pidOf[j] = ident[c].pid /\ j > ident[c].start
  BY <1>1, <1>3, GaveWay DEF Doomed
<1>4. LooksGone(c) => Doomed(ident[c].start)
  <2>1. CASE Free(ident[c].pid)
    BY <1>1, <1>3, <2>1 DEF Free
  <2>2. CASE Zombie(c)
    <3>1. PICK i \in Incs : Holds(i, ident[c].pid) /\ life[i] = "zombie"
      BY <2>2 DEF Zombie
    <3>2. CASE i = ident[c].start
      BY <1>1, <3>1, <3>2 DEF Doomed, Exited
    <3>3. CASE i # ident[c].start
      BY <1>1, <1>3, <3>1, <3>3 DEF ProcOK
    <3> QED
      BY <3>2, <3>3
  <2> QED
    BY <2>1, <2>2 DEF LooksGone
<1>5. LooksReused(c) => Doomed(ident[c].start) /\ Reused(ident[c])
  BY <1>3 DEF LooksReused, Verified, Free, Reused
<1> QED
  BY <1>2, <1>4, <1>5

(* macOS: looks that go on or answer. *)
LEMMA DarwinLookLemma ==
    ASSUME IInv, NEW c \in Calls, DarwinCheck(c) \/ DarwinWait(c) \/ DarwinRecheck(c)
    PROVE  IInv'
<1>1. /\ platform = "darwin" /\ UnderWay(c) /\ pc[c] \in {"open", "wait"}
      /\ UNCHANGED <<flaky, ident, expired, since, sent, procVars, platform, handle>>
  BY DEF DarwinCheck, DarwinWait, DarwinRecheck, UnderWay, hostVars
<1>2. /\ handle \in [Calls -> {0} \cup Incs] /\ pc \in [Calls -> Steps]
      /\ result \in [Calls -> Results] /\ result[c] = "none"
  BY <1>1, PartsLemma DEF UnderWay
<1>3. Proceeds(c)
  BY <1>1 DEF DarwinCheck, DarwinWait, DarwinRecheck, Proceeds, Looks, Answers
<1>4. CASE UNCHANGED <<pc, result>>
  <2>1. Holding(c)' /\ Truthful(c)'
    BY <1>1, <1>2, <1>4 DEF IInv, CallOK, Holding, Holds, Truthful, procVars
  <2> QED
    BY <1>1, <1>2, <1>3, <2>1, StepLemma
<1>5. CASE Verified(c) /\ (Goto(c, "signal") \/ Goto(c, "killByNumber")) /\ UNCHANGED result
  <2>1. \A i \in Incs : Holds(i, ident[c].pid) => i = ident[c].start
    BY <1>1, <1>5, LookLemma
  <2>2. Holding(c)' /\ Truthful(c)'
    BY <1>1, <1>2, <1>5, <2>1 DEF Holding, Holds, Truthful, Goto, procVars
  <2> QED
    BY <1>1, <1>2, <1>3, <2>2, StepLemma
<1>6. ASSUME NEW r \in {"killed", "mismatch", "error"}, Return(c, r),
             r = "killed" /\ ~flaky => Doomed(ident[c].start),
             r = "mismatch" => Reused(ident[c])
      PROVE  IInv'
  <2>1. pc'[c] = "done" /\ result'[c] = r
    BY <1>2, <1>6 DEF Return, Goto
  <2>2. Holding(c)'
    BY <2>1 DEF Holding
  <2>3. Truthful(c)'
    BY <1>1, <1>6, <2>1 DEF Truthful, Doomed, Exited, Killed, Reused, procVars
  <2> QED
    BY <1>1, <1>2, <1>3, <2>2, <2>3, StepLemma
<1>7. /\ LooksGone(c) => Doomed(ident[c].start)
      /\ LooksReused(c) => Doomed(ident[c].start) /\ Reused(ident[c])
  BY <1>1, LookLemma
<1> QED
  BY <1>4, <1>5, <1>6, <1>7 DEF DarwinCheck, DarwinWait, DarwinRecheck

(* macOS: signals, to the listed process or to one born since. *)
LEMMA DarwinSignalLemma ==
    ASSUME IInv, NEW c \in Calls, DarwinTerm(c) \/ DarwinKill(c)
    PROVE  IInv'
<1>1. /\ platform = "darwin" /\ UnderWay(c) /\ pc[c] \in {"signal", "killByNumber"}
      /\ UNCHANGED <<flaky, ident, expired, since, procVars, platform, handle>>
  BY DEF DarwinTerm, DarwinKill, UnderWay, hostVars
<1>2. /\ handle \in [Calls -> {0} \cup Incs] /\ pc \in [Calls -> Steps]
      /\ result \in [Calls -> Results] /\ result[c] = "none"
      /\ Allowed(ident[c]) /\ ident[c].pid \in Pids /\ ident[c].start \in Born
      /\ ident[c].start \in Incs /\ pidOf[ident[c].start] = ident[c].pid /\ ProcOK
  BY <1>1, PartsLemma DEF UnderWay
<1>3. Proceeds(c)
  BY <1>1 DEF DarwinTerm, DarwinKill, Proceeds, SendsToNumber, Answers, SendsTerm, SendsKill
<1>4. ASSUME NEW r \in {"killed", "error"}, Return(c, r), UNCHANGED sent,
             r = "killed" => Free(ident[c].pid)
      PROVE  IInv'
  <2>1. pc'[c] = "done" /\ result'[c] = r
    BY <1>2, <1>4 DEF Return, Goto
  <2>2. r = "killed" => Doomed(ident[c].start)
    BY <1>1, <1>4, LookLemma DEF LooksGone
  <2>3. Holding(c)' /\ Truthful(c)'
    BY <1>1, <1>4, <2>1, <2>2 DEF Holding, Truthful, Doomed, Exited, Killed, procVars
  <2> QED
    BY <1>1, <1>2, <1>3, <1>4, <2>3, StepLemma
<1>5. ASSUME NEW sig \in {"TERM", "KILL"}, SendsToNumber(c, sig),
             \/ sig = "TERM" /\ Goto(c, "wait") /\ UNCHANGED result
             \/ sig = "KILL" /\ Return(c, "killed")
      PROVE  IInv'
  <2>1. PICK i \in Incs : Holds(i, ident[c].pid) /\ Sends(c, i, sig)
    BY <1>5 DEF SendsToNumber
  <2> DEFINE new == [by |-> c, inc |-> i, sig |-> sig, since |-> since[c]]
  <2>2. sent' = sent \cup {new}
    BY <2>1 DEF Sends
  <2>3. i = ident[c].start \/ i > since[c]
    BY <1>1, <2>1 DEF IInv, CallOK, Holding
  <2>4. i \notin {InitInc, SelfInc}
    BY <1>2, <2>1 DEF ProcOK, Allowed, Holds
  <2>5. \A s \in sent' \ sent : Right(s) /\ s.inc \notin {InitInc, SelfInc}
    BY <1>1, <2>2, <2>3, <2>4 DEF Right
  <2>6. \/ sig = "TERM" /\ pc'[c] = "wait" /\ result'[c] = "none"
        \/ sig = "KILL" /\ pc'[c] = "done" /\ result'[c] = "killed"
    BY <1>2, <1>5 DEF Return, Goto
  <2>7. sig = "KILL" => Doomed(ident[c].start)'
    <3>1. CASE sig = "KILL" /\ i = ident[c].start
      <4>1. new \in sent' /\ new.inc = ident'[c].start /\ new.sig = "KILL"
        BY <1>1, <2>2, <3>1
      <4>2. Killed(ident[c].start)'
        BY <4>1 DEF Killed
      <4> QED
        BY <1>1, <1>2, <4>2 DEF Doomed
    <3>2. CASE i # ident[c].start
      <4>1. ~Holds(ident[c].start, ident[c].pid)
        BY <1>2, <2>1, <3>2 DEF ProcOK
      <4>2. Exited(ident[c].start)
        BY <1>2, <4>1, GaveWay
      <4> QED
        BY <1>1, <1>2, <4>2 DEF Doomed, Exited, procVars
    <3> QED
      BY <3>1, <3>2
  <2>8. Holding(c)' /\ Truthful(c)'
    BY <1>1, <2>6, <2>7 DEF Holding, Truthful
  <2> QED
    BY <1>1, <1>2, <1>3, <2>5, <2>8, StepLemma
<1> QED
  BY <1>4, <1>5 DEF DarwinTerm, DarwinKill

(* Windows: the handle is of whoever has the pid, and is compared. *)
LEMMA HandleLemma ==
    ASSUME IInv, NEW c \in Calls, OpenProcess(c) \/ CompareCreation(c)
    PROVE  IInv'
<1>1. /\ platform = "windows" /\ UnderWay(c) /\ pc[c] \in {"open", "verify"}
      /\ UNCHANGED <<flaky, ident, expired, since, sent, procVars, platform>>
  BY DEF OpenProcess, CompareCreation, UnderWay, hostVars
<1>2. /\ handle \in [Calls -> {0} \cup Incs] /\ pc \in [Calls -> Steps]
      /\ result \in [Calls -> Results] /\ result[c] = "none"
      /\ ident[c].pid \in Pids /\ ident[c].start \in Born /\ Born \subseteq Incs
      /\ pidOf[ident[c].start] = ident[c].pid /\ ProcOK
  BY <1>1, PartsLemma DEF UnderWay
<1>3. Proceeds(c)
  BY <1>1 DEF OpenProcess, CompareCreation, Proceeds, Looks, Answers
<1>4. ASSUME NEW i \in Incs, Holds(i, ident[c].pid), handle' = [handle EXCEPT ![c] = i],
             Goto(c, "verify"), UNCHANGED result
      PROVE  IInv'
  <2>1. i # ident[c].start => ~Holds(ident[c].start, ident[c].pid)
    BY <1>2, <1>4 DEF ProcOK
  <2>2. i # ident[c].start => i > ident[c].start /\ life[ident[c].start] = "gone"
    BY <1>2, <1>4, <2>1, GaveWay
  <2>3. i \in Born /\ pidOf[i] = ident[c].pid
    BY <1>4 DEF Holds
  <2>4. Holding(c)' /\ Truthful(c)'
    BY <1>1, <1>2, <1>4, <2>2, <2>3 DEF Holding, Truthful, Goto, procVars
  <2> QED
    BY <1>1, <1>2, <1>3, <1>4, <2>4, StepLemma
<1>5. ASSUME pc[c] = "verify", AsListed(c), Goto(c, "term"), UNCHANGED <<result, handle>>
      PROVE  IInv'
  <2>1. Holding(c)' /\ Truthful(c)'
    BY <1>1, <1>2, <1>5 DEF IInv, CallOK, Holding, Truthful, AsListed, Goto, procVars
  <2> QED
    BY <1>1, <1>2, <1>3, <1>5, <2>1, StepLemma
<1>6. ASSUME NEW r \in {"mismatch", "error"}, Return(c, r), UNCHANGED handle,
             r = "mismatch" => pc[c] = "verify" /\ ~AsListed(c)
      PROVE  IInv'
  <2>1. pc'[c] = "done" /\ result'[c] = r
    BY <1>2, <1>6 DEF Return, Goto
  <2>2. r = "mismatch" => Reused(ident[c])
    BY <1>6 DEF IInv, CallOK, Holding, AsListed, Reused
  <2>3. Holding(c)' /\ Truthful(c)'
    BY <1>1, <1>6, <2>1, <2>2 DEF Holding, Truthful, Reused, procVars
  <2> QED
    BY <1>1, <1>2, <1>3, <1>6, <2>3, StepLemma
<1> QED
  BY <1>4, <1>5, <1>6 DEF OpenProcess, CompareCreation, hostVars

(* Windows: what is terminated is the process that was compared. *)
LEMMA TerminateLemma ==
    ASSUME IInv, NEW c \in Calls, Terminate(c)
    PROVE  IInv'
<1>1. /\ platform = "windows" /\ UnderWay(c) /\ pc[c] = "term"
      /\ UNCHANGED <<flaky, ident, expired, since, procVars, platform, handle>>
  BY DEF Terminate, UnderWay, hostVars
<1>2. /\ handle \in [Calls -> {0} \cup Incs] /\ pc \in [Calls -> Steps]
      /\ result \in [Calls -> Results] /\ result[c] = "none" /\ Born \subseteq Incs
      /\ Allowed(ident[c]) /\ ident[c].start \in Born
      /\ pidOf[ident[c].start] = ident[c].pid /\ ProcOK
  BY <1>1, PartsLemma DEF UnderWay
<1>3. handle[c] = ident[c].start
  BY <1>1 DEF IInv, CallOK, Holding
<1>4. handle[c] \notin {InitInc, SelfInc}
  BY <1>2, <1>3 DEF ProcOK, Allowed
<1>5. Proceeds(c)
  <2>1. handle[c] \in Incs
    BY <1>2, <1>3
  <2> QED
    BY <1>1, <2>1 DEF Terminate, Proceeds, Answers, Sends, SendsKill
<1>6. CASE Return(c, "error") /\ UNCHANGED sent
  <2>1. pc'[c] = "done" /\ result'[c] = "error"
    BY <1>2, <1>6 DEF Return, Goto
  <2>2. Holding(c)' /\ Truthful(c)'
    BY <2>1 DEF Holding, Truthful
  <2> QED
    BY <1>1, <1>2, <1>5, <1>6, <2>2, StepLemma
<1>7. CASE Sends(c, handle[c], "KILL") /\ Return(c, "killed")
  <2> DEFINE new == [by |-> c, inc |-> handle[c], sig |-> "KILL", since |-> since[c]]
  <2>1. pc'[c] = "done" /\ result'[c] = "killed" /\ sent' = sent \cup {new}
    BY <1>2, <1>7 DEF Return, Goto, Sends
  <2>2. Killed(ident[c].start)'
    <3>1. new \in sent' /\ new.inc = ident'[c].start /\ new.sig = "KILL"
      BY <1>1, <1>3, <2>1
    <3> QED
      BY <3>1 DEF Killed
  <2>3. Holding(c)' /\ Truthful(c)'
    BY <1>1, <1>2, <2>1, <2>2 DEF Holding, Truthful, Doomed
  <2>4. \A s \in sent' \ sent : Right(s) /\ s.inc \notin {InitInc, SelfInc}
    BY <1>3, <1>4, <2>1 DEF Right
  <2> QED
    BY <1>1, <1>2, <1>5, <2>3, <2>4, StepLemma
<1> QED
  BY <1>6, <1>7 DEF Terminate

(* Elsewhere: the call ends where it should check. *)
LEMMA OtherLemma ==
    ASSUME IInv, NEW c \in Calls, OtherVerify(c)
    PROVE  IInv'
<1>1. /\ pc[c] = "open" /\ UnderWay(c) /\ Return(c, "error")
      /\ UNCHANGED <<flaky, ident, expired, since, sent, procVars, platform, handle>>
  BY DEF OtherVerify, UnderWay, hostVars
<1>2. /\ handle \in [Calls -> {0} \cup Incs] /\ pc \in [Calls -> Steps]
      /\ result \in [Calls -> Results]
  BY PartsLemma
<1>3. Proceeds(c)
  BY <1>1 DEF Proceeds, Answers
<1>4. Holding(c)' /\ Truthful(c)'
  BY <1>1, <1>2 DEF Holding, Truthful, Return, Goto
<1> QED
  BY <1>1, <1>2, <1>3, <1>4, StepLemma

------------------------------------------------------------------------------
(* The inductive invariant holds in every reachable state. *)
THEOREM Invariance == Spec => []IInv
<1>1. Init => IInv
  BY InitLemma
<1>2. IInv /\ [Next]_vars => IInv'
  BY ProcessesLemma, CallLemma, DeadlineLemma, DarwinLookLemma, DarwinSignalLemma, HandleLemma,
     TerminateLemma, OtherLemma, StutterLemma
     DEF Next, Step, Darwin, Windows, Returned
<1> QED
  BY <1>1, <1>2, PTL DEF Spec

(* Every variable keeps its type, and a call has a result exactly when it is done. *)
THEOREM TypeCorrect == Spec => []TypeOK
<1>1. IInv => TypeOK
  BY DEF IInv
<1> QED
  BY <1>1, Invariance, PTL

(* Neither init nor lsoff itself is signalled, on any platform (kill.go:8-19). *)
THEOREM InitAndSelfAreSafe == Spec => []NeverInitOrSelf
<1>1. IInv => NeverInitOrSelf
  BY DEF IInv, SentOK
<1> QED
  BY <1>1, Invariance, PTL

(* nil means the listed process has exited or has SIGKILL on its way, as long as
   looking at a live process succeeds (kill_darwin.go:24-41, kill_windows.go:25). *)
THEOREM NilMeansDoomed == Spec => []KilledMeansDoomed
<1>1. IInv => KilledMeansDoomed
  BY DEF IInv, CallOK, Truthful, KilledMeansDoomed
<1> QED
  BY <1>1, Invariance, PTL

(* A mismatch is reported only of a pid that was given to a later process: on
   macOS of the pid at a check, on Windows of the handle opened by pid
   (kill_darwin.go:50-59, kill_windows.go:18-24). *)
THEOREM MismatchIsReuse == Spec => []MismatchMeansReused
<1>1. IInv => MismatchMeansReused
  BY DEF IInv, CallOK, Truthful, Reused, MismatchMeansReused
<1> QED
  BY <1>1, Invariance, PTL

(* Every step of a call is of one of the four kinds. *)
LEMMA StepProceeds ==
    ASSUME IInv, NEW c \in Calls, Step(c)
    PROVE  Proceeds(c) /\ UNCHANGED <<platform, ident>>
<1> USE DEF Proceeds, UnderWay, hostVars
<1>1. CASE DarwinCheck(c) \/ DarwinWait(c) \/ DarwinRecheck(c)
  BY <1>1 DEF DarwinCheck, DarwinWait, DarwinRecheck, Looks, Answers
<1>2. CASE DarwinTerm(c) \/ DarwinKill(c)
  BY <1>2 DEF DarwinTerm, DarwinKill, SendsToNumber, Answers, SendsTerm, SendsKill
<1>3. CASE OpenProcess(c) \/ CompareCreation(c)
  BY <1>3 DEF OpenProcess, CompareCreation, Looks, Answers
<1>4. CASE Terminate(c)
  <2>1. handle[c] \in Incs
    BY <1>4, PartsLemma DEF Terminate, IInv, CallOK, Holding
  <2> QED
    BY <1>4, <2>1 DEF Terminate, Answers, SendsKill
<1>5. CASE OtherVerify(c)
  BY <1>5 DEF OtherVerify, Answers
<1> QED
  BY <1>1, <1>2, <1>3, <1>4, <1>5 DEF Step, Darwin, Windows

(* On macOS no step of a call fails while nobody holds the pid, at whichever of
   its looks that is (kill_darwin.go:24-28, 37-39). *)
LEMMA FreeIsFine ==
    ASSUME IInv, NEW c \in Calls, platform = "darwin", ~flaky, Free(ident[c].pid), Step(c)
    PROVE  result'[c] \in {"none", "killed"}
<1>1. UnderWay(c) /\ result \in [Calls -> Results] /\ (UnderWay(c) => result[c] = "none")
  BY PartsLemma DEF Step, Darwin, DarwinCheck, DarwinTerm, DarwinWait, DarwinRecheck, DarwinKill,
                    Windows, OpenProcess, CompareCreation, Terminate, OtherVerify, UnderWay
<1>2. Darwin(c) /\ ~LooksReused(c)
  BY DEF Step, Windows, OpenProcess, CompareCreation, Terminate, OtherVerify, LooksReused
<1>3. UNCHANGED result \/ Return(c, "killed") \/ SendsToNumber(c, "KILL")
  BY <1>2 DEF Darwin, DarwinCheck, DarwinTerm, DarwinWait, DarwinRecheck, DarwinKill
<1>4. ~SendsToNumber(c, "KILL")
  BY DEF SendsToNumber, Free
<1> QED
  BY <1>1, <1>3, <1>4 DEF Return

(* "gone" is success: on macOS a call fails only of a pid that somebody holds
   (kill_darwin_test.go:56, kill_darwin.go:24-28, 37-39). *)
THEOREM GoneIsFine == Spec => GoneIsNoFailure
<1>1. IInv /\ [Next]_vars =>
        [\A c \in Calls : platform = "darwin" /\ ~flaky /\ Free(ident'[c].pid)
            /\ result[c] = "none" => result'[c] \in {"none", "killed", "refused"}]_vars
  <2> SUFFICES ASSUME IInv, Next, NEW c \in Calls, platform = "darwin", ~flaky,
                      Free(ident'[c].pid), result[c] = "none"
               PROVE  result'[c] \in {"none", "killed", "refused"}
    OBVIOUS
  <2>1. CASE UNCHANGED result
    BY <2>1
  <2>2. ASSUME NEW d \in Calls, Call(d) PROVE result'[c] \in {"none", "killed", "refused"}
    <3>1. result \in [Calls -> Results] /\ CallTypeOK /\ Called(d)
      BY <2>2, PartsLemma DEF Call
    <3>2. result' = result \/ result' = [result EXCEPT ![d] = "refused"]
      BY <3>1, CalledLemma
    <3> QED
      BY <3>1, <3>2
  <2>3. ASSUME NEW d \in Calls, Step(d) PROVE result'[c] \in {"none", "killed", "refused"}
    <3>1. Proceeds(d) /\ UNCHANGED ident /\ CallTypeOK
      BY <2>3, StepProceeds, PartsLemma
    <3>2. CASE d = c
      BY <2>3, <3>1, <3>2, FreeIsFine
    <3>3. CASE d # c
      BY <3>1, <3>3, ProceedsLemma
    <3> QED
      BY <3>2, <3>3
  <2> QED
    BY <2>1, <2>2, <2>3 DEF Next, Processes, Returned, DeadlinePasses, TimeUp, callVars, vars
<1> QED
  BY <1>1, Invariance, PTL DEF Spec, GoneIsNoFailure

------------------------------------------------------------------------------
(* SafeKill is implemented. *)
(* What a step of c looks like to SafeKill. *)
LEMMA StepKeepsPromise ==
    ASSUME IInv, IInv', NEW c \in Calls, Step(c)
    PROVE  [Promise!Next]_Promise!vars
<1> DEFINE called == [d \in Calls |-> pc[d] # "idle"]
<1>0. /\ Proceeds(c) /\ UNCHANGED <<platform, ident>> /\ CallTypeOK /\ SentSoFar(c)
      /\ pc[c] # "idle" /\ result[c] = "none" /\ result \in [Calls -> Results]
  BY StepProceeds, ProceedsLemma DEF IInv, CallOK, TypeOK, CallTypeOK, Proceeds, UnderWay
<1>1. called' = called /\ called[c]
  <2>1. \A d \in Calls : (pc'[d] # "idle") = (pc[d] # "idle")
    BY <1>0, ProceedsLemma
  <2> QED
    BY <1>0, <2>1
<1>2. CASE Looks(c)
  BY <1>0, <1>1, <1>2 DEF Looks, Promise!vars
<1>3. CASE Answers(c)
  <2>1. Promise!Answer(c)
    BY <1>0, <1>1, <1>3 DEF Answers, Return, Promise!Answer, Results
  <2> QED
    BY <2>1 DEF Promise!Next
<1>4. ASSUME NEW i \in Incs, NEW sig \in {"TERM", "KILL"}, Sends(c, i, sig),
             \/ /\ sig = "TERM" /\ result' = result /\ \A s \in sent : s.by # c
             \/ /\ sig = "KILL" /\ result' = [result EXCEPT ![c] = "killed"]
                /\ \A s \in sent : s.by = c => s.sig = "TERM"
      PROVE  Promise!Strike(c)
  <2> DEFINE new == [by |-> c, inc |-> i, sig |-> sig, since |-> since[c]]
  <2>1. sent' = sent \cup {new} /\ new \in sent' /\ new \notin sent
    BY <1>4 DEF Sends
  <2>2. Promise!Right(c, new)
    BY <1>0, <2>1 DEF IInv, SentOK, Right, Promise!Right
  <2>3. \/ sig = "TERM" /\ Promise!By(c) = {} /\ result' = result
        \/ /\ sig = "KILL" /\ \A r \in Promise!By(c) : r.sig = "TERM"
           /\ result' = [result EXCEPT ![c] = "killed"]
    BY <1>4 DEF Promise!By
  <2> QED
    BY <1>0, <1>1, <2>1, <2>2, <2>3 DEF Promise!Strike
<1>5. CASE SendsTerm(c)
  <2>1. \A s \in sent : s.by # c
    BY <1>0, <1>5 DEF SendsTerm, SentSoFar
  <2> QED
    BY <1>4, <1>5, <2>1 DEF SendsTerm, Promise!Next
<1>6. CASE SendsKill(c)
  <2>1. \A s \in sent : s.by = c => s.sig = "TERM"
    BY <1>0, <1>6 DEF SendsKill, SentSoFar
  <2> QED
    BY <1>4, <1>6, <2>1 DEF SendsKill, Return, Promise!Next
<1> QED
  BY <1>0, <1>2, <1>3, <1>5, <1>6 DEF Proceeds

LEMMA CallKeepsPromise ==
    ASSUME IInv, NEW c \in Calls, Call(c)
    PROVE  Promise!Begin(c)
<1>1. CallTypeOK /\ Called(c) /\ UNCHANGED platform
  BY DEF Call, IInv, TypeOK, hostVars
<1>2. /\ pc[c] = "idle" /\ result[c] = "none" /\ UNCHANGED sent
      /\ pc \in [Calls -> Steps] /\ result \in [Calls -> Results]
  BY <1>1, CalledLemma DEF CallTypeOK
<1>3. PICK id \in Ident :
        /\ ident' = [ident EXCEPT ![c] = id]
        /\ \/ Allowed(id) /\ pc' = [pc EXCEPT ![c] = "open"] /\ result' = result
           \/ /\ ~Allowed(id) /\ pc' = [pc EXCEPT ![c] = "done"]
              /\ result' = [result EXCEPT ![c] = "refused"]
  BY <1>1, CalledLemma
<1>4. [d \in Calls |-> pc'[d] # "idle"] = [[d \in Calls |-> pc[d] # "idle"] EXCEPT ![c] = TRUE]
  BY <1>2, <1>3
<1>5. result' = [result EXCEPT ![c] = IF id \in {x \in Ident : Allowed(x)} THEN "none" ELSE "refused"]
  BY <1>2, <1>3
<1> QED
  BY <1>1, <1>2, <1>3, <1>4, <1>5 DEF Promise!Begin

(* SafeKill is implemented on every platform: exactly through the handle of
   Windows, up to processes born since the last check by the numbers of macOS
   (kill_darwin.go:20-48, kill_windows.go:8-25). *)
THEOREM PromiseKept == Spec => KeepsPromise
<1>1. Init => Promise!Init
  <2> SUFFICES ASSUME Init PROVE Promise!Init
    OBVIOUS
  <2>1. TypeOK
    BY InitLemma DEF IInv
  <2> QED
    BY <2>1 DEF Init, CallInit, TypeOK, CallTypeOK, Promise!Init
<1>2. IInv /\ IInv' /\ [Next]_vars => [Promise!Next]_Promise!vars
  <2> SUFFICES ASSUME IInv, IInv', [Next]_vars PROVE [Promise!Next]_Promise!vars
    OBVIOUS
  <2>1. CASE UNCHANGED <<platform, pc, ident, sent, result>>
    BY <2>1 DEF Promise!vars
  <2>2. ASSUME NEW c \in Calls, Call(c) PROVE [Promise!Next]_Promise!vars
    BY <2>2, CallKeepsPromise DEF Promise!Next
  <2>3. ASSUME NEW c \in Calls, Step(c) PROVE [Promise!Next]_Promise!vars
    BY <2>3, StepKeepsPromise
  <2> QED
    BY <2>1, <2>2, <2>3 DEF Next, Processes, Returned, DeadlinePasses, TimeUp, callVars, hostVars, vars
<1> QED
  BY <1>1, <1>2, Invariance, PTL DEF Spec, KeepsPromise, Promise!Spec
=============================================================================
