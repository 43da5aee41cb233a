--------------------------- MODULE KillLinuxProofs ---------------------------
(***************************************************************************)
(* Safety of listen.Kill on Linux, for any number of calls, pids and       *)
(* processes. That a pidfd opened by number and verified by number refers  *)
(* to the listed process rests on one fact about the operating system: a   *)
(* pid has one holder at a time, and a process that lost it never gets it  *)
(* back. If another process held the pid when the fd was opened, then the  *)
(* listed one, which was there before, was gone for good, and the token    *)
(* read afterwards cannot be its token.                                    *)
(***************************************************************************)
EXTENDS KillLinux, KillCallSteps, ProcessTableProofs

(* The pidfd: the listed process, or one the listed process made way for. *)
FdIsListed(c) ==
    /\ pc[c] \in {"verify", "term", "poll"} =>
          /\ pidfds
          /\ fd[c] \in Born
          /\ pidOf[fd[c]] = ident[c].pid
          /\ fd[c] # ident[c].start => life[ident[c].start] = "gone"
    /\ pc[c] \in {"term", "poll"} => fd[c] = ident[c].start

(* By number: whoever holds the pid after a check is the listed process or
   was born since. *)
StrangersAreNew(c) ==
    /\ pc[c] \in {"check", "signal", "wait", "killByNumber"} => ~pidfds
    /\ pc[c] \in {"signal", "killByNumber"} =>
          \A i \in Incs : Holds(i, ident[c].pid) => i = ident[c].start \/ i > since[c]

CallOK(c) == Given(c) /\ FdIsListed(c) /\ StrangersAreNew(c)

SentOK == SentByCalls /\ OnlyListed /\ LateComersOnly /\ NeverInitOrSelf

IInv ==
    /\ TypeOK
    /\ ProcOK
    /\ \A c \in Calls : CallOK(c)
    /\ SentOK
    /\ KilledMeansDoomed

USE DEF Incs, Born, InitInc, SelfInc

------------------------------------------------------------------------------
(* The steps of a call. *)
LEMMA CalledLemma ==
    ASSUME CallTypeOK, NEW c \in Calls, Called(c)
    PROVE  /\ pc[c] = "idle" /\ result[c] = "none"
           /\ \E id \in Ident :
                 /\ Listed(id)
                 /\ ident' = [ident EXCEPT ![c] = id]
                 /\ \/ Allowed(id) /\ pc' = [pc EXCEPT ![c] = "open"] /\ result' = result
                    \/ /\ ~Allowed(id) /\ pc' = [pc EXCEPT ![c] = "done"]
                       /\ result' = [result EXCEPT ![c] = "refused"]
           /\ since' = [since EXCEPT ![c] = births]
           /\ UNCHANGED <<flaky, expired, sent, procVars>>
<1>1. pc[c] = "idle" /\ result[c] = "none"
  BY DEF Called, CallTypeOK
<1> QED
  BY <1>1 DEF Called, Goto, Return

(* What a step of c under way does to its program counter and its answer. *)
LEMMA ProceedsLemma ==
    ASSUME CallTypeOK, NEW c \in Calls, Proceeds(c)
    PROVE  /\ pc' \in [Calls -> Steps] /\ result' \in [Calls -> Results]
           /\ result[c] = "none" /\ pc'[c] # "idle"
           /\ pc'[c] = "done" <=> result'[c] # "none"
           /\ result'[c] # "refused"
           /\ \A d \in Calls \ {c} : pc'[d] = pc[d] /\ result'[d] = result[d]
           /\ sent \subseteq sent'
           /\ \A s \in sent' \ sent : s.by = c /\ s.since = since[c] /\ s.inc \in Incs
<1>1. /\ pc \in [Calls -> Steps] /\ result \in [Calls -> Results] /\ result[c] = "none"
      /\ pc[c] \notin {"idle", "done"}
  BY DEF CallTypeOK, Proceeds, UnderWay
<1>2. CASE Looks(c)
  BY <1>1, <1>2 DEF Looks, Goto, Steps
<1>3. CASE Answers(c)
  BY <1>1, <1>3 DEF Answers, Return, Goto, Steps, Results
<1>4. CASE SendsTerm(c)
  BY <1>1, <1>4 DEF SendsTerm, Sends, Goto, Steps
<1>5. CASE SendsKill(c)
  BY <1>1, <1>5 DEF SendsKill, Sends, Return, Goto, Steps, Results
<1> QED
  BY <1>2, <1>3, <1>4, <1>5 DEF Proceeds

LEMMA ProceedsKeepsTypes ==
    ASSUME CallTypeOK, NEW c \in Calls, Proceeds(c),
           UNCHANGED <<flaky, expired, since, procVars>>
    PROVE  CallTypeOK'
<1>1. sent' \subseteq Signal
  <2>1. sent \subseteq Signal /\ since[c] \in Nat
    BY DEF CallTypeOK
  <2>2. \A i \in Incs : \A sig \in {"TERM", "KILL"} :
            [by |-> c, inc |-> i, sig |-> sig, since |-> since[c]] \in Signal
    BY <2>1 DEF Signal
  <2>3. CASE UNCHANGED sent
    BY <2>1, <2>3
  <2>4. CASE \E i \in Incs : \E sig \in {"TERM", "KILL"} : Sends(c, i, sig)
    BY <2>1, <2>2, <2>4 DEF Sends
  <2> QED
    BY <2>3, <2>4 DEF Proceeds, Looks, Answers, SendsTerm, SendsKill
<1>2. \A d \in Calls : pc'[d] = "done" <=> result'[d] # "none"
  BY ProceedsLemma DEF CallTypeOK
<1> QED
  BY <1>1, <1>2, ProceedsLemma DEF CallTypeOK, ProcTypeOK, procVars, Proceeds

LEMMA ProceedsKeepsSent ==
    ASSUME CallTypeOK, NEW c \in Calls, Proceeds(c),
           SentByCalls, \A d \in Calls : SentSoFar(d)
    PROVE  SentByCalls' /\ \A d \in Calls : SentSoFar(d)'
<1>1. \A s \in sent : s.by \in Calls
  BY DEF CallTypeOK, Signal
<1>2. SentByCalls'
  BY <1>1, ProceedsLemma DEF SentByCalls
<1>3. ASSUME NEW d \in Calls \ {c} PROVE SentSoFar(d)'
  BY <1>3, ProceedsLemma DEF SentSoFar
<1>4. SentSoFar(c)'
  <2>0. pc \in [Calls -> Steps] /\ pc[c] \notin {"idle", "done"}
    BY DEF CallTypeOK, Proceeds, UnderWay
  <2>1. CASE Looks(c)
    BY <2>0, <2>1 DEF Looks, Goto, SentSoFar
  <2>2. CASE Answers(c) \/ SendsKill(c)
    BY <2>0, <2>2 DEF Answers, SendsKill, Return, Goto, SentSoFar
  <2>3. CASE SendsTerm(c)
    BY <2>0, <2>3 DEF SendsTerm, Sends, Goto, SentSoFar
  <2> QED
    BY <2>1, <2>2, <2>3 DEF Proceeds
<1> QED
  BY <1>2, <1>3, <1>4

LEMMA ProceedsKeepsGiven ==
    ASSUME CallTypeOK, NEW c \in Calls, Proceeds(c), UNCHANGED <<since, procVars>>,
           NEW d \in Calls, Given(d)
    PROVE  Given(d)'
<1>1. pc'[d] # "idle" /\ result'[d] # "refused" => pc[d] # "idle" /\ result[d] # "refused"
  BY ProceedsLemma DEF Proceeds, UnderWay
<1> QED
  BY <1>1 DEF Given, Allowed, Proceeds, procVars

------------------------------------------------------------------------------
LEMMA InitLemma == Init => IInv
<1> SUFFICES ASSUME Init PROVE IInv
  OBVIOUS
<1>1. ProcTypeOK /\ ProcOK
  BY ProcInitLemma DEF Init, CallInit, ProcOK
<1>2. TypeOK
  BY <1>1, HasPidfdAssumption, MayFailAssumption DEF Init, CallInit, TypeOK, CallTypeOK, Steps, Results, Ident, Signal
<1>3. \A c \in Calls : CallOK(c)
  BY DEF Init, CallInit, CallOK, Given, FdIsListed, StrangersAreNew
<1>4. SentOK /\ KilledMeansDoomed
  BY DEF Init, CallInit, SentOK, SentByCalls, OnlyListed, LateComersOnly, NeverInitOrSelf, KilledMeansDoomed
<1> QED
  BY <1>1, <1>2, <1>3, <1>4 DEF IInv
------------------------------------------------------------------------------
(* The processes. *)

LEMMA ProcessesLemma ==
    ASSUME IInv, Processes
    PROVE  IInv'
<1>1. /\ ProcNext
      /\ UNCHANGED <<pidfds, flaky, pc, ident, fd, expired, result, since, sent>>
  BY DEF Processes, callVars, machine
<1>2. /\ ProcOK'
      /\ births <= births' /\ births' \in Nat
      /\ \A i \in Born : pidOf'[i] = pidOf[i]
      /\ \A i \in Born : life[i] = "gone" => life'[i] = "gone"
      /\ \A i \in Born : Exited(i) => Exited(i)'
      /\ \A i \in Incs, pid \in Pids : Holds(i, pid)' => Holds(i, pid) \/ i > births
  BY <1>1, ProcLemma DEF IInv
<1>3. births \in Nat /\ since \in [Calls -> Nat] /\ ident \in [Calls -> Ident] /\ MaxBirths \in Nat
  BY MaxBirthsAssumption DEF IInv, TypeOK, CallTypeOK, ProcTypeOK
<1>4. TypeOK'
  BY <1>1, <1>2 DEF IInv, TypeOK, CallTypeOK, ProcOK
<1>5. ASSUME NEW c \in Calls PROVE CallOK(c)'
  <2>1. Given(c)'
    BY <1>1, <1>2, <1>3 DEF IInv, CallOK, Given, Allowed
  <2>2. FdIsListed(c)'
    BY <1>1, <1>2, <1>3 DEF IInv, CallOK, Given, FdIsListed, TypeOK, CallTypeOK
  <2>3. StrangersAreNew(c)'
    <3>1. CASE pc[c] \in {"signal", "killByNumber"}
      <4>1. ident[c].pid \in Pids /\ since[c] <= births /\ result[c] # "refused"
        BY <1>3, <3>1 DEF IInv, CallOK, Given, Allowed, Ident, TypeOK, CallTypeOK
      <4> QED
        BY <1>1, <1>2, <1>3, <3>1, <4>1 DEF IInv, CallOK, StrangersAreNew
    <3>2. CASE pc[c] \notin {"signal", "killByNumber"}
      BY <1>1, <3>2 DEF IInv, CallOK, StrangersAreNew
    <3> QED
      BY <3>1, <3>2
  <2> QED
    BY <2>1, <2>2, <2>3 DEF CallOK
<1>6. SentOK'
  BY <1>1 DEF IInv, SentOK, SentByCalls, OnlyListed, LateComersOnly, NeverInitOrSelf
<1>7. KilledMeansDoomed'
  <2> SUFFICES ASSUME ~flaky, NEW c \in Calls, result[c] = "killed"
               PROVE  Doomed(ident[c].start)'
    BY <1>1 DEF KilledMeansDoomed
  <2>1. Doomed(ident[c].start) /\ ident[c].start \in Born
    BY DEF IInv, KilledMeansDoomed, CallOK, Given, TypeOK, CallTypeOK
  <2> QED
    BY <1>1, <1>2, <2>1 DEF Doomed, Killed
<1> QED
  BY <1>2, <1>4, <1>5, <1>6, <1>7 DEF IInv
------------------------------------------------------------------------------
(* What the steps of a call have in common. *)

(* A step that goes on, returns, or stays keeps the types. *)
LEMMA TypeLemma ==
    ASSUME TypeOK, NEW c \in Calls, pc[c] # "done", UNCHANGED <<procVars, machine>>,
           \/ \E x \in Steps \ {"done"} : Goto(c, x) /\ UNCHANGED result
           \/ \E r \in Results \ {"none"} : Return(c, r)
           \/ UNCHANGED <<pc, result>>,
           ident' \in [Calls -> Ident], fd' \in [Calls -> {0} \cup Incs],
           expired' \in [Calls -> BOOLEAN], since' \in [Calls -> Nat], sent' \subseteq Signal
    PROVE  TypeOK'
<1>1. CASE \E x \in Steps \ {"done"} : Goto(c, x) /\ UNCHANGED result
  BY <1>1 DEF TypeOK, CallTypeOK, ProcTypeOK, procVars, machine, Goto
<1>2. CASE \E r \in Results \ {"none"} : Return(c, r)
  <2>1. PICK r \in Results \ {"none"} : Return(c, r)
    BY <1>2
  <2>2. pc' \in [Calls -> Steps] /\ result' \in [Calls -> Results]
    BY <2>1 DEF TypeOK, CallTypeOK, Return, Goto, Steps
  <2>3. \A d \in Calls : pc'[d] = "done" <=> result'[d] # "none"
    BY <2>1 DEF TypeOK, CallTypeOK, Return, Goto
  <2> QED
    BY <2>2, <2>3 DEF TypeOK, CallTypeOK, ProcTypeOK, procVars, machine
<1>3. CASE UNCHANGED <<pc, result>>
  BY <1>3 DEF TypeOK, CallTypeOK, ProcTypeOK, procVars, machine
<1> QED
  BY <1>1, <1>2, <1>3

(* A step of c is right if c itself comes out right and reports the truth. *)
LEMMA StepLemma ==
    ASSUME IInv, NEW c \in Calls, TypeOK', UNCHANGED <<procVars, machine>>,
           sent \subseteq sent',
           \A d \in Calls \ {c} :
              /\ pc'[d] = pc[d] /\ ident'[d] = ident[d] /\ fd'[d] = fd[d]
              /\ result'[d] = result[d] /\ since'[d] = since[d],
           CallOK(c)', SentOK',
           result'[c] = "killed" /\ ~flaky => Doomed(ident[c].start)'
    PROVE  IInv'
<1> USE DEF procVars, machine
<1>1. ProcOK'
  BY DEF IInv, ProcOK, Succession, ProcTypeOK, Holds
<1>2. ASSUME NEW d \in Calls \ {c} PROVE CallOK(d)'
  <2>1. Given(d)'
    BY DEF IInv, CallOK, Given, Allowed
  <2>2. FdIsListed(d)'
    BY DEF IInv, CallOK, FdIsListed
  <2>3. StrangersAreNew(d)'
    BY DEF IInv, CallOK, StrangersAreNew, Holds
  <2> QED
    BY <2>1, <2>2, <2>3 DEF CallOK
<1>3. KilledMeansDoomed'
  <2>2. ASSUME ~flaky, NEW d \in Calls, result'[d] = "killed"
        PROVE  Doomed(ident[d].start)'
    <3>1. CASE d = c
      BY <2>2, <3>1
    <3>2. CASE d # c
      <4>1. Doomed(ident[d].start) /\ ident'[d] = ident[d]
        BY <2>2, <3>2 DEF IInv, KilledMeansDoomed
      <4> QED
        BY <4>1 DEF Doomed, Exited, Killed
    <3> QED
      BY <3>1, <3>2
  <2> QED
    BY <2>2 DEF KilledMeansDoomed
<1> QED
  BY <1>1, <1>2, <1>3 DEF IInv

(* A signal to the listed process, or to one born since, is within bounds. *)
LEMMA SendLemma ==
    ASSUME IInv, NEW c \in Calls, NEW i \in Incs, NEW sig \in {"TERM", "KILL"},
           Sends(c, i, sig), UNCHANGED <<pidfds, ident>>, pc[c] # "idle",
           \A d \in Calls : pc[d] # "idle" => pc'[d] # "idle",
           pidfds => i = ident[c].start,
           i = ident[c].start \/ i > since[c],
           i \notin {InitInc, SelfInc}
    PROVE  SentOK' /\ sent' \subseteq Signal /\ sent \subseteq sent'
<1> DEFINE new == [by |-> c, inc |-> i, sig |-> sig, since |-> since[c]]
<1>1. sent' = sent \cup {new}
  BY DEF Sends
<1>2. new \in Signal
  BY DEF Signal, IInv, TypeOK, CallTypeOK
<1>3. sent \subseteq Signal
  BY DEF IInv, TypeOK, CallTypeOK
<1>4. \A s \in sent : s.by \in Calls
  BY <1>3 DEF Signal
<1>5. SentByCalls'
  BY <1>1, <1>4 DEF IInv, SentOK, SentByCalls
<1>6. OnlyListed' /\ LateComersOnly' /\ NeverInitOrSelf'
  BY <1>1 DEF IInv, SentOK, OnlyListed, LateComersOnly, NeverInitOrSelf
<1> QED
  BY <1>1, <1>2, <1>3, <1>5, <1>6 DEF SentOK

(* A step that sends nothing and is not the call itself. *)
LEMMA SilentLemma ==
    ASSUME IInv, UNCHANGED <<pidfds, ident, sent>>,
           \A d \in Calls : pc[d] # "idle" => pc'[d] # "idle"
    PROVE  SentOK'
<1>1. \A s \in sent : s.by \in Calls
  BY DEF IInv, TypeOK, CallTypeOK, Signal
<1> QED
  BY <1>1 DEF IInv, SentOK, SentByCalls, OnlyListed, LateComersOnly, NeverInitOrSelf

(* The listed process has exited as soon as it does not hold its pid. *)
LEMMA NotHolding ==
    ASSUME IInv, NEW c \in Calls, pc[c] # "idle", result[c] # "refused",
           ~Holds(ident[c].start, ident[c].pid)
    PROVE  /\ ident[c].start \in Incs
           /\ life[ident[c].start] = "gone"
           /\ Doomed(ident[c].start)
<1>1. ident[c].start \in Born /\ pidOf[ident[c].start] = ident[c].pid /\ Born \subseteq Incs
  BY MaxBirthsAssumption DEF IInv, CallOK, Given, TypeOK, CallTypeOK, ProcTypeOK
<1>2. life[ident[c].start] \in Lives /\ life[ident[c].start] # "unborn"
  BY <1>1 DEF IInv, TypeOK, CallTypeOK, ProcTypeOK, ProcOK
<1>3. life[ident[c].start] = "gone"
  BY <1>1, <1>2 DEF Holds, Lives
<1> QED
  BY <1>1, <1>3 DEF Doomed, Exited

(* The types of the parts of the state a step may leave alone, and the pid of
   a call under way. *)
LEMMA PartsLemma ==
    ASSUME IInv
    PROVE  /\ ident \in [Calls -> Ident] /\ fd \in [Calls -> {0} \cup Incs]
           /\ expired \in [Calls -> BOOLEAN] /\ since \in [Calls -> Nat]
           /\ pc \in [Calls -> Steps] /\ result \in [Calls -> Results]
           /\ sent \subseteq Signal /\ births \in Nat /\ Born \subseteq Incs
           /\ \A c \in Calls : pc[c] # "done" => result[c] = "none"
           /\ \A c \in Calls : pc[c] \notin {"idle", "done"} =>
                 /\ Allowed(ident[c]) /\ ident[c].pid \in Pids
                 /\ ident[c].start \in Born /\ pidOf[ident[c].start] = ident[c].pid
                 /\ ident[c].start <= since[c] /\ since[c] <= births
BY MaxBirthsAssumption DEF IInv, TypeOK, CallTypeOK, ProcTypeOK, CallOK, Given, Allowed, Ident
------------------------------------------------------------------------------
(* The call itself. *)
LEMMA CallLemma ==
    ASSUME IInv, NEW c \in Calls, Call(c)
    PROVE  IInv'
<1>1. PICK id \in Ident :
         /\ Listed(id)
         /\ ident' = [ident EXCEPT ![c] = id]
         /\ IF Allowed(id) THEN Goto(c, "open") /\ UNCHANGED result ELSE Return(c, "refused")
  BY DEF Call, Called, machine
<1>2. /\ pc[c] = "idle"
      /\ since' = [since EXCEPT ![c] = births]
      /\ UNCHANGED <<fd, expired, sent, procVars, machine>>
  BY DEF Call, Called, machine
<1>3. /\ ident \in [Calls -> Ident] /\ fd \in [Calls -> {0} \cup Incs]
      /\ expired \in [Calls -> BOOLEAN] /\ since \in [Calls -> Nat] /\ births \in Nat
      /\ pc \in [Calls -> Steps] /\ result \in [Calls -> Results] /\ sent \subseteq Signal
      /\ result[c] = "none"
  BY <1>2, PartsLemma
<1>4. TypeOK'
  BY <1>1, <1>2, <1>3, TypeLemma DEF IInv, Steps, Results
<1>5. \/ pc' = [pc EXCEPT ![c] = "open"] /\ result' = result /\ Allowed(id)
      \/ pc' = [pc EXCEPT ![c] = "done"] /\ result' = [result EXCEPT ![c] = "refused"]
  BY <1>1 DEF Goto, Return
<1>6. CallOK(c)'
  <2>1. Given(c)'
    BY <1>1, <1>2, <1>3, <1>5 DEF Given, Allowed, Listed, procVars
  <2>2. FdIsListed(c)' /\ StrangersAreNew(c)'
    BY <1>3, <1>5 DEF FdIsListed, StrangersAreNew
  <2> QED
    BY <2>1, <2>2 DEF CallOK
<1>7. SentOK'
  <2>1. \A s \in sent : s.by \in Calls /\ s.by # c
    BY <1>2, <1>3 DEF IInv, SentOK, SentByCalls, Signal
  <2>2. \A s \in sent : ident'[s.by] = ident[s.by] /\ pc'[s.by] # "idle"
    BY <1>1, <1>3, <1>5, <2>1 DEF IInv, SentOK, SentByCalls
  <2> QED
    BY <1>2, <2>2 DEF IInv, SentOK, SentByCalls, OnlyListed, LateComersOnly, NeverInitOrSelf, machine
<1> QED
  BY <1>1, <1>2, <1>3, <1>4, <1>5, <1>6, <1>7, StepLemma

(* A step that only looks: it sends nothing, and touches no call but c. What
   is left to show is that c comes out right, and that "killed" is true. *)
LEMMA LookLemma ==
    ASSUME IInv, NEW c \in Calls, pc[c] \notin {"idle", "done"},
           UNCHANGED <<machine, procVars, ident, since, sent>>,
           \/ \E x \in Steps \ {"idle", "done"} : Goto(c, x) /\ UNCHANGED result
           \/ \E r \in Results \ {"none", "refused"} : Return(c, r)
           \/ UNCHANGED <<pc, result>>,
           expired' = expired,
           fd' \in [Calls -> {0} \cup Incs], \A d \in Calls \ {c} : fd'[d] = fd[d],
           FdIsListed(c)', StrangersAreNew(c)',
           result'[c] = "killed" /\ ~flaky => Doomed(ident[c].start)
    PROVE  IInv'
<1>1. /\ ident \in [Calls -> Ident] /\ since \in [Calls -> Nat] /\ sent \subseteq Signal
      /\ expired \in [Calls -> BOOLEAN]
      /\ pc \in [Calls -> Steps] /\ result \in [Calls -> Results]
      /\ result[c] = "none"
  BY PartsLemma
<1>2. TypeOK'
  BY <1>1, TypeLemma DEF IInv, Steps, Results
<1>3. Given(c)'
  BY PartsLemma DEF Given, Allowed, procVars
<1>4. /\ \A d \in Calls \ {c} : pc'[d] = pc[d] /\ result'[d] = result[d]
      /\ pc'[c] # "idle"
  BY <1>1 DEF Goto, Return
<1>5. SentOK'
  BY <1>4, SilentLemma DEF machine
<1>6. result'[c] = "killed" /\ ~flaky => Doomed(ident[c].start)'
  BY DEF Doomed, Exited, Killed, procVars
<1> QED
  BY <1>2, <1>3, <1>4, <1>5, <1>6, StepLemma DEF CallOK
------------------------------------------------------------------------------
(* Through the pidfd. *)
LEMMA PidfdOpenLemma ==
    ASSUME IInv, NEW c \in Calls, PidfdOpen(c)
    PROVE  IInv'
<1>1. /\ pc[c] = "open"
      /\ UNCHANGED <<machine, procVars, ident, since, sent, expired>>
  BY DEF PidfdOpen
<1>2. /\ fd \in [Calls -> {0} \cup Incs] /\ pc \in [Calls -> Steps]
      /\ result \in [Calls -> Results] /\ result[c] = "none"
      /\ ident[c].start \in Born /\ pidOf[ident[c].start] = ident[c].pid /\ ident[c].pid \in Pids
      /\ Born \subseteq Incs
  BY <1>1, PartsLemma
<1>3. CASE ~pidfds
  <2>1. Goto(c, "check") /\ UNCHANGED <<fd, result>>
    BY <1>3 DEF PidfdOpen
  <2>2. FdIsListed(c)' /\ StrangersAreNew(c)'
    BY <1>1, <1>2, <1>3, <2>1 DEF FdIsListed, StrangersAreNew, Goto, machine
  <2> QED
    BY <1>1, <1>2, <2>1, <2>2, LookLemma DEF Steps
<1>4. ASSUME pidfds, NEW i \in Incs, Holds(i, ident[c].pid), fd' = [fd EXCEPT ![c] = i],
             Goto(c, "verify"), UNCHANGED result
      PROVE  IInv'
  <2>1. i # ident[c].start => ~Holds(ident[c].start, ident[c].pid)
    BY <1>2, <1>4 DEF IInv, ProcOK
  <2>2. i # ident[c].start => life[ident[c].start] = "gone"
    BY <1>1, <1>2, <2>1, NotHolding
  <2>3. FdIsListed(c)' /\ StrangersAreNew(c)'
    BY <1>1, <1>2, <1>4, <2>2 DEF FdIsListed, StrangersAreNew, Goto, machine, procVars, Holds
  <2> QED
    BY <1>1, <1>2, <1>4, <2>3, LookLemma DEF Steps
<1>5. ASSUME UNCHANGED fd, Return(c, "esrch") \/ Return(c, "error")
      PROVE  IInv'
  <2>1. FdIsListed(c)' /\ StrangersAreNew(c)' /\ result'[c] # "killed"
    BY <1>2, <1>5 DEF FdIsListed, StrangersAreNew, Return, Goto
  <2> QED
    BY <1>1, <1>2, <1>5, <2>1, LookLemma DEF Results
<1> QED
  BY <1>3, <1>4, <1>5 DEF PidfdOpen

(* The heart of it: the token of whoever holds the pid now is the listed one
   only if the fd refers to the listed process. *)
LEMMA VerifyStartLemma ==
    ASSUME IInv, NEW c \in Calls, VerifyStart(c)
    PROVE  IInv'
<1>1. /\ pc[c] = "verify"
      /\ UNCHANGED <<machine, procVars, ident, since, sent, expired, fd>>
  BY DEF VerifyStart
<1>2. /\ fd \in [Calls -> {0} \cup Incs] /\ pc \in [Calls -> Steps]
      /\ result \in [Calls -> Results] /\ result[c] = "none"
  BY <1>1, PartsLemma
<1>3. /\ pidfds /\ fd[c] \in Born /\ pidOf[fd[c]] = ident[c].pid
      /\ fd[c] # ident[c].start => life[ident[c].start] = "gone"
  BY <1>1 DEF IInv, CallOK, FdIsListed
<1>4. CASE Verified(c) /\ Goto(c, "term") /\ UNCHANGED result
  <2>1. life[ident[c].start] # "gone"
    BY <1>4 DEF Verified, Holds
  <2>2. fd[c] = ident[c].start
    BY <1>3, <2>1
  <2>3. FdIsListed(c)' /\ StrangersAreNew(c)'
    BY <1>1, <1>2, <1>3, <1>4, <2>2 DEF FdIsListed, StrangersAreNew, Goto, machine, procVars
  <2> QED
    BY <1>1, <1>2, <1>4, <2>3, LookLemma DEF Steps
<1>5. ASSUME NEW r \in {"esrch", "mismatch", "error"}, Return(c, r)
      PROVE  IInv'
  <2>1. FdIsListed(c)' /\ StrangersAreNew(c)' /\ result'[c] # "killed"
    BY <1>2, <1>5 DEF FdIsListed, StrangersAreNew, Return, Goto
  <2> QED
    BY <1>1, <1>2, <1>5, <2>1, LookLemma DEF Results
<1> QED
  BY <1>4, <1>5 DEF VerifyStart, VerifyError

LEMMA PollLemma ==
    ASSUME IInv, NEW c \in Calls, Poll(c)
    PROVE  IInv'
<1>1. /\ pc[c] = "poll"
      /\ UNCHANGED <<machine, procVars, ident, since, sent, expired, fd>>
  BY DEF Poll
<1>2. /\ fd \in [Calls -> {0} \cup Incs] /\ pc \in [Calls -> Steps]
      /\ result \in [Calls -> Results] /\ result[c] = "none" /\ Born \subseteq Incs
  BY <1>1, PartsLemma
<1>3. fd[c] = ident[c].start /\ fd[c] \in Born
  BY <1>1 DEF IInv, CallOK, FdIsListed
<1>4. CASE UNCHANGED <<pc, result>>
  <2>1. FdIsListed(c)' /\ StrangersAreNew(c)' /\ result'[c] # "killed"
    BY <1>1, <1>2, <1>4 DEF IInv, CallOK, FdIsListed, StrangersAreNew, machine, procVars, Holds
  <2> QED
    BY <1>1, <1>2, <1>4, <2>1, LookLemma
<1>5. CASE (life[fd[c]] = "gone" \/ flaky) /\ Return(c, "killed")
  <2>1. FdIsListed(c)' /\ StrangersAreNew(c)'
    BY <1>2, <1>5 DEF FdIsListed, StrangersAreNew, Return, Goto
  <2>2. ~flaky => Doomed(ident[c].start)
    BY <1>2, <1>3, <1>5 DEF Doomed, Exited
  <2> QED
    BY <1>1, <1>2, <1>5, <2>1, <2>2, LookLemma DEF Results
<1> QED
  BY <1>4, <1>5 DEF Poll

(* The signal goes to the listed process, which is neither init nor lsoff. *)
LEMMA ThroughFdLemma ==
    ASSUME IInv, NEW c \in Calls, SendTerm(c) \/ SendKill(c)
    PROVE  IInv'
<1>1. /\ pc[c] \in {"term", "poll"}
      /\ UNCHANGED <<machine, procVars, ident, since, expired, fd>>
  BY DEF SendTerm, SendKill
<1>2. /\ ident \in [Calls -> Ident] /\ since \in [Calls -> Nat]
      /\ expired \in [Calls -> BOOLEAN]
      /\ fd \in [Calls -> {0} \cup Incs] /\ pc \in [Calls -> Steps]
      /\ result \in [Calls -> Results] /\ result[c] = "none" /\ Born \subseteq Incs
      /\ Allowed(ident[c])
  BY <1>1, PartsLemma
<1>3. /\ pidfds /\ fd[c] = ident[c].start /\ fd[c] \in Born
      /\ pidOf[fd[c]] = ident[c].pid
  BY <1>1 DEF IInv, CallOK, FdIsListed
<1>4. fd[c] \notin {InitInc, SelfInc}
  BY <1>2, <1>3 DEF IInv, ProcOK, Allowed
<1>5. CASE life[fd[c]] = "gone" /\ Return(c, "killed") /\ UNCHANGED sent
  <2>1. FdIsListed(c)' /\ StrangersAreNew(c)'
    BY <1>2, <1>5 DEF FdIsListed, StrangersAreNew, Return, Goto
  <2>2. Doomed(ident[c].start)
    BY <1>2, <1>3, <1>5 DEF Doomed, Exited
  <2> QED
    BY <1>1, <1>2, <1>5, <2>1, <2>2, LookLemma DEF Results
<1>6. CASE Return(c, "error") /\ UNCHANGED sent
  <2>1. FdIsListed(c)' /\ StrangersAreNew(c)' /\ result'[c] # "killed"
    BY <1>2, <1>6 DEF FdIsListed, StrangersAreNew, Return, Goto
  <2> QED
    BY <1>1, <1>2, <1>6, <2>1, LookLemma DEF Results
<1>7. ASSUME NEW sig \in {"TERM", "KILL"}, Sends(c, fd[c], sig),
             \/ Goto(c, "poll") /\ UNCHANGED result
             \/ sig = "KILL" /\ Return(c, "killed")
      PROVE  IInv'
  <2>1. /\ \A d \in Calls \ {c} : pc'[d] = pc[d] /\ result'[d] = result[d]
        /\ \/ pc'[c] = "poll" /\ result'[c] = "none"
           \/ pc'[c] = "done" /\ result'[c] = "killed" /\ sig = "KILL"
    BY <1>2, <1>7 DEF Goto, Return
  <2>2. SentOK' /\ sent' \subseteq Signal /\ sent \subseteq sent'
    <3>1. \A d \in Calls : pc[d] # "idle" => pc'[d] # "idle"
      BY <2>1
    <3> QED
      BY <1>1, <1>2, <1>3, <1>4, <1>7, <3>1, SendLemma DEF machine
  <2>3. TypeOK'
    BY <1>1, <1>2, <1>7, <2>2, TypeLemma DEF IInv, Steps, Results
  <2>4. Given(c)'
    BY <1>1, PartsLemma DEF Given, Allowed, procVars
  <2>5. FdIsListed(c)' /\ StrangersAreNew(c)'
    BY <1>1, <1>3, <2>1 DEF FdIsListed, StrangersAreNew, machine, procVars
  <2>6. result'[c] = "killed" => Doomed(ident[c].start)'
    <3>1. CASE sig = "KILL"
      <4>1. [by |-> c, inc |-> fd[c], sig |-> "KILL", since |-> since[c]] \in sent'
        BY <1>7, <3>1 DEF Sends
      <4>2. Killed(ident[c].start)'
        BY <1>1, <1>3, <4>1 DEF Killed
      <4> QED
        BY <1>1, <1>2, <1>3, <4>2 DEF Doomed
    <3>2. CASE sig # "KILL"
      BY <2>1, <3>2
    <3> QED
      BY <3>1, <3>2
  <2> QED
    BY <1>1, <2>1, <2>2, <2>3, <2>4, <2>5, <2>6, StepLemma DEF CallOK
<1> QED
  BY <1>5, <1>6, <1>7 DEF SendTerm, SendKill
------------------------------------------------------------------------------
(* By number. *)
LEMMA CheckLemma ==
    ASSUME IInv, NEW c \in Calls, Check(c)
    PROVE  IInv'
<1>1. /\ pc[c] = "check"
      /\ UNCHANGED <<machine, procVars, ident, since, sent, expired, fd>>
  BY DEF Check
<1>2. /\ fd \in [Calls -> {0} \cup Incs] /\ pc \in [Calls -> Steps]
      /\ result \in [Calls -> Results] /\ result[c] = "none"
      /\ ident[c].start \in Incs /\ ident[c].pid \in Pids
  BY <1>1, PartsLemma
<1>3. ~pidfds
  BY <1>1 DEF IInv, CallOK, StrangersAreNew
<1>4. CASE Verified(c) /\ Goto(c, "signal") /\ UNCHANGED result
  <2>1. \A i \in Incs : Holds(i, ident[c].pid) => i = ident[c].start
    BY <1>2, <1>4 DEF IInv, ProcOK, Verified
  <2>2. FdIsListed(c)' /\ StrangersAreNew(c)'
    BY <1>1, <1>2, <1>3, <1>4, <2>1 DEF FdIsListed, StrangersAreNew, Goto, machine, procVars, Holds
  <2> QED
    BY <1>1, <1>2, <1>4, <2>2, LookLemma DEF Steps
<1>5. ASSUME NEW r \in {"esrch", "mismatch", "error"}, Return(c, r)
      PROVE  IInv'
  <2>1. FdIsListed(c)' /\ StrangersAreNew(c)' /\ result'[c] # "killed"
    BY <1>2, <1>5 DEF FdIsListed, StrangersAreNew, Return, Goto
  <2> QED
    BY <1>1, <1>2, <1>5, <2>1, LookLemma DEF Results
<1> QED
  BY <1>4, <1>5 DEF Check, VerifyError

LEMMA WaitLemma ==
    ASSUME IInv, NEW c \in Calls, Wait(c) \/ Recheck(c)
    PROVE  IInv'
<1>1. /\ pc[c] = "wait"
      /\ UNCHANGED <<machine, procVars, ident, since, sent, expired, fd>>
  BY DEF Wait, Recheck
<1>2. /\ fd \in [Calls -> {0} \cup Incs] /\ pc \in [Calls -> Steps]
      /\ result \in [Calls -> Results] /\ result[c] = "none"
      /\ ident[c].start \in Incs /\ ident[c].pid \in Pids
  BY <1>1, PartsLemma
<1>3. ~pidfds
  BY <1>1 DEF IInv, CallOK, StrangersAreNew
<1>4. CASE UNCHANGED <<pc, result>>
  <2>1. FdIsListed(c)' /\ StrangersAreNew(c)' /\ result'[c] # "killed"
    BY <1>1, <1>2, <1>3, <1>4 DEF FdIsListed, StrangersAreNew, machine
  <2> QED
    BY <1>1, <1>2, <1>4, <2>1, LookLemma
<1>5. CASE Verified(c) /\ Goto(c, "killByNumber") /\ UNCHANGED result
  <2>1. \A i \in Incs : Holds(i, ident[c].pid) => i = ident[c].start
    BY <1>2, <1>5 DEF IInv, ProcOK, Verified
  <2>2. FdIsListed(c)' /\ StrangersAreNew(c)'
    BY <1>1, <1>2, <1>3, <1>5, <2>1 DEF FdIsListed, StrangersAreNew, Goto, machine, procVars, Holds
  <2> QED
    BY <1>1, <1>2, <1>5, <2>2, LookLemma DEF Steps
<1>6. CASE (~Verified(c) \/ flaky) /\ Return(c, "killed")
  <2>1. FdIsListed(c)' /\ StrangersAreNew(c)'
    BY <1>2, <1>6 DEF FdIsListed, StrangersAreNew, Return, Goto
  <2>2. ~flaky => Doomed(ident[c].start)
    BY <1>1, <1>2, <1>6, NotHolding DEF Verified
  <2> QED
    BY <1>1, <1>2, <1>6, <2>1, <2>2, LookLemma DEF Results
<1> QED
  BY <1>4, <1>5, <1>6 DEF Wait, Recheck, StillSame

(* The signal goes to the listed process or to one born since. *)
LEMMA ToNumberLemma ==
    ASSUME IInv, NEW c \in Calls, SignalNumber(c) \/ KillNumber(c)
    PROVE  IInv'
<1>1. /\ pc[c] \in {"signal", "killByNumber"}
      /\ UNCHANGED <<machine, procVars, ident, since, expired, fd>>
  BY DEF SignalNumber, KillNumber
<1>2. /\ ident \in [Calls -> Ident] /\ since \in [Calls -> Nat]
      /\ expired \in [Calls -> BOOLEAN]
      /\ fd \in [Calls -> {0} \cup Incs] /\ pc \in [Calls -> Steps]
      /\ result \in [Calls -> Results] /\ result[c] = "none"
      /\ Allowed(ident[c]) /\ ident[c].pid \in Pids /\ ident[c].start \in Incs
  BY <1>1, PartsLemma
<1>3. /\ ~pidfds
      /\ \A i \in Incs : Holds(i, ident[c].pid) => i = ident[c].start \/ i > since[c]
  BY <1>1 DEF IInv, CallOK, StrangersAreNew
<1>4. CASE Free(ident[c].pid) /\ Return(c, "killed") /\ UNCHANGED sent
  <2>1. FdIsListed(c)' /\ StrangersAreNew(c)'
    BY <1>2, <1>4 DEF FdIsListed, StrangersAreNew, Return, Goto
  <2>2. Doomed(ident[c].start)
    BY <1>1, <1>2, <1>4, NotHolding DEF Free
  <2> QED
    BY <1>1, <1>2, <1>4, <2>1, <2>2, LookLemma DEF Results
<1>5. ASSUME NEW r \in {"esrch", "error"}, Return(c, r), UNCHANGED sent
      PROVE  IInv'
  <2>1. FdIsListed(c)' /\ StrangersAreNew(c)' /\ result'[c] # "killed"
    BY <1>2, <1>5 DEF FdIsListed, StrangersAreNew, Return, Goto
  <2> QED
    BY <1>1, <1>2, <1>5, <2>1, LookLemma DEF Results
<1>6. ASSUME NEW sig \in {"TERM", "KILL"}, SendsToNumber(c, sig),
             \/ Goto(c, "wait") /\ UNCHANGED result
             \/ sig = "KILL" /\ Return(c, "killed")
      PROVE  IInv'
  <2>0. PICK i \in Incs : Holds(i, ident[c].pid) /\ Sends(c, i, sig)
    BY <1>6 DEF SendsToNumber
  <2>1. /\ \A d \in Calls \ {c} : pc'[d] = pc[d] /\ result'[d] = result[d]
        /\ \/ pc'[c] = "wait" /\ result'[c] = "none"
           \/ pc'[c] = "done" /\ result'[c] = "killed" /\ sig = "KILL"
    BY <1>2, <1>6 DEF Goto, Return
  <2>2. SentOK' /\ sent' \subseteq Signal /\ sent \subseteq sent'
    <3>1. \A d \in Calls : pc[d] # "idle" => pc'[d] # "idle"
      BY <2>1
    <3>2. i \notin {InitInc, SelfInc}
      BY <1>2, <2>0 DEF IInv, ProcOK, Allowed, Holds
    <3> QED
      BY <1>1, <1>3, <2>0, <3>1, <3>2, SendLemma DEF machine
  <2>3. TypeOK'
    BY <1>1, <1>2, <1>6, <2>2, TypeLemma DEF IInv, Steps, Results
  <2>4. Given(c)'
    BY <1>1, PartsLemma DEF Given, Allowed, procVars
  <2>5. FdIsListed(c)' /\ StrangersAreNew(c)'
    BY <1>1, <1>3, <2>1 DEF FdIsListed, StrangersAreNew, machine, procVars
  <2>6. result'[c] = "killed" => Doomed(ident[c].start)'
    <3>1. CASE i = ident[c].start /\ sig = "KILL"
      <4>1. [by |-> c, inc |-> i, sig |-> "KILL", since |-> since[c]] \in sent'
        BY <2>0, <3>1 DEF Sends
      <4>2. Killed(ident[c].start)'
        BY <1>1, <3>1, <4>1 DEF Killed
      <4> QED
        BY <1>1, <1>2, <4>2 DEF Doomed
    <3>2. CASE i # ident[c].start
      <4>1. ~Holds(ident[c].start, ident[c].pid)
        BY <1>2, <2>0, <3>2 DEF IInv, ProcOK
      <4>2. Doomed(ident[c].start)
        BY <1>1, <1>2, <4>1, NotHolding
      <4> QED
        BY <1>1, <2>2, <4>2 DEF Doomed, Exited, Killed, procVars
    <3>3. CASE sig # "KILL"
      BY <2>1, <3>3
    <3> QED
      BY <3>1, <3>2, <3>3
  <2> QED
    BY <1>1, <2>1, <2>2, <2>3, <2>4, <2>5, <2>6, StepLemma DEF CallOK
<1> QED
  BY <1>4, <1>5, <1>6 DEF SignalNumber, KillNumber

(* The two seconds are over. *)
LEMMA DeadlineLemma ==
    ASSUME IInv, NEW c \in Calls, DeadlinePasses(c)
    PROVE  IInv'
<1>1. /\ pc[c] \in {"poll", "wait"}
      /\ expired' = [expired EXCEPT ![c] = TRUE]
      /\ since' = [since EXCEPT ![c] = births]
      /\ UNCHANGED <<machine, procVars, ident, fd, pc, result, sent>>
  BY DEF DeadlinePasses, TimeUp, machine
<1>2. /\ ident \in [Calls -> Ident] /\ since \in [Calls -> Nat] /\ births \in Nat
      /\ expired \in [Calls -> BOOLEAN] /\ fd \in [Calls -> {0} \cup Incs]
      /\ result[c] = "none" /\ sent \subseteq Signal
      /\ Allowed(ident[c]) /\ ident[c].start \in Born /\ pidOf[ident[c].start] = ident[c].pid
  BY <1>1, PartsLemma
<1>3. TypeOK'
  BY <1>1, <1>2, TypeLemma DEF IInv
<1>4. CallOK(c)'
  <2>1. Given(c)'
    BY <1>1, <1>2 DEF Given, Allowed, procVars
  <2>2. FdIsListed(c)' /\ StrangersAreNew(c)'
    BY <1>1 DEF IInv, CallOK, FdIsListed, StrangersAreNew, machine, procVars
  <2> QED
    BY <2>1, <2>2 DEF CallOK
<1>5. SentOK'
  BY <1>1, SilentLemma DEF machine
<1> QED
  BY <1>1, <1>2, <1>3, <1>4, <1>5, StepLemma

LEMMA StutterLemma ==
    ASSUME IInv, UNCHANGED vars
    PROVE  IInv'
<1>1. TypeOK' /\ ProcOK'
  BY DEF vars, procVars, callVars, machine, IInv, TypeOK, CallTypeOK, ProcTypeOK, ProcOK, Succession, Holds
<1>2. ASSUME NEW c \in Calls PROVE CallOK(c)'
  BY DEF vars, procVars, callVars, machine, IInv, CallOK, Given, FdIsListed, StrangersAreNew,
         Allowed, Holds
<1>3. SentOK'
  BY DEF vars, callVars, machine, IInv, SentOK, SentByCalls, OnlyListed, LateComersOnly, NeverInitOrSelf
<1>4. KilledMeansDoomed'
  BY DEF vars, procVars, callVars, machine, IInv, KilledMeansDoomed, Doomed, Exited, Killed
<1> QED
  BY <1>1, <1>2, <1>3, <1>4 DEF IInv

------------------------------------------------------------------------------
(* The inductive invariant holds in every reachable state. *)
THEOREM Invariance == Spec => []IInv
<1>1. Init => IInv
  BY InitLemma
<1>2. IInv /\ [Next]_vars => IInv'
  BY ProcessesLemma, CallLemma, PidfdOpenLemma, VerifyStartLemma, PollLemma, ThroughFdLemma,
     CheckLemma, WaitLemma, ToNumberLemma, DeadlineLemma, StutterLemma
     DEF Next, Step, ViaPidfd, ByNumber, Returned
<1> QED
  BY <1>1, <1>2, PTL DEF Spec

(* Every variable keeps its type, and a call has a result exactly when it is done. *)
THEOREM TypeCorrect == Spec => []TypeOK
<1>1. IInv => TypeOK
  BY DEF IInv
<1> QED
  BY <1>1, Invariance, PTL

(* Through a pidfd only the listed process is ever signalled, for any number
   of calls and any reuse of pids (kill_linux.go:21-46). *)
THEOREM PidfdHitsOnlyListed == Spec => []OnlyListed
<1>1. IInv => OnlyListed
  BY DEF IInv, SentOK
<1> QED
  BY <1>1, Invariance, PTL

(* By number a process that was there at the call is not hit by SIGTERM in the
   listed one's stead, nor one that was there at the deadline by SIGKILL
   (kill_linux.go:52-76). *)
THEOREM StrangersOnlyInTheGap == Spec => []LateComersOnly
<1>1. IInv => LateComersOnly
  BY DEF IInv, SentOK
<1> QED
  BY <1>1, Invariance, PTL

(* Neither init nor lsoff itself is signalled (kill.go:8-19). *)
THEOREM InitAndSelfAreSafe == Spec => []NeverInitOrSelf
<1>1. IInv => NeverInitOrSelf
  BY DEF IInv, SentOK
<1> QED
  BY <1>1, Invariance, PTL

(* nil means the listed process has exited or has SIGKILL on its way, as long
   as looking at a live process succeeds (kill_linux.go:33-50, 66-76). *)
THEOREM NilMeansDoomed == Spec => []KilledMeansDoomed
<1>1. IInv => KilledMeansDoomed
  BY DEF IInv
<1> QED
  BY <1>1, Invariance, PTL

------------------------------------------------------------------------------
(* SafeKill is implemented. *)

(* Every step of a call is one of the four kinds. *)
LEMMA StepProceeds ==
    ASSUME IInv, NEW c \in Calls, Step(c)
    PROVE  Proceeds(c) /\ UNCHANGED <<pidfds, flaky, procVars>>
<1> USE DEF Proceeds, UnderWay, machine
<1>1. CASE PidfdOpen(c)
  BY <1>1 DEF PidfdOpen, Looks, Answers
<1>2. CASE VerifyStart(c) \/ Check(c)
  BY <1>2 DEF VerifyStart, Check, VerifyError, Looks, Answers
<1>3. CASE SendTerm(c) \/ SendKill(c)
  <2>1. fd[c] \in Incs
    BY <1>3, PartsLemma DEF SendTerm, SendKill, IInv, CallOK, FdIsListed
  <2> QED
    BY <1>3, <2>1 DEF SendTerm, SendKill, Answers, SendsTerm, SendsKill
<1>4. CASE Poll(c) \/ Wait(c) \/ Recheck(c)
  BY <1>4 DEF Poll, Wait, Recheck, Looks, Answers
<1>5. CASE SignalNumber(c) \/ KillNumber(c)
  BY <1>5 DEF SignalNumber, KillNumber, SendsToNumber, Answers, SendsTerm, SendsKill
<1> QED
  BY <1>1, <1>2, <1>3, <1>4, <1>5 DEF Step, ViaPidfd, ByNumber

SentInOrder == \A c \in Calls : SentSoFar(c)

LEMMA SentInOrderLemma == IInv /\ SentInOrder /\ [Next]_vars => SentInOrder'
<1> SUFFICES ASSUME IInv, SentInOrder, [Next]_vars PROVE SentInOrder'
  OBVIOUS
<1>0. CallTypeOK /\ SentByCalls
  BY DEF IInv, TypeOK, SentOK
<1>1. CASE UNCHANGED <<pc, sent>>
  BY <1>1 DEF SentInOrder, SentSoFar
<1>2. ASSUME NEW c \in Calls, Call(c) PROVE SentInOrder'
  <2>1. Called(c)
    BY <1>2 DEF Call
  <2>2. /\ pc[c] = "idle" /\ UNCHANGED sent /\ pc \in [Calls -> Steps]
        /\ pc' = [pc EXCEPT ![c] = "open"] \/ pc' = [pc EXCEPT ![c] = "done"]
    BY <1>0, <2>1, CalledLemma DEF CallTypeOK
  <2>3. \A s \in sent : s.by # c
    BY <1>0, <2>2 DEF SentByCalls
  <2> QED
    BY <2>2, <2>3 DEF SentInOrder, SentSoFar
<1>3. ASSUME NEW c \in Calls, Step(c) PROVE SentInOrder'
  BY <1>0, <1>3, StepProceeds, ProceedsKeepsSent DEF SentInOrder
<1> QED
  BY <1>1, <1>2, <1>3 DEF Next, Processes, Returned, DeadlinePasses, TimeUp, callVars, vars

(* What a step of c looks like to SafeKill. *)
LEMMA StepKeepsPromise ==
    ASSUME IInv, IInv', SentInOrder, NEW c \in Calls, Step(c)
    PROVE  [Promise!Next]_Promise!vars
<1> DEFINE called == [d \in Calls |-> pc[d] # "idle"]
<1>0. /\ Proceeds(c) /\ UNCHANGED <<pidfds, ident>> /\ CallTypeOK
      /\ pc[c] # "idle" /\ result[c] = "none" /\ result \in [Calls -> Results]
  BY StepProceeds, ProceedsLemma DEF IInv, TypeOK, CallTypeOK, Proceeds, UnderWay
<1>1. called' = called /\ called[c]
  <2>1. \A d \in Calls : (pc'[d] # "idle") = (pc[d] # "idle")
    BY <1>0, ProceedsLemma
  <2> QED
    BY <1>0, <2>1
<1>2. CASE Looks(c)
  BY <1>0, <1>1, <1>2 DEF Looks, Promise!vars
<1>3. CASE Answers(c)
  <2>1. Promise!Answer(c)
    BY <1>0, <1>1, <1>3 DEF Answers, Return, Promise!Answer, Results
  <2> QED
    BY <2>1 DEF Promise!Next
<1>4. ASSUME NEW i \in Incs, NEW sig \in {"TERM", "KILL"}, Sends(c, i, sig),
             \/ /\ sig = "TERM" /\ result' = result /\ \A s \in sent : s.by # c
             \/ /\ sig = "KILL" /\ result' = [result EXCEPT ![c] = "killed"]
                /\ \A s \in sent : s.by = c => s.sig = "TERM"
      PROVE  Promise!Strike(c)
  <2> DEFINE new == [by |-> c, inc |-> i, sig |-> sig, since |-> since[c]]
  <2>1. sent' = sent \cup {new} /\ new \in sent'
    BY <1>4 DEF Sends
  <2>2. new \notin sent
    BY <1>4
  <2>3. Promise!Right(c, new)
    BY <1>0, <2>1 DEF IInv, SentOK, OnlyListed, LateComersOnly, Promise!Right
  <2>4. \/ sig = "TERM" /\ Promise!By(c) = {} /\ result' = result
        \/ /\ sig = "KILL" /\ \A r \in Promise!By(c) : r.sig = "TERM"
           /\ result' = [result EXCEPT ![c] = "killed"]
    BY <1>4 DEF Promise!By
  <2> QED
    BY <1>0, <1>1, <2>1, <2>2, <2>3, <2>4 DEF Promise!Strike
<1>5. CASE SendsTerm(c)
  <2>1. \A s \in sent : s.by # c
    BY <1>5 DEF SendsTerm, SentInOrder, SentSoFar
  <2> QED
    BY <1>4, <1>5, <2>1 DEF SendsTerm, Promise!Next
<1>6. CASE SendsKill(c)
  <2>1. \A s \in sent : s.by = c => s.sig = "TERM"
    BY <1>6 DEF SendsKill, SentInOrder, SentSoFar
  <2> QED
    BY <1>4, <1>6, <2>1 DEF SendsKill, Return, Promise!Next
<1> QED
  BY <1>0, <1>2, <1>3, <1>5, <1>6 DEF Proceeds

LEMMA CallKeepsPromise ==
    ASSUME IInv, NEW c \in Calls, Call(c)
    PROVE  Promise!Begin(c)
<1>1. CallTypeOK /\ Called(c) /\ UNCHANGED pidfds
  BY DEF Call, IInv, TypeOK
<1>2. /\ pc[c] = "idle" /\ result[c] = "none" /\ UNCHANGED sent
      /\ pc \in [Calls -> Steps] /\ result \in [Calls -> Results]
  BY <1>1, CalledLemma DEF CallTypeOK
<1>3. PICK id \in Ident :
        /\ ident' = [ident EXCEPT ![c] = id]
        /\ \/ Allowed(id) /\ pc' = [pc EXCEPT ![c] = "open"] /\ result' = result
           \/ /\ ~Allowed(id) /\ pc' = [pc EXCEPT ![c] = "done"]
              /\ result' = [result EXCEPT ![c] = "refused"]
  BY <1>1, CalledLemma
<1>4. [d \in Calls |-> pc'[d] # "idle"] = [[d \in Calls |-> pc[d] # "idle"] EXCEPT ![c] = TRUE]
  BY <1>2, <1>3
<1>5. result' = [result EXCEPT ![c] = IF id \in {x \in Ident : Allowed(x)} THEN "none" ELSE "refused"]
  BY <1>2, <1>3
<1> QED
  BY <1>1, <1>2, <1>3, <1>4, <1>5 DEF Promise!Begin

(* SafeKill is implemented, on either kernel, for any number of calls and any
   course of the processes: what a call does shows as one refusal or one answer,
   at most a SIGTERM and a SIGKILL in this order, each to the right process
   (kill_linux.go:17-77). *)
THEOREM PromiseKept == Spec => KeepsPromise
<1>1. Init => SentInOrder /\ Promise!Init
  <2> SUFFICES ASSUME Init PROVE SentInOrder /\ Promise!Init
    OBVIOUS
  <2>1. SentInOrder
    BY DEF Init, CallInit, SentInOrder, SentSoFar
  <2>2. TypeOK
    BY InitLemma DEF IInv
  <2> QED
    BY <2>1, <2>2 DEF Init, CallInit, TypeOK, CallTypeOK, Promise!Init
<1>2. IInv /\ IInv' /\ SentInOrder /\ [Next]_vars => [Promise!Next]_Promise!vars
  <2> SUFFICES ASSUME IInv, IInv', SentInOrder, [Next]_vars PROVE [Promise!Next]_Promise!vars
    OBVIOUS
  <2>1. CASE UNCHANGED <<pidfds, pc, ident, sent, result>>
    BY <2>1 DEF Promise!vars
  <2>2. ASSUME NEW c \in Calls, Call(c) PROVE [Promise!Next]_Promise!vars
    BY <2>2, CallKeepsPromise DEF Promise!Next
  <2>3. ASSUME NEW c \in Calls, Step(c) PROVE [Promise!Next]_Promise!vars
    BY <2>3, StepKeepsPromise
  <2> QED
    BY <2>1, <2>2, <2>3 DEF Next, Processes, Returned, DeadlinePasses, TimeUp, callVars, vars
<1> QED
  BY <1>1, <1>2, SentInOrderLemma, Invariance, PTL DEF Spec, KeepsPromise, Promise!Spec
=============================================================================
