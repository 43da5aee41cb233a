---------------------------- MODULE KillCallSteps ----------------------------
(***************************************************************************)
(* What the proofs about KillLinux and KillElsewhere say of a call: what   *)
(* it was given, what it may have sent so far, and the four kinds of step  *)
(* it can take.                                                            *)
(***************************************************************************)
EXTENDS KillCall

(* A call that was not refused was given a listed process it may kill. *)
Given(c) ==
    pc[c] # "idle" /\ result[c] # "refused" =>
        /\ Allowed(ident[c])
        /\ ident[c].start \in Born
        /\ pidOf[ident[c].start] = ident[c].pid
        /\ ident[c].start <= since[c] /\ since[c] <= births

(* A call has sent nothing before it is made, nothing before its SIGTERM, and
   nothing but SIGTERM before its answer. *)
SentByCalls == \A s \in sent : pc[s.by] # "idle"
SentSoFar(c) ==
    /\ pc[c] \in {"open", "verify", "term", "check", "signal"} => \A s \in sent : s.by # c
    /\ pc[c] \in {"poll", "wait", "killByNumber"} => \A s \in sent : s.by = c => s.sig = "TERM"

(* The steps of a call once it is made: it looks, and goes on or not; it
   answers; it sends SIGTERM; it sends SIGKILL, which is an answer. *)
Looks(c) ==
    /\ UNCHANGED <<sent, result>>
    /\ \/ UNCHANGED pc
       \/ /\ pc[c] \in {"open", "verify", "check"}
          /\ \E x \in {"verify", "term", "check", "signal"} : Goto(c, x)
       \/ pc[c] = "wait" /\ Goto(c, "killByNumber")
Answers(c) ==
    /\ UNCHANGED sent
    /\ \E r \in {"killed", "esrch", "mismatch", "error"} : Return(c, r)
SendsTerm(c) ==
    /\ pc[c] \in {"term", "signal"} /\ UNCHANGED result
    /\ \E x \in {"poll", "wait"} : Goto(c, x)
    /\ \E i \in Incs : Sends(c, i, "TERM")
SendsKill(c) ==
    /\ pc[c] \in {"term", "poll", "killByNumber"}
    /\ Return(c, "killed")
    /\ \E i \in Incs : Sends(c, i, "KILL")

UnderWay(c) == pc[c] \notin {"idle", "done"}
Proceeds(c) ==
    /\ UnderWay(c) /\ UNCHANGED ident
    /\ Looks(c) \/ Answers(c) \/ SendsTerm(c) \/ SendsKill(c)
=============================================================================
