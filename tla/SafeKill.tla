------------------------------ MODULE SafeKill ------------------------------
(***************************************************************************)
(* What listen.Kill promises on every platform (README.md:102-108), with   *)
(* nothing said of how: a call is given an Ident, strikes at most twice,   *)
(* each time harder, strikes only what it was given, and answers once.     *)
(* KillLinux and KillElsewhere implement it.                               *)
(***************************************************************************)
EXTENDS Naturals

CONSTANTS
    Calls,      \* the calls of Kill
    Idents,     \* what a call may be given
    Killable,   \* the idents that are not refused
    Outcomes    \* "none", "killed" for nil, "refused", and the errors

VARIABLES
    exact,      \* whether a signal goes to a process rather than to a number
    called,     \* called[c]: the call has been made
    target,     \* target[c]: the Ident it was given
    struck,     \* the signals that reached a process
    outcome     \* outcome[c]: "none" until it returns

vars == <<exact, called, target, struck, outcome>>

By(c) == {s \in struck : s.by = c}

Init ==
    /\ exact \in BOOLEAN
    /\ called = [c \in Calls |-> FALSE]
    /\ target \in [Calls -> Idents]
    /\ struck = {}
    /\ outcome = [c \in Calls |-> "none"]

(* An ident that may not be killed is refused at once, and only such a one. *)
Begin(c) ==
    /\ ~called[c]
    /\ called' = [called EXCEPT ![c] = TRUE]
    /\ \E id \in Idents :
          /\ target' = [target EXCEPT ![c] = id]
          /\ outcome' = [outcome EXCEPT ![c] = IF id \in Killable THEN "none" ELSE "refused"]
    /\ UNCHANGED <<exact, struck>>

(* The right process: the listed one, or, where only a number can be signalled,
   one born since the call last knew the number to be the listed process's. *)
Right(c, s) == s.inc = target[c].start \/ (~exact /\ s.inc > s.since)

(* SIGTERM comes first if at all; SIGKILL is the last thing a call does. *)
Strike(c) ==
    /\ called[c] /\ outcome[c] = "none"
    /\ \E s \in struck' \ struck :
          /\ struck' = struck \cup {s}
          /\ s.by = c /\ Right(c, s)
          /\ \/ s.sig = "TERM" /\ By(c) = {} /\ UNCHANGED outcome
             \/ /\ s.sig = "KILL" /\ \A r \in By(c) : r.sig = "TERM"
                /\ outcome' = [outcome EXCEPT ![c] = "killed"]
    /\ UNCHANGED <<exact, called, target>>

(* An answer without a strike. *)
Answer(c) ==
    /\ called[c] /\ outcome[c] = "none"
    /\ \E o \in Outcomes \ {"none", "refused"} : outcome' = [outcome EXCEPT ![c] = o]
    /\ UNCHANGED <<exact, called, target, struck>>

Next == \E c \in Calls : Begin(c) \/ Strike(c) \/ Answer(c)

Spec == Init /\ [][Next]_vars
=============================================================================
