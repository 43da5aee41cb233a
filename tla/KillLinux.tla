------------------------------ MODULE KillLinux ------------------------------
(***************************************************************************)
(* listen.Kill on Linux (internal/listen/kill.go, kill_linux.go): several  *)
(* calls at once, each taking its steps among processes that start, exit   *)
(* and are reaped. A call holds a pidfd, or, on a kernel without pidfd,    *)
(* falls back to checking the start token and signalling by number.        *)
(***************************************************************************)
EXTENDS KillCall

CONSTANT HasPidfd     \* whether the kernel knows pidfd_open: one or both

ASSUME HasPidfdAssumption == HasPidfd \subseteq BOOLEAN

VARIABLES
    pidfds,     \* this machine's choice from HasPidfd
    fd          \* fd[c]: the process its pidfd refers to, 0 before it is opened

machine == <<pidfds, flaky>>
callVars == <<pidfds, flaky, pc, ident, fd, expired, result, since, sent>>
vars == <<procVars, callVars>>

TypeOK ==
    /\ CallTypeOK
    /\ pidfds \in BOOLEAN
    /\ fd \in [Calls -> {0} \cup Incs]

Init ==
    /\ CallInit
    /\ pidfds \in HasPidfd
    /\ fd = [c \in Calls |-> 0]

Call(c) == Called(c) /\ UNCHANGED <<pidfds, fd>>

(* PidfdOpen: an fd for whoever holds the pid now, a failure, or no such call. *)
PidfdOpen(c) ==
    /\ pc[c] = "open"
    /\ IF ~pidfds
       THEN Goto(c, "check") /\ UNCHANGED <<fd, result>>
       ELSE \/ \E i \in Incs :
                 /\ Holds(i, ident[c].pid)
                 /\ fd' = [fd EXCEPT ![c] = i]
                 /\ Goto(c, "verify")
                 /\ UNCHANGED result
            \/ Free(ident[c].pid) /\ Return(c, "esrch") /\ UNCHANGED fd
            \/ flaky /\ Return(c, "error") /\ UNCHANGED fd
    /\ UNCHANGED <<machine, ident, expired, since, sent, procVars>>

(* verifyStart, after the fd is open. *)
VerifyStart(c) ==
    /\ pc[c] = "verify"
    /\ \/ Verified(c) /\ Goto(c, "term") /\ UNCHANGED result
       \/ ~Verified(c) /\ Return(c, VerifyError(c))
       \/ flaky /\ Return(c, "error")
    /\ UNCHANGED <<machine, ident, fd, expired, since, sent, procVars>>

(* SIGTERM through the fd; a process that is reaped already is ESRCH, and fine. *)
SendTerm(c) ==
    /\ pc[c] = "term"
    /\ \/ life[fd[c]] = "gone" /\ Return(c, "killed") /\ UNCHANGED sent
       \/ life[fd[c]] # "gone" /\ Sends(c, fd[c], "TERM") /\ Goto(c, "poll") /\ UNCHANGED result
       \/ life[fd[c]] # "gone" /\ Return(c, "error") /\ UNCHANGED sent
    /\ UNCHANGED <<machine, ident, fd, expired, since, procVars>>

(* Signal 0 through the fd every 50 ms: any error counts as "gone". *)
Poll(c) ==
    /\ pc[c] = "poll" /\ ~expired[c]
    /\ \/ life[fd[c]] # "gone" /\ UNCHANGED <<pc, result>>
       \/ (life[fd[c]] = "gone" \/ flaky) /\ Return(c, "killed")
    /\ UNCHANGED <<machine, ident, fd, expired, since, sent, procVars>>

(* SIGKILL through the fd. *)
GiveUp(c) ==                                                      \* mutant: no SIGKILL
    /\ pc[c] = "poll" /\ expired[c]
    /\ Return(c, "killed")
    /\ UNCHANGED <<machine, ident, fd, expired, since, sent, procVars>>
KillAndPoll(c) ==                                                 \* mutant: no return
    /\ pc[c] = "poll" /\ expired[c]
    /\ \/ life[fd[c]] = "gone" /\ Return(c, "killed") /\ UNCHANGED sent
       \/ life[fd[c]] # "gone" /\ Sends(c, fd[c], "KILL") /\ UNCHANGED <<pc, result>>
       \/ life[fd[c]] # "gone" /\ Return(c, "error") /\ UNCHANGED sent
    /\ UNCHANGED <<machine, ident, fd, expired, since, procVars>>
SendKill(c) ==
    /\ pc[c] = "poll" /\ expired[c]
    /\ \/ life[fd[c]] = "gone" /\ Return(c, "killed") /\ UNCHANGED sent
       \/ life[fd[c]] # "gone" /\ Sends(c, fd[c], "KILL") /\ Return(c, "killed")
       \/ life[fd[c]] # "gone" /\ Return(c, "error") /\ UNCHANGED sent
    /\ UNCHANGED <<machine, ident, fd, expired, since, procVars>>

------------------------------------------------------------------------------
(* killByStartToken: the same calls without a pidfd. *)

Check(c) ==
    /\ pc[c] = "check"
    /\ \/ Verified(c) /\ Goto(c, "signal") /\ UNCHANGED result
       \/ ~Verified(c) /\ Return(c, VerifyError(c))
       \/ flaky /\ Return(c, "error")
    /\ UNCHANGED <<machine, ident, fd, expired, since, sent, procVars>>

(* FindProcess and SIGTERM: ErrProcessDone is fine. *)
SignalNumber(c) ==
    /\ pc[c] = "signal"
    /\ \/ Free(ident[c].pid) /\ Return(c, "killed") /\ UNCHANGED sent
       \/ SendsToNumber(c, "TERM") /\ Goto(c, "wait") /\ UNCHANGED result
       \/ ~Free(ident[c].pid) /\ Return(c, "error") /\ UNCHANGED sent
    /\ UNCHANGED <<machine, ident, fd, expired, since, procVars>>

(* verifyStart every 50 ms: any error counts as "gone". *)
Wait(c) ==
    /\ pc[c] = "wait" /\ ~expired[c]
    /\ \/ Verified(c) /\ UNCHANGED <<pc, result>>
       \/ (~Verified(c) \/ flaky) /\ Return(c, "killed")
    /\ UNCHANGED <<machine, ident, fd, expired, since, sent, procVars>>

(* One more verifyStart after the wait. *)
NoRecheck(c) == TRUE                                              \* mutant: no last check
StillSame(c) == Verified(c)
Recheck(c) ==
    /\ pc[c] = "wait" /\ expired[c]
    /\ \/ StillSame(c) /\ Goto(c, "killByNumber") /\ UNCHANGED result
       \/ (~StillSame(c) \/ flaky) /\ Return(c, "killed")
    /\ UNCHANGED <<machine, ident, fd, expired, since, sent, procVars>>

(* p.Kill(), whose error is the call's: ErrProcessDone is one here. *)
KillNumber(c) ==
    /\ pc[c] = "killByNumber"
    /\ \/ Free(ident[c].pid) /\ Return(c, "esrch") /\ UNCHANGED sent
       \/ SendsToNumber(c, "KILL") /\ Return(c, "killed")
       \/ ~Free(ident[c].pid) /\ Return(c, "error") /\ UNCHANGED sent
    /\ UNCHANGED <<machine, ident, fd, expired, since, procVars>>

DeadlinePasses(c) == TimeUp(c) /\ UNCHANGED <<pidfds, fd>>

------------------------------------------------------------------------------
ViaPidfd(c) == VerifyStart(c) \/ SendTerm(c) \/ Poll(c) \/ SendKill(c)
ByNumber(c) == Check(c) \/ SignalNumber(c) \/ Wait(c) \/ Recheck(c) \/ KillNumber(c)
Step(c) == PidfdOpen(c) \/ ViaPidfd(c) \/ ByNumber(c)

Processes == ProcNext /\ UNCHANGED callVars

Returned == (\A c \in Calls : pc[c] = "done") /\ UNCHANGED vars

Next ==
    \/ Processes
    \/ \E c \in Calls : Call(c) \/ Step(c) \/ DeadlinePasses(c)
    \/ Returned

Spec == Init /\ [][Next]_vars

(***************************************************************************)
(* Fairness: a call that has begun goes on to its next step, the clock     *)
(* advances, and the kernel ends a process that was sent SIGKILL.          *)
(***************************************************************************)
Dies(i) == Killed(i) /\ Exit(i) /\ UNCHANGED callVars

Fairness ==
    /\ \A c \in Calls : WF_vars(Step(c)) /\ WF_vars(DeadlinePasses(c))
    /\ \A i \in Incs : WF_vars(Dies(i))

FairSpec == Spec /\ Fairness

------------------------------------------------------------------------------
(* Properties. *)

(* "Kill verifies that the process is still the same one that was listed"
   (README.md:102): through a pidfd no process but the listed one is ever
   signalled, though the fd is opened by number and the token read by number,
   with processes exiting and their pids reused between any two steps
   (kill_linux.go:21-46). *)
OnlyListed ==
    pidfds => \A s \in sent : s.inc = ident[s.by].start

(* By number the check and the signal are apart, and what the checks buy is
   that a stranger can only be hit in the gap: one hit by SIGTERM was born
   after the call, one hit by SIGKILL after the two seconds were over
   (kill_linux.go:52-76). *)
LateComersOnly ==
    \A s \in sent : s.inc # ident[s.by].start => s.inc > s.since

(* A call keeps the promise of SafeKill whichever kernel it runs on: the fd is
   exact, the number is not; SIGTERM once, then SIGKILL once, nothing after the
   answer, and an error is never reported of a process that got its SIGKILL
   (kill_linux.go:17-77). *)
Promise == INSTANCE SafeKill WITH
    Idents <- Ident, Killable <- {id \in Ident : Allowed(id)}, Outcomes <- Results,
    exact <- pidfds, called <- [c \in Calls |-> pc[c] # "idle"], target <- ident,
    struck <- sent, outcome <- result
KeepsPromise == Promise!Spec

(* "Killing a process that already exited is not a failure ... Linux treats
   ESRCH that way" (kill_darwin_test.go:14). *)
ExitedIsNoFailure == \A c \in Calls : result[c] # "esrch"

(* "then SIGKILL if that same process is still alive after 2 seconds"
   (README.md:102), with looks at the process that may fail. *)
KilledIfStillAlive ==
    \A c \in Calls : result[c] = "killed" => Doomed(ident[c].start)
=============================================================================
