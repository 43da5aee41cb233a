---------------------------- MODULE KillElsewhere ----------------------------
(***************************************************************************)
(* listen.Kill on macOS (kill_darwin.go), on Windows (kill_windows.go) and *)
(* on the other Unixes (kill_other.go). macOS checks the start token right *)
(* before each signal and takes "no such process" as success; Windows      *)
(* checks it on a handle it keeps and terminates through it; the others    *)
(* know no start token at all.                                             *)
(***************************************************************************)
EXTENDS KillCall

CONSTANT Platforms

ASSUME PlatformsAssumption == Platforms \subseteq {"darwin", "windows", "other"}

VARIABLES
    platform,   \* the one of this run
    handle      \* handle[c]: the process object it opened, 0 before

hostVars == <<platform, handle>>
callVars == <<flaky, pc, ident, expired, result, since, sent>>
vars == <<procVars, callVars, hostVars>>

TypeOK ==
    /\ CallTypeOK
    /\ platform \in Platforms
    /\ handle \in [Calls -> {0} \cup Incs]

Init ==
    /\ CallInit
    /\ platform \in Platforms
    /\ handle = [c \in Calls |-> 0]

Call(c) == Called(c) /\ UNCHANGED hostVars

(* A zombie has lost what its start token is read from, or still has it. *)
Zombie(c) == \E i \in Incs : Holds(i, ident[c].pid) /\ life[i] = "zombie"
LooksGone(c) == Free(ident[c].pid) \/ Zombie(c)
LooksOther(c) == ~Verified(c)                      \* mutant: gone or reused, the same
LooksReused(c) == ~Free(ident[c].pid) /\ ~Verified(c)

------------------------------------------------------------------------------
(* macOS. *)

(* signalIfSame: the check before SIGTERM; ESRCH is fine. *)
DarwinCheck(c) ==
    /\ platform = "darwin" /\ pc[c] = "open"
    /\ \/ Verified(c) /\ Goto(c, "signal") /\ UNCHANGED result
       \/ LooksGone(c) /\ Return(c, "killed")
       \/ LooksReused(c) /\ Return(c, "mismatch")
       \/ flaky /\ Return(c, "error")
    /\ UNCHANGED <<flaky, ident, expired, since, sent, procVars, hostVars>>

(* signalIfSame: kill(2); ESRCH is fine. *)
DarwinTerm(c) ==
    /\ platform = "darwin" /\ pc[c] = "signal"
    /\ \/ Free(ident[c].pid) /\ Return(c, "killed") /\ UNCHANGED sent
       \/ SendsToNumber(c, "TERM") /\ Goto(c, "wait") /\ UNCHANGED result
       \/ ~Free(ident[c].pid) /\ Return(c, "error") /\ UNCHANGED sent
    /\ UNCHANGED <<flaky, ident, expired, since, procVars, hostVars>>

(* verifyStart every 50 ms: any error counts as "gone". *)
DarwinWait(c) ==
    /\ platform = "darwin" /\ pc[c] = "wait" /\ ~expired[c]
    /\ \/ Verified(c) /\ UNCHANGED <<pc, result>>
       \/ (LooksGone(c) \/ LooksReused(c) \/ flaky) /\ Return(c, "killed")
    /\ UNCHANGED <<flaky, ident, expired, since, sent, procVars, hostVars>>

DarwinNoRecheck(c) ==                              \* mutant: SIGKILL to the number alone
    /\ platform = "darwin" /\ pc[c] = "wait" /\ expired[c]
    /\ Goto(c, "killByNumber")
    /\ UNCHANGED <<flaky, ident, expired, result, since, sent, procVars, hostVars>>

DarwinGoneFails(c) ==                              \* mutant: ESRCH not looked for
    /\ platform = "darwin" /\ pc[c] = "wait" /\ expired[c]
    /\ \/ Verified(c) /\ Goto(c, "killByNumber") /\ UNCHANGED result
       \/ LooksGone(c) /\ Return(c, "esrch")
       \/ LooksReused(c) /\ Return(c, "mismatch")
    /\ UNCHANGED <<flaky, ident, expired, since, sent, procVars, hostVars>>

(* signalIfSame: the check before SIGKILL; an error other than ESRCH is the
   call's. *)
DarwinRecheck(c) ==
    /\ platform = "darwin" /\ pc[c] = "wait" /\ expired[c]
    /\ \/ Verified(c) /\ Goto(c, "killByNumber") /\ UNCHANGED result
       \/ LooksGone(c) /\ Return(c, "killed")
       \/ LooksReused(c) /\ Return(c, "mismatch")
       \/ flaky /\ Return(c, "error")
    /\ UNCHANGED <<flaky, ident, expired, since, sent, procVars, hostVars>>

(* signalIfSame: kill(2); ESRCH is fine. *)
DarwinGiveUp(c) ==                                 \* mutant: no SIGKILL
    /\ platform = "darwin" /\ pc[c] = "killByNumber"
    /\ Return(c, "killed")
    /\ UNCHANGED <<flaky, ident, expired, since, sent, procVars, hostVars>>
DarwinKill(c) ==
    /\ platform = "darwin" /\ pc[c] = "killByNumber"
    /\ \/ Free(ident[c].pid) /\ Return(c, "killed") /\ UNCHANGED sent
       \/ SendsToNumber(c, "KILL") /\ Return(c, "killed")
       \/ ~Free(ident[c].pid) /\ Return(c, "error") /\ UNCHANGED sent
    /\ UNCHANGED <<flaky, ident, expired, since, procVars, hostVars>>

------------------------------------------------------------------------------
(* Windows. *)

(* OpenProcess: by number, and it may be denied. *)
OpenProcess(c) ==
    /\ platform = "windows" /\ pc[c] = "open"
    /\ \/ \E i \in Incs :
            /\ Holds(i, ident[c].pid)
            /\ handle' = [handle EXCEPT ![c] = i]
            /\ Goto(c, "verify")
            /\ UNCHANGED result
       \/ Return(c, "error") /\ UNCHANGED handle
    /\ UNCHANGED <<flaky, ident, expired, since, sent, procVars, platform>>

(* processStartToken on the handle, not on the number. *)
AsListed(c) == handle[c] = ident[c].start
CompareCreation(c) ==
    /\ platform = "windows" /\ pc[c] = "verify"
    /\ \/ AsListed(c) /\ Goto(c, "term") /\ UNCHANGED result
       \/ ~AsListed(c) /\ Return(c, "mismatch")
       \/ flaky /\ Return(c, "error")
    /\ UNCHANGED <<flaky, ident, expired, since, sent, procVars, hostVars>>

(* TerminateProcess: nothing more is done, nor can be; on a process that has
   exited already it fails. *)
Terminate(c) ==
    /\ platform = "windows" /\ pc[c] = "term"
    /\ \/ ~Exited(handle[c]) /\ Sends(c, handle[c], "KILL") /\ Return(c, "killed")
       \/ Return(c, "error") /\ UNCHANGED sent
    /\ UNCHANGED <<flaky, ident, expired, since, procVars, hostVars>>

------------------------------------------------------------------------------
(* Elsewhere: procStartToken is an error, so verifyStart fails. *)
OtherVerify(c) ==
    /\ platform = "other" /\ pc[c] = "open"
    /\ Return(c, "error")
    /\ UNCHANGED <<flaky, ident, expired, since, sent, procVars, hostVars>>

------------------------------------------------------------------------------
DeadlinePasses(c) == TimeUp(c) /\ UNCHANGED hostVars

Darwin(c) == DarwinCheck(c) \/ DarwinTerm(c) \/ DarwinWait(c) \/ DarwinRecheck(c) \/ DarwinKill(c)
Windows(c) == OpenProcess(c) \/ CompareCreation(c) \/ Terminate(c)
Step(c) == Darwin(c) \/ Windows(c) \/ OtherVerify(c)

(* Windows keeps a process object, and its id, while a handle to it is open. *)
Open(i) == \E c \in Calls : pc[c] \in {"verify", "term"} /\ handle[c] = i
Processes ==
    /\ ProcNext
    /\ \A i \in Incs : Open(i) => life'[i] # "gone"
    /\ UNCHANGED <<callVars, hostVars>>

Returned == (\A c \in Calls : pc[c] = "done") /\ UNCHANGED vars

Next ==
    \/ Processes
    \/ \E c \in Calls : Call(c) \/ Step(c) \/ DeadlinePasses(c)
    \/ Returned

Spec == Init /\ [][Next]_vars

(* As for KillLinux: a call goes on, the clock advances, SIGKILL ends a process. *)
Dies(i) == Killed(i) /\ Exit(i) /\ UNCHANGED <<callVars, hostVars>>

Fairness ==
    /\ \A c \in Calls : WF_vars(Step(c)) /\ WF_vars(DeadlinePasses(c))
    /\ \A i \in Incs : WF_vars(Dies(i))

FairSpec == Spec /\ Fairness

------------------------------------------------------------------------------
(* Properties. *)

(* Each platform keeps the promise of SafeKill, Windows with its handle exact,
   macOS with the gap README.md:108 admits and no wider: whoever is hit in the
   listed process's stead was born after the call, or by SIGKILL after the two
   seconds (kill_darwin.go:20-48, kill_windows.go:8-25). *)
Promise == INSTANCE SafeKill WITH
    Idents <- Ident, Killable <- {id \in Ident : Allowed(id)}, Outcomes <- Results,
    exact <- platform = "windows", called <- [c \in Calls |-> pc[c] # "idle"],
    target <- ident, struck <- sent, outcome <- result
KeepsPromise == Promise!Spec

(* "'gone' is success, 'someone else' is not" (kill_darwin_test.go:56): on macOS
   a call fails only if somebody holds the pid, the listed process or another,
   at some look it takes (kill_darwin.go:24-28, 37-39). *)
GoneIsNoFailure ==
    [][\A c \in Calls : platform = "darwin" /\ ~flaky /\ Free(ident'[c].pid)
            /\ result[c] = "none" => result'[c] \in {"none", "killed", "refused"}]_vars

=============================================================================
