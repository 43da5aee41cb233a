------------------------------ MODULE KillCall ------------------------------
(***************************************************************************)
(* What the calls of listen.Kill have in common on all platforms: the      *)
(* Ident, what is refused, the start token compared, signals by number,    *)
(* the two seconds (internal/listen/kill.go, ident.go and the parts that   *)
(* kill_linux.go, kill_darwin.go, kill_windows.go and kill_other.go        *)
(* repeat). KillLinux and KillElsewhere extend it with their steps.        *)
(***************************************************************************)
EXTENDS ProcessTable

CONSTANTS
    Calls,        \* the calls of Kill, each made once
    MayFail       \* whether looking at a live process may fail (EMFILE, EPERM): one or both

ASSUME MayFailAssumption == MayFail \subseteq BOOLEAN

VARIABLES
    flaky,      \* this machine's choice from MayFail
    pc,         \* pc[c]: the next step of call c
    ident,      \* ident[c]: the Ident it was given
    expired,    \* expired[c]: its deadline has passed
    result,     \* result[c]: "none" until it returns; "killed" stands for nil
    since,      \* history: births when it was called, then when its deadline passed
    sent        \* history: the signals that reached a process

Ident == [pid : Pids \cup {0}, start : {0} \cup Incs]
Steps == {"idle", "open", "verify", "term", "poll", "kill", "check", "signal",
          "wait", "killByNumber", "done"}
Results == {"none", "killed", "refused", "esrch", "mismatch", "error"}
Signal == [by : Calls, inc : Incs, sig : {"TERM", "KILL"}, since : Nat]

CallTypeOK ==
    /\ ProcTypeOK
    /\ flaky \in BOOLEAN
    /\ pc \in [Calls -> Steps]
    /\ ident \in [Calls -> Ident]
    /\ expired \in [Calls -> BOOLEAN]
    /\ result \in [Calls -> Results]
    /\ since \in [Calls -> Nat]
    /\ sent \subseteq Signal
    /\ \A c \in Calls : pc[c] = "done" <=> result[c] # "none"

CallInit ==
    /\ ProcInit
    /\ flaky \in MayFail
    /\ pc = [c \in Calls |-> "idle"]
    /\ ident = [c \in Calls |-> [pid |-> 0, start |-> 0]]
    /\ expired = [c \in Calls |-> FALSE]
    /\ result = [c \in Calls |-> "none"]
    /\ since = [c \in Calls |-> 0]
    /\ sent = {}

(* An ident as a listing captures it: the pid and start token of a process
   there has been, which may have exited since; a token the listing could not
   read is 0, and so is the pid of a socket nobody owns. *)
Listed(id) ==
    /\ id.start # 0 => id.start \in Born /\ pidOf[id.start] = id.pid
    /\ id.pid = 0 => id.start = 0

(* checkKillPID and requireIdent. *)
AllowsSelf(id) == id.pid > 0 /\ id.pid # InitPid /\ id.start # 0   \* mutant: no self check
Allowed(id) == id.pid > 0 /\ id.pid # InitPid /\ id.pid # SelfPid /\ id.start # 0

Goto(c, step) == pc' = [pc EXCEPT ![c] = step]

ReturnNothing(c, r) == Goto(c, "done") /\ UNCHANGED result         \* mutant: outcome lost
Return(c, r) ==
    /\ Goto(c, "done")
    /\ result' = [result EXCEPT ![c] = r]

(* verifyStart: what the start token of the number says now. *)
AnyHolder(c) == ~Free(ident[c].pid)                               \* mutant: the pid exists
Verified(c) == Holds(ident[c].start, ident[c].pid)
VerifyError(c) == IF Free(ident[c].pid) THEN "esrch" ELSE "mismatch"

(* A signal reaches process i, or is refused. *)
Sends(c, i, sig) ==
    sent' = sent \cup {[by |-> c, inc |-> i, sig |-> sig, since |-> since[c]]}

(* A signal to the number reaches whoever holds it, and may be refused; to a
   free number it fails with "gone". *)
SendsToNumber(c, sig) == \E i \in Incs : Holds(i, ident[c].pid) /\ Sends(c, i, sig)

(* Kill is called; what requireIdent refuses goes no further. *)
Called(c) ==
    /\ pc[c] = "idle"
    /\ \E id \in Ident :
          /\ Listed(id)
          /\ ident' = [ident EXCEPT ![c] = id]
          /\ IF Allowed(id)
             THEN Goto(c, "open") /\ UNCHANGED result
             ELSE Return(c, "refused")
    /\ since' = [since EXCEPT ![c] = births]
    /\ UNCHANGED <<flaky, expired, sent, procVars>>

(* Two seconds go by in a call that waits. *)
TimeUp(c) ==
    /\ pc[c] \in {"poll", "wait"} /\ ~expired[c]
    /\ expired' = [expired EXCEPT ![c] = TRUE]
    /\ since' = [since EXCEPT ![c] = births]
    /\ UNCHANGED <<flaky, pc, ident, result, sent, procVars>>

------------------------------------------------------------------------------
(* Properties of every platform. *)

(* "killed pid N" is true, as long as looking at a live process succeeds: when
   Kill returns nil the listed process has exited or has SIGKILL on its way
   (kill_linux.go:33-50, 66-76, kill_darwin.go:24-41, kill_windows.go:18-25). *)
Killed(i) == \E s \in sent : s.inc = i /\ s.sig = "KILL"
Doomed(i) == i \in Incs /\ (Exited(i) \/ Killed(i))
KilledMeansDoomed ==
    ~flaky => \A c \in Calls : result[c] = "killed" => Doomed(ident[c].start)

(* pid 1 and lsoff itself are never signalled (README.md:102), whichever pids
   are listed and reused (kill.go:8-19). *)
NeverInitOrSelf == \A s \in sent : s.inc \notin {InitInc, SelfInc}

(* "process identity changed (pid reused?)" is true when it is said: the listed
   process is gone and its pid was given to a later one (ident.go:19,
   kill_linux.go:84, kill_darwin.go:55, kill_windows.go:22). *)
MismatchMeansReused ==
    \A c \in Calls : result[c] = "mismatch" =>
        /\ life[ident[c].start] = "gone"
        /\ \E i \in Born : i > ident[c].start /\ pidOf[i] = ident[c].pid

(* Once the listed process has its SIGTERM it ends, ignore it or not, unless
   the call reports an error (kill_linux.go:39-50, 66-76, kill_darwin.go:30-40). *)
Ended(c) == ident[c].start \in Incs /\ Exited(ident[c].start)
SignalTakesEffect ==
    \A c \in Calls :
        pc[c] \in {"poll", "wait"} ~> Ended(c) \/ result[c] = "error" \/ flaky
=============================================================================
