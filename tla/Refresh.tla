------------------------------ MODULE Refresh ------------------------------
(***************************************************************************)
(* The asynchronous protocol of the TUI (internal/tui/tui.go): which       *)
(* listing the table shows, while commands that list, kill and wait run    *)
(* in goroutines and report to the one event loop in any order.            *)
(*                                                                         *)
(* Bubble Tea runs every tea.Cmd in a goroutine of its own and hands its   *)
(* message to Update when it returns, so messages in flight have no order. *)
(* A listing is represented by the version of the machine's sockets it was *)
(* taken from; rows, cursor and filters are the business of module Tui,    *)
(* and the keys that only touch them are stuttering steps here.            *)
(***************************************************************************)
EXTENDS Naturals, FiniteSets

CONSTANTS
    Gens,       \* the values m.loadGen can take
    TickGens,   \* the values m.autoGen can take
    MaxWorld,   \* bound: how often the machine's sockets change
    MaxKills,   \* bound: kill commands in flight together
    Unread,     \* a listing that has not been taken yet
    Failed      \* a listing that returned an error

(***************************************************************************)
(* Generations are only ever compared for equality and the code's counters *)
(* never repeat, so a step of a counter is the choice of a value that      *)
(* nothing in flight carries. A finite Gens then bounds the commands in    *)
(* flight, never the number of reloads or toggles.                         *)
(***************************************************************************)
ASSUME GensAssumption == Gens # {} /\ TickGens # {}
ASSUME BoundsAssumption == MaxWorld \in Nat \ {0} /\ MaxKills \in Nat
ASSUME MarkersAssumption == Unread \notin Nat /\ Failed \notin Nat /\ Unread # Failed

VARIABLES
    running,    \* the event loop has not quit
    loading,    \* m.loading
    loadGen,    \* m.loadGen
    auto,       \* m.auto
    autoGen,    \* m.autoGen
    confirm,    \* m.confirm
    err,        \* m.err: which operation's error is on display
    shown,      \* the version of m.all (0: the empty table of the start)
    loads,      \* loadCmd goroutines and their undelivered loadedMsg
    ticks,      \* ticks[g]: timers armed by autoTick with generation g
    kills,      \* killCmd goroutines: how many run, how many ended and how
    world,      \* the version of the machine's sockets
    reported    \* history: the world when the last successful kill was reported

flow == <<loading, loadGen, loads>>
vars == <<running, loading, loadGen, auto, autoGen, confirm, err, shown, loads,
          ticks, kills, world, reported>>

Load == [gen : Gens, got : Nat \cup {Unread, Failed}]
KillStates == {"running", "killed", "failed"}
Errors == {"none", "list", "kill", "copy"}

TypeOK ==
    /\ running \in BOOLEAN
    /\ loading \in BOOLEAN
    /\ loadGen \in Gens
    /\ auto \in BOOLEAN
    /\ autoGen \in TickGens
    /\ confirm \in BOOLEAN
    /\ err \in Errors
    /\ shown \in Nat
    /\ loads \subseteq Load
    /\ ticks \in [TickGens -> Nat]
    /\ kills \in [KillStates -> Nat]
    /\ world \in Nat
    /\ reported \in Nat

(* newModel and Init: the program starts with its first listing under way. *)
Init ==
    /\ running = TRUE
    /\ loading = TRUE
    /\ loadGen \in Gens
    /\ loads = {[gen |-> loadGen, got |-> Unread]}
    /\ auto = FALSE
    /\ autoGen \in TickGens
    /\ ticks = [g \in TickGens |-> 0]
    /\ confirm = FALSE
    /\ err = "none"
    /\ shown = 0
    /\ kills = [s \in KillStates |-> 0]
    /\ world = 1
    /\ reported = 0

(* beginLoad: a new generation supersedes whatever is still in flight. *)
BeginLoad ==
    \E g \in Gens \ ({loadGen} \cup {l.gen : l \in loads}) :
        /\ loadGen' = g
        /\ loading' = TRUE
        /\ loads' = loads \cup {[gen |-> g, got |-> Unread]}

(* Only the latest listing asked for is taken. *)
AnyLoad(l) == TRUE                                   \* mutant: no generation check
Current(l) == l.gen = loadGen

(* What m.loading becomes with it: failed or not, the listing is over. *)
LoadingWhileFailed(l) == l.got = Failed              \* mutant: return early on an error
LoadingAfter(l) == FALSE

(* What a successful kill does to the listing: always a new one. *)
ReloadIfIdle == IF loading THEN UNCHANGED flow ELSE BeginLoad  \* mutant: as a tick does
ReloadAfterKill == BeginLoad

(* A tick counts if it belongs to the chain armed by the last toggle. *)
AnyTick(g) == auto                                   \* mutant: no generation check
LiveTick(g) == auto /\ g = autoGen

(* autoTick: one more timer of generation g; a timer that fires is gone. *)
Armed(t, g) == [t EXCEPT ![g] = @ + 1]
Fired(t, g) == [t EXCEPT ![g] = @ - 1]

(* A live tick keeps its chain alive, question open or not. *)
RearmUnlessAsked(g) ==                               \* mutant: plain return while confirm
    IF confirm THEN Fired(ticks, g) ELSE Armed(Fired(ticks, g), autoGen)
Rearmed(g) == Armed(Fired(ticks, g), autoGen)

(* A kill report leaves the channel. *)
TakenTwice(s) == [kills EXCEPT ![s] = @ - 1, !["running"] = @ - 1]  \* mutant: double count
Taken(s) == [kills EXCEPT ![s] = @ - 1]

------------------------------------------------------------------------------
(* The goroutines and the machine they look at. *)

(* The sockets of the machine change on their own. *)
WorldChanges ==
    /\ world < MaxWorld
    /\ world' = world + 1
    /\ UNCHANGED <<running, flow, auto, autoGen, confirm, err, shown, ticks,
                   kills, reported>>

(* loadCmd: listen.List returns, with the sockets of this moment or an error. *)
ListReturns(l) ==
    /\ running
    /\ l \in loads /\ l.got = Unread
    /\ \E r \in {world, Failed} : loads' = (loads \ {l}) \cup {[l EXCEPT !.got = r]}
    /\ UNCHANGED <<running, loading, loadGen, auto, autoGen, confirm, err, shown,
                   ticks, kills, world, reported>>

(* killCmd: listen.Kill returns. *)
KillReturns ==
    /\ running
    /\ kills["running"] > 0
    /\ \E s \in {"killed", "failed"} :
          kills' = [kills EXCEPT !["running"] = @ - 1, ![s] = @ + 1]
    /\ UNCHANGED <<running, flow, auto, autoGen, confirm, err, shown, ticks,
                   world, reported>>

------------------------------------------------------------------------------
(* Update: the messages the event loop handles, one at a time. *)

(* A listing of an older generation is dropped. *)
LoadedMsg(l) ==
    /\ running
    /\ l \in loads /\ l.got # Unread
    /\ loads' = loads \ {l}
    /\ IF Current(l)
       THEN /\ loading' = LoadingAfter(l)
            /\ err' = IF l.got = Failed THEN "list" ELSE "none"
            /\ shown' = IF l.got = Failed THEN shown ELSE l.got
       ELSE UNCHANGED <<loading, err, shown>>
    /\ UNCHANGED <<running, loadGen, auto, autoGen, confirm, ticks, kills, world,
                   reported>>

(* A successful kill reloads the table, whatever is in flight. *)
KilledMsg ==
    /\ running
    /\ kills["killed"] > 0
    /\ kills' = Taken("killed")
    /\ err' = "none"
    /\ ReloadAfterKill
    /\ reported' = world
    /\ UNCHANGED <<running, auto, autoGen, confirm, shown, ticks, world>>

KillFailedMsg ==
    /\ running
    /\ kills["failed"] > 0
    /\ kills' = Taken("failed")
    /\ err' = "kill"
    /\ UNCHANGED <<running, flow, auto, autoGen, confirm, shown, ticks, world,
                   reported>>

(* A tick of an earlier toggle is dropped and its chain ends; a live one
   re-arms itself, and reloads unless a question is open or a load runs. *)
TickMsg(g) ==
    /\ running
    /\ ticks[g] > 0
    /\ IF LiveTick(g)
       THEN /\ ticks' = Rearmed(g)
            /\ IF confirm \/ loading THEN UNCHANGED flow ELSE BeginLoad
       ELSE /\ ticks' = Fired(ticks, g)
            /\ UNCHANGED flow
    /\ UNCHANGED <<running, auto, autoGen, confirm, err, shown, kills, world,
                   reported>>

------------------------------------------------------------------------------
(* Update: the keys. While confirm is set only updateConfirm sees them. *)

(* r: reload now, even while a listing is in flight. *)
KeyReload ==
    /\ running /\ ~confirm
    /\ err' = "none"
    /\ BeginLoad
    /\ UNCHANGED <<running, auto, autoGen, confirm, shown, ticks, kills, world,
                   reported>>

(* a: toggle auto-refresh; both ways autoGen moves on. *)
KeyAuto ==
    /\ running /\ ~confirm
    /\ auto' = ~auto
    /\ \E g \in TickGens \ {autoGen} :
          /\ ticks[g] = 0
          /\ autoGen' = g
          /\ ticks' = IF auto' THEN Armed(ticks, g) ELSE ticks
    /\ IF auto' /\ ~loading THEN BeginLoad ELSE UNCHANGED flow
    /\ UNCHANGED <<running, confirm, err, shown, kills, world, reported>>

(* x: the question is asked only if the selected row has an identity. *)
KeyKill ==
    /\ running /\ ~confirm
    /\ shown > 0
    /\ confirm' = TRUE
    /\ UNCHANGED <<running, flow, auto, autoGen, err, shown, ticks, kills, world,
                   reported>>

(* y, asked: the row selected now is killed, or refused. *)
ConfirmYes ==
    /\ running /\ confirm
    /\ confirm' = FALSE
    /\ \/ /\ kills["running"] + kills["killed"] + kills["failed"] < MaxKills
          /\ kills' = [kills EXCEPT !["running"] = @ + 1]
       \/ UNCHANGED kills
    /\ UNCHANGED <<running, flow, auto, autoGen, err, shown, ticks, world, reported>>

(* n, esc or q, asked. *)
ConfirmNo ==
    /\ running /\ confirm
    /\ confirm' = FALSE
    /\ UNCHANGED <<running, flow, auto, autoGen, err, shown, ticks, kills, world,
                   reported>>

(* y, not asked: the endpoint goes to the clipboard, or the clipboard fails. *)
KeyCopy ==
    /\ running /\ ~confirm
    /\ shown > 0
    /\ err' \in {"none", "copy"}
    /\ UNCHANGED <<running, flow, auto, autoGen, confirm, shown, ticks, kills, world,
                   reported>>

(* q: the program ends; what is in flight is never delivered. *)
KeyQuit ==
    /\ running /\ ~confirm
    /\ running' = FALSE
    /\ UNCHANGED <<flow, auto, autoGen, confirm, err, shown, ticks, kills, world,
                   reported>>

Finished == ~running /\ UNCHANGED vars

------------------------------------------------------------------------------
Commands ==
    \/ \E l \in loads : ListReturns(l)
    \/ KillReturns

Messages ==
    \/ \E l \in loads : LoadedMsg(l)
    \/ KilledMsg
    \/ KillFailedMsg
    \/ \E g \in TickGens : TickMsg(g)

Keys ==
    \/ KeyReload \/ KeyAuto \/ KeyKill \/ ConfirmYes \/ ConfirmNo \/ KeyCopy \/ KeyQuit

Next == WorldChanges \/ Commands \/ Messages \/ Keys \/ Finished

Spec == Init /\ [][Next]_vars

(***************************************************************************)
(* Fairness: a goroutine that lists or kills ends (its calls are bounded:  *)
(* the Docker client has a deadline, a kill waits two seconds), a timer    *)
(* fires, and a goroutine blocked on sending its message to the event loop *)
(* is received from, because Go serves the senders of a channel in order.  *)
(* Nothing is assumed of the user.                                         *)
(***************************************************************************)
ListReturnsFor(g) == \E l \in loads : l.gen = g /\ ListReturns(l)
LoadedMsgFor(g) == \E l \in loads : l.gen = g /\ LoadedMsg(l)

Fairness ==
    /\ \A g \in Gens : WF_vars(ListReturnsFor(g)) /\ WF_vars(LoadedMsgFor(g))
    /\ \A g \in TickGens : WF_vars(TickMsg(g))
    /\ WF_vars(KillReturns) /\ WF_vars(KilledMsg) /\ WF_vars(KillFailedMsg)

FairSpec == Spec /\ Fairness

------------------------------------------------------------------------------
(* Properties. *)

(* The spinner tells the truth: the table says it is loading exactly while the
   one listing it would accept is in flight. Were it otherwise the title would
   spin for ever, or ticks, which skip while loading, would stop refreshing
   (tui.go:189-200, 221). *)
LoadingHasItsLoad ==
    loading <=> \E l \in loads : l.gen = loadGen

(* "dropping it (without re-arming) keeps exactly one chain alive" (tui.go:213):
   however often auto-refresh is toggled while timers are out, one timer of the
   current generation is armed when it is on, and none when it is off. *)
OneTickChain ==
    ticks[autoGen] = IF auto THEN 1 ELSE 0

(* Listings return in any order, and the table never goes back to one taken
   before the one it shows (tui.go:190). *)
NeverOlder == [][shown' >= shown]_vars

(* After "killed pid N" is reported the table takes up no listing from before
   the kill, in particular not the one in flight at that moment (tui.go:210). *)
FreshAfterKill == [][shown' # shown => shown' >= reported]_vars

(* Whatever the user does short of superseding it for ever (a reload or a kill
   each time while the listing is still in flight), the spinner goes away: a
   failed or a stale listing does not leave it on (tui.go:161, 189-200). *)
Supersede == loading /\ loadGen' # loadGen
LoadingSettles ==
    <>[][~Supersede]_vars => []<>(~loading \/ ~running)

(* With auto-refresh left on, no question open, and listings that work and are
   let finish, the table ends up showing the machine's sockets and stays there:
   the chain of ticks, each of which reloads a table that is not loading,
   survives questions, slow listings and toggles (tui.go:212-225). *)
ListingFails ==
    Cardinality({l \in loads' : l.got = Failed}) > Cardinality({l \in loads : l.got = Failed})
AutoConverges ==
    <>[](running /\ auto /\ ~confirm) /\ <>[][~Supersede /\ ~ListingFails]_vars
        => <>[](shown = world)
=============================================================================
