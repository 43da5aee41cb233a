----------------------------- MODULE TuiProofs -----------------------------
(***************************************************************************)
(* Theorems about Refresh and about Tui, for every machine, every bound,   *)
(* every terminal and every use of the keys.                               *)
(*                                                                         *)
(* The protocol of Refresh first. Its properties are not inductive on      *)
(* their own:                                                              *)
(*   - LoadingHasItsLoad needs that no two listings in flight share a      *)
(*     generation, or accepting one would leave its twin behind;           *)
(*   - NeverOlder and FreshAfterKill need that the one listing that would  *)
(*     be accepted was taken after what is shown and after the last kill,  *)
(*     and that no listing comes from the future.                          *)
(* The table runs on the protocol, and so inherits what is proved of it.   *)
(* What it adds needs the rows to be those of the listing on display: only *)
(* of such a table is it known that every group has a row to select.       *)
(***************************************************************************)
EXTENDS Tui, RowsProofs

------------------------------------------------------------------------------
(* The refresh protocol. *)

(* No two listings in flight carry the same generation. *)
OneLoadPerGen == \A l, m \in loads : l.gen = m.gen => l = m

(* Nothing was seen before it happened. *)
PastOnly ==
    /\ shown <= world
    /\ reported <= world
    /\ \A l \in loads : l.got \in Nat => l.got <= world

(* The listing that would be accepted is at least as new as the table and as
   the last kill reported. *)
CurrentIsFresh ==
    \A l \in loads : l.gen = loadGen /\ l.got \in Nat => l.got >= shown /\ l.got >= reported

IInv ==
    /\ TypeOK
    /\ OneLoadPerGen
    /\ LoadingHasItsLoad
    /\ OneTickChain
    /\ PastOnly
    /\ CurrentIsFresh

(* Steps that leave the listings, the ticks and the machine as they are keep
   every part of the invariant but the type of what they change. *)
Rest == <<flow, auto, autoGen, ticks, shown, world, reported>>

LEMMA RestLemma ==
    ASSUME IInv, TypeOK', UNCHANGED Rest
    PROVE  IInv'
BY DEF IInv, TypeOK, OneLoadPerGen, LoadingHasItsLoad, OneTickChain, PastOnly,
       CurrentIsFresh, Rest, flow

(* A new listing supersedes the others and starts unread. *)
LEMMA BeginLoadLemma ==
    ASSUME IInv, BeginLoad, world' = world, shown' = shown,
           reported' \in Nat, reported' <= world
    PROVE  /\ loading' \in BOOLEAN /\ loadGen' \in Gens /\ loads' \subseteq Load
           /\ OneLoadPerGen' /\ LoadingHasItsLoad' /\ PastOnly' /\ CurrentIsFresh'
<1>1. PICK g \in Gens \ ({loadGen} \cup {l.gen : l \in loads}) :
         /\ loadGen' = g
         /\ loading' = TRUE
         /\ loads' = loads \cup {[gen |-> g, got |-> Unread]}
  BY DEF BeginLoad
<1>2. \A l \in loads : l.gen # g
  BY <1>1
<1>3. Unread \notin Nat
  BY MarkersAssumption
<1>4. loading' \in BOOLEAN /\ loadGen' \in Gens /\ loads' \subseteq Load
  BY <1>1 DEF IInv, TypeOK, Load
<1>5. OneLoadPerGen'
  BY <1>1, <1>2 DEF IInv, OneLoadPerGen
<1>6. LoadingHasItsLoad'
  <2>1. [gen |-> g, got |-> Unread] \in loads' /\ [gen |-> g, got |-> Unread].gen = loadGen'
    BY <1>1
  <2>2. \E l \in loads' : l.gen = loadGen'
    BY <2>1
  <2> QED
    BY <1>1, <2>2 DEF LoadingHasItsLoad
<1>7. PastOnly'
  BY <1>1, <1>3 DEF IInv, TypeOK, PastOnly
<1>8. CurrentIsFresh'
  BY <1>1, <1>2, <1>3 DEF CurrentIsFresh
<1> QED
  BY <1>4, <1>5, <1>6, <1>7, <1>8

LEMMA InitLemma == Init => IInv
<1> SUFFICES ASSUME Init PROVE IInv
  OBVIOUS
<1>1. Unread \notin Nat
  BY MarkersAssumption
<1>2. TypeOK
  <2>1. loads \subseteq Load
    BY DEF Init, Load
  <2>2. ticks \in [TickGens -> Nat] /\ kills \in [KillStates -> Nat]
    BY DEF Init
  <2> QED
    BY <2>1, <2>2 DEF Init, TypeOK, Errors
<1>3. OneLoadPerGen /\ LoadingHasItsLoad /\ OneTickChain
  BY DEF Init, OneLoadPerGen, LoadingHasItsLoad, OneTickChain
<1>4. PastOnly /\ CurrentIsFresh
  BY <1>1 DEF Init, PastOnly, CurrentIsFresh
<1> QED
  BY <1>2, <1>3, <1>4 DEF IInv

(* The handlers. *)
LEMMA ListReturnsLemma ==
    ASSUME IInv, NEW l \in loads, ListReturns(l)
    PROVE  IInv'
<1> USE DEF IInv
<1>1. PICK r \in {world, Failed} : loads' = (loads \ {l}) \cup {[l EXCEPT !.got = r]}
  BY DEF ListReturns
<1> DEFINE n == [l EXCEPT !.got = r]
<1>2. n = [gen |-> l.gen, got |-> r] /\ l \in Load /\ r \in Nat \cup {Unread, Failed}
  BY DEF TypeOK, Load
<1>3. /\ UNCHANGED <<running, loading, loadGen, auto, autoGen, confirm, err, shown,
                      ticks, kills, world, reported>>
  BY DEF ListReturns
<1>4. n \in Load /\ loads' \subseteq Load
  BY <1>1, <1>2 DEF TypeOK, Load
<1>5. TypeOK'
  BY <1>3, <1>4 DEF TypeOK
<1>6. OneLoadPerGen'
  BY <1>1, <1>2 DEF OneLoadPerGen
<1>7. LoadingHasItsLoad'
  <2>1. (\E m \in loads' : m.gen = loadGen) <=> (\E m \in loads : m.gen = loadGen)
    BY <1>1, <1>2
  <2> QED
    BY <1>3, <2>1 DEF LoadingHasItsLoad
<1>8. OneTickChain'
  BY <1>3 DEF OneTickChain
<1>9. r \in Nat => r = world
  BY MarkersAssumption
<1>10. PastOnly'
  BY <1>1, <1>2, <1>3, <1>9 DEF PastOnly, TypeOK
<1>11. CurrentIsFresh'
  BY <1>1, <1>2, <1>3, <1>9 DEF CurrentIsFresh, PastOnly, TypeOK
<1> QED
  BY <1>5, <1>6, <1>7, <1>8, <1>10, <1>11

LEMMA LoadedMsgLemma ==
    ASSUME IInv, NEW l \in loads, LoadedMsg(l)
    PROVE  IInv' /\ shown' >= shown /\ (shown' # shown => shown' >= reported')
<1> USE DEF IInv
<1>1. /\ l.got # Unread
      /\ loads' = loads \ {l}
      /\ UNCHANGED <<running, loadGen, auto, autoGen, confirm, ticks, kills, world, reported>>
  BY DEF LoadedMsg
<1>2. l \in Load /\ l.got \in Nat \cup {Failed}
  BY <1>1 DEF TypeOK, Load
<1>3. \/ shown' = shown
      \/ l.gen = loadGen /\ l.got \in Nat /\ shown' = l.got
  BY <1>2 DEF LoadedMsg, Current
<1>4. shown' \in Nat /\ shown' >= shown /\ shown' <= world /\ (shown' # shown => shown' >= reported)
  BY <1>3 DEF TypeOK, CurrentIsFresh, PastOnly
<1>5. TypeOK'
  BY <1>1, <1>4 DEF TypeOK, LoadedMsg, LoadingAfter, Errors
<1>6. OneLoadPerGen' /\ OneTickChain' /\ PastOnly'
  BY <1>1, <1>4 DEF OneLoadPerGen, OneTickChain, PastOnly
<1>7. LoadingHasItsLoad' /\ CurrentIsFresh'
  <2>1. CASE Current(l)
    <3>1. \A m \in loads' : m.gen # loadGen
      BY <1>1, <2>1 DEF Current, OneLoadPerGen
    <3>2. loading' = FALSE
      BY <2>1 DEF LoadedMsg, LoadingAfter
    <3> QED
      BY <1>1, <3>1, <3>2 DEF LoadingHasItsLoad, CurrentIsFresh
  <2>2. CASE ~Current(l)
    <3>1. UNCHANGED <<loading, shown>>
      BY <2>2 DEF LoadedMsg
    <3>2. (\E m \in loads' : m.gen = loadGen) <=> (\E m \in loads : m.gen = loadGen)
      BY <1>1, <2>2 DEF Current
    <3> QED
      BY <1>1, <3>1, <3>2 DEF LoadingHasItsLoad, CurrentIsFresh
  <2> QED
    BY <2>1, <2>2
<1> QED
  BY <1>1, <1>4, <1>5, <1>6, <1>7

LEMMA KilledMsgLemma ==
    ASSUME IInv, KilledMsg
    PROVE  IInv'
<1> USE DEF IInv
<1>1. /\ BeginLoad
      /\ reported' = world
      /\ kills' = [kills EXCEPT !["killed"] = @ - 1]
      /\ kills["killed"] > 0
      /\ err' = "none"
      /\ UNCHANGED <<running, auto, autoGen, confirm, shown, ticks, world>>
  BY DEF KilledMsg, Taken, ReloadAfterKill
<1>2. /\ loading' \in BOOLEAN /\ loadGen' \in Gens /\ loads' \subseteq Load
      /\ OneLoadPerGen' /\ LoadingHasItsLoad' /\ PastOnly' /\ CurrentIsFresh'
  BY <1>1, BeginLoadLemma DEF TypeOK
<1>3. kills' \in [KillStates -> Nat]
  BY <1>1 DEF TypeOK, KillStates
<1>4. TypeOK' /\ OneTickChain'
  BY <1>1, <1>2, <1>3 DEF TypeOK, OneTickChain, Errors
<1> QED
  BY <1>2, <1>4

(* A reload, or none: what TickMsg and KeyAuto do to the listings. *)
LEMMA MaybeLoadLemma ==
    ASSUME IInv, BeginLoad \/ UNCHANGED flow, UNCHANGED <<shown, world, reported>>
    PROVE  /\ loading' \in BOOLEAN /\ loadGen' \in Gens /\ loads' \subseteq Load
           /\ OneLoadPerGen' /\ LoadingHasItsLoad' /\ PastOnly' /\ CurrentIsFresh'
<1>1. CASE BeginLoad
  BY <1>1, BeginLoadLemma DEF IInv, TypeOK, PastOnly
<1>2. CASE UNCHANGED flow
  BY <1>2 DEF flow, IInv, TypeOK, OneLoadPerGen, LoadingHasItsLoad, PastOnly, CurrentIsFresh
<1> QED
  BY <1>1, <1>2

LEMMA TickMsgLemma ==
    ASSUME IInv, NEW g \in TickGens, TickMsg(g)
    PROVE  IInv'
<1> USE DEF IInv
<1>1. /\ ticks[g] > 0
      /\ UNCHANGED <<running, auto, autoGen, confirm, err, shown, kills, world, reported>>
      /\ BeginLoad \/ UNCHANGED flow
  BY DEF TickMsg
<1>2. /\ loading' \in BOOLEAN /\ loadGen' \in Gens /\ loads' \subseteq Load
      /\ OneLoadPerGen' /\ LoadingHasItsLoad' /\ PastOnly' /\ CurrentIsFresh'
  BY <1>1, MaybeLoadLemma
<1>3. ticks' \in [TickGens -> Nat] /\ OneTickChain'
  <2>1. CASE LiveTick(g)
    BY <1>1, <2>1 DEF TickMsg, LiveTick, Rearmed, Armed, Fired, TypeOK, OneTickChain
  <2>2. CASE ~LiveTick(g)
    BY <1>1, <2>2 DEF TickMsg, LiveTick, Fired, TypeOK, OneTickChain
  <2> QED
    BY <2>1, <2>2
<1>4. TypeOK'
  BY <1>1, <1>2, <1>3 DEF TypeOK
<1> QED
  BY <1>2, <1>3, <1>4

LEMMA KeyAutoLemma ==
    ASSUME IInv, KeyAuto
    PROVE  IInv'
<1> USE DEF IInv
<1>1. /\ auto' = ~auto
      /\ UNCHANGED <<running, confirm, err, shown, kills, world, reported>>
      /\ BeginLoad \/ UNCHANGED flow
  BY DEF KeyAuto
<1>2. /\ loading' \in BOOLEAN /\ loadGen' \in Gens /\ loads' \subseteq Load
      /\ OneLoadPerGen' /\ LoadingHasItsLoad' /\ PastOnly' /\ CurrentIsFresh'
  BY <1>1, MaybeLoadLemma
<1>3. PICK g \in TickGens : /\ ticks[g] = 0
                            /\ autoGen' = g
                            /\ ticks' = IF auto' THEN Armed(ticks, g) ELSE ticks
  BY DEF KeyAuto
<1>4. autoGen' \in TickGens /\ ticks' \in [TickGens -> Nat] /\ OneTickChain'
  BY <1>3 DEF TypeOK, Armed, OneTickChain
<1>5. TypeOK'
  BY <1>1, <1>2, <1>4 DEF TypeOK
<1> QED
  BY <1>2, <1>4, <1>5

LEMMA KeyReloadLemma ==
    ASSUME IInv, KeyReload
    PROVE  IInv'
<1> USE DEF IInv
<1>1. /\ BeginLoad
      /\ err' = "none"
      /\ UNCHANGED <<running, auto, autoGen, confirm, shown, ticks, kills, world, reported>>
  BY DEF KeyReload
<1>2. /\ loading' \in BOOLEAN /\ loadGen' \in Gens /\ loads' \subseteq Load
      /\ OneLoadPerGen' /\ LoadingHasItsLoad' /\ PastOnly' /\ CurrentIsFresh'
  BY <1>1, MaybeLoadLemma
<1>3. TypeOK' /\ OneTickChain'
  BY <1>1, <1>2 DEF TypeOK, OneTickChain, Errors
<1> QED
  BY <1>2, <1>3

LEMMA WorldChangesLemma ==
    ASSUME IInv, WorldChanges
    PROVE  IInv'
BY DEF WorldChanges, IInv, TypeOK, OneLoadPerGen, LoadingHasItsLoad, OneTickChain, PastOnly,
       CurrentIsFresh, flow

(* Every other step leaves the listings, the ticks and the table alone. *)
LEMMA OtherLemma ==
    ASSUME IInv,
           \/ KillReturns \/ KillFailedMsg \/ KeyKill \/ ConfirmYes \/ ConfirmNo
           \/ KeyCopy \/ KeyQuit \/ Finished \/ UNCHANGED vars
    PROVE  IInv' /\ UNCHANGED <<shown, reported>>
<1>1. CASE KillReturns
  <2>1. kills' \in [KillStates -> Nat]
    BY <1>1 DEF KillReturns, IInv, TypeOK, KillStates
  <2>2. TypeOK'
    BY <1>1, <2>1 DEF KillReturns, IInv, TypeOK, flow
  <2> QED
    BY <1>1, <2>2, RestLemma DEF KillReturns, Rest, flow
<1>2. CASE KillFailedMsg
  <2>1. TypeOK'
    BY <1>2 DEF KillFailedMsg, Taken, IInv, TypeOK, KillStates, Errors, flow
  <2> QED
    BY <1>2, <2>1, RestLemma DEF KillFailedMsg, Rest, flow
<1>3. CASE ConfirmYes
  <2>1. kills' \in [KillStates -> Nat]
    BY <1>3 DEF ConfirmYes, IInv, TypeOK, KillStates
  <2>2. TypeOK'
    BY <1>3, <2>1 DEF ConfirmYes, IInv, TypeOK, flow
  <2> QED
    BY <1>3, <2>2, RestLemma DEF ConfirmYes, Rest, flow
<1>4. CASE KeyKill \/ ConfirmNo \/ KeyCopy \/ KeyQuit
  <2>1. TypeOK'
    BY <1>4 DEF KeyKill, ConfirmNo, KeyCopy, KeyQuit, IInv, TypeOK, Errors, flow
  <2> QED
    BY <1>4, <2>1, RestLemma DEF KeyKill, ConfirmNo, KeyCopy, KeyQuit, Rest, flow
<1>5. CASE Finished \/ UNCHANGED vars
  <2>1. TypeOK'
    BY <1>5 DEF Finished, vars, IInv, TypeOK, flow
  <2> QED
    BY <1>5, <2>1, RestLemma DEF Finished, vars, Rest, flow
<1> QED
  BY <1>1, <1>2, <1>3, <1>4, <1>5

LEMMA NextLemma ==
    ASSUME IInv, [Next]_vars
    PROVE  /\ IInv'
           /\ shown' >= shown
           /\ shown' # shown => shown' >= reported'
<1>0. shown \in Nat
  BY DEF IInv, TypeOK
<1>1. CASE \E l \in loads : LoadedMsg(l)
  BY <1>1, LoadedMsgLemma
<1>2. CASE \E l \in loads : ListReturns(l)
  BY <1>0, <1>2, ListReturnsLemma DEF ListReturns
<1>3. CASE KilledMsg
  BY <1>0, <1>3, KilledMsgLemma DEF KilledMsg
<1>4. CASE \E g \in TickGens : TickMsg(g)
  BY <1>0, <1>4, TickMsgLemma DEF TickMsg
<1>5. CASE KeyAuto
  BY <1>0, <1>5, KeyAutoLemma DEF KeyAuto
<1>6. CASE KeyReload
  BY <1>0, <1>6, KeyReloadLemma DEF KeyReload
<1>7. CASE WorldChanges
  BY <1>0, <1>7, WorldChangesLemma DEF WorldChanges
<1>8. CASE \/ KillReturns \/ KillFailedMsg \/ KeyKill \/ ConfirmYes \/ ConfirmNo
           \/ KeyCopy \/ KeyQuit \/ Finished \/ UNCHANGED vars
  BY <1>0, <1>8, OtherLemma
<1> QED
  BY <1>1, <1>2, <1>3, <1>4, <1>5, <1>6, <1>7, <1>8 DEF Next, Commands, Messages, Keys

(* The inductive invariant holds in every reachable state. *)
THEOREM Invariance == Spec => []IInv
<1>1. Init => IInv
  BY InitLemma
<1>2. IInv /\ [Next]_vars => IInv'
  BY NextLemma
<1> QED
  BY <1>1, <1>2, PTL DEF Spec

(* Every variable of the event loop keeps its type, the counters of timers and
   kills included: none is taken that was not there. *)
THEOREM TypeCorrect == Spec => []TypeOK
<1>1. IInv => TypeOK
  BY DEF IInv
<1> QED
  BY <1>1, Invariance, PTL

(* The spinner is on exactly while the listing it waits for is in flight
   (tui.go:189-200), for any number of listings, kills and timers in flight. *)
THEOREM SpinnerIsTrue == Spec => []LoadingHasItsLoad
<1>1. IInv => LoadingHasItsLoad
  BY DEF IInv
<1> QED
  BY <1>1, Invariance, PTL

(* Exactly one chain of ticks is alive while auto-refresh is on (tui.go:213),
   however many stale timers are still out. *)
THEOREM ExactlyOneChain == Spec => []OneTickChain
<1>1. IInv => OneTickChain
  BY DEF IInv
<1> QED
  BY <1>1, Invariance, PTL

(* The table never goes back to an older listing (tui.go:190). *)
THEOREM TableNeverOlder == Spec => NeverOlder
<1>1. IInv /\ [Next]_vars => [shown' >= shown]_vars
  BY NextLemma
<1> QED
  BY <1>1, Invariance, PTL DEF Spec, NeverOlder

(* No listing from before a kill that was reported is taken up after the
   report (tui.go:202-210). *)
THEOREM TableFollowsKill == Spec => FreshAfterKill
<1>1. IInv /\ [Next]_vars => [shown' # shown => shown' >= reported]_vars
  <2> SUFFICES ASSUME IInv, [Next]_vars, shown' # shown PROVE shown' >= reported
    BY DEF IInv
  <2>1. PICK l \in loads : LoadedMsg(l)
    BY ListReturnsLemma, OtherLemma DEF Next, Commands, Messages, Keys, ListReturns,
       KilledMsg, TickMsg, KeyAuto, KeyReload, WorldChanges, vars
  <2> QED
    BY <2>1, LoadedMsgLemma DEF LoadedMsg
<1> QED
  BY <1>1, Invariance, PTL DEF Spec, FreshAfterKill

------------------------------------------------------------------------------
(* The table runs on it. *)

(* A step of the TUI is a step of the protocol, or one it does not see. *)
LEMMA StepRefines == TuiNext => [Next]_vars
<1> SUFFICES ASSUME TuiNext PROVE Next \/ UNCHANGED vars
  OBVIOUS
<1>1. ASSUME NEW h \in Heights, Resize(h) PROVE UNCHANGED vars
  BY <1>1 DEF Resize
<1>2. ASSUME NEW l \in loads, Loaded(l) PROVE Next
  BY <1>2 DEF Loaded, Next, Messages
<1>3. CASE Unseen
  BY <1>3 DEF Unseen, Next, Commands, Messages
<1>4. CASE TableKey
  BY <1>4 DEF TableKey, Next, Keys
<1>5. CASE AskKill \/ AnswerYes \/ AnswerNo
  BY <1>5 DEF AskKill, AnswerYes, AnswerNo, Next, Keys
<1>6. CASE StartSearch \/ LeaveSearch \/ ClickSearch
  BY <1>6 DEF StartSearch, LeaveSearch, ClickSearch
<1>7. CASE Settle
  BY <1>7 DEF Settle, CycleSort, ReverseSort, TogglePID, ToggleFold, ToggleFamily, SetFold,
              SetQuery, ClickHeader
<1>8. CASE Pointing
  BY <1>8 DEF Pointing, Move, ClickRow, ClickMark
<1>9. CASE Finished /\ UNCHANGED table
  BY <1>9 DEF Finished
<1> QED
  BY <1>1, <1>2, <1>3, <1>4, <1>5, <1>6, <1>7, <1>8, <1>9 DEF TuiNext

(* The composition implements the protocol: whatever the table does with a
   listing, its messages and keys are those of Refresh (tui.go:180-483). *)
THEOREM TuiRunsRefresh == TuiSpec => RefreshSpec
<1>1. TuiInit => Init
  BY DEF TuiInit
<1>2. [TuiNext]_tuiVars => [Next]_vars
  BY StepRefines DEF tuiVars
<1> QED
  BY <1>1, <1>2, PTL DEF TuiSpec, RefreshSpec, Spec

------------------------------------------------------------------------------
LEMMA Derived ==
    ASSUME ApplyFilter
    PROVE  RowsAreCurrent'
BY DEF ApplyFilter, RowsAreCurrent

LEMMA Kept ==
    ASSUME RowsAreCurrent, UNCHANGED rows, UNCHANGED shown, UNCHANGED settings
    PROVE  RowsAreCurrent'
BY DEF RowsAreCurrent, settings

(* Only a listing that is taken changes what is shown. *)
LEMMA ShownKept ==
    ASSUME \/ WorldChanges \/ Commands \/ KilledMsg \/ KillFailedMsg \/ Keys
           \/ \E g \in TickGens : TickMsg(g)
    PROVE  UNCHANGED shown
BY DEF WorldChanges, Commands, ListReturns, KillReturns, KilledMsg, KillFailedMsg, TickMsg,
       Keys, KeyReload, KeyAuto, KeyKill, ConfirmYes, ConfirmNo, KeyCopy, KeyQuit

LEMMA StepKeepsRows == RowsAreCurrent /\ [TuiNext]_tuiVars => RowsAreCurrent'
<1> SUFFICES ASSUME RowsAreCurrent, [TuiNext]_tuiVars PROVE RowsAreCurrent'
  OBVIOUS
<1>1. ASSUME NEW h \in Heights, Resize(h) PROVE RowsAreCurrent'
  BY <1>1, Kept DEF Resize, vars
<1>2. ASSUME NEW l \in loads, Loaded(l) PROVE RowsAreCurrent'
  <2>1. CASE TakenWithRows(l)
    BY <1>2, <2>1, Derived DEF Loaded
  <2>2. CASE ~TakenWithRows(l)
    <3>1. UNCHANGED shown
      BY <1>2, <2>2 DEF Loaded, LoadedMsg, TakenWithRows
    <3> QED
      BY <1>2, <2>2, <3>1, Kept DEF Loaded, page
  <2> QED
    BY <2>1, <2>2
<1>3. CASE Unseen
  BY <1>3, ShownKept, Kept DEF Unseen, table, page
<1>4. CASE TableKey
  BY <1>4, ShownKept, Kept DEF TableKey, Keys, table, page
<1>5. CASE AskKill \/ AnswerYes \/ AnswerNo
  BY <1>5, ShownKept, Kept DEF AskKill, AnswerYes, AnswerNo, Keys, page
<1>6. CASE StartSearch \/ LeaveSearch \/ ClickSearch
  BY <1>6, Kept DEF StartSearch, LeaveSearch, ClickSearch, page, vars
<1>7. CASE Settle
  BY <1>7, Derived DEF Settle, CycleSort, ReverseSort, TogglePID, ToggleFold, Folded, ToggleFamily,
                       SetFold, SetQuery, ClickHeader
<1>8. CASE Pointing
  <2>1. CASE Move
    BY <2>1, Kept DEF Move, vars
  <2>2. ASSUME NEW c \in 0 .. Len(rows) - 1, ClickRow(c) PROVE RowsAreCurrent'
    BY <2>2, Kept DEF ClickRow, vars
  <2>3. ASSUME NEW c \in 0 .. Len(rows) - 1, ClickMark(c) PROVE RowsAreCurrent'
    BY <2>3 DEF ClickMark, RowsAreCurrent, vars
  <2> QED
    BY <1>8, <2>1, <2>2, <2>3 DEF Pointing
<1>9. CASE Finished /\ UNCHANGED table
  BY <1>9, Kept DEF Finished, table, page, vars
<1>10. CASE UNCHANGED tuiVars
  BY <1>10, Kept DEF tuiVars, table, page, vars
<1> QED
  BY <1>1, <1>2, <1>3, <1>4, <1>5, <1>6, <1>7, <1>8, <1>9, <1>10 DEF TuiNext

(* Whatever handler ran last, the rows are those of the listing on display
   under the query, the filters, the order and the folds on display
   (tui.go:549-590). *)
THEOREM NoStaleTable == TuiSpec => []RowsAreCurrent
<1>1. TuiInit => RowsAreCurrent
  BY DEF TuiInit, Init, RowsAreCurrent, RowsFor
<1> QED
  BY <1>1, StepKeepsRows, PTL DEF TuiSpec

------------------------------------------------------------------------------
(* The rows a listing gives. *)

LEMMA FilteredLemma ==
    ASSUME NEW es \in Seq(Entry), NEW pid, NEW family, NEW q
    PROVE  \E n \in Nat : Filtered(es, pid, family, q) \in [1 .. n -> Entry]
<1> DEFINE I == {i \in DOMAIN es : /\ pid => HasPID(es[i])
                                   /\ InFamily(es[i], family)
                                   /\ MatchesQuery(es[i], q)}
<1>1. DOMAIN es = 1 .. Len(es) /\ Len(es) \in Nat /\ \A i \in DOMAIN es : es[i] \in Entry
  OBVIOUS
<1>2. I \in SUBSET DOMAIN es
  OBVIOUS
<1>3. IsFiniteSet(DOMAIN es)
  BY <1>1, FS_Interval
<1> HIDE DEF I
<1>4. IsFiniteSet(I) /\ I \in SUBSET Nat
  BY <1>1, <1>2, <1>3, FS_Subset
<1>5. PICK n \in Nat : \E order \in [1 .. n -> I] : Keeping(es, I) = [k \in 1 .. n |-> es[order[k]]]
  BY <1>4, KeepingLemma
<1>6. Keeping(es, I) \in [1 .. n -> Entry]
  BY <1>1, <1>2, <1>5
<1>7. Keeping(es, I) = Filtered(es, pid, family, q)
  BY DEF Filtered, I
<1> QED
  BY <1>6, <1>7

LEMMA RowsForLemma ==
    ASSUME NEW version \in 0 .. MaxWorld, NEW q, NEW pid, NEW family, NEW key \in Columns,
           NEW desc \in BOOLEAN, NEW open
    PROVE  IsTable(RowsFor(version, q, pid, family, key, desc, open))
<1>1. CASE version = 0
  BY <1>1 DEF RowsFor, IsTable
<1>2. CASE version # 0
  <2> DEFINE es == Filtered(Listings[version], pid, family, q)
             rs == FlattenGroups(es, key, desc, open)
  <2>1. Listings[version] \in Seq(Entry)
    BY <1>2, ListingsAssumption
  <2>2. PICK n \in Nat : es \in [1 .. n -> Entry]
    BY <2>1, FilteredLemma
  <2>3. IsTable(rs)
    <3> HIDE DEF es
    <3> QED
      BY <2>2, FlattenLemma
  <2> QED
    BY <1>2, <2>3 DEF RowsFor
<1> QED
  BY <1>1, <1>2

------------------------------------------------------------------------------
(* Where the cursor goes. *)

(* What is looked for is found if any row has it, and then the cursor is on such
   a row; otherwise it stays. *)
Sought(r, id) == Id(r) = id \/ <<"key", Key(r.e)>> = id
LEMMA ReselectLemma ==
    ASSUME NEW old, NEW new, IsTable(new), NEW c \in Int, Has(old, c),
           NEW keep, keep = Keep(At(old, c)),
           NEW to, to = Reselect(old, c, new)
    PROVE  \/ /\ to = c
              /\ \A k \in DOMAIN keep : \A p \in 0 .. Len(new) - 1 : ~Sought(At(new, p), keep[k])
           \/ /\ to \in 0 .. Len(new) - 1
              /\ \E k \in DOMAIN keep :
                    /\ Sought(At(new, to), keep[k])
                    /\ \A l \in 1 .. k - 1 :
                          \A p \in 0 .. Len(new) - 1 : ~Sought(At(new, p), keep[l])
<1> DEFINE Hits(k) == {p \in 0 .. Len(new) - 1 :
                          Id(At(new, p)) = keep[k] \/ <<"key", Key(At(new, p).e)>> = keep[k]}
           found == {k \in DOMAIN keep : Hits(k) # {}}
           Least(S) == CHOOSE x \in S : \A y \in S : x <= y
<1>1. to = IF found # {} THEN Least(Hits(Least(found))) ELSE c
  BY DEF Reselect
<1>2. DOMAIN keep \in SUBSET Nat /\ \A k \in DOMAIN keep : \A l \in 1 .. k - 1 : l \in DOMAIN keep
  <2>1. DOMAIN keep = 1 .. 2 \/ DOMAIN keep = 1 .. 3
    BY DEF Keep
  <2> QED
    BY <2>1
<1>3. Len(new) \in Nat
  BY DEF IsTable
<1>4. \A k \in DOMAIN keep : \A p \in 0 .. Len(new) - 1 : p \in Hits(k) <=> Sought(At(new, p), keep[k])
  BY DEF Sought
<1>5. \A k : Hits(k) \in SUBSET (0 .. Len(new) - 1) /\ Hits(k) \in SUBSET Nat
  BY <1>3
<1> HIDE DEF Hits
<1>6. CASE found = {}
  BY <1>1, <1>4, <1>6
<1>7. CASE found # {}
  <2> DEFINE k == Least(found)
             p == Least(Hits(k))
  <2>1. k \in found /\ \A l \in found : k <= l
    <3>1. \E x \in found : \A y \in found : x <= y
      BY <1>2, <1>7, LeastLemma
    <3> QED
      BY <3>1
  <2> HIDE DEF k
  <2>2. p \in Hits(k)
    <3>1. \E x \in Hits(k) : \A y \in Hits(k) : x <= y
      BY <1>5, <2>1, LeastLemma
    <3> QED
      BY <3>1
  <2>3. to = p
    BY <1>1, <1>7 DEF k
  <2> HIDE DEF p
  <2>4. k \in DOMAIN keep /\ p \in 0 .. Len(new) - 1 /\ Sought(At(new, p), keep[k])
    BY <1>4, <1>5, <2>1, <2>2
  <2>5. \A l \in 1 .. k - 1 : \A q \in 0 .. Len(new) - 1 : ~Sought(At(new, q), keep[l])
    <3> SUFFICES ASSUME NEW l \in 1 .. k - 1, NEW q \in 0 .. Len(new) - 1, Sought(At(new, q), keep[l])
                 PROVE  FALSE
      OBVIOUS
    <3>1. l \in DOMAIN keep /\ k \in Nat /\ ~(k <= l)
      BY <1>2, <2>4
    <3>2. q \in Hits(l)
      BY <1>4, <3>1
    <3> QED
      BY <2>1, <3>1, <3>2
  <2> QED
    BY <2>3, <2>4, <2>5
<1> QED
  BY <1>6, <1>7

LEMMA ReselectType ==
    ASSUME NEW old, NEW new, IsTable(new), NEW c \in Int
    PROVE  Reselect(old, c, new) \in Int
<1>1. CASE Has(old, c)
  <2>1. Reselect(old, c, new) = c \/ Reselect(old, c, new) \in 0 .. Len(new) - 1
    BY <1>1, ReselectLemma
  <2> QED
    BY <2>1 DEF IsTable
<1>2. CASE ~Has(old, c)
  <2>1. DOMAIN <<>> = {}
    OBVIOUS
  <2>2. Reselect(old, c, new) = c
    BY <1>2, <2>1 DEF Reselect
  <2> QED
    BY <2>2
<1> QED
  BY <1>1, <1>2

LEMMA PageLemma ==
    ASSUME NEW h \in Nat
    PROVE  PageSize(h) \in Nat /\ PageSize(h) >= 1
BY DEF PageSize

(* clamp leaves the cursor in the table and the page around it, wherever the
   cursor was put. *)
LEMMA MoveLemma ==
    ASSUME IsTable(rows'), offset \in Nat, height' \in Nat, NEW c \in Int, MoveTo(c)
    PROVE  /\ cursor' \in Nat /\ offset' \in Nat
           /\ SelectionOnPage'
           /\ c \in 0 .. Len(rows') - 1 => cursor' = c
<1> DEFINE n == Len(rows')
           ps == PageSize(height')
<1>1. n \in Nat /\ (rows' = <<>> <=> n = 0)
  BY DEF IsTable
<1>2. ps \in Nat /\ ps >= 1
  BY PageLemma
<1>3. cursor' = ClampCursor(c, n) /\ offset' = ClampOffset(offset, cursor', n, ps)
  BY DEF MoveTo
<1> HIDE DEF n, ps
<1>4. /\ cursor' \in Nat
      /\ n = 0 => cursor' = 0
      /\ n # 0 => cursor' < n
      /\ c \in 0 .. n - 1 => cursor' = c
  BY <1>1, <1>3 DEF ClampCursor
<1>5. /\ offset' \in Nat
      /\ n = 0 => offset' = 0
      /\ n # 0 => offset' <= cursor' /\ cursor' < offset' + ps
  BY <1>1, <1>2, <1>3, <1>4 DEF ClampOffset
<1>6. SelectionOnPage'
  BY <1>1, <1>4, <1>5 DEF SelectionOnPage, Has, n, ps
<1> QED
  BY <1>4, <1>5, <1>6 DEF n

------------------------------------------------------------------------------
(* The invariant of the whole TUI: that of the protocol, listings that are known,
   and a table that belongs to them. *)
SettingsOK ==
    /\ height \in {0} \cup Heights
    /\ filtering \in BOOLEAN /\ query \in Queries
    /\ onlyPID \in BOOLEAN /\ ipFamily \in Families
    /\ sortKey \in Columns /\ sortDesc \in BOOLEAN

TuiIInv ==
    /\ IInv
    /\ world \in 1 .. MaxWorld
    /\ SettingsOK
    /\ cursor \in Nat /\ offset \in Nat
    /\ RowsAreCurrent
    /\ SelectionOnPage

LEMMA ProtocolLemma ==
    ASSUME IInv, world \in 1 .. MaxWorld, [TuiNext]_tuiVars
    PROVE  IInv' /\ world' \in 1 .. MaxWorld
<1>1. [Next]_vars
  BY StepRefines DEF tuiVars
<1>2. IInv'
  BY <1>1, NextLemma
<1>3. world' = world \/ (world < MaxWorld /\ world' = world + 1)
  BY <1>1 DEF Next, WorldChanges, Commands, Messages, Keys, ListReturns, KillReturns, LoadedMsg,
     KilledMsg, KillFailedMsg, TickMsg, KeyReload, KeyAuto, KeyKill, ConfirmYes, ConfirmNo,
     KeyCopy, KeyQuit, Finished, vars
<1> QED
  BY <1>2, <1>3, BoundsAssumption

LEMMA SettingsLemma ==
    ASSUME SettingsOK, [TuiNext]_tuiVars
    PROVE  SettingsOK'
<1> USE DEF SettingsOK, settings
<1>1. ASSUME NEW h \in Heights, Resize(h) PROVE SettingsOK'
  BY <1>1 DEF Resize
<1>2. ASSUME NEW l \in loads, Loaded(l) PROVE SettingsOK'
  BY <1>2 DEF Loaded
<1>3. CASE Unseen \/ TableKey \/ (Finished /\ UNCHANGED table) \/ UNCHANGED tuiVars
  BY <1>3 DEF Unseen, TableKey, table, tuiVars
<1>4. CASE AskKill \/ AnswerYes \/ AnswerNo \/ StartSearch \/ LeaveSearch \/ ClickSearch
  BY <1>4 DEF AskKill, AnswerYes, AnswerNo, StartSearch, LeaveSearch, ClickSearch
<1>5. CASE CycleSort
  <2>1. PICK i \in 1 .. 6 : sortKey' = SortKeys[(i % 6) + 1]
    BY <1>5 DEF CycleSort
  <2>2. (i % 6) + 1 \in 1 .. 6
    OBVIOUS
  <2> QED
    BY <1>5, <2>1, <2>2 DEF CycleSort, Columns
<1>6. CASE ReverseSort \/ TogglePID \/ ToggleFold
  BY <1>6 DEF ReverseSort, TogglePID, ToggleFold
<1>7. CASE \/ \E family \in {"v4", "v6"} : ToggleFamily(family)
           \/ \E open \in BOOLEAN : SetFold(open)
           \/ \E q \in Queries : SetQuery(q)
  BY <1>7 DEF ToggleFamily, SetFold, SetQuery, Families
<1>8. ASSUME NEW i \in 1 .. 6, ClickHeader(SortKeys[i]) PROVE SettingsOK'
  BY <1>8 DEF ClickHeader, Columns
<1>9. CASE Move
  BY <1>9 DEF Move
<1>10. ASSUME NEW c \in 0 .. Len(rows) - 1, ClickRow(c) \/ ClickMark(c) PROVE SettingsOK'
  BY <1>10 DEF ClickRow, ClickMark
<1> QED
  BY <1>1, <1>2, <1>3, <1>4, <1>5, <1>6, <1>7, <1>8, <1>9, <1>10 DEF TuiNext, Settle, Pointing

(* Where the user does not point, a step leaves the table alone, or looks for the
   selection in new rows, or the window changes. *)
LEMMA KindsOfSteadyStep ==
    ASSUME Steady
    PROVE  \/ UNCHANGED <<rows, cursor, offset, height>>
           \/ ApplyFilter /\ UNCHANGED height
           \/ \E h \in Heights : Resize(h)
<1>1. ASSUME NEW l \in loads, Loaded(l)
      PROVE  UNCHANGED <<rows, cursor, offset, height>> \/ (ApplyFilter /\ UNCHANGED height)
  BY <1>1 DEF Loaded, page
<1>2. CASE Settle
  BY <1>2 DEF Settle, CycleSort, ReverseSort, TogglePID, ToggleFold, Folded, ToggleFamily, SetFold,
              SetQuery, ClickHeader
<1> QED
  BY <1>1, <1>2 DEF Steady

(* What a step does to the table: nothing, or it looks for the selection in new
   rows, or, where the user points or the window changes, puts the cursor
   somewhere. *)
LEMMA KindsOfStep ==
    ASSUME [TuiNext]_tuiVars
    PROVE  \/ UNCHANGED <<rows, cursor, offset, height>>
           \/ ApplyFilter /\ UNCHANGED height
           \/ \E h \in Heights : Resize(h)
           \/ Pointing
<1>1. CASE Steady
  BY <1>1, KindsOfSteadyStep
<1>2. CASE Unseen \/ TableKey \/ (Finished /\ UNCHANGED table) \/ UNCHANGED tuiVars
  BY <1>2 DEF Unseen, TableKey, table, tuiVars, page
<1>3. CASE AskKill \/ AnswerYes \/ AnswerNo \/ StartSearch \/ LeaveSearch \/ ClickSearch
  BY <1>3 DEF AskKill, AnswerYes, AnswerNo, StartSearch, LeaveSearch, ClickSearch, page
<1> QED
  BY <1>1, <1>2, <1>3 DEF TuiNext, Steady

LEMMA TuiStepLemma == TuiIInv /\ [TuiNext]_tuiVars => TuiIInv' /\ IsTable(rows) /\ IsTable(rows')
<1> SUFFICES ASSUME TuiIInv, [TuiNext]_tuiVars PROVE TuiIInv' /\ IsTable(rows) /\ IsTable(rows')
  OBVIOUS
<1> USE DEF TuiIInv
<1>1. IInv' /\ world' \in 1 .. MaxWorld
  BY ProtocolLemma
<1>2. SettingsOK'
  BY SettingsLemma
<1>3. RowsAreCurrent'
  BY StepKeepsRows
<1>4. shown \in 0 .. MaxWorld /\ shown' \in 0 .. MaxWorld
  BY <1>1, BoundsAssumption DEF IInv, TypeOK, PastOnly
<1>5. IsTable(rows)
  BY <1>4, RowsForLemma DEF RowsAreCurrent, SettingsOK
<1>6. IsTable(rows')
  <2>1. sortKey' \in Columns /\ sortDesc' \in BOOLEAN
    BY <1>2 DEF SettingsOK
  <2>2. rows' = RowsFor(shown', query', onlyPID', ipFamily', sortKey', sortDesc', expanded')
    BY <1>3 DEF RowsAreCurrent
  <2>3. IsTable(RowsFor(shown', query', onlyPID', ipFamily', sortKey', sortDesc', expanded'))
    BY <1>4, <2>1, RowsForLemma
  <2> QED
    BY <2>2, <2>3
<1>7. height \in Nat /\ height' \in Nat
  BY <1>2, QueriesAssumption DEF SettingsOK
<1>8. cursor' \in Nat /\ offset' \in Nat /\ SelectionOnPage'
  <2>1. CASE UNCHANGED <<rows, cursor, offset, height>>
    BY <2>1 DEF SelectionOnPage, Has
  <2>2. CASE ApplyFilter
    <3>1. Reselect(rows, cursor, rows') \in Int
      BY <1>6, ReselectType
    <3> QED
      BY <1>6, <1>7, <2>2, <3>1, MoveLemma DEF ApplyFilter
  <2>3. CASE \E h \in Heights : Resize(h)
    BY <1>6, <1>7, <2>3, MoveLemma DEF Resize
  <2>4. CASE Pointing
    <3>1. Len(rows) \in Nat /\ PageSize(height) \in Nat
      BY <1>5, <1>7, PageLemma DEF IsTable
    <3>2. CASE Move
      <4>1. PICK c \in Targets : MoveTo(c)
        BY <3>2 DEF Move
      <4>2. c \in Int
        BY <3>1 DEF Targets
      <4> QED
        BY <1>6, <1>7, <4>1, <4>2, MoveLemma
    <3>3. ASSUME NEW c \in 0 .. Len(rows) - 1, ClickRow(c)
          PROVE  cursor' \in Nat /\ offset' \in Nat /\ SelectionOnPage'
      BY <1>6, <1>7, <3>1, <3>3, MoveLemma DEF ClickRow
    <3>4. ASSUME NEW c \in 0 .. Len(rows) - 1, ClickMark(c)
          PROVE  cursor' \in Nat /\ offset' \in Nat /\ SelectionOnPage'
      <4>1. Reselect(rows, c, rows') \in Int
        BY <1>6, <3>1, ReselectType
      <4> QED
        BY <1>6, <1>7, <3>4, <4>1, MoveLemma DEF ClickMark
    <3> QED
      BY <2>4, <3>2, <3>3, <3>4 DEF Pointing
  <2> QED
    BY <2>1, <2>2, <2>3, <2>4, KindsOfStep
<1> QED
  BY <1>1, <1>2, <1>3, <1>5, <1>6, <1>8

LEMMA TuiInitLemma == TuiInit => TuiIInv
<1> SUFFICES ASSUME TuiInit PROVE TuiIInv
  OBVIOUS
<1>1. IInv
  BY InitLemma DEF TuiInit
<1>2. world \in 1 .. MaxWorld
  BY BoundsAssumption DEF TuiInit, Init
<1>3. SettingsOK
  <2>1. "port" = SortKeys[1] /\ 1 \in 1 .. 6
    BY DEF SortKeys
  <2> QED
    BY <2>1 DEF TuiInit, SettingsOK, Families, Columns
<1>4. RowsAreCurrent
  BY DEF TuiInit, Init, RowsAreCurrent, RowsFor
<1> QED
  BY <1>1, <1>2, <1>3, <1>4 DEF TuiIInv, TuiInit, SelectionOnPage

THEOREM TuiInvariance == TuiSpec => []TuiIInv
BY TuiInitLemma, TuiStepLemma, PTL DEF TuiSpec

(* Every variable of the TUI keeps its type: the cursor and the page never go
   below the first row, and the column sorted by is one of the table's. *)
THEOREM TuiTypeCorrect == TuiSpec => []TuiTypeOK
<1>1. TuiIInv => TuiTypeOK
  BY DEF TuiIInv, SettingsOK, TuiTypeOK, IInv, Columns
<1> QED
  BY <1>1, TuiInvariance, PTL

(* The selected row is on the page, whatever shrank the table, folded it,
   filtered it or changed the window (tui.go:614-643). *)
THEOREM SelectionIsSeen == TuiSpec => []SelectionOnPage
<1>1. TuiIInv => SelectionOnPage
  BY DEF TuiIInv
<1> QED
  BY <1>1, TuiInvariance, PTL

(* The selection in new rows. *)
LEMMA ReselectedStays ==
    ASSUME NEW old, NEW new, IsTable(old), IsTable(new), NEW c \in Nat, Has(old, c),
           At(old, c).grouped,
           NEW p \in 0 .. Len(new) - 1, At(new, p).group = At(old, c).group
    PROVE  LET to == Reselect(old, c, new)
           IN /\ to \in 0 .. Len(new) - 1
              /\ \/ At(new, to).group = At(old, c).group
                 \/ SameAddress(At(old, c), At(new, to))
<1> DEFINE r == At(old, c)
           to == Reselect(old, c, new)
           keep == Keep(r)
           g == <<"group", r.group>>
           k0 == <<"key", Key(r.e)>>
<1>0. Len(new) \in Nat /\ Len(old) \in Nat
  BY DEF IsTable
<1>1. /\ r.e \in Entry /\ r.grouped = IsGroupable(r.group)
      /\ r.e.pid > 0 => r.group = ProcessGroup(r.e)
  <2>1. c + 1 \in 1 .. Len(old) /\ r = old[c + 1]
    BY <1>0 DEF Has, At
  <2> QED
    BY <2>1 DEF IsTable
<1>2. keep = <<Id(r), k0, g>>
  BY DEF Keep
<1>3. /\ DOMAIN keep = 1 .. 3
      /\ keep[1] = Id(r) /\ keep[2] = k0 /\ keep[3] = g
      /\ Id(r) = IF Stands(r) THEN g ELSE k0
  BY <1>2 DEF Id, Stands
(* Some row stands for the group. *)
<1>4. PICK q \in 0 .. Len(new) - 1 : Id(At(new, q)) = g
  <2>1. p + 1 \in 1 .. Len(new) /\ At(new, p) = new[p + 1]
    BY <1>0 DEF At
  <2>2. PICK l \in 1 .. Len(new) : new[l].group = new[p + 1].group /\ Stands(new[l])
    BY <2>1 DEF IsTable
  <2>3. new[l].grouped = IsGroupable(new[l].group) /\ new[l].group = r.group
    BY <2>1, <2>2 DEF IsTable
  <2>4. Id(new[l]) = g
    BY <1>1, <2>2, <2>3 DEF Id, Stands
  <2>5. l - 1 \in 0 .. Len(new) - 1 /\ At(new, l - 1) = new[l]
    BY <1>0 DEF At
  <2> QED
    BY <2>4, <2>5
<1>5. Sought(At(new, q), keep[3])
  BY <1>3, <1>4 DEF Sought
<1> HIDE DEF keep, to, r
<1>6. /\ to \in 0 .. Len(new) - 1
      /\ \E k \in 1 .. 3 :
            /\ Sought(At(new, to), keep[k])
            /\ \A l \in 1 .. k - 1 : ~Sought(At(new, q), keep[l])
  <2>1. \/ /\ to = c
           /\ \A k \in DOMAIN keep : \A x \in 0 .. Len(new) - 1 : ~Sought(At(new, x), keep[k])
        \/ /\ to \in 0 .. Len(new) - 1
           /\ \E k \in DOMAIN keep :
                 /\ Sought(At(new, to), keep[k])
                 /\ \A l \in 1 .. k - 1 :
                       \A x \in 0 .. Len(new) - 1 : ~Sought(At(new, x), keep[l])
    <3>1. c \in Int /\ keep = Keep(At(old, c)) /\ to = Reselect(old, c, new)
      BY DEF keep, to, r
    <3> QED
      BY <3>1, ReselectLemma
  <2> QED
    BY <1>3, <1>5, <2>1
<1>7. PICK s : s = At(new, to)
  OBVIOUS
<1>8. s.e.pid > 0 => s.group = ProcessGroup(s.e)
  <2>1. to + 1 \in 1 .. Len(new) /\ s = new[to + 1]
    BY <1>0, <1>6, <1>7 DEF At
  <2> QED
    BY <2>1 DEF IsTable
<1>9. Sought(s, g) => s.group = r.group
  BY DEF Sought, Id
<1>10. Sought(s, k0) => s.group = r.group \/ SameAddress(r, s)
  <2>1. Sought(s, k0) => Key(s.e) = Key(r.e)
    BY DEF Sought, Id
  <2>2. Key(s.e) = Key(r.e) => /\ s.e.pid = r.e.pid /\ s.e.proto = r.e.proto
                               /\ s.e.port = r.e.port
    BY DEF Key
  <2>3. r.e.pid \in Nat
    BY <1>1 DEF Entry
  <2>4. CASE r.e.pid = 0
    BY <2>1, <2>4 DEF SameAddress
  <2>5. CASE r.e.pid > 0
    BY <1>1, <1>8, <2>1, <2>2, <2>5 DEF ProcessGroup
  <2> QED
    BY <2>3, <2>4, <2>5
<1>11. s.group = r.group \/ SameAddress(r, s)
  BY <1>3, <1>6, <1>7, <1>9, <1>10
<1> QED
  BY <1>6, <1>7, <1>11 DEF to, r

(* After a listing, a filter, a change of order, of folds or of the window the row
   selected is of the same group, if that has a row; only what is a container's
   may be found again under its address in another group (tui.go:550-582). *)
THEOREM SelectionIsKept == TuiSpec => SelectionStays
<1> DEFINE Stays == Strays => ~Steady
<1>1. TuiIInv /\ [TuiNext]_tuiVars => Stays
  <2> SUFFICES ASSUME TuiIInv, [TuiNext]_tuiVars, Steady, Selected, Row.grouped,
                      NEW c \in 0 .. Len(rows') - 1, At(rows', c).group = Row.group
               PROVE  \/ At(rows', cursor').group = Row.group
                      \/ SameAddress(Row, At(rows', cursor'))
    BY DEF Strays
  <2>1. TuiIInv' /\ IsTable(rows) /\ IsTable(rows')
    BY TuiStepLemma
  <2>2. /\ cursor \in Nat /\ offset \in Nat /\ height' \in Nat
        /\ Has(rows, cursor) /\ Row = At(rows, cursor) /\ cursor \in 0 .. Len(rows) - 1
    <3>1. height' \in {0} \cup Heights
      BY <2>1 DEF TuiIInv, SettingsOK
    <3>2. Len(rows) \in Nat
      BY <2>1 DEF IsTable
    <3> QED
      BY <3>1, <3>2, QueriesAssumption DEF TuiIInv, Selected, Has, Row
  <2>3. CASE UNCHANGED <<rows, cursor, offset, height>>
    BY <2>2, <2>3
  <2>4. CASE \E h \in Heights : Resize(h)
    <3>1. rows' = rows /\ MoveTo(cursor)
      BY <2>4 DEF Resize
    <3>2. cursor' = cursor
      BY <2>1, <2>2, <3>1, MoveLemma
    <3> QED
      BY <2>2, <3>1, <3>2
  <2>5. CASE ApplyFilter
    <3> DEFINE to == Reselect(rows, cursor, rows')
    <3>1. /\ to \in 0 .. Len(rows') - 1
          /\ At(rows', to).group = Row.group \/ SameAddress(Row, At(rows', to))
      BY <2>1, <2>2, ReselectedStays
    <3>2. MoveTo(to)
      BY <2>5 DEF ApplyFilter
    <3> HIDE DEF to
    <3>3. to \in Int
      BY <2>1, <3>1 DEF IsTable
    <3>4. cursor' = to
      BY <2>1, <2>2, <3>1, <3>2, <3>3, MoveLemma
    <3> QED
      BY <3>1, <3>4
  <2> QED
    BY <2>3, <2>4, <2>5, KindsOfSteadyStep
<1>2. TuiIInv /\ [TuiNext]_tuiVars => [Stays]_tuiVars
  BY <1>1
<1> QED
  BY <1>2, TuiInvariance, TuiInitLemma, PTL DEF TuiSpec, SelectionStays
=============================================================================
