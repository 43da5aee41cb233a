--------------------------------- MODULE Tui ---------------------------------
(***************************************************************************)
(* The TUI (internal/tui/tui.go): Refresh, whose messages and keys decide  *)
(* which listing the table shows, together with the table itself, its rows *)
(* (module Rows), its selection and page, its filters and its folds. Every *)
(* handler of Update is one action; those Refresh knows are its actions    *)
(* with the table added.                                                   *)
(***************************************************************************)
EXTENDS Refresh, Rows

CONSTANTS
    Listings,   \* Listings[v]: the sockets of the machine at version v
    Queries,    \* the queries the user may type
    Heights,    \* the heights of the terminal
    UserKeys    \* bound: the keys and clicks this user makes use of

ASSUME ListingsAssumption ==
    Listings \in Seq(Seq(Entry)) /\ MaxWorld = Len(Listings)
ASSUME QueriesAssumption == Queries \subseteq Nat /\ Heights \subseteq Nat

VARIABLES
    rows,       \* m.rows
    cursor,     \* m.cursor, from 0
    offset,     \* m.offset, the row at the top of the page
    height,     \* m.height
    filtering,  \* m.filtering
    query,      \* m.filter.Value()
    onlyPID,    \* m.onlyPID
    ipFamily,   \* m.ipFamily
    sortKey,    \* m.sortKey
    sortDesc,   \* m.sortDesc
    expanded,   \* m.expanded: the groups mapped to true
    asked       \* history: the ident x asked about, while the question is open

settings == <<query, onlyPID, ipFamily, sortKey, sortDesc, expanded>>
page == <<rows, cursor, offset>>
table == <<page, height, filtering, settings, asked>>
tuiVars == <<vars, table>>

NoIdent == <<0, 0>>
Families == {"all", "v4", "v6"}

TuiTypeOK ==
    /\ TypeOK
    /\ cursor \in Nat /\ offset \in Nat /\ height \in {0} \cup Heights
    /\ filtering \in BOOLEAN /\ query \in Queries
    /\ onlyPID \in BOOLEAN /\ ipFamily \in Families
    /\ sortKey \in {SortKeys[i] : i \in 1 .. 6} /\ sortDesc \in BOOLEAN

(* newModel; a query given on the command line starts the search. *)
TuiInit ==
    /\ Init
    /\ rows = <<>> /\ cursor = 0 /\ offset = 0 /\ height = 0
    /\ query \in Queries
    /\ filtering = (query # 0)
    /\ onlyPID \in BOOLEAN
    /\ ipFamily = "all" /\ sortKey = "port" /\ sortDesc = FALSE /\ expanded = {}
    /\ asked = NoIdent

(* The rows of a listing under the settings; before the first there are none. *)
RowsFor(version, q, pid, family, key, desc, exp) ==
    IF version = 0 THEN <<>>
    ELSE FlattenGroups(Filtered(Listings[version], pid, family, q), key, desc, exp)

(* selected and selectedRow. *)
Selected == Has(rows, cursor)
Row == At(rows, cursor)
IdentOf(e) == <<e.pid, e.start>>
Killable == Selected /\ Row.e.pid > 0 /\ Row.e.start # 0

(* clamp, at the end of every handler that moves the cursor or changes the
   rows, with the rows and the height the handler leaves. *)
MoveTo(c) ==
    LET n == Len(rows')
    IN /\ cursor' = ClampCursor(c, n)
       /\ offset' = ClampOffset(offset, cursor', n, PageSize(height'))

(* applyFilter, with the settings the handler leaves. *)
ApplyFilter ==
    /\ rows' = RowsFor(shown', query', onlyPID', ipFamily', sortKey', sortDesc', expanded')
    /\ MoveTo(Reselect(rows, cursor, rows'))

------------------------------------------------------------------------------
(* Messages. *)

(* WindowSizeMsg *)
Resize(h) ==
    /\ running
    /\ height' = h
    /\ UNCHANGED <<vars, rows, filtering, settings, asked>>
    /\ MoveTo(cursor)

(* A listing is taken with its rows, question open or not. *)
TakenUnasked(l) == Current(l) /\ l.got # Failed /\ ~confirm  \* mutant: rows wait for the answer
TakenWithRows(l) == Current(l) /\ l.got # Failed

Loaded(l) ==
    /\ LoadedMsg(l)
    /\ UNCHANGED <<height, filtering, settings, asked>>
    /\ IF TakenWithRows(l) THEN ApplyFilter ELSE UNCHANGED page

(* The messages, commands and changes of the machine the table does not see. *)
Unseen ==
    /\ \/ WorldChanges \/ Commands \/ KilledMsg \/ KillFailedMsg
       \/ \E g \in TickGens : TickMsg(g)
    /\ UNCHANGED table

------------------------------------------------------------------------------
(* Keys of the table: updateTable. *)
Pressed(k) == running /\ ~confirm /\ ~filtering /\ k \in UserKeys

(* r, a, q, and y for the endpoint of the selected row. *)
TableKey ==
    /\ \/ Pressed("r") /\ KeyReload
       \/ Pressed("a") /\ KeyAuto
       \/ Pressed("q") /\ KeyQuit
       \/ Pressed("y") /\ Selected /\ KeyCopy
    /\ UNCHANGED table

(* x *)
AskKill ==
    /\ Pressed("x") /\ Killable
    /\ KeyKill
    /\ asked' = IdentOf(Row.e)
    /\ UNCHANGED <<page, height, filtering, settings>>

StartSearch ==
    /\ Pressed("/")
    /\ filtering' = TRUE
    /\ UNCHANGED <<vars, page, height, settings, asked>>

(* s, S: a new column starts ascending. *)
CycleSort ==
    /\ Pressed("s")
    /\ \E i \in 1 .. 6 : sortKey = SortKeys[i] /\ sortKey' = SortKeys[(i % 6) + 1]
    /\ sortDesc' = FALSE
    /\ UNCHANGED <<vars, height, filtering, query, onlyPID, ipFamily, expanded, asked>>
    /\ ApplyFilter

ReverseSort ==
    /\ Pressed("S")
    /\ sortDesc' = ~sortDesc
    /\ UNCHANGED <<vars, height, filtering, query, onlyPID, ipFamily, sortKey, expanded, asked>>
    /\ ApplyFilter

(* p *)
TogglePID ==
    /\ Pressed("p")
    /\ onlyPID' = ~onlyPID
    /\ UNCHANGED <<vars, height, filtering, query, ipFamily, sortKey, sortDesc, expanded, asked>>
    /\ ApplyFilter

(* 4, 6 *)
ToggleFamily(family) ==
    /\ Pressed("4")
    /\ ipFamily' = IF ipFamily = family THEN "all" ELSE family
    /\ UNCHANGED <<vars, height, filtering, query, onlyPID, sortKey, sortDesc, expanded, asked>>
    /\ ApplyFilter

(* toggleFold: enter, space, and a click on the mark. *)
Folds(r) == r.grouped /\ r.fold # "none"
Flipped(r) == IF r.group \in expanded THEN expanded \ {r.group} ELSE expanded \cup {r.group}

FoldedPlainly ==                                     \* mutant: no applyFilter after a fold
    /\ UNCHANGED <<rows, cursor, offset>>
Folded == ApplyFilter

ToggleFold ==
    /\ Pressed("enter") /\ Selected /\ Folds(Row)
    /\ expanded' = Flipped(Row)
    /\ UNCHANGED <<vars, height, filtering, query, onlyPID, ipFamily, sortKey, sortDesc, asked>>
    /\ Folded

(* setFold: l and h. *)
SetFold(open) ==
    /\ Pressed("l") /\ Selected /\ Folds(Row)
    /\ expanded' = IF open THEN expanded \cup {Row.group} ELSE expanded \ {Row.group}
    /\ UNCHANGED <<vars, height, filtering, query, onlyPID, ipFamily, sortKey, sortDesc, asked>>
    /\ Folded

(* Up, down, a page up or down, home and end; the search moves the cursor with
   the same code, and the wheel as well. *)
Targets ==
    {cursor - 1, cursor + 1, cursor - PageSize(height), cursor + PageSize(height)}
    \cup IF filtering THEN {} ELSE {0, Len(rows) - 1}

Move ==
    /\ running /\ ~confirm /\ "j" \in UserKeys
    /\ UNCHANGED <<vars, rows, height, filtering, settings, asked>>
    /\ \E c \in Targets : MoveTo(c)

------------------------------------------------------------------------------
(* Keys of the search line: updateFilter. *)
Typing == running /\ ~confirm /\ filtering

LeaveSearch ==
    /\ Typing
    /\ filtering' = FALSE
    /\ UNCHANGED <<vars, page, height, settings, asked>>

(* Text, or esc, which clears it and leaves; esc in the table clears as well. *)
SetQuery(q) ==
    /\ running /\ ~confirm
    /\ \/ Typing /\ UNCHANGED filtering
       \/ Typing /\ q = 0 /\ filtering' = FALSE
       \/ ~filtering /\ query # 0 /\ q = 0 /\ UNCHANGED filtering
    /\ query' = q
    /\ UNCHANGED <<vars, height, onlyPID, ipFamily, sortKey, sortDesc, expanded, asked>>
    /\ ApplyFilter

------------------------------------------------------------------------------
(* Keys of the question: updateConfirm. What is killed is what is selected now. *)
AnswerYes ==
    /\ ConfirmYes
    /\ kills' # kills <=> Killable
    /\ asked' = NoIdent
    /\ UNCHANGED <<page, height, filtering, settings>>

AnswerNo ==
    /\ ConfirmNo
    /\ asked' = NoIdent
    /\ UNCHANGED <<page, height, filtering, settings>>

------------------------------------------------------------------------------
(* The mouse: updateMouse, deaf while the question is open. *)
Clicked(k) == running /\ ~confirm /\ k \in UserKeys

ClickSearch ==
    /\ Clicked("click")
    /\ filtering' = TRUE
    /\ UNCHANGED <<vars, page, height, settings, asked>>

ClickHeader(key) ==
    /\ Clicked("click")
    /\ sortKey' = key
    /\ sortDesc' = IF key = sortKey THEN ~sortDesc ELSE FALSE
    /\ UNCHANGED <<vars, height, filtering, query, onlyPID, ipFamily, expanded, asked>>
    /\ ApplyFilter

(* rowIndexAt *)
OnPage(c) == Has(rows, c) /\ offset <= c /\ c < offset + PageSize(height)

ClickRow(c) ==
    /\ Clicked("click") /\ OnPage(c)
    /\ filtering' = FALSE
    /\ UNCHANGED <<vars, rows, height, settings, asked>>
    /\ MoveTo(c)

(* The row clicked on is selected first, and then folded. *)
ClickMark(c) ==
    /\ Clicked("click") /\ OnPage(c) /\ Folds(At(rows, c))
    /\ filtering' = FALSE
    /\ expanded' = Flipped(At(rows, c))
    /\ UNCHANGED <<vars, height, query, onlyPID, ipFamily, sortKey, sortDesc, asked>>
    /\ rows' = RowsFor(shown, query, onlyPID, ipFamily, sortKey, sortDesc, expanded')
    /\ MoveTo(Reselect(rows, c, rows'))

------------------------------------------------------------------------------
Settle ==
    \/ CycleSort \/ ReverseSort \/ TogglePID \/ ToggleFold
    \/ \E family \in {"v4", "v6"} : ToggleFamily(family)
    \/ \E open \in BOOLEAN : SetFold(open)
    \/ \E q \in Queries : SetQuery(q)
    \/ \E i \in 1 .. 6 : ClickHeader(SortKeys[i])

Pointing ==
    \/ Move
    \/ \E c \in 0 .. Len(rows) - 1 : ClickRow(c) \/ ClickMark(c)

TuiNext ==
    \/ \E h \in Heights : Resize(h)
    \/ \E l \in loads : Loaded(l)
    \/ Unseen
    \/ TableKey \/ AskKill \/ AnswerYes \/ AnswerNo
    \/ StartSearch \/ LeaveSearch \/ ClickSearch
    \/ Settle \/ Pointing
    \/ Finished /\ UNCHANGED table

TuiSpec == TuiInit /\ [][TuiNext]_tuiVars

------------------------------------------------------------------------------
(* Properties. *)

(* The protocol of Refresh is what this program runs. *)
RefreshSpec == Spec

(* Whatever handler ran last, the rows are those of the listing under the
   settings on display: no handler leaves the table behind (tui.go:549-590). *)
RowsAreCurrent ==
    rows = RowsFor(shown, query, onlyPID, ipFamily, sortKey, sortDesc, expanded)

(* The selected row is on the page, after every reload that shrinks the table,
   every fold, filter and resize (tui.go:614-643). *)
SelectionOnPage ==
    IF rows = <<>> THEN cursor = 0 /\ offset = 0
    ELSE Has(rows, cursor) /\ offset <= cursor /\ cursor < offset + PageSize(height)

(* A step that only settles the table, and one after which the row selected is of
   another group though its own still has a row. A container's row, known by its
   address and no pid, may be found again by its address. *)
Steady == Settle \/ (\E h \in Heights : Resize(h)) \/ (\E l \in loads : Loaded(l))
SameAddress(r, s) == r.e.pid = 0 /\ Key(r.e) = Key(s.e)
Strays ==
    /\ Selected /\ Row.grouped
    /\ \E c \in 0 .. Len(rows') - 1 : At(rows', c).group = Row.group
    /\ LET row == At(rows', cursor')
       IN row.group # Row.group /\ ~SameAddress(Row, row)

(* A listing, a filter, a fold, a change of order or of the window leaves the
   selection in its group as long as the group has a row. A group is known by the
   pid, not the start token, so a reused pid on the same port keeps it
   (tui.go:550-582). *)
SelectionStays == [][Strays => ~Steady]_tuiVars

(* "After `x`, press `y` to confirm" (README.md:102): what y kills is what x
   asked about. *)
KilledIsAsked == [][AnswerYes /\ Killable => IdentOf(Row.e) = asked]_tuiVars
=============================================================================
