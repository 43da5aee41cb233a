---------------------------- MODULE ListElsewhere ----------------------------
(***************************************************************************)
(* The listing on Windows (internal/listen/listen_windows.go) and on macOS *)
(* (listen_darwin.go, sysctl_darwin.go, helper_darwin.c). Windows reads    *)
(* four tables of sockets and looks each owner up once; macOS looks into   *)
(* every process it may, then adds the sockets of the kernel's two lists   *)
(* that no row is about. Both ask a list's size before they read it, and   *)
(* the list may grow in between.                                           *)
(***************************************************************************)
EXTENDS SocketTable, SequencesExt

CONSTANTS
    Platforms,
    Attempts,       \* tableFetchAttempts, and the 5 of fetch_pcblist
    Slack,          \* sockets that fit in the room fetch_pcblist adds
    PidSlack        \* pids that fit in the room listPIDs adds

ASSUME PlatformsAssumption == Platforms \subseteq {"darwin", "windows"}
ASSUME TablesAssumption == TableOf \in [Socks -> {"tcp", "tcp6", "udp", "udp6"}]
ASSUME AttemptsAssumption == Attempts \in Nat \ {0} /\ Slack \in Nat /\ PidSlack \in Nat

VARIABLES
    platform,   \* the one of this run
    size,       \* what the last size query said
    tries,      \* reads of the current list that found it grown
    loaded,     \* lists read or passed over so far
    missed,     \* lists passed over, and why
    found,      \* sockets read: with its owner each (Windows), or alone (macOS)
    cache,      \* cache[pid]: what lookupProc knows, or Unknown
    handle,     \* the process object held open, or 0
    pids, fds,  \* pids, and fds of the least of them, still to look at
    hit, meta,  \* the first socket of this pid and whose fd it was; whose name and
                \* start token were read for it
    rows,       \* rows so far, as in ListLinux, with the process whose directory was read
    before      \* history: sockets opened before the listing began

tableVars == <<size, tries, loaded, missed, found>>
windowsVars == <<cache, handle>>
darwinVars == <<pids, fds, hit, meta>>
scanVars == <<tableVars, windowsVars, darwinVars, rows>>
vars == <<procVars, sockVars, foreign, pc, history, platform, before, scanVars>>

Info == [name : {0} \cup Incs, start : {0} \cup Incs, cwd : {0} \cup Incs]
NoInfo == [name |-> 0, start |-> 0, cwd |-> 0]
Unknown == [name |-> 0, start |-> 0, cwd |-> -1]

TypeOK ==
    /\ SocketTypeOK
    /\ platform \in Platforms
    /\ pc \in {"idle", "pids", "pid", "link", "name", "start", "ask", "fetch", "row",
               "peb", "done", "failed"}
    /\ size \in Nat /\ tries \in 0 .. Attempts - 1 /\ loaded \in 0 .. 4
    /\ missed \subseteq (1 .. 4) \X {"error", "grown"}
    /\ \A k \in DOMAIN found : found[k].sock \in opened
    /\ cache \in [Pids -> Info \cup {Unknown}]
    /\ handle \in {0} \cup Incs /\ (handle # 0 <=> pc = "peb")
    /\ pids \subseteq Pids /\ fds \subseteq Fds
    /\ \A k \in DOMAIN rows : rows[k].sock \in Socks /\ rows[k].pid \in Pids \cup {0}
                              /\ rows[k].info \in Info /\ rows[k].of \in {0} \cup Incs

Init ==
    /\ SocketInit
    /\ platform \in Platforms
    /\ size = 0 /\ tries = 0 /\ loaded = 0 /\ missed = {} /\ found = <<>>
    /\ cache = [pid \in Pids |-> Unknown] /\ handle = 0
    /\ pids = {} /\ fds = {} /\ hit = <<>> /\ meta = <<>>
    /\ rows = <<>> /\ before = {}

(* A process object that is held open keeps its pid. *)
PinnedNone == {}                                    \* mutant: closed before the second look
Pinned == {handle} \ {0}
Machine == (Processes(Pinned) \/ Sockets({})) /\ UNCHANGED <<platform, before, scanVars>>

------------------------------------------------------------------------------
Listing == UNCHANGED <<procVars, sockVars, foreign, platform>>
Quietly == Listing /\ UNCHANGED <<history, before>>
Goto(step) == pc' = step

(* listPlatform is called. *)
Begin ==
    /\ pc = "idle" /\ Goto(IF platform = "windows" THEN "ask" ELSE "pids")
    /\ size' = IF platform = "windows" THEN 0
               ELSE Cardinality({i \in Incs : There(i)})      \* listPIDs: how many
    /\ before' = opened
    /\ StartWitness
    /\ Listing /\ UNCHANGED <<tries, loaded, missed, found, windowsVars, darwinVars, rows>>

------------------------------------------------------------------------------
(* The kernel's lists: getExtendedTable, lsoff_list_sockets and fetch_pcblist. *)
Tables == IF platform = "windows" THEN <<{"tcp"}, {"tcp6"}, {"udp"}, {"udp6"}>>
          ELSE <<{"tcp", "tcp6"}, {"udp", "udp6"}>>
(* What the rows of a list would yield; walk_pcblist skips what does not listen. *)
Content(k) == {s \in Socks : Open(s) /\ TableOf[s] \in Tables[k]}
Room == IF platform = "windows" THEN size ELSE size + Slack
Fits == Cardinality(Content(loaded + 1)) <= Room
Reading(step) == pc = step /\ loaded < Len(Tables)

(* The next list; what was known of this one's size is forgotten. *)
NextList(step) == Goto(step) /\ loaded' = loaded + 1 /\ tries' = 0 /\ size' = 0

AskSize ==
    /\ Reading("ask") /\ Goto("fetch")
    /\ size' = Cardinality(Content(loaded + 1))
    /\ Quietly /\ UNCHANGED <<tries, loaded, missed, found, windowsVars, darwinVars, rows>>

NothingThere ==
    /\ Reading("ask") /\ Content(loaded + 1) = {} /\ NextList("ask")
    /\ Quietly /\ UNCHANGED <<missed, found, windowsVars, darwinVars, rows>>

(* A list that cannot be read fails the listing on Windows, and is passed over
   on macOS. *)
Miss(why) ==
    /\ missed' = missed \cup {<<loaded + 1, why>>}
    /\ IF platform = "windows"
       THEN Goto("failed") /\ UNCHANGED <<size, tries, loaded>> ELSE NextList("ask")
    /\ Quietly /\ UNCHANGED <<found, windowsVars, darwinVars, rows>>

ReadFails == (Reading("ask") \/ Reading("fetch")) /\ Miss("error")

(* The rows of a list, in the kernel's order, with the owner that a table names. *)
OwnerOf(s) == Least({i \in Incs : \E n \in Fds : fdt[i][n] = s})
Read(S) == [k \in 1 .. Cardinality(S) |->
               [sock |-> SetToSeq(S)[k], of |-> OwnerOf(SetToSeq(S)[k])]]

FetchWhatFits ==                                    \* mutant: too small is no error
    /\ Reading("fetch")
    /\ \E S \in SUBSET Content(loaded + 1) :
          /\ Cardinality(S) <= Room /\ (Fits => S = Content(loaded + 1))
          /\ found' = found \o Read(S)
    /\ NextList(IF platform = "windows" THEN "row" ELSE "ask")
    /\ Quietly /\ UNCHANGED <<missed, windowsVars, darwinVars, rows>>
Fetch ==
    /\ Reading("fetch") /\ Fits
    /\ found' = found \o Read(Content(loaded + 1))
    /\ NextList(IF platform = "windows" THEN "row" ELSE "ask")
    /\ Quietly /\ UNCHANGED <<missed, windowsVars, darwinVars, rows>>

(* Too small: Windows says what would fit now, macOS takes its room for the size. *)
RetrySameSize ==                                    \* mutant: the new size is not used
    /\ Reading("fetch") /\ ~Fits /\ tries < Attempts - 1
    /\ tries' = tries + 1
    /\ Quietly /\ UNCHANGED <<pc, size, loaded, missed, found, windowsVars, darwinVars, rows>>
Retry ==
    /\ Reading("fetch") /\ ~Fits /\ tries < Attempts - 1
    /\ tries' = tries + 1
    /\ size' = IF platform = "windows" THEN Cardinality(Content(loaded + 1)) ELSE Room
    /\ Quietly /\ UNCHANGED <<pc, loaded, missed, found, windowsVars, darwinVars, rows>>

GiveUp == Reading("fetch") /\ ~Fits /\ tries = Attempts - 1 /\ Miss("grown")

------------------------------------------------------------------------------
(* Windows: makeEntry for each row of a table. *)
MakeEntry ==
    /\ pc = "row" /\ found # <<>>
    /\ LET f == Head(found)
           pid == pidOf[f.of]
       IN /\ cache[pid] # Unknown
          /\ rows' = Append(rows, [sock |-> f.sock, pid |-> pid, info |-> cache[pid], of |-> f.of])
    /\ found' = Tail(found)
    /\ Quietly /\ UNCHANGED <<pc, size, tries, loaded, missed, windowsVars, darwinVars>>

(* queryProcess: name and start token by handle. It may be denied, and the name
   of a process that has ended is not to be had. *)
Readable(pid) == {i \in Incs \ foreign : Holds(i, pid) /\ life[i] = "running"}
QueryProcess ==
    /\ pc = "row" /\ found # <<>>
    /\ LET pid == pidOf[Head(found).of]
       IN /\ cache[pid] = Unknown
          /\ \/ /\ Readable(pid) = {}
                /\ cache' = [cache EXCEPT ![pid] = NoInfo]
                /\ UNCHANGED <<pc, handle>>
             \/ \E h \in Readable(pid) : \E start \in {h, 0} :
                /\ cache' = [cache EXCEPT ![pid] = [NoInfo EXCEPT !.name = h, !.start = start]]
                /\ handle' = h /\ Goto("peb")
    /\ Quietly /\ UNCHANGED <<tableVars, darwinVars, rows>>

(* queryPebStrings: the directory, of a second handle opened by number, while
   the first is open. *)
QueryPebLeaks ==                                    \* mutant: h not closed
    /\ pc = "peb" /\ Goto("row")
    /\ LET pid == pidOf[Head(found).of]
       IN \E cwd \in Readable(pid) \cup {0} : cache' = [cache EXCEPT ![pid].cwd = cwd]
    /\ Quietly /\ UNCHANGED <<tableVars, handle, darwinVars, rows>>
QueryPeb ==
    /\ pc = "peb" /\ Goto("row")
    /\ LET pid == pidOf[Head(found).of]
       IN \E cwd \in Readable(pid) \cup {0} : cache' = [cache EXCEPT ![pid].cwd = cwd]
    /\ handle' = 0
    /\ Quietly /\ UNCHANGED <<tableVars, darwinVars, rows>>

TableDone ==
    /\ pc = "row" /\ found = <<>> /\ Goto("ask")
    /\ Quietly /\ UNCHANGED scanVars

AllTables ==
    /\ platform = "windows" /\ pc = "ask" /\ loaded = Len(Tables) /\ Goto("done")
    /\ Quietly /\ UNCHANGED scanVars

------------------------------------------------------------------------------
(* macOS: every process, and then the lists. *)

(* listPIDs: as many as fit, in the kernel's order. *)
ReadPids ==
    /\ pc = "pids" /\ Goto("pid")
    /\ LET there == {pid \in Pids : ~Free(pid)}
       IN \E S \in SUBSET there :
             /\ Cardinality(S) <= size + PidSlack
             /\ S = there \/ Cardinality(S) = size + PidSlack
             /\ pids' = S
    /\ size' = 0
    /\ Quietly /\ UNCHANGED <<tries, loaded, missed, found, windowsVars, fds, hit, meta, rows>>

PidsFail == pc = "pids" /\ Goto("failed") /\ Quietly /\ UNCHANGED scanVars

(* socketsForPID: its fds, unless it is gone or may not be looked into. *)
ReadFds ==
    /\ pc = "pid" /\ pids # {}
    /\ LET h == Holder(Least(pids))
       IN IF h \in foreign \cup {0}
          THEN pids' = pids \ {Least(pids)} /\ UNCHANGED <<pc, fds>>
          ELSE fds' = {n \in Fds : fdt[h][n] # 0} /\ Goto("link") /\ UNCHANGED pids
    /\ Quietly /\ UNCHANGED <<tableVars, windowsVars, hit, meta, rows>>

(* A row for an fd, unless there is one with its Key. *)
Key(r) == <<Endpoint[r.sock], r.pid>>
Keys == {Key(rows[k]) : k \in DOMAIN rows}
AddRow(s, of, m) ==
    LET r == [sock |-> s, pid |-> Least(pids), of |-> of,
              info |-> [name |-> m[1], start |-> m[2], cwd |-> m[1]]]
    IN rows' = IF Key(r) \in Keys THEN rows ELSE Append(rows, r)

(* proc_pidfdinfo: by number, so of whoever holds the pid now. *)
ReadSocket ==
    /\ pc = "link" /\ fds # {}
    /\ LET h == Holder(Least(pids))
           s == IF h \in foreign \cup {0} THEN 0 ELSE fdt[h][Least(fds)]
       IN /\ fds' = fds \ {Least(fds)}
          /\ \/ s = 0 /\ UNCHANGED <<pc, hit, rows>>
             \/ s # 0 /\ hit = <<>> /\ hit' = <<s, h>> /\ Goto("name") /\ UNCHANGED rows
             \/ s # 0 /\ hit # <<>> /\ AddRow(s, h, meta) /\ UNCHANGED <<pc, hit>>
    /\ Quietly /\ UNCHANGED <<tableVars, windowsVars, pids, meta>>

ReadName ==
    /\ pc = "name" /\ Goto("start")
    /\ meta' = <<Holder(Least(pids))>>
    /\ Quietly /\ UNCHANGED <<tableVars, windowsVars, pids, fds, hit, rows>>

ReadStart ==
    /\ pc = "start" /\ Goto("link")
    /\ meta' = Append(meta, Holder(Least(pids)))
    /\ AddRow(hit[1], hit[2], meta')
    /\ Quietly /\ UNCHANGED <<tableVars, windowsVars, pids, fds, hit>>

NextPid ==
    /\ pc = "link" /\ fds = {} /\ Goto("pid")
    /\ pids' = pids \ {Least(pids)} /\ hit' = <<>> /\ meta' = <<>>
    /\ Quietly /\ UNCHANGED <<tableVars, windowsVars, fds, rows>>

AllPids ==
    /\ pc = "pid" /\ pids = {} /\ Goto("ask")
    /\ Quietly /\ UNCHANGED scanVars

(* mergeUnowned: a row without a process for each endpoint that has no row; none
   if neither list was read. List puts them in order. *)
Owned(e) == \E k \in DOMAIN rows : Key(rows[k])[1] = e
Unowned == {k \in DOMAIN found : ~Owned(Endpoint[found[k].sock])}
FirstUnowned ==
    {k \in Unowned : \A l \in 1 .. k - 1 : Endpoint[found[l].sock] # Endpoint[found[k].sock]}
Nobodys(I) == [n \in 1 .. Cardinality(I) |->
                  [sock |-> found[SetToSeq(I)[n]].sock, pid |-> 0, info |-> NoInfo, of |-> 0]]
MergeAll ==                                         \* mutant: the added ones not noted
    /\ platform = "darwin" /\ pc = "ask" /\ loaded = Len(Tables) /\ Goto("done")
    /\ rows' = rows \o Nobodys(Unowned)
    /\ Quietly /\ UNCHANGED <<tableVars, windowsVars, darwinVars>>
MergeUnowned ==
    /\ platform = "darwin" /\ pc = "ask" /\ loaded = Len(Tables) /\ Goto("done")
    /\ rows' = rows \o Nobodys(FirstUnowned)
    /\ Quietly /\ UNCHANGED <<tableVars, windowsVars, darwinVars>>

(* sink_push has no room: what both lists said is lost. *)
WalkFails ==
    /\ platform = "darwin" /\ Reading("fetch") /\ Fits /\ Content(loaded + 1) # {}
    /\ found' = <<>> /\ loaded' = Len(Tables) /\ tries' = 0 /\ size' = 0
    /\ missed' = missed \cup ((1 .. Len(Tables)) \X {"error"})
    /\ Goto("ask")
    /\ Quietly /\ UNCHANGED <<windowsVars, darwinVars, rows>>

------------------------------------------------------------------------------
Finished == pc \in {"done", "failed"} /\ UNCHANGED vars

Lists == AskSize \/ NothingThere \/ ReadFails \/ Fetch \/ Retry \/ GiveUp
Windows == MakeEntry \/ QueryProcess \/ QueryPeb \/ TableDone \/ AllTables
Darwin ==
    \/ ReadPids \/ PidsFail \/ ReadFds \/ ReadSocket \/ ReadName \/ ReadStart \/ NextPid
    \/ AllPids \/ WalkFails \/ MergeUnowned

Next ==
    \/ Begin \/ Lists \/ Windows \/ Darwin
    \/ pc \notin {"done", "failed"} /\ Machine
    \/ Finished

Spec == Init /\ [][Next]_vars

------------------------------------------------------------------------------
(* Properties. *)

(* An endpoint that is bound all the time is listed by a listing that is done,
   whatever grew meanwhile, whoever owns it and whether or not its process was
   missed, unless the kernel's list with it was passed over
   (listen_windows.go:360-376, listen_darwin.go:20-25). *)
ThereIsListed ==
    pc = "done" => \A s \in up :
        \/ \E m \in missed : TableOf[s] \in Tables[m[1]]
        \/ \E k \in DOMAIN rows : Endpoint[rows[k].sock] = Endpoint[s]

(* On Windows no socket has two rows. On macOS no two rows have one Key, and an
   endpoint that a process was seen to have is not also nobody's
   (sysctl_darwin.go:62-65). *)
ListedOnce ==
    \A k, l \in DOMAIN rows : k # l =>
        IF platform = "windows" THEN rows[k].sock # rows[l].sock
        ELSE /\ Key(rows[k]) # Key(rows[l])
             /\ Endpoint[rows[k].sock] = Endpoint[rows[l].sock] => rows[k].pid # 0

(* All of a row is true of one process as long as its pid stays with it. On
   Windows its name, start token and directory are one process' in any case, as
   the first handle pins the pid while the second is opened (listen_windows.go:
   156-182), and every row of a pid says the same. *)
OneProcessToARow ==
    \A k \in DOMAIN rows :
        LET r == rows[k]
            read == {r.info.name, r.info.start, r.info.cwd} \ {0}
        IN /\ r.pid # 0 /\ {i \in present : pidOf[i] = r.pid} = {r.of} => read \subseteq {r.of}
           /\ platform = "windows" => Cardinality(read) <= 1
           /\ \A l \in DOMAIN rows : rows[l].pid = r.pid => rows[l].info = r.info

(* A list is given up as too large only after it grew at every attempt: at least
   as many sockets were opened during the listing (listen_windows.go:360-375,
   helper_darwin.c:79-103). *)
GaveUpOnGrowth ==
    \A m \in missed : m[2] = "grown" =>
        Cardinality(opened \ before) >= IF platform = "windows" THEN Attempts
                                        ELSE Attempts * Slack + 1
=============================================================================
