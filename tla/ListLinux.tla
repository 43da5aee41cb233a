------------------------------ MODULE ListLinux ------------------------------
(***************************************************************************)
(* The listing on Linux (internal/listen/listen_linux.go): the four tables *)
(* of /proc/net are read one after another, then every process' fds and    *)
(* names, while sockets are opened, passed on and closed and processes     *)
(* start, exit and leave their pids to others.                             *)
(***************************************************************************)
EXTENDS SocketTable, SequencesExt

CONSTANTS
    Missing,    \* tables this kernel may lack (IPv6 disabled)
    MaxLines    \* bound: lines of a table that name one socket

Tables == <<"tcp", "tcp6", "udp", "udp6">>

ASSUME TablesAssumption ==
    TableOf \in [Socks -> {"tcp", "tcp6", "udp", "udp6"}] /\ Missing \subseteq {"tcp6", "udp6"}
ASSUME LinesAssumption == MaxLines \in Nat \ {0}

VARIABLES
    lacking,    \* tables this kernel has not got
    loaded,     \* tables read so far
    byInode,    \* byInode[s]: how many of their lines name socket s
    pids,       \* pids still to look at
    dir,        \* the process whose fd directory is open
    fds,        \* fds of it still to look at
    hit,        \* the first socket found of this pid and whose fd it was, or <<>>
    meta,       \* whose name and start token procMeta read for it, as far as it got
    rows,       \* rows so far: socket, pid (0 for none), the processes its name and
                \* token were read of (0 for none), and, as history, the one whose
                \* fd was read
    kept        \* history: the fds that referred to one socket since the beginning

scanVars == <<loaded, byInode, pids, dir, fds, hit, meta, rows>>
vars == <<procVars, sockVars, foreign, lacking, pc, scanVars, history, kept>>

Row == [sock : Socks, pid : Pids \cup {0}, name : {0} \cup Incs, start : {0} \cup Incs,
        of : {0} \cup Incs]

(* The inodes byInode has a slice for. *)
Known == {s \in Socks : byInode[s] > 0}

TypeOK ==
    /\ SocketTypeOK
    /\ lacking \subseteq Missing
    /\ pc \in {"idle", "tables", "pid", "fds", "link", "name", "start", "done", "failed"}
    /\ loaded \in 0 .. 4
    /\ byInode \in [Socks -> Nat] /\ Known \subseteq opened
    /\ pids \subseteq Pids /\ dir \in {0} \cup Incs /\ fds \subseteq Fds
    /\ dir # 0 <=> pc \in {"fds", "link", "name", "start"}
    /\ \A k \in DOMAIN rows : rows[k] \in Row

Init ==
    /\ SocketInit
    /\ lacking \in SUBSET Missing
    /\ loaded = 0
    /\ byInode = [s \in Socks |-> 0] /\ pids = {} /\ dir = 0 /\ fds = {} /\ hit = <<>> /\ meta = <<>> /\ rows = <<>>
    /\ kept = [i \in Incs |-> {}]

Machine ==
    /\ Processes({}) \/ Sockets(lacking)
    /\ kept' = [i \in Incs |-> {n \in kept[i] : fdt'[i][n] = fdt[i][n]}]
    /\ UNCHANGED <<lacking, scanVars>>

------------------------------------------------------------------------------
(* The listing. *)
Listing == UNCHANGED <<procVars, sockVars, foreign, lacking>>
Quietly == Listing /\ UNCHANGED <<history, kept>>
Goto(step) == pc' = step

(* listPlatform is called. *)
Begin ==
    /\ pc = "idle" /\ Goto("tables")
    /\ StartWitness
    /\ kept' = [i \in Incs |-> {n \in Fds : fdt[i][n] # 0}]
    /\ Listing /\ UNCHANGED <<loaded, byInode, pids, dir, fds, hit, meta, rows>>

(* loadSockets, parseProcNet: the next table, each line of it an element of its
   inode's slice. A table is read in several calls, and the kernel finds its place
   again by counting, so that one socket may have several lines. A table that is
   missing is skipped; one that cannot be read fails the listing. *)
ReadTable ==
    /\ pc = "tables" /\ loaded < 4
    /\ loaded' = loaded + 1
    /\ LET named == {s \in Socks : Open(s) /\ TableOf[s] = Tables[loaded']}
       IN \E lines \in [named -> 1 .. MaxLines] :
             byInode' = [s \in Socks |-> byInode[s] + IF s \in named THEN lines[s] ELSE 0]
    /\ Quietly /\ UNCHANGED <<pc, pids, dir, fds, hit, meta, rows>>

TableFails ==
    /\ pc = "tables" /\ loaded < 4 /\ Tables[loaded + 1] \notin lacking
    /\ Goto("failed")
    /\ Quietly /\ UNCHANGED <<loaded, byInode, pids, dir, fds, hit, meta, rows>>

(* No sockets, no rows. *)
NothingFound ==
    /\ pc = "tables" /\ loaded = 4 /\ Known = {}
    /\ Goto("done")
    /\ Quietly /\ UNCHANGED <<loaded, byInode, pids, dir, fds, hit, meta, rows>>

(* The names in /proc. *)
ReadProc ==
    /\ pc = "tables" /\ loaded = 4 /\ Known # {}
    /\ Goto("pid")
    /\ pids' = {pid \in Pids : ~Free(pid)}
    /\ Quietly /\ UNCHANGED <<loaded, byInode, dir, fds, hit, meta, rows>>

(* matchProcSockets: the fd directory of the next pid; one that cannot be
   opened is passed over. *)
OpenFdDir ==
    /\ pc = "pid" /\ pids # {}
    /\ LET pid == Least(pids)
       IN IF Free(pid) \/ Holder(pid) \in foreign
          THEN pids' = pids \ {pid} /\ UNCHANGED <<pc, dir>>
          ELSE dir' = Holder(pid) /\ Goto("fds") /\ UNCHANGED pids
    /\ Quietly /\ UNCHANGED <<loaded, byInode, fds, hit, meta, rows>>

(* Its names: none once the process has been reaped. *)
ReadFdDir ==
    /\ pc = "fds"
    /\ fds' = {n \in Fds : fdt[dir][n] # 0}
    /\ Goto("link")
    /\ Quietly /\ UNCHANGED <<loaded, byInode, pids, dir, hit, meta, rows>>

(* One row for a socket and a pid, however many fds refer to it and however many
   lines it has. *)
NewRow(s, of, m) ==
    [sock |-> s, pid |-> Least(pids), name |-> m[1], start |-> m[2], of |-> of]
Seen(s) == \E k \in DOMAIN rows : rows[k].sock = s /\ rows[k].pid = Least(pids)
AddAlways(s, of, m) ==                                                 \* mutant: no seen
    rows' = rows \o [k \in 1 .. byInode[s] |-> NewRow(s, of, m)]
AddFirstOwner(s, of, m) ==                                             \* mutant: by inode alone
    IF s \in {rows[k].sock : k \in DOMAIN rows}
    THEN UNCHANGED rows ELSE rows' = Append(rows, NewRow(s, of, m))
AddRow(s, of, m) ==
    IF Seen(s) THEN UNCHANGED rows ELSE rows' = Append(rows, NewRow(s, of, m))

(* Readlink of /proc/<pid>/fd/<n>: by number, so of whoever holds the pid now.
   At the first socket found procMeta is called before its row is made. *)
ReadLink ==
    /\ pc = "link" /\ fds # {}
    /\ LET pid == Least(pids)
           n == Least(fds)
           h == Holder(pid)
           s == IF h = 0 \/ h \in foreign THEN 0 ELSE fdt[h][n]
       IN /\ fds' = fds \ {n}
          /\ \/ s \notin Known /\ UNCHANGED <<pc, hit, rows>>
             \/ s \in Known /\ hit = <<>> /\ hit' = <<s, h>> /\ Goto("name") /\ UNCHANGED rows
             \/ s \in Known /\ hit # <<>> /\ AddRow(s, h, meta) /\ UNCHANGED <<pc, hit>>
    /\ Quietly /\ UNCHANGED <<loaded, byInode, pids, dir, meta>>

(* procMeta: comm, exe, cmdline and cwd by number, then the start token, which
   is 0 when it cannot be read. *)
ReadName ==
    /\ pc = "name" /\ Goto("start")
    /\ meta' = <<Holder(Least(pids))>>
    /\ Quietly /\ UNCHANGED <<loaded, byInode, pids, dir, fds, hit, rows>>

ReadStart ==
    /\ pc = "start" /\ Goto("link")
    /\ meta' = Append(meta, Holder(Least(pids)))
    /\ AddRow(hit[1], hit[2], meta')
    /\ Quietly /\ UNCHANGED <<loaded, byInode, pids, dir, fds, hit>>

NextPidLeaks ==                                                        \* mutant: d not closed
    /\ pc = "link" /\ fds = {}
    /\ Goto("pid")
    /\ pids' = pids \ {Least(pids)}
    /\ hit' = <<>> /\ meta' = <<>>
    /\ Quietly /\ UNCHANGED <<loaded, byInode, dir, fds, rows>>
NextPidSameMeta ==                                                     \* mutant: meta not reset
    /\ pc = "link" /\ fds = {}
    /\ Goto("pid")
    /\ pids' = pids \ {Least(pids)}
    /\ dir' = 0
    /\ Quietly /\ UNCHANGED <<loaded, byInode, fds, hit, meta, rows>>
NextPid ==
    /\ pc = "link" /\ fds = {}
    /\ Goto("pid")
    /\ pids' = pids \ {Least(pids)}
    /\ dir' = 0 /\ hit' = <<>> /\ meta' = <<>>
    /\ Quietly /\ UNCHANGED <<loaded, byInode, fds, rows>>

(* The lines of what no process was seen to hold, in no particular order. *)
Matched == {rows[k].sock : k \in DOMAIN rows}
NoneLeft == {}                                                         \* mutant: owned sockets only
Rest == UNION {{s} \X (1 .. byInode[s]) : s \in Known \ Matched}
AddRest ==
    /\ pc = "pid" /\ pids = {}
    /\ Goto("done")
    /\ rows' = rows \o [k \in 1 .. Cardinality(Rest) |->
                         [sock |-> SetToSeq(Rest)[k][1], pid |-> 0, name |-> 0, start |-> 0, of |-> 0]]
    /\ Quietly /\ UNCHANGED <<loaded, byInode, pids, dir, fds, hit, meta>>

Finished == pc \in {"done", "failed"} /\ UNCHANGED vars

Scan ==
    \/ Begin \/ ReadTable \/ TableFails \/ NothingFound \/ ReadProc
    \/ OpenFdDir \/ ReadFdDir \/ ReadLink \/ ReadName \/ ReadStart \/ NextPid \/ AddRest

Next == Scan \/ (pc \notin {"done", "failed"} /\ Machine) \/ Finished

Spec == Init /\ [][Next]_vars

------------------------------------------------------------------------------
(* Properties, of a listing that is done. *)
RowsFor(s) == {rows[k] : k \in {k \in DOMAIN rows : rows[k].sock = s}}
Nobodys(s) == {k \in DOMAIN rows : rows[k].sock = s /\ rows[k].pid = 0}

(* A socket that is there all the time is listed, passed on between processes
   or not, its owners readable or not (listen_linux.go:71-82). *)
ThereIsListed == pc = "done" => \A s \in up : RowsFor(s) # {}

(* A process that keeps a socket under one fd all the time, and whose fds may be
   read, is listed with it, with its name and its start token: every owner of a
   socket shared over fork or activation has a row (listen_linux.go:119-147). *)
OwnersAreListed ==
    pc = "done" => \A i \in present \ foreign : \A n \in kept[i] :
        LET s == fdt[i][n]
        IN \E r \in RowsFor(s) : r.pid = pidOf[i] /\ r.name = i /\ r.start = i

(* A process has one row for a socket, however many of its fds refer to it and
   however many lines the tables have of it. A socket nobody was seen to hold has
   a row for each of its lines, which nothing tells apart, and no socket has a row
   without an owner beside one with (listen_linux.go:71-85, 124-130). *)
RowPerOwnerOrLine ==
    /\ \A k, l \in DOMAIN rows : k # l /\ rows[k].sock = rows[l].sock /\ rows[k].pid # 0 =>
          rows[l].pid \notin {0, rows[k].pid}
    /\ \A s \in Socks : Nobodys(s) = {} \/ Cardinality(Nobodys(s)) = byInode[s]

(* All of a row was read of processes that had its pid during the listing: the
   fd, the name and the start token, one of which is missing only if a process
   that had the pid has gone. So a row is of one process as long as its pid stays
   with one, and a pid that is reused meanwhile mixes at worst its own holders
   (listen_linux.go:106-177). *)
RowOfHolders ==
    \A k \in DOMAIN rows :
        LET r == rows[k]
            holders == {i \in present : pidOf[i] = r.pid}
        IN r.pid # 0 =>
              /\ r.of \in holders /\ {r.name, r.start} \subseteq holders \cup {0}
              /\ 0 \in {r.name, r.start} => \E i \in holders : life[i] = "gone"

(* "Key uniquely identifies a listener row" (listen.go:75). *)
KeyIsUnique ==
    pc = "done" => \A k, l \in DOMAIN rows :
        k # l => <<Endpoint[rows[k].sock], rows[k].pid>> # <<Endpoint[rows[l].sock], rows[l].pid>>
=============================================================================
