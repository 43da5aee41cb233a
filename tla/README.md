# A TLA+ model of lsoff

lsoff lists listening sockets with their owners, in a table on standard output or in a
terminal UI, and kills the owners it is asked to. The program is about 3,900 lines of Go and
C. Its state is small; what makes it hard is that it looks at a machine that changes under it,
and that the UI does so from goroutines that report in any order.

Line numbers below and in the modules refer to the repository's files; `tui.go` is
`internal/tui/tui.go`, `group.go` is beside it, and the other Go files are in
`internal/listen/`.

## The system

| Component | State | Operations | Hard parts | What makes it correct |
|---|---|---|---|---|
| TUI event loop (`tui.go`) | `loading`, `loadGen`, `auto`, `autoGen`, `confirm`, `err`, `m.all`; goroutines and timers in flight | listing returned, kill returned, tick, `r a x y n q` | messages in any order, superseded loads, chains of ticks, a question open meanwhile | the table never goes back, follows a kill, the spinner is true, one tick chain |
| TUI table (`tui.go`, `group.go`) | `rows`, `cursor`, `offset`, filters, order, folds | every key and click, resize, a new listing | selection across a reload, page arithmetic, derived rows left stale | rows are current, the selection is kept and on the page |
| Listing model (`listen.go`) | none | keys, filters, sorting | ties, duplicate keys | order is total and stable |
| Kill on Linux (`kill.go`, `kill_linux.go`) | pidfd, deadline | open, verify, SIGTERM, poll, SIGKILL; or all by number | exit, reaping and pid reuse between any two steps | only the listed process is signalled; nil means it is gone or going |
| Kill on macOS, Windows (`kill_darwin.go`, `kill_windows.go`) | deadline, process handle | the same idea with other calls | the same | the same, with the documented gap on macOS |
| Listing on Linux (`listen_linux.go`) | sockets read, inodes matched | `/proc/net`, then each pid's fds and metadata | the scan is not atomic | nothing that stays is missed, one row per owner, each row made of holders of its pid |
| Listing on macOS, Windows (`listen_darwin.go`, `sysctl_darwin.go`, `helper_darwin.c`, `listen_windows.go`) | buffers, merged rows, cache, handle | sysctl or IP Helper, libproc, the PEB | tables that grow while read | nothing lost, nothing twice, a row true of one process |
| Docker supplement (`docker/docker.go`, `docker.go`) | none | query, deduplicate, merge | collisions of identity | one row per listener, identified owners kept |
| Command line (`main.go`) | configuration, rows, kills left | parse, list, print, or ask and kill each pid once | partial failure | each pid once, the exit code tells |
| Sanitizing, service names | none | pure | none | unit tested |

The event loop owns its state alone; `loadCmd` and `killCmd` run `List` and `Kill` in
goroutines and share nothing with it but the message they return. `List` is the platform's scan
followed by the Docker supplement. A kill is given the pid and start token of a listed row and
checks them against the machine. `PROJECT.json` lists the hazards at their lines with the
properties that cover them.

## Modules

| Module | Models |
|---|---|
| `Refresh` | the event loop's protocol with its goroutines, timers and messages |
| `MCRefresh` | its small instances |
| `Rows` | the rows as functions of a listing and the settings: filters, order, groups, selection, page |
| `RowsProofs` | lemmas about those functions: what sorting, keeping and grouping return |
| `Tui` | every handler of the UI: `Refresh` extended with the table of `Rows` |
| `MCTui` | the machines whose listings it shows |
| `TuiProofs` | theorems about `Refresh` and `Tui`: the protocol, that `Tui` implements it, the table and its selection |
| `ProcessTable` | the operating system: processes start, exit, are reaped, pids are reused (external) |
| `ProcessTableProofs` | what the steps of the processes leave true |
| `SafeKill` | the abstract specification: what a `Kill` promises on every platform |
| `KillCall` | what the calls of `Kill` share: the refusals, the check of the token, signals by number, the deadline |
| `KillCallSteps` | for the proofs: what a call was given, what it may have sent so far, the four kinds of step it takes |
| `KillLinux`, `MCKillLinux`, `KillLinuxProofs` | calls of `Kill` on Linux, concurrently, with and without pidfd; instances; theorems |
| `KillElsewhere`, `MCKillElsewhere`, `KillElsewhereProofs` | calls of `Kill` on macOS, Windows and the other Unixes; an instance; theorems |
| `SocketTable` | `ProcessTable` with sockets, descriptors and the history a listing's properties need (external) |
| `ListLinux`, `MCListLinux`, `ListLinuxProofs` | the scan of `/proc`, step by step; instances; theorems |
| `ListElsewhere`, `MCListElsewhere`, `ListElsewhereProofs` | the listings of Windows and macOS, step by step; an instance; theorems |
| `Docker` | published ports, their merge into the rows, the order of `List`, as operators on `Rows` |
| `Cli`, `MCCli` | `main`: parsing, listing, printing, or asking and killing; extends `Docker`; its small instance |
| `CliProofs` | theorems about it and lemmas about `Docker` |

What extends what: `Refresh` < `Tui`; `Rows` < `Tui` and `Rows` < `Docker` < `Cli`;
`ProcessTable` < `KillCall` < `KillLinux`, `KillElsewhere`; `ProcessTable` < `SocketTable` <
`ListLinux`, `ListElsewhere`; `RowsProofs` < `TuiProofs`, `CliProofs`. `SafeKill` is instantiated by both kill modules.

### Refresh

Bubble Tea runs each command in a goroutine and hands what it returns to `Update`, one message
at a time. `loads` is the set of listings in flight, each with its generation and, once
`listen.List` has returned, with the version of the machine it saw, or `Failed`; the messages
of this set are delivered in any order. `ticks` counts the armed timers of each generation, and
`kills` the kill commands running, succeeded and failed. Every case of `Update` that touches
this state is an action. A version number stands for a listing, so `shown` is `m.all`. A scan
is taken at one moment here; that a real scan is spread over time is the subject of `ListLinux`
and `ListElsewhere`.

The code's generation counters only grow and are only compared for equality. The model takes,
for each step of a counter, any value that nothing in flight carries. This has the same
behaviours up to renaming and lets a finite set stand for all reloads; the set's size bounds how
many commands are in flight at once, not how many reloads happen.

A timer of an old `autoGen` keeps its value until it fires, hence the guard `ticks[g] = 0` of
`KeyAuto`.

### Rows and Tui

`Rows` gives an entry its fields as numbers in the order their texts compare in; a search query
stands for the entries its words match; an address of 0 is one that does not parse. Sorting and
grouping are stated by the order they produce rather than by the algorithm: `Arranged(S, before)`
is a finite set in the order of a relation that is a strict total order on it, and `FlattenGroups`,
which is `flattenGroups` with `sortGroups` and `repLess`, arranges the places of the entries it
shows. A loop that appends some of a slice to a new one is `Keeping(s, I)`, the elements of `s` at
the places in `I`; filtering, and removing duplicates, are stated by which places are kept. Both
forms can be proved about, which `SelectSeq` and a recursive sort cannot. The field
`name` stands for the name and the command line that breaks its ties.

`Tui` extends `Refresh`: a handler that both take part in is the conjunction of the action of
`Refresh` and of what the handler does to the table. `ApplyFilter` and `MoveTo` are conjuncts of
the handlers that call `applyFilter` and `clamp`, never actions of their own. One history
variable, `asked`, remembers which identity `x` asked about.

`SelectionStays` is what a user may expect of a reload, a fold, a filter, a sort or a resize (the
steps `Steady` names, however they were brought about): the selected
row is still of the same group as long as the group has a row. A group is known by its pid and not
by the start token, so when a pid is reused on the same port the selection goes with the pid; and
of two rows with one `Key` it does not say which is kept. It has one exception, which is the
code's: `applyFilter` looks for the row's `Key` before it looks for its group, and a container's
row has no pid in its key, so it may be found again at its address in another container's group.
A row with a pid cannot, because two rows of one key are of one group.

`ClickRow` is a click right of the mark column, or on a row with nothing to fold. Text typed
into the search replaces the whole query, which reaches every query a user can type. Mouse
and window messages get through where the code lets them through: clicks and the wheel not while
the question is open, a resize always.

### SafeKill, KillCall, KillLinux, KillElsewhere

An incarnation is a process from its start to its reaping; incarnations are numbered in order of
birth and the number stands for the start token. That assumes, as the code does, that a pid is
not reused within the resolution of a start token. Each step of `Kill` that looks at or signals
a process is an action, and processes start, exit and are reaped in between. `pidfds` chooses a
kernel with or without `pidfd_open`; `flaky` chooses whether a look at a live process may fail
for a reason other than the process being gone. `platform` chooses among the other systems.

The platforms differ in what they hold on to. Linux keeps a pidfd and checks the token once, or
works by number. macOS works by number, checks the token before each of the two signals, and
takes ESRCH as success (`LooksGone` leaves open whether a zombie still has a token). Windows
opens a handle by number, compares the handle's creation time and terminates through the handle;
while it is open the pid is not given away, which is the extra conjunct of `Processes`. On the
other Unixes no token can be read, so `verifyStart` fails and nothing after it can be reached.

`SafeKill` says none of this: a call is given an ident, refuses it at once or not at all, strikes
at most twice and each time harder, strikes only the *right* process, and answers once. Right is
the listed process, or, where only numbers can be signalled, one born after the moment the call
was made or its two seconds ran out. `KeepsPromise` is `SafeKill!Spec` under the mapping that
forgets the program counters; `exact` maps to `pidfds` on Linux, to Windows elsewhere.

### SocketTable, ListLinux, ListElsewhere

The machine goes on while a listing runs: a process opens a socket on its lowest free
descriptor, duplicates or passes one on (`dup`, `fork`, `SCM_RIGHTS`), closes one, exits, is
reaped, and its pid is reused. A listing is a sequence of reads, each an action: a kernel table,
the directory of `/proc`, a process' descriptors, one link, a name, a start token. What is read
*by number* is read of whoever has the number at that moment, and that is what makes a row wrong
if it can be. In `ListLinux` a row records, in place of the strings, the incarnations they were
read of. A table is read in several calls, between which the kernel finds its place again by
counting, so it may name a socket in more than one line: `byInode[s]` is the length of the slice
the code keeps for the inode, 0 for an inode it does not know. The owners of a socket still have one
row each (`seen`), but a socket nobody was seen to hold has a row for each line (`AddRest`);
`RowPerOwnerOrLine` says both. By the same counting a table may also pass over a socket, which is left
out: `ThereIsListed` is about what the tables can be trusted to have. The variables `up`, `present` and `kept` are history: the sockets, processes and
descriptors that were there since the listing began.

`ListElsewhere` has the two other listings, which share how a list is sized and then read.
On Windows a table is read with its owners and each new pid is looked up once: a handle for name
and token, and, while that is open, a second one by number for the directory. On macOS the pids
are sized and read, every process is scanned, and then the kernel's two lists add the endpoints
no row is about. `Attempts` is `tableFetchAttempts`, or the 5 of `fetch_pcblist`; `Slack` and
`PidSlack` are the sockets and pids that fit in the extra room asked for. The rows of a kernel
list come in no particular order, and neither do those that `mergeUnowned` adds, because `List`
sorts them; of several sockets on one endpoint `mergeUnowned` takes the first that was found.

### Docker and Cli

A container is its id, names and ports; the HTTP request of `docker.go` is an answer or an error.
`List` is the whole of `list.go`: the platform's rows, the published ports that no earlier
publication covers, and the stable order. A published port becomes a row of the first container
that publishes it in the order of the answer, which is stated as such: `Published` by container
and port, `PublishedPorts` in the order of both. `Cli` takes arguments one at a time as `parseArgs`
does, so that contradictions, help and errors meet in every order; then the listing, the filters,
and either the table or the question and the kills. How a kill ends is left open, except that one
without a start token is refused.

## Runs

| Run | Bounds | Shows |
|---|---|---|
| `refresh` | 2 load and 3 tick generations, 3 versions of the machine, 1 kill | `LoadingHasItsLoad`, `OneTickChain`, `NeverOlder`, `FreshAfterKill`, and the liveness `LoadingSettles`, `AutoConverges` |
| `kill_linux` | 2 calls, 3 pids of which one can be killed, 5 births, both kernels, looks that fail or not | `OnlyListed`, `LateComersOnly`, `KilledMeansDoomed`, `NeverInitOrSelf`, `KeepsPromise`, `SignalTakesEffect` |
| `kill_elsewhere` | the same, on three platforms | `KilledMeansDoomed`, `MismatchMeansReused`, `KeepsPromise`, `GoneIsNoFailure`, `SignalTakesEffect` |
| `list_linux` | 3 pids, 5 births, 2 sockets in the first and the last table, 2 descriptors, 3 changes, up to 2 lines for a socket in a table, IPv6 missing or not, a foreign process or not | `ThereIsListed`, `OwnersAreListed`, `RowPerOwnerOrLine`, `RowOfHolders` |
| `list_elsewhere` | 3 pids, 4 births, 3 sockets of which two share an endpoint, 2 descriptors, 3 changes, 2 attempts with room for one more | `ThereIsListed`, `ListedOnce`, `OneProcessToARow`, `GaveUpOnGrowth` |
| `cli` | every command line of up to 3 of 14 arguments and of 4 of those of a kill, every terminal, 64 host listings, 4 answers of Docker | `KilledAsAsked`, `ExitIsTrue`, `DockerPrecedence` |
| `tui_reload` | 2 versions with a pid that passes to another process, reload, auto-refresh, kill, fold, move | `RowsAreCurrent`, `SelectionStays` when listings and keys interleave |
| `tui_view` | 2 versions, the second much smaller, all keys and clicks of the table and the search, page sizes 1 and 2 | `RowsAreCurrent`, `SelectionOnPage`, `SelectionStays` under any sequence of settings |
| `kill_exited`, `kill_unseen`, `tui_confirm`, `list_keys` | small | the divergences below |

Two generations in flight are needed for a stale listing to overtake another; two timers for a
stale chain, three for two stale ones. `refresh` can be as small as that because its safety
properties are also proved for every number of generations, versions and kills.

Five births give the killable pid three holders in turn, one more than the two checks of a
by-number kill can tell apart. In `list_linux` they let a pid pass on twice during a scan; two lines of one
socket, and two descriptors that refer to it, are every way for it to be found again; two
sockets in the first and the last table give the widest gap between two reads, and two
descriptors let one socket be found twice and two sockets share the metadata read for the first.
Three changes are enough to open a socket, pass it on and close the first descriptor, which is
how one might slip through a scan. In `list_elsewhere` a list that grows twice defeats both
attempts on Windows; on macOS, where each attempt makes room for one more, it takes three.

A table of five rows with pages of one and two rows has rows
above, on and below the page. The selection of every row, each group open and closed, and each
column in both directions are reached in `tui_view`.

The listings of `cli` are all subsets of at most three rows out of seven, chosen so that a
process has two rows, or none that can be read, or no start token, or is docker-proxy; the
answers of Docker have no container, one published twice under one listener, and collisions of a
second container with the first and with the host.

Deadlock is checked in every run: a session that quit, calls that have all returned, a listing
or a command that is done stutter explicitly (`Finished`, `Returned`), and nothing else may stop.

### Fairness

`refresh` assumes weak fairness of a listing's return, of its delivery, of each timer and
of a kill's return and delivery: the goroutines' calls are bounded (the Docker client has a
deadline, a kill waits two seconds), timers fire, and the event loop receives from its channel
in order. Nothing is assumed of the user, and the properties say what of him is needed. A step
`Supersede`s if it asks for a listing while another is in flight, which a reload or the report of a
kill may do and a tick never does, since a tick does not reload a table that is loading. For
`LoadingSettles` the user must not supersede for ever; one who reloads faster than listings return
never sees one, and that is the code's doing. For `AutoConverges` he must
also leave auto-refresh on and answer his question, and listings must work from some point on;
the ticks' own reloads, and his when nothing is in flight, may go on for ever.

`kill_linux` and `kill_elsewhere` assume that a call that has begun goes on, that time passes,
and that the kernel ends a process that was sent SIGKILL. Nothing is assumed of SIGTERM, of
parents that reap, or of processes that start.

The listings and the command line have no liveness properties: each is a loop over finite lists
that ends or is killed by the user, and only reads that may block would say otherwise.

### What the violations show

- `tui_confirm`: the question does not keep the process it was asked about. A listing that
  arrives while it is open replaces the rows; if the process is gone the selection is another
  row, and `y` kills that one (`tui.go:306`). `README.md:102` says `y` confirms what `x` asked.
- `kill_exited`: a listed process that has exited makes `Kill` on Linux return ESRCH
  (`kill_linux.go:26`), where `kill_darwin_test.go:14` says that Linux does not take it as a
  failure.
- `kill_unseen`: an error of any kind while waiting counts as the process being gone
  (`kill_linux.go:41`, `:68`), so a live process may be left without the SIGKILL that
  `README.md:102` promises.
- `list_keys`: two sockets of one process on one endpoint, as `SO_REUSEPORT` allows, are two rows
  with one `Key`, which `listen.go:75` says is unique. The UI finds a row again by that key. Two
  lines of an unowned socket are another way to two such rows.

## Proofs

TLAPS proves, for every value of the constants:

- `TuiProofs`, of `Refresh`: type correctness, `LoadingHasItsLoad`, `OneTickChain`, `NeverOlder` and
  `FreshAfterKill`. None is inductive alone. `IInv` adds that no two listings in flight share a
  generation (or taking one would leave its twin and the spinner would lie), that nothing was
  seen before it happened, and that the one listing that would be accepted is at least as new
  as the table and as the last reported kill.
- `ProcessTableProofs`: lemmas about the operating system: one holder to a pid, and a pid goes to
  a new process only when the one before it is gone for good.
- Both kill proofs rest on `KillCallSteps`: whatever the platform, a step of a call looks, answers,
  sends SIGTERM or sends SIGKILL, and each kind keeps what was sent and what the call was given.
- `KillLinuxProofs`: type correctness, `OnlyListed`, `LateComersOnly`, `NeverInitOrSelf`,
  `KilledMeansDoomed` and the refinement `KeepsPromise`, for any number of calls. The invariant
  relates each program counter to what the call has established: past the check of the token the
  fd refers to the listed process, because the fd was opened first and the process still held
  the pid when the token was read; and a pid's later holders are born later.
- `KillElsewhereProofs`: type correctness, `NeverInitOrSelf`, `KilledMeansDoomed`,
  `MismatchMeansReused`, `GoneIsNoFailure` and `KeepsPromise`. After a look at the number, whoever
  holds it is the listed process or was born since the call began; a handle that was compared
  is of the listed process.
- Both `KeepsPromise` theorems show that each step of a call is a step of `SafeKill` or leaves it
  alone: a signal comes before the call's answer, SIGTERM before SIGKILL, and it reaches
  the listed process or one the contract excuses.
- `ListLinuxProofs`: type correctness, `ThereIsListed`, `OwnersAreListed`, `RowPerOwnerOrLine` and
  `RowOfHolders`, for any number of sockets, lines, descriptors, processes and changes. What a process
  keeps under one fd is open all the time, so it is in one of the four tables whichever was
  read first; its process is alive all the time, so the pass over its pid finds it and nobody
  else, and the pass still has the fd ahead of it, or the row, or its first hit in hand.
  Without the last alternative the invariant is not inductive, because the row of the first hit
  is made only after the name and the token are read. The rows of a socket without an owner
  are counted by a bijection with its lines, on the set `Rest` that `RestLemma` shows to be finite.
- `ListElsewhereProofs`: type correctness, `ThereIsListed`, `ListedOnce`, `OneProcessToARow` and
  `GaveUpOnGrowth`, on both platforms, for any number of sockets, processes, attempts and changes.
  Each socket that was there all the time and is in a list read so far is passed over with its
  list, has its endpoint among the rows, or is still among the sockets found. On Windows a list is
  read once and no socket is in two of them, so no socket is found twice; a row has what
  is cached of its pid, and that was read of one process, since the open handle keeps the number
  from passing to another between the two looks. On macOS a row of the pid being scanned has
  the strings in hand, and the pids scanned before have no more rows to come. A list that holds more than
  there was room for has a socket opened since it was sized, and each retry makes up for the
  growth seen so far: the list, and one socket or the slack for each attempt made, never exceed
  the room and the sockets opened during the listing.
- `TuiProofs`, of `Tui`: it implements `Refresh` (each handler is a step of the protocol or
  leaves it alone), so the theorems above hold of the whole UI; and `RowsAreCurrent`, `TuiTypeOK`,
  `SelectionOnPage` and `SelectionStays`, for every listing, query and height. `TuiIInv` joins
  the invariant of the protocol to the types of the settings, `RowsAreCurrent` and
  `SelectionOnPage`: the rows have a length the cursor can be clamped to because they are those
  of a listing under typed settings. `SelectionStays` compares two tables, so it needs both rows
  to be of this shape, and that in such a table every group has one row that is not a child and
  carries the group's id.
- `RowsProofs`: the lemmas this rests on. `Arranged` puts each element of a finite set in one
  place, in order; `Keeping` keeps exactly the places asked for, in order; `Weight` compared
  column by column with ties broken by place is a strict total order; and a table made by
  `FlattenGroups` has, for each group of the listing, the group's leading row.
- `CliProofs`: type correctness, `KilledAsAsked`, `ExitIsTrue` and `DockerPrecedence`, for every
  command line, host listing and answer of Docker. The invariant says that while kills are under
  way those tried, followed by those left, are the distinct owners of the printed rows in their
  order, that every printed row is of the port and protocol asked for, and that the user agreed;
  `KilledAsAsked` follows because an owner of a row is a process, never a container.
  `DockerPrecedence` is about the whole pipeline of `List`: each row the host has is kept as often
  as it was there, each published port that nothing covers is added once. It follows from
  lemmas on each stage (`PublishedLemma`, `MergeLemma`, `SortLemma`, `ListLemma`), stated by how
  often a row occurs, which sorting leaves alone.

The assumptions are those the modules state: markers are not version numbers, bounds are
naturals and there is at least one version of the machine, pids and sockets are positive, there
are at least the two processes of the start, and every socket is in one of the kernel's four
tables. Listings are sequences of entries, host listings have no row of Docker's, an answer of
Docker is an error or a sequence of containers, and the addresses Docker canonicalises stay
addresses.

Model-checked only: the liveness properties, which are out of the prover's reach. Every other
property of the passing runs is a theorem.

## Not modelled

- Rendering, the status line, column widths, help, JSON and table output, sanitizing and
  service names: wording or pure text functions with unit tests.
- Parsing of `/proc/net`, of the sysctl structures, of process arguments and of the PEB: the
  layout of other people's data. What a kernel table has is taken at one moment, though a real read
  of a long `/proc/net/tcp` is not atomic and may pass over a socket (that it may name one twice is
  modelled), and `comm`, `exe`, `cmdline` and `cwd` of a process are one
  read. The doubling of the descriptor buffer in `socketsForPID` is left out: a process' list of
  descriptors is read whole.
- The HTTP conversation with the Docker Engine and the choice of its socket: an answer or an error.
- A quit while a kill is waiting, which abandons it between SIGTERM and SIGKILL: `Refresh` has the
  quit and `KillLinux` the steps, and they are not composed.
- In `Cli` a kill succeeds or fails; the kill modules say when.

## Plan

A composition of a listing with a kill: what the identity captured last does to the kill when the
row is of two processes.
