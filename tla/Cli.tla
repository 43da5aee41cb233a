--------------------------------- MODULE Cli ---------------------------------
(***************************************************************************)
(* The command line (main.go): the arguments parsed one by one, the        *)
(* listing with Docker's rows merged in, the filters, and either a table,  *)
(* or a question and one kill after another. A machine's processes may end *)
(* at any time, so a kill may fail or succeed as it likes.                 *)
(***************************************************************************)
EXTENDS Docker

CONSTANTS
    Args,           \* the command lines
    Hosts,          \* what the platform's listing may find
    Answers         \* what Docker may answer

(* An argument is a flag, a port, digits that are none, a word, or a flag with
   its value attached. *)
Flags == {"tcp", "udp", "pid", "json", "kill", "yes"}
Words == {"port", "digits", "word"}
Arg == [kind : Flags \cup Words \cup {"q", "query", "help", "unknown"}, text : Nat]

ASSUME ArgsAssumption == Args \subseteq Seq(Arg)
ASSUME HostsAssumption == Hosts \subseteq Seq({e \in Entry : e.source = "process"})
ASSUME AnswersAssumption ==
    Answers \subseteq [ok : {FALSE}] \cup [ok : {TRUE}, containers : Seq(Container)]

VARIABLES
    args,           \* arguments left to parse
    words,          \* positional arguments so far
    cfg,            \* config
    tty,            \* whether stdin and stdout are terminals
    pc,             \* the next step of run
    host, docker,   \* history: what the listing was made from
    entries,        \* the rows, filtered once pc is past "filter"
    printed,        \* whether the table was written
    yes,            \* whether the user answered yes
    ids,            \* the idents still to kill
    tried,          \* history: the idents killed or not, with how it went
    exit            \* the exit code, or -1

input == <<args, words, cfg, tty>>
listing == <<host, docker, entries>>
killing == <<printed, yes, ids, tried>>
vars == <<input, pc, listing, killing, exit>>

NoPort == -1
NoConfig == [tcp |-> FALSE, udp |-> FALSE, pid |-> FALSE, json |-> FALSE, kill |-> FALSE,
             yes |-> FALSE, port |-> NoPort, query |-> 0]

TypeOK ==
    /\ cfg.port \in Nat \cup {NoPort} /\ cfg.query \in Nat
    /\ \A f \in {"tcp", "udp", "pid", "json", "kill", "yes"} : cfg[f] \in BOOLEAN
    /\ pc \in {"parse", "mode", "list", "filter", "ask", "kill", "exit"}
    /\ \A k \in DOMAIN entries : entries[k] \in Entry
    /\ \A k \in DOMAIN tried : tried[k].ok \in BOOLEAN
    /\ exit \in {-1, 0, 1, 2}
    /\ pc = "exit" <=> exit # -1

Init ==
    /\ args \in Args /\ words = <<>> /\ cfg = NoConfig
    /\ tty \in [stdin : BOOLEAN, stdout : BOOLEAN]
    /\ pc = "parse"
    /\ host = <<>> /\ docker = [ok |-> FALSE] /\ entries = <<>>
    /\ printed = FALSE /\ yes = FALSE /\ ids = <<>> /\ tried = <<>>
    /\ exit = -1

Goto(step) == pc' = step /\ UNCHANGED exit
ExitSilently(code) == pc' = "exit" /\ UNCHANGED exit           \* mutant: the code is lost
Exit(code) == pc' = "exit" /\ exit' = code

------------------------------------------------------------------------------
(* parseArgs. *)
ParseFlag ==
    /\ pc = "parse" /\ args # <<>> /\ Head(args).kind \in Flags
    /\ cfg' = [cfg EXCEPT ![Head(args).kind] = TRUE]
    /\ args' = Tail(args)
    /\ UNCHANGED <<words, tty, pc, listing, killing, exit>>

(* -q takes the next argument, whatever it looks like. *)
ParseQuery ==
    /\ pc = "parse" /\ args # <<>> /\ Head(args).kind = "q" /\ Len(args) > 1
    /\ cfg' = [cfg EXCEPT !.query = args[2].text]
    /\ args' = Tail(Tail(args))
    /\ UNCHANGED <<words, tty, pc, listing, killing, exit>>

ParseQueryValue ==
    /\ pc = "parse" /\ args # <<>> /\ Head(args).kind = "query"
    /\ cfg' = [cfg EXCEPT !.query = Head(args).text]
    /\ args' = Tail(args)
    /\ UNCHANGED <<words, tty, pc, listing, killing, exit>>

ParseWord ==
    /\ pc = "parse" /\ args # <<>> /\ Head(args).kind \in Words
    /\ words' = Append(words, Head(args))
    /\ args' = Tail(args)
    /\ UNCHANGED <<cfg, tty, pc, listing, killing, exit>>

(* -h and -v end it there and then, whatever else was given. *)
ParseHelp ==
    /\ pc = "parse" /\ args # <<>> /\ Head(args).kind = "help"
    /\ Exit(0)
    /\ UNCHANGED <<input, listing, killing>>

ParseError ==
    /\ pc = "parse" /\ args # <<>>
    /\ Head(args).kind = "unknown" \/ (Head(args).kind = "q" /\ Len(args) = 1)
    /\ Exit(2)
    /\ UNCHANGED <<input, listing, killing>>

(* One argument that is no flag: a port, or the query unless there is one. *)
BadWords ==
    \/ Len(words) > 1
    \/ Len(words) = 1 /\ words[1].kind = "digits"
    \/ Len(words) = 1 /\ words[1].kind = "word" /\ cfg.query # 0
WithWords ==
    IF words = <<>> THEN cfg
    ELSE IF words[1].kind = "port" THEN [cfg EXCEPT !.port = words[1].text]
    ELSE [cfg EXCEPT !.query = words[1].text]
Contradicts(c) ==
    (c.kill /\ c.port = NoPort) \/ (c.kill /\ c.json) \/ (c.yes /\ ~c.kill)

ParseEnd ==
    /\ pc = "parse" /\ args = <<>>
    /\ IF BadWords \/ Contradicts(WithWords)
       THEN Exit(2) /\ UNCHANGED <<words, cfg>>
       ELSE cfg' = WithWords /\ words' = <<>> /\ Goto("mode")
    /\ UNCHANGED <<args, tty, listing, killing>>

------------------------------------------------------------------------------
(* run: the TUI when nothing asks for output and stdout is a terminal. *)
UseTUI ==
    /\ pc = "mode"
    /\ cfg.port = NoPort /\ ~cfg.json /\ ~cfg.kill /\ tty.stdout
    /\ Exit(0)
    /\ UNCHANGED <<input, listing, killing>>

ListAll ==
    /\ pc = "mode"
    /\ cfg.port # NoPort \/ cfg.json \/ cfg.kill \/ ~tty.stdout
    /\ \/ \E h \in Hosts, a \in Answers :
            /\ host' = h /\ docker' = a
            /\ entries' = List(h, a)
            /\ Goto("filter")
       \/ Exit(2) /\ UNCHANGED listing
    /\ UNCHANGED <<input, killing>>

(* FilterProto, FilterHasPID, FilterPort, FilterQuery. *)
ProtoWanted(e) == cfg.tcp = cfg.udp \/ (IF e.proto = 1 THEN cfg.udp ELSE cfg.tcp)
PortWanted(e) == cfg.port # NoPort => e.port = cfg.port
Wanted(e) ==
    ProtoWanted(e) /\ (cfg.pid => HasPID(e)) /\ PortWanted(e) /\ MatchesQuery(e, cfg.query)
Shown == Keeping(entries, {k \in DOMAIN entries : Wanted(entries[k])})

(* UniqueIdents: each pid once, as its first row has it. *)
FirstOfPid(es) ==
    {k \in DOMAIN es : HasPID(es[k]) /\ \A l \in 1 .. k - 1 : es[l].pid # es[k].pid}
IdentOf(e) == [pid |-> e.pid, start |-> e.start]
UniqueIdents(es) ==
    LET firsts == Keeping(es, FirstOfPid(es)) IN [k \in DOMAIN firsts |-> IdentOf(firsts[k])]

(* A table or JSON; a lookup that finds nothing is a failure, -p and -t are no
   lookups. Writing may fail. *)
Lookup == cfg.port # NoPort \/ cfg.query # 0
Output ==
    /\ pc = "filter" /\ ~cfg.kill
    /\ entries' = Shown
    /\ \/ Shown = <<>> /\ Lookup /\ Exit(1) /\ UNCHANGED printed
       \/ ~(Shown = <<>> /\ Lookup) /\ Exit(0) /\ printed' = TRUE
       \/ ~(Shown = <<>> /\ Lookup) /\ Exit(2) /\ UNCHANGED printed
    /\ UNCHANGED <<input, host, docker, yes, ids, tried>>

(* runKill, as far as the question. *)
StartKill ==
    /\ pc = "filter" /\ cfg.kill
    /\ entries' = Shown
    /\ ids' = UniqueIdents(Shown)
    /\ \/ Shown = <<>> /\ Exit(1) /\ UNCHANGED printed
       \/ Shown # <<>> /\ Exit(2) /\ UNCHANGED printed
       \/ /\ Shown # <<>> /\ printed' = TRUE
          /\ IF ids' = <<>> THEN Exit(1) ELSE Goto(IF cfg.yes THEN "kill" ELSE "ask")
    /\ UNCHANGED <<input, host, docker, yes, tried>>

(* confirmKill: no answer without a terminal; an answer may be yes, or no, or
   fail to be read. *)
ConfirmAnyway ==                                            \* mutant: stdin not looked at
    /\ pc = "ask"
    /\ \/ Goto("kill") /\ yes' = TRUE
       \/ Exit(1) /\ UNCHANGED yes
    /\ UNCHANGED <<input, listing, printed, ids, tried>>

Confirm ==
    /\ pc = "ask"
    /\ \/ ~tty.stdin /\ Exit(2) /\ UNCHANGED yes
       \/ tty.stdin /\ Goto("kill") /\ yes' = TRUE
       \/ tty.stdin /\ Exit(1) /\ UNCHANGED yes
       \/ tty.stdin /\ Exit(2) /\ UNCHANGED yes
    /\ UNCHANGED <<input, listing, printed, ids, tried>>

(* killOne, for each; without a start token it always refuses. *)
KillUntilFailure ==                                         \* mutant: no continue
    /\ pc = "kill" /\ ids # <<>>
    /\ \E ok \in BOOLEAN :
          /\ ok => Head(ids).start # 0
          /\ tried' = Append(tried, [id |-> Head(ids), ok |-> ok])
          /\ ids' = IF ok THEN Tail(ids) ELSE <<>>
    /\ UNCHANGED <<input, pc, listing, printed, yes, exit>>
KillOne ==
    /\ pc = "kill" /\ ids # <<>>
    /\ \E ok \in BOOLEAN :
          /\ ok => Head(ids).start # 0
          /\ tried' = Append(tried, [id |-> Head(ids), ok |-> ok])
    /\ ids' = Tail(ids)
    /\ UNCHANGED <<input, pc, listing, printed, yes, exit>>

KillsReported ==
    /\ pc = "kill" /\ ids = <<>>
    /\ Exit(IF \E k \in DOMAIN tried : ~tried[k].ok THEN 1 ELSE 0)
    /\ UNCHANGED <<input, listing, killing>>

Finished == pc = "exit" /\ UNCHANGED vars

Parse == ParseFlag \/ ParseQuery \/ ParseQueryValue \/ ParseWord \/ ParseHelp \/ ParseError \/ ParseEnd
Run == UseTUI \/ ListAll \/ Output \/ StartKill \/ Confirm \/ KillOne \/ KillsReported

Next == Parse \/ Run \/ Finished

Spec == Init /\ [][Next]_vars

------------------------------------------------------------------------------
(* Properties. *)

(* A process is killed only if a row that was printed, of the port asked for and
   of a protocol asked for, names it with that start token; only after -y or a
   yes typed at a terminal, so that "a pipe cannot kill by accident"; and only
   once, however many rows it has (README.md:104, main.go:107-139). *)
KilledAsAsked ==
    /\ \A k \in DOMAIN tried :
          /\ \E r \in DOMAIN entries :
                LET e == entries[r]
                IN /\ tried[k].id = IdentOf(e)
                   /\ e.source = "process" /\ e.port = cfg.port
                   /\ cfg.tcp # cfg.udp => (e.proto = 0 <=> cfg.tcp)
          /\ printed
          /\ cfg.yes \/ (yes /\ tty.stdin)
    /\ \A k, l \in DOMAIN tried : k # l => tried[k].id.pid # tried[l].id.pid

(* The exit code tells what happened: a kill that failed kept no other process
   from being tried and is not forgotten; 0 after -k means every owner of the
   port was killed, and 0 after a lookup that something was found
   (main.go:90-99, 107-146). *)
Owners == {entries[k].pid : k \in DOMAIN entries} \ {0}
Killed == {tried[k].id.pid : k \in {k \in DOMAIN tried : tried[k].ok}}
ExitIsTrue ==
    pc = "exit" =>
        /\ tried # <<>> => /\ {tried[k].id.pid : k \in DOMAIN tried} = Owners
                           /\ exit = IF Killed = Owners THEN 0 ELSE 1
        /\ cfg.kill /\ printed /\ exit = 0 => Killed = Owners /\ Owners # {}
        /\ printed /\ Lookup /\ exit = 0 => entries # <<>>
        /\ printed /\ ~cfg.kill => exit = 0

(* Docker's rows supplement the host's: no listener is shown both as a
   container's and as nobody's, no identified process disappears, and an answer
   that is an error changes nothing (docker.go:15-67, list.go:4-12). *)
DockerPrecedence ==
    pc = "filter" =>
        LET ports == IF docker.ok THEN PublishedPorts(docker.containers) ELSE <<>>
        IN Supplemented(host, [k \in DOMAIN ports |-> DockerEntry(ports[k])], entries)
=============================================================================
