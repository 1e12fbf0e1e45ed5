------------------------------- MODULE Server -------------------------------
(***************************************************************************)
(* The process around the sessions: start-up (which upstream goes where,   *)
(* whether there is anything to serve), the accept loop with its cap on    *)
(* clients, the two shutdown signals, the drain of the handlers, and the   *)
(* log: a bounded channel, the task that writes it out and the bounded     *)
(* wait for that task before the runtime is torn down.                     *)
(*                                                                         *)
(* A handler (module Session) may run for any time, end, or panic.  The    *)
(* health saver's `finish` (module HealthSaver) is one bounded step here.  *)
(* A sink that stops accepting bytes never completes a write again.        *)
(***************************************************************************)
EXTENDS Integers, Sequences, FiniteSets, SequencesExt

CONSTANTS
    Clients,
    MaxClients,   \* max_concurrent_clients
    LogCap,       \* the slots of the log channel
    MaxFailures,  \* bound: failing accepts
    Setups        \* the configuration and circumstances

Sizes == /\ {MaxClients, LogCap} \subseteq Nat \ {0} /\ MaxFailures \in Nat
         /\ IsFiniteSet(Clients)
ASSUME ServerSizes == Sizes

VARIABLES
    setup,      \* entries, direct, blocked, file, alsoConsole, wedge, probe
    routes,     \* the groups start-up made of the entries
    mainPc,     \* the main task
    conn,       \* each client's connection
    permits,    \* free slots of the client limiter
    failures,
    asked,      \* a SIGTERM was sent to the process (history)
    term,       \* a SIGTERM waits in its stream
    intr,       \* the ctrl_c future of this iteration has resolved
    queue,      \* the log channel: lines of the server, handlers included, and
                \* of a detached probe, each for one stream of the console
    owed,       \* how many of the server's that entered it are in no sink (history)
    drain,      \* the log-drain task: where it is, and its line, or "copy" for
                \* a line that the file has
    toFile,     \* whether it still writes to the file
    inflight,   \* by console stream, whose line was handed to the blocking pool
    wedged,     \* a sink has stopped accepting bytes
    probing     \* a detached probe still holds the logger

logVars == <<queue, owed, drain, toFile, inflight, wedged, probing>>
loopVars == <<conn, permits, failures, asked, term, intr>>
serverVars == <<setup, routes, mainPc, loopVars, logVars>>

None == "none"
Consoles == {"stdout", "stderr"}
\* The log-drain task with no line in hand.
HandsFree(at) == [at |-> at, line |-> None, to |-> None]

----------------------------------------------------------------------------
(* Start-up: an entry is its list, its line's validity and its gate level. *)

\* parse_proxy_list: entries that do not parse are dropped.
Parsed(list) == SelectSeq(setup.entries, LAMBDA e : e.list = list /\ e.ok)
IsGate(e) == e.level > 0
\* partition_proxy_groups: the gates of the v6 list come first.
Plain(list) == SelectSeq(Parsed(list), LAMBDA e : ~IsGate(e))
Gates == SelectSeq(Parsed("v6") \o Parsed("v4"), IsGate)
\* group_gate_levels, and GateLevels::new by descending rank.
Ranks == {Gates[i].level : i \in DOMAIN Gates}
\* Mutant: in the order of the map they were grouped in.
GateLevelsAscending == LET ranks == SetToSortSeq(Ranks, LAMBDA a, b : a < b)
                       IN  [i \in DOMAIN ranks |-> SelectSeq(Gates, LAMBDA e : e.level = ranks[i])]
GateLevels == LET ranks == SetToSortSeq(Ranks, LAMBDA a, b : a > b)
              IN  [i \in DOMAIN ranks |-> SelectSeq(Gates, LAMBDA e : e.level = ranks[i])]
\* directly_dialed_rotators: the outermost gate and the exits.
DirectlyDialed == (IF GateLevels = <<>> THEN <<>> ELSE <<Head(GateLevels)>>) \o SelectSeq(<<Plain("v6"), Plain("v4")>>, LAMBDA g : g # <<>>)
HasUsableRoute == Plain("v4") # <<>> \/ Plain("v6") # <<>>
ShouldBail == ~HasUsableRoute /\ ~setup.direct

\* What run_server_inner builds of the lists.
Routes == [gates |-> GateLevels, exits |-> <<Plain("v6"), Plain("v4")>>, dialed |-> DirectlyDialed]
NoRoutes == [gates |-> <<>>, exits |-> <<>>, dialed |-> <<>>]
ServerInit ==
    /\ setup \in Setups
    /\ routes = NoRoutes /\ mainPc = "boot"
    /\ conn = [c \in Clients |-> "away"] /\ permits = MaxClients /\ failures = 0
    /\ asked = FALSE /\ term = FALSE /\ intr = FALSE
    /\ queue = <<>> /\ owed = 0 /\ drain = HandsFree("open") /\ toFile = FALSE
    /\ inflight = [s \in Consoles |-> None]
    /\ wedged = FALSE /\ probing = FALSE

----------------------------------------------------------------------------
(* Logger::send: a line that finds the channel full is dropped.  ELog::Log *)
(* lines are for stdout, ELog::Error lines for stderr.                     *)

Counts(line) == IF line = "server" THEN 1 ELSE 0
Send(line, stream) ==
    IF Len(queue) < LogCap
    THEN queue' = Append(queue, [line |-> line, to |-> stream]) /\ owed' = owed + Counts(line)
    ELSE UNCHANGED <<queue, owed>>
LogLifecycle == Send("server", "stdout")
LogError == Send("server", "stderr")
Silent == UNCHANGED <<queue, owed>>
SinksUnchanged == UNCHANGED <<drain, toFile, inflight, wedged>>

\* Who keeps the channel open: the main task, every handler, a probe.
Running == {c \in Clients : conn[c] = "running"}
ChannelOpen == mainPc \notin {"join", "report", "teardown", "exited"} \/ Running # {} \/ probing

----------------------------------------------------------------------------
(* run_server                                                              *)

\* run_server_inner up to the listener, which may fail to bind.
Boot ==
    /\ mainPc = "boot"
    /\ routes' = Routes
    /\ IF ShouldBail THEN mainPc' = "failed" /\ Silent /\ UNCHANGED probing
       ELSE mainPc' \in {"reap", "saver"} /\ LogLifecycle /\ probing' = setup.probe
    /\ UNCHANGED <<setup, loopVars>> /\ SinksUnchanged

\* try_join_next: finished handlers leave the set; a panic is reported.
Ended == {c \in Clients : conn[c] \in {"finished", "panicked"}}
ReportFinishedTask(c) == IF conn[c] = "panicked" THEN LogError ELSE Silent
Join ==
    /\ mainPc \in {"reap", "drain"}
    /\ \E c \in Ended : conn' = [conn EXCEPT ![c] = "joined"] /\ ReportFinishedTask(c)
    /\ UNCHANGED <<setup, routes, mainPc, permits, failures, asked, term, intr, probing>> /\ SinksUnchanged
Reaped ==
    /\ mainPc = "reap" /\ Ended = {}
    /\ mainPc' = "select" /\ intr' = FALSE
    /\ UNCHANGED <<setup, routes, conn, permits, failures, asked, term, logVars>>

\* The accept arm: the address filter, the cap, the handler's task.
Allowed(c) == c \notin setup.blocked
\* Mutant: at capacity the loop waits for a slot.
AcceptQueues ==
    /\ mainPc = "select" /\ mainPc' = "reap"
    /\ \E c \in Clients :
          /\ conn[c] = "waiting"
          /\ IF ~Allowed(c) THEN conn' = [conn EXCEPT ![c] = "filtered"] /\ LogError /\ UNCHANGED permits
             ELSE /\ permits > 0
                  /\ conn' = [conn EXCEPT ![c] = "running"] /\ permits' = permits - 1 /\ Silent
    /\ UNCHANGED <<setup, routes, failures, asked, term, intr, probing>> /\ SinksUnchanged
Accept ==
    /\ mainPc = "select" /\ mainPc' = "reap"
    /\ \E c \in Clients :
          /\ conn[c] = "waiting"
          /\ CASE ~Allowed(c) ->
                     conn' = [conn EXCEPT ![c] = "filtered"] /\ LogError /\ UNCHANGED permits
               [] Allowed(c) /\ permits = 0 ->
                     conn' = [conn EXCEPT ![c] = "overload"] /\ LogError /\ UNCHANGED permits
               [] Allowed(c) /\ permits > 0 ->
                     conn' = [conn EXCEPT ![c] = "running"] /\ permits' = permits - 1 /\ Silent
    /\ UNCHANGED <<setup, routes, failures, asked, term, intr, probing>> /\ SinksUnchanged
\* A failing accept is followed by a pause outside the select.
AcceptFails ==
    /\ mainPc = "select" /\ failures < MaxFailures
    /\ mainPc' = "sleep" /\ failures' = failures + 1 /\ LogError
    /\ UNCHANGED <<setup, routes, conn, permits, asked, term, intr, probing>> /\ SinksUnchanged
SleepOver ==
    /\ mainPc = "sleep" /\ mainPc' = "reap"
    /\ UNCHANGED <<setup, routes, loopVars, logVars>>

\* Mutant: a panic keeps the permit.
HandlerEndsLeaking ==
    /\ \E c \in Running, how \in {"finished", "panicked"} :
          /\ conn' = [conn EXCEPT ![c] = how]
          /\ permits' = IF how = "finished" THEN permits + 1 ELSE permits
          /\ Silent \/ (how = "finished" /\ (LogLifecycle \/ LogError))
    /\ UNCHANGED <<setup, routes, mainPc, failures, asked, term, intr, probing>> /\ SinksUnchanged
\* A handler ends; its permit goes with its future, on a panic too.
HandlerEnds ==
    /\ \E c \in Running, how \in {"finished", "panicked"} :
          /\ conn' = [conn EXCEPT ![c] = how]
          /\ Silent \/ (how = "finished" /\ (LogLifecycle \/ LogError))
    /\ permits' = permits + 1
    /\ UNCHANGED <<setup, routes, mainPc, failures, asked, term, intr, probing>> /\ SinksUnchanged

\* The signals.  The SIGTERM stream lives as long as the loop; a ctrl_c future
\* lives for one select and hears only what arrives meanwhile.
Up == mainPc \in {"reap", "select", "sleep"}
\* Mutant: the stream is registered for each iteration.
TerminatePerIteration ==
    /\ Up /\ asked' = TRUE
    /\ term' = (term \/ mainPc = "select")
    /\ UNCHANGED <<setup, routes, mainPc, conn, permits, failures, intr, logVars>>
Terminate ==
    /\ Up /\ asked' = TRUE
    /\ term' = TRUE
    /\ UNCHANGED <<setup, routes, mainPc, conn, permits, failures, intr, logVars>>
Interrupt ==
    /\ Up /\ intr' = (intr \/ mainPc = "select")
    /\ UNCHANGED <<setup, routes, mainPc, conn, permits, failures, asked, term, logVars>>

\* A shutdown arm: the listener is closed, which resets what it had queued, and
\* nobody listens for signals any more.
StopAccepting ==
    /\ mainPc = "select" /\ (term \/ intr)
    /\ mainPc' = "drain" /\ LogLifecycle
    /\ term' = FALSE /\ intr' = FALSE
    /\ conn' = [c \in Clients |-> IF conn[c] = "waiting" THEN "reset" ELSE conn[c]]
    /\ UNCHANGED <<setup, routes, permits, failures, asked, probing>> /\ SinksUnchanged

\* The drain ends with the last handler, or with SHUTDOWN_DRAIN_SEC; the set is
\* dropped and its tasks cancelled.
Drained ==
    /\ mainPc = "drain" /\ Ended = {}
    /\ mainPc' = "saver" /\ LogLifecycle
    /\ conn' = [c \in Clients |-> IF conn[c] = "running" THEN "cancelled" ELSE conn[c]]
    /\ UNCHANGED <<setup, routes, permits, failures, asked, term, intr, probing>> /\ SinksUnchanged
SaverFinished ==
    /\ mainPc = "saver" /\ mainPc' = "join"
    /\ UNCHANGED <<setup, routes, loopVars, logVars>>

----------------------------------------------------------------------------
(* The log-drain task                                                      *)

LogUnchanged == UNCHANGED <<setup, routes, mainPc, loopVars, probing>>
Wedges == setup.wedge # None /\ wedged
FileStuck == Wedges /\ setup.wedge = "file"
ConsoleStuck(s) == Wedges /\ setup.wedge = s
ToConsole(f) == ~f \/ setup.alsoConsole

DrainOpen ==
    /\ drain.at = "open" /\ mainPc # "boot"
    /\ toFile' = (setup.file = "ok") /\ drain' = HandsFree("recv")
    /\ UNCHANGED <<queue, owed, inflight, wedged>> /\ LogUnchanged
DrainRecv ==
    /\ drain.at = "recv" /\ queue # <<>>
    /\ queue' = Tail(queue)
    /\ drain' = [at |-> IF toFile THEN "file" ELSE "console", line |-> Head(queue).line, to |-> Head(queue).to]
    /\ UNCHANGED <<owed, toFile, inflight, wedged>> /\ LogUnchanged
\* The line is in the file, and the console may get a copy; or the file is given
\* up and the console has it.
ForConsole(inFile) ==
    [at |-> "console", line |-> IF inFile THEN "copy" ELSE drain.line, to |-> drain.to]
\* Mutant: what the file did not take is not written to the console.
DrainFileSwallows ==
    /\ drain.at = "file" /\ ~FileStuck
    /\ \E ok \in BOOLEAN :
          /\ toFile' = ok /\ owed' = IF ok THEN owed - Counts(drain.line) ELSE owed
          /\ drain' = IF setup.alsoConsole THEN ForConsole(ok) ELSE HandsFree("recv")
    /\ UNCHANGED <<queue, inflight, wedged>> /\ LogUnchanged
DrainFile ==
    /\ drain.at = "file" /\ ~FileStuck
    /\ \E ok \in BOOLEAN :
          /\ toFile' = ok /\ owed' = IF ok THEN owed - Counts(drain.line) ELSE owed
          /\ drain' = IF ToConsole(ok) THEN ForConsole(ok) ELSE HandsFree("recv")
    /\ UNCHANGED <<queue, inflight, wedged>> /\ LogUnchanged
\* A console write is handed to the blocking pool once the one before it to the
\* same stream is done; neither stream is ever flushed.
DrainConsole ==
    /\ drain.at = "console" /\ inflight[drain.to] = None
    /\ inflight' = [inflight EXCEPT ![drain.to] = drain.line]
    /\ drain' = HandsFree("recv")
    /\ UNCHANGED <<queue, owed, toFile, wedged>> /\ LogUnchanged
ConsoleWritten ==
    /\ mainPc # "exited"
    /\ \E s \in Consoles :
          /\ inflight[s] # None /\ ~ConsoleStuck(s)
          /\ inflight' = [inflight EXCEPT ![s] = None] /\ owed' = owed - Counts(inflight[s])
    /\ UNCHANGED <<queue, drain, toFile, wedged>> /\ LogUnchanged
DrainEnds ==
    /\ drain.at = "recv" /\ queue = <<>> /\ ~ChannelOpen
    /\ drain' = HandsFree("done")
    /\ UNCHANGED <<queue, owed, toFile, inflight, wedged>> /\ LogUnchanged

Wedge ==
    /\ setup.wedge # None /\ ~wedged /\ wedged' = TRUE /\ mainPc \notin {"boot", "failed", "exited"}
    /\ UNCHANGED <<queue, owed, drain, toFile, inflight>> /\ LogUnchanged

\* A detached probe logs and ends, at any time.
ProbeEnds ==
    /\ probing /\ mainPc # "exited" /\ probing' = FALSE /\ \E s \in Consoles : Send("probe", s)
    /\ UNCHANGED <<setup, routes, mainPc, loopVars>> /\ SinksUnchanged

----------------------------------------------------------------------------
(* shutdown_log_drain, run_with_bounded_teardown                           *)

\* The task is joined, or LOG_DRAIN_TIMEOUT_SEC is over: enough for a backlog
\* on a sink that works, so that only a stuck sink or an open channel takes it.
Idling == queue = <<>> /\ drain.at = "recv"
JoinLog ==
    /\ mainPc = "join"
    /\ \/ drain.at = "done" /\ mainPc' = "teardown"
       \/ drain.at # "done" /\ (Wedges \/ Idling) /\ mainPc' = "report"
    /\ UNCHANGED <<setup, routes, loopVars, logVars>>
\* emit_shutdown_diagnostic, bounded by SHUTDOWN_DIAGNOSTIC_TIMEOUT_SEC.
Diagnose ==
    /\ mainPc = "report" /\ mainPc' = "teardown"
    /\ UNCHANGED <<setup, routes, loopVars, logVars>>
\* The runtime is dropped within SHUTDOWN_TEARDOWN_TIMEOUT_SEC.  A blocking
\* operation that was not started yet is dropped with it.
ProcessExits ==
    /\ mainPc = "teardown" /\ mainPc' = "exited"
    /\ UNCHANGED <<setup, routes, loopVars, logVars>>

Connects ==
    /\ Up
    /\ \E c \in Clients : conn[c] = "away" /\ conn' = [conn EXCEPT ![c] = "waiting"]
    /\ UNCHANGED <<setup, routes, mainPc, permits, failures, asked, term, intr, logVars>>

LogSteps == DrainOpen \/ DrainRecv \/ DrainFile \/ DrainConsole \/ ConsoleWritten \/ DrainEnds
MainSteps == Boot \/ Join \/ Reaped \/ SleepOver \/ Drained \/ SaverFinished \/ JoinLog \/ Diagnose \/ ProcessExits
ServerNext ==
    \/ MainSteps \/ Accept \/ AcceptFails \/ StopAccepting
    \/ HandlerEnds \/ Connects \/ Terminate \/ Interrupt
    \/ (mainPc # "exited" /\ LogSteps) \/ Wedge \/ ProbeEnds

\* select! polls its arms in random order, so an arm that is ready again and
\* again is taken; handlers, probes and peers owe nothing.
ServerFairness ==
    /\ WF_serverVars(MainSteps) /\ WF_serverVars(mainPc # "exited" /\ LogSteps)
    /\ SF_serverVars(Accept) /\ SF_serverVars(StopAccepting)
ServerSpec == ServerInit /\ [][ServerNext]_serverVars /\ ServerFairness

----------------------------------------------------------------------------
(* Properties                                                              *)

\* A SIGTERM ends the process, whenever it arrives: with handlers that never
\* return, accepts that fail, a stuck log sink and a probe that keeps the log
\* channel open.
SigtermStops == asked ~> mainPc = "exited"

\* A client is turned away for lack of room only when MaxClients handlers really
\* run, whatever handlers did before: no panic or early return loses a slot.
OverloadIsFull ==
    [][\A c \in Clients : conn[c] = "waiting" /\ conn'[c] = "overload" => Cardinality(Running) = MaxClients]_serverVars

\* A client that connects is served, or turned away at once, never queued behind
\* handlers that may not end; and it is turned away only when the server is full.
ClientsAnswered ==
    /\ \A c \in Clients : conn[c] = "waiting" ~> conn[c] # "waiting"
    /\ OverloadIsFull

\* No line of the server or of a handler that entered the log is lost, up to the
\* shutdown's own, unless a sink is stuck: each is in the file or, from the first
\* failure of the file on, on the console.  Only the last line of each of the two
\* streams may be missing: they are not flushed, so the runtime may go before
\* that write was started.
LogFlushed ==
    mainPc = "exited" /\ ~Wedges => owed = Counts(inflight["stdout"]) + Counts(inflight["stderr"])

\* Start-up gives every valid entry exactly one place; what it pre-connects and
\* probes directly is the outermost level of gates and the exits, never a gate
\* that is reached only through another; and it gives up exactly when no client
\* could be served.
Placed == FlattenSeq(routes.gates) \o FlattenSeq(routes.exits)
StartupIsSound ==
    mainPc # "boot" =>
        LET valid == {i \in DOMAIN setup.entries : setup.entries[i].ok}
            top == {i \in valid : \A j \in valid : setup.entries[j].level <= setup.entries[i].level}
        IN  /\ Len(Placed) = Cardinality(valid)
            /\ \A i \in valid : setup.entries[i] \in Range(Placed)
            /\ Range(FlattenSeq(routes.dialed)) =
                  {setup.entries[i] : i \in {j \in valid : setup.entries[j].level = 0} \cup top}
            /\ mainPc = "failed" <=> (\A i \in valid : setup.entries[i].level > 0) /\ ~setup.direct
=============================================================================
