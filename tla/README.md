# resocks5: a TLA+ verification project

resocks5 is a SOCKS5/HTTP proxy that forwards each client connection through
one of many upstream proxies, possibly behind chains of gate proxies. The
repository has two crates: `resocks5-net` (the library: pool, ratings, chains,
dialling, inbound server) and `resocks5` (the application: configuration,
authentication, client handlers, health file, start-up and shutdown).

These modules model the parts of it whose correctness depends on the order of
events: tasks and threads racing over shared state, files shared between
processes, crashes, timeouts, and walks over state that changes under them.
TLC checks each module on small instances; TLAPS proves the central results of
eleven of them for all values of their constants.

`PROJECT.json` holds the details a reader needs beside this text: the source
lines of every definition (`map`), a plausible bug per property that the
property catches (`mutants`), and the hazards with the properties that cover
them.

## Inventory

| component | state | operations | what is hard |
|---|---|---|---|
| TCP pool (`session/pool/proxy_pool`) | per endpoint: queue of spares, cap semaphore, refill task, three maps | acquire, reserve_permit, checkout, spawn_refill_for, forget, drop, refill/recycle loop | permits move between queue, task, dial and caller without one lock; `forget` takes the three maps apart in separate sections; wake-ups |
| Hedged dialling (`connect/proxy_connect/hedged.rs`) | a JoinSet of attempts, handshake slot, `won` flag, report callback | launch, tick, dial, two checks of `won`, handshake, drain, cancel | two attempts ready at once; a panicking attempt; reports after the win |
| Init claim (`auth/state`, `config/users/users_file`) | hashes in memory, verify cache, users file, claim lock and gates, two semaphores | verify_async, claim phases, `resocks5 user ...` | two rivals for one account, an edit by another process, a crash or hang-up between rename and publication |
| Quarantine (`session/rating`, `rotator/probe.rs`, `establish_connection/probes.rs`) | per upstream: failure streak, trips, quarantine and lease deadlines | pick, success, hard failure, take due probes, probe outcomes, start-up check, save, restore | probes outliving leases, outcomes of client traffic racing probes, records of another run |
| Health saver (`server/health`) | health file, temp file, lock; saver task, its blocking write | resume, rounds, save, finish, teardown | writes that cannot be cancelled, crashes, a second instance, shutdown budgets |
| Chain plan (`session/chain`) | candidate layers, odometer, dead nodes, live counters | next, record_failure, mark_dead, exclude | nodes die between picks; subtrees are jumped; counters per layer |
| Sticky cache (`session/rotator`) | LRU and TTL map from target to route | link, get_linked, unlink | a route to a quarantined or replaced upstream |
| Sand rating (`session/rating/sand.rs`, `select.rs`) | floating-point weights | record, weighted order | numeric; random draws |
| Establishing (`establish_connection/dial.rs`, `route.rs`) | attempt budget, tried routes, queued candidates | sticky route, chains, hedged fallback, reports | one budget over three phases; reports after the call returned |
| Chain dialling (`connect/dial`, `connect/proxy_connect`) | a stream over hops, permits per node, a progress cell | five entry points, hop handshakes per protocol, stage attribution | partial chains and what they release; a total timeout reads the stage from a cell; who is charged for a failure |
| Tunnels and recovery (`connect/tunnel`, `server/tunnel`) | two copy directions, timers, the first bytes | hold, fragment, copy, half-close, idle and lifetime limits, recovery of the host | a hello cut into reads; bytes that move just as a timer fires; success announced before the dial |
| Accept loop, start-up, shutdown (`server/run_server.rs`, `bootstrap`, `logger`) | handlers, client limiter, signals, log channel and its drain | group upstreams, accept, drain, finish, join the log, teardown | bounded waits in sequence; handlers that never end or panic; stuck sinks |
| Client protocols (`server/handle`, `http_proxy`) | a session, a direct permit | address rule, authentication, routing, replies, hand-over | order of checks under one deadline |
| Inbound library server (`net/server`) | a partly read request | detect, negotiate, read the head, authenticate, prefix | read boundaries, repeated headers, deadline |
| TLS and ClientHello fragmentation (`connect/tls`, `recover_host.rs`) | buffers | records, hello classification, name recovery, fragmenting writer | decisions on incomplete data |
| Error classification (`error`) | none | counts_against_upstream, is_upstream_down | pure |
| Configuration and command line | files at start-up | load, validate, print | sequential |

How they interact: a client handler calls `establish_connection`, which asks
the rotators for a sticky route and starts due probes (Quarantine), walks a
`ChainPlan` of gates and exits, and falls back to `connect_hedged` over single
upstreams; every dial takes a permit and perhaps a spare from the `ProxyPool`;
every outcome is reported to the rotators, whose quarantine cells the health
saver writes to a file and a restart reads back. Before all of this the accept
loop admits the connection, `accept` reads and authenticates its request
(Inbound, with InitClaim behind the verification), and the handler routes it
(Session); after it the tunnel copies. Authentication shares with the health
saver only the code that replaces a file atomically under a cross-process lock.
Along a connection the modules are: Server, Inbound (InitClaim), Session
(Establish over ChainPlan and Hedged, each dial a ChainDial over ProxyPool), Tunnel.

## Modules

Conventions. A step of a module is a run of code between two points at which
another task, thread or process can see or change what it uses: a lock section,
the code between two awaits, one system call on a shared file. A task dropped
at an await is an action; blocking work (`spawn_blocking`) runs on. An operator
marked `mutant` is a plausible bug of the definition below it and is used by no
specification.

### ProxyPool

One endpoint: every map is keyed by the endpoint and no operation touches two
keys. A generation starts with every `forget`; queue, semaphore and refill task
are named by the generation that created them, so an old refill task and a new
one can be told apart. Callers run `acquire`, `reserve_permit`, `checkout` and
`checkout_unguarded`; the refill task runs its top-up, dial, wait and recycle
steps; an administrator runs `spawn_refill_for`, `forget` and the drop of the
pool under the `refill_tasks` lock. A spare is good, closed by the peer, or too
old. `WithinCap` is the bound of the module documentation, `PermitsConserved` the
accounting behind it; `NoLostWakeup` is about the refill task's unlocked view of
the queue, `ForgottenDrains` about `forget` racing everything else. The first conjunct of `WithinCap`
binds the callers of the first generation; a later one is bound by its permits. A `scene` says
which callers take part, how many spares are configured and how often `forget` is
called. `QueueOnPublishedCap` and `OneLiveRefill` are the structural facts behind
`PermitsConserved` and `ForgottenDrains`.

Observation: `reserve_permit` answers `AtCapacity` also while the recycler holds
reclaimable spares, permits included, in its local list, although its
documentation (`proxy_pool/mod.rs:253`) says that happens only when the cap is
consumed by live connections and no spare can be reclaimed. The next attempt
succeeds.

### OneTunnel, Hedged, HedgedProofs

`OneTunnel` is the contract of `connect_hedged`: candidates settle one by one, at
most one gets a tunnel, a candidate is given up only because another one has
it, and the call fails only after all failed. `Hedged` models the coordinator (launch, tick, join, win,
failure, cancellation), each attempt task (dial, first check of `won`, slot,
second check, handshake, publication, panic) and the drain after the win.
`ImplementsOneTunnel` maps an attempt that has published or returned a tunnel to
`"tunnel"` and an attempt that vanished to `"failed"`.

### InitClaim

`verify_async` from admission to answer for accounts whose stored hash may be the
`init` sentinel: verify and claim permits, the per-account gate, the claim lock,
the users-file lock (polled, with a deadline), re-reading the file, temp file
and rename, directory sync, publication and roll-back in memory. The CLI edits
the file from another process; clients hang up at any await; the server
crashes. A hash is named by its password. The Windows commit path is not
modelled; the Unix one is.

### Backoff, Quarantine, QuarantineProofs

`Backoff` is `duration_for`, the doubling loop as a recursive function that
saturates; the assumption `DurationMatches` of `MCQuarantine`, which TLC evaluates,
compares it with `min(initial * 2^(t-1), max)` for policies up to 9 and 8 trips. `Quarantine` models the cells
of a rotator's upstreams. Deadlines are modelled by the time left; `Tick` counts all
of them down, so an expired deadline reads 0. Clients pick healthy upstreams
and report later; `TakeProbes` leases every upstream on probation; a probe
meets the upstream, settles or is dropped, perhaps after its lease. The
start-up check, `Save` and `Restart` (from a file of any age) cover the paths by which
records enter the cells. `chain` says whether the upstream is an inner gate,
probed through a chain, or dialled directly.

Observation: `quarantine.rs:9` says an upstream on probation is handed out to one
holder at a time. The code does not promise that. A hard failure reported by
another path clears the lease and re-trips; when the lease is longer than that
quarantine, the first probe is still within its lease as a second one gets the
upstream. `startup.rs:347` derives the lease from the timeouts and the number of
gate levels and compares it with no quarantine: at the default values one gate
level makes it longer than the first one. `LeasesApart` is what holds for any
policy: two leases that run at once were taken at least `Initial` apart. The run has
a lease of 2 and a first quarantine of 1, so that such pairs occur in it; that one
probe holds an upstream at a time is the corollary for `Lease <= Initial`.

### HealthSaver

One or two instances sharing the health file: restore, lock, stale temp file,
the saving loop with its skip of unchanged pictures, the blocking write (reclaim,
create, fill, rename, directory sync) as a process of its own that outlives the
task awaiting it, `finish` with its two budgets, the bounded teardown and crashes. The file an
earlier run left may be there from the start. A restore is not the identity: a
quarantine that ran out while the process was down becomes probation, `trips` and
failures are filled up, and upstreams no longer listed are skipped. `Restores` says
what a start can make of a picture, and the saver's baseline is the picture after
the restore.

Observation: `start` calls this baseline "the state as it is on disk right after
the restore". Where the restore changed something, the file keeps the older picture
until the next change or the final save; restoring it again accounts for the same
cells, which is what `OnDisk` says in `SkipIsSafe` and `EventuallySaved`.

### ChainSupply, ChainPlan, ChainPlanProofs

The lazy walk over all chains. `layers` holds the candidates after `Deduplicate`,
`index` the odometer. `Bump(d)` turns it at layer d: it is `advance` for the last
layer and `jump_subtree` for the layer of the outermost dead node; both reset
the layers below and carry upwards. `next_pick`'s loop takes one step per
iteration. `record_failure` may be called for a chain resolved from the sticky
cache (whose nodes need not be in any layer), for the last pick or an earlier
one; `charged` is what it tells the rotators.

`ChainSupply` is the contract of the plan towards a request: it owes a set of
chains, offers any of them once, strikes those through a node that is found
dead, withdraws one that is excluded, and says it is exhausted only when it
owes none. `ImplementsSupply` maps the chains at or after the odometer that are
neither dead nor excluded to what is owed.

### Establish, EstablishProofs

One call of `establish_connection`, with `report_attempt`, in three phases. *Sticky*:
for each exit rotator (v6, then v4) the cache is read, the entry is judged, a
single upstream is queued for the race and a chain is dialled at once. *Walk*:
chains of the plan are dialled while `attempts + reserve` is below the budget.
*Race*: the queued and the remaining single upstreams, cut to what is left of
the budget, are raced. `pc` and `at` say where the call is; `attempts`, `reserve`,
`tried` and `queue` are the call's locals. A step ends at each lock another task can
take and at each await.

It composes two contracts: the plan is a `ChainSupply`, and the race does what
`OneTunnel` allows, with at most one winner and reports of failures before and
after the win. Chains are offered in any order, a superset of what the plan's
order gives. `ChainPlan` and `Hedged` are proved to implement the two contracts.

The rest of the process takes up to `MaxOthers` steps between any two of the
call: another request links or unlinks the target's entry, the entry expires or
is evicted, an upstream is quarantined or freed. Two cover the races that
matter: an entry that changes between read and judgement, and one change of an
entry with one of a gate. A cache configured for no entries is a link that
is evicted at once.

Observation: the comment at `dial.rs:41` says the reserve is one attempt "plus
one per queued sticky candidate". The code takes the larger of one and the
number queued, so with one queued sticky upstream that upstream is the
whole reserve.

### ChainDial

Up to two concurrent calls of the five ways to dial: `connect_chain` and
`connect_proxy` (socket and permits from the pool), `connect_proxy_once` and `dial_chain`
(no pool) and `dial_chain_over` (a stream of the caller's). A call refuses what it
can before dialling, acquires the outermost node, reserves a permit per inner
node, and then has one exchange after the other with each hop: the steps of its
protocol, a reply accepted, refused, foreign, cut off or timed out. A node is up,
down, silent, speaks another protocol or denies our credentials; it may change
while it is in use. `here` is the machine that dials: once it fails (no descriptor,
no answer of the resolver, no network) any connect or exchange may fail for a node
that works. The host of a node in `Misnamed` makes no TLS server name. `stage` and `err` are what the caller sees; `HardCharged` is what
`record_failure` makes of them. The pool is reduced to one semaphore per node, with
spares left out: ProxyPool shows that a spare's permit is the cap's. `held` is the
set of positions of its chain for which a call has a permit, so that a chain that
repeats a node holds as many of that node's permits as it passes through it.
`Target` is the code's `usize::MAX`, an encoding that a hop's number must not meet:
`Sizes` asks for chains shorter than `MaxUsize`.

`BlameIsDeserved` names four exceptions that are in the code. `tcp_dial` makes every
error of a connect a hard one, so a failure of the dialling machine is charged to
the node that was to be reached, and so is a TLS handshake it breaks. A host that
is no server name is a hard `Tls` error of its node before a byte is sent. A TLS
handshake runs end to end, so the fault of a node before an HTTPS node is charged
to the HTTPS node. And for a caller that passes no TLS connector the failure of an
HTTPS hop may be charged to a node that works; the application passes one whenever
an HTTPS upstream is configured. Every other error charges nobody or a node that
is out of order: the soft ones (refusals, malformed replies, timeouts of a request)
never count, whichever machine caused them.

### Inbound

One connection from the accepted socket to an `IncomingRequest`: `handle_client`'s
address rule, the library's `accept` with the protocol detection, the SOCKS5 and
the HTTP front, and the application's closure that verifies credentials and the
account's address rule. The client is a script. SOCKS5 messages are fields,
because they are read field by field; an HTTP wire is a sequence of characters
read in chunks of every size, in which `\r\n\r\n` has to be found and the limit
`MaxHeader` applied. Header lines are classified by what the parsers tell apart
(name, spacing, folding, value); of several `Proxy-Authorization` lines the first
decides (`AuthLine`). `Polling` is how an operation and the deadline
meet: `timeout` polls the operation first, so it may still win. Afterwards the
host takes username and credentials and reads the prefixed stream. Credentials
that are not text pass only over SOCKS5 and with `raw_credentials`; over HTTP they are
answered with 407 whatever that option says (`UnusableAuth`).

### Payload, Tunnel, Session

`Payload` is the parsers that decide on incomplete bytes: the TLS record walk, the
classification of a ClientHello, server name and Host. Bytes are small numbers
with a length field, a message type and a name; a wire has at most nine. The version
bytes of a record header, and the check of the major version, are left out with the
scaled-down header: the content type alone says what a record is.
`Tunnel` is `forward_tunnel`: the first bytes are held while they may become a
ClientHello, sent in fragments with pauses, then both directions are copied. Bytes
are numbered, so that loss, repetition and order can be seen. A TLS upstream
accepts bytes into a buffer; `Drain` is its transport taking them, which is the
only confirmed progress. `Tick` passes only when no timer is due. `Session` is the
two handlers: routing, the direct cap, establishing (an outcome; Establish
models how it comes about), replies, and recovery: success is announced, the
client's first bytes are awaited for a grace period, then also an upstream
dialled by address, and the destination follows the name found. `ClientBreaks` is
a read of the client, or a reply or banner to it, that fails meanwhile.

Observations. In the hold phase one idle window covers the upstream read and the
relay to a client that does not read, so a blocked client ends the tunnel as
stalled sooner than the idle time after the last byte. `IdleIsIdle` exempts this
relay alone (bytes for the client in hand and none for the upstream); the copy loop's
own end, `"idle"`, has no exemption. A byte counts when a side of the tunnel reads or
accepts it, or when the transport below TLS takes it; ciphertext that arrives
and completes no record is no byte of the model, and the code does not count it
either. The banner read during recovery is not counted by `tunnel_log`, whose
warning that the upstream sent nothing can then be wrong.

`recover_host.rs:174-182` says that once `http_host_might_still_appear` is false further
bytes are irrelevant. They are not: it stops at LF LF (`:201`) and at a first byte that
is no letter (`:189`), while `parse_http_host` trims a header's name (`:128`) and looks only
at the end of the request line. On a request with a bare LF before its Host line, or
before the request line, one read recovers the host and a cut after the LF dials the
address. The wires `LateFeed` and `EarlyFeed` have these two forms. `RightDestination`
therefore allows the requested address beside the host for streams that are
`IrregularHttp`, and only for them; without that clause the run finds the cut. A stream
that is a ClientHello and holds an HTTP request as well does not fit the seven bytes of
the peek window.

### Server

The process: start-up's grouping of the upstream lists into exits, gate levels
by descending rank and the directly dialled groups, and its refusal to start
without a route; the accept loop; SIGTERM and Ctrl+C; the bounded drain; the
health saver's `finish` as one step; the log channel, its drain task, file and
console; the bounded join and the teardown. Handlers run for any time, end or
panic. `owed` counts the server's log lines that entered the channel and are in
no sink. The console is two streams, stdout for lifecycle lines and stderr for errors,
each with one write that the blocking pool may still have. `OverloadIsFull` is the
safety half of `ClientsAnswered`.

Observations. The `ctrl_c()` future is made anew in every iteration of the loop, so
a Ctrl+C that arrives outside the select (in the pause after a failed accept, in
an arm's body) or together with another arm that is picked is forgotten, unlike
SIGTERM, whose stream outlives the iterations; a second Ctrl+C works. Detached
probes and the start-up check hold the logger, so the join of the drain can
time out, with its warning, although every line was written. The last line of each
console stream may not have been written when the runtime goes, because neither
is flushed (`LogFlushed` allows for exactly these). A panicked handler is reported at the
next iteration of the loop.

## Runs

| run | bounds | shows |
|---|---|---|
| `ProxyPool` | 2 callers, cap 2, 2 spares; or 1 caller, 1 spare, 1 forget; fair | `WithinCap`, `NoLostWakeup`, `PermitsConserved`, `ForgottenDrains`; two callers suffice to spend the cap while a spare is queued and another is dialled, one to hold an old queue or semaphore across `forget` |
| `Hedged` | 4 candidates, hedging on and off, fair | `ReportedOnce` (with its after-win flags), refinement of `OneTunnel`, `CallSettles`; four candidates allow one winner, one queued, one dialling and one pending |
| `InitClaim` | 2 clients (rivals or strangers), 1 verify and 1 claim slot, 1 edit, 1 crash, fair | `OnePassword`, `MemoryIsDurable`, `WritesOnlyClaims`, `CallsEnd` |
| `Quarantine` | 1 upstream, 2 probes, threshold 2, lengths 1-2, lease 2, 1 restart, fair | `LeasesApart`, `BackoffGrows`, `LiveUpstreamReturns`, and `DurationMatches`; the lease exceeds the first quarantine, so that two leases can overlap |
| `HealthSaver` | 1 instance with slow writes, or 2 instances with prompt writes and failing syncs; 3 pictures (2 for two instances), one of which a restore may turn into another, any old file, 1 crash, fair | `FileIsWhole`, `SkipIsSafe`, `EventuallySaved`, `ShutdownEnds` |
| `HealthSaver_handover` | 2 instances, slow writes | violation, see Findings |
| `ChainPlan` | 5 layouts of up to 3 layers and 4 chains, repeated offers, an empty layer, 1 exclusion, fair | `NextReturns`, refinement of `ChainSupply` |
| `Establish` | 9 set-ups: up to 2 gate levels, 2 gates in one level, 1 or 2 rotators that share an exit, budgets 0-4, a banned target; every initial cache; 2 steps of others | `ErrIsExhaustive`, `LinksTheWinner`; the budgets range from none to more than there is to dial |
| `ChainDial` | 4 nodes, one per protocol and one whose host is no server name, chains of 1-3 (one repeats a node), cap 2, every entry point against a rival chain in the opposite order, 1 node out of order and 1 node, or the machine, failing on the way, fair | `HopCapKept`, `BlameIsDeserved`, `StageIsWhereItStopped`, `DialsEnd`; the cap of 2 is spent by a chain that repeats a node |
| `Inbound` | every combination of options; SOCKS5 scripts with every choice of methods, credentials and request; HTTP heads around a limit of 8 in chunks of 1-3; fair | `AcceptedIsAuthorised`, `HeadIsChunkIndependent`, `PayloadIntact`, `AcceptReturns`; heads of 5 to 10 characters put the end before, at and past the limit and every read boundary inside it |
| `Session` | every route, protocol and outcome; recovery on eleven wires, two of them irregular HTTP; tunnels with every combination of idle, lifetime, TLS, fragmentation and closing sides; fragments of 2, idle 2 ticks; fair | `StreamsIntact`, `OneOutcome`, `IdleIsIdle`, `HelloGoesWhole`, `RightDestination`, `SessionEnds` |
| `Server` | 2 clients, 1 slot, 2 log slots, 1 failing accept, any signals; 5 upstream lists; a wedged file or console stream, an unopenable file, a probe; fair | `LogFlushed`, `StartupIsSound`, `SigtermStops`, `ClientsAnswered`; one slot suffices to be full, two log slots to drop a line |

Runs switch the deadlock check off where the system may stop: all calls have
ended, the process has exited, or a bound is used up.

`SkipIsSafe` is checked for one instance and without a failing directory sync.
Two observations delimit it, and
`EventuallySaved` likewise, beside the restore that is not the identity: the picture a starting process compares its first round with is
read before the lock is taken, so after a predecessor's last write the file may
hold the predecessor's picture until the next change or the final save; and a save whose directory sync
fails reports an error although the file was replaced.

### Fairness

* Hedged: weak fairness of the coordinator and of each attempt. Dials and
  handshakes have timeouts in the code, and tasks of the runtime run.
* ProxyPool: weak fairness of a caller's own steps, of the refill task, of
  the abort being noticed and of the holder of the `refill_tasks` lock. None of
  starting an operation, forgetting, or closing a connection.
* InitClaim: weak fairness of each call's steps, which include the deadline of
  the file lock. None of the CLI, which may hold the lock for ever.
* Quarantine: time passes, client traffic keeps asking for probes, a probe
  ends. Strong fairness that a probe meets its target within its lease: the
  lease is computed from the timeouts of a probe (`probes.rs`), and a chain
  probe that is deferred or dies on another hop is retried with other chains.
* HealthSaver: weak fairness of the saver task and of finish, which are bounded by
  timers. None of the disk: `ShutdownEnds` holds with a write that hangs for ever.
  `EventuallySaved` assumes, as its premise `DiskWorks`, that the disk answers and
  at some time stops failing.
* ChainPlan: weak fairness of the loop of `next_pick`, which has no await.
* ChainDial: weak fairness of each call's steps; every exchange has a timeout in
  the code. None of the nodes.
* Inbound: the deadline passes, and `accept` then returns. None of the client or
  of the verification.
* Session: the handler's own steps, the client deadline, and the passing of time in
  the tunnel with its timers. None of the client or the upstream. `SessionEnds` is
  stated for sessions with an idle or a lifetime limit: with both off (0) the code
  promises nothing.
* Server: weak fairness of the main task and of the log drain; strong fairness of
  accepting and of the shutdown arm, because `select!` polls its arms in random
  order. None of handlers, probes or sinks: a wedged sink never completes.

## Proofs

| module | theorems | argument |
|---|---|---|
| `HedgedProofs` | `TypeCorrect`, `ExclusiveHandshakeHolds`, `OneTunnelOnlyHolds`, `VerdictIsRightHolds`, `SequentialHolds`, `ReportedOnceHolds`, `Implements` | `IInv`: exactly the slot's holder is past the admission point (`SlotHeld`), `won` is true exactly if a tunnel exists and nobody handshakes under it (`WinPublished`), results and joins follow the life of an attempt (`Lifecycle`), and the coordinator's phase fits what it has joined (`CoordKnows`). None of the properties is inductive alone: that no second tunnel appears needs that `won` is published while the slot is still held. `ReportedOnce` adds `Logged`: the log lists exactly the joined attempts that left a result, each once, and whether a "Won" stands in it is the coordinator's phase. The refinement shows every step to be a step or a stutter of `OneTunnel`. |
| `QuarantineProofs` | `TypeCorrect`, `TrippedIsArmedHolds`, `LeaseOnlyOnProbationHolds`, `BackoffGrowsHolds`, `LeasesApartHolds`, corollary `OneHolder` | `CellInv` is kept by the three cell operations, which all actions are made of. `LeasesApart` needs `LeasesCovered`: while a probe's lease runs, its upstream is healthy, or carries that lease or a later one, or was tripped since, and then the lease has lost at least what has passed of a quarantine of `Initial` or more. `OneHolder` follows for `Lease <= Initial`, since no lease has more than `Lease` left. |
| `ChainPlanProofs` (ChainPlan) | `TypeCorrect`, `LiveCountsHold`, `NothingSkippedHolds`, `FreshPickHolds`, `Implements` | `Inv` adds to the properties that every returned chain is behind the odometer. The core is `BumpTurns`: turning at layer d moves strictly forward in lexicographic order and passes only positions that agree with the old one up to d, which are those with the dead node, or the chain just picked. It rests on the first layer in which two positions differ, from the well-foundedness of `<`. `Implements` follows: positions and chains correspond one to one (`ChainAtInjective`), so passing a position that is live removes exactly its chain from what is owed. |
| `ChainPlanProofs` (ChainDial) | `HopCapKeptHolds`, `BlameIsDeservedHolds`, `StageIsWhereItStoppedHolds` | `DialInv`: for every node the free permits and the positions held for it by all calls add up to the cap (the conservation that makes the cap inductive; a call takes or releases positions, so the sum is a cardinality and needs no fold); a call past its reservations holds a permit for every position; and the progress cell, the exchange in course and the hops opened so far agree. Blame follows from what a node's condition, its name and the state of the dialling machine let an exchange end with: every error that is charged names the condition that can cause it. |
| `EstablishProofs` | `Invariance`, `BudgetKeptHolds`, `NoRouteTwiceHolds`, `LinksTheWinnerHolds`, `ErrIsExhaustiveHolds` | `Inv` adds to the two properties the accounts of the budget (dialled = `attempts` + launched, and in the race `attempts` + queued is at most the budget), that `tried` covers the dialled and the queued routes, and that what is queued and not yet launched was never dialled. `QuietInv`, `DialInv` and `QueueInv` each treat one kind of step; the actions are reduced to them. `ErrIsExhaustive` needs the account of every offered route (`Offers`): a single upstream is tried once a slot can pay for it, a chain is still in the plan, dialled, or ruled out by a dead node; that the reserve is at most one slot or what is queued (`Queues`), so that holding slots back for single upstreams starves no chain for nothing; and that a placeholder plan stands only where the budget is gone (`Plans`). |
| `ProxyPoolProofs` | `Inductive`, `TypeCorrect`, `NoPermitLost`, `CapKept`, `WakeupKept`, `OneRefill`, `SameBudget` | A permit is free, in a caller's hands, with a queued spare, with a spare the recycler keeps, or in a refill dial; every step moves at most one between these places. What makes the sum inductive is `Generations`: a queue is charged to the semaphore of its own generation, a generation gets one queue, and `forget` removes the entries of a generation before the next begins. `InHand` says what a caller holds at each point of its call, `Stocked` and `Registered` what the task's state says of its queue. `CapKept` is then counting: callers with a socket are among the holders of permits. |
| `InitClaimProofs` | `Inductive`, `TypeCorrect`, `AccountOpensForOne`, `ClaimSurvives`, `OnlyClaimsWritten`, `AdmissionKept` | The invariant is about windows. Between the check that an account is unclaimed and the publication, a call holds `claim_lock`, so memory still says "init"; between reading the users file and the rename it also holds the OS lock, so the file, if it is still there, is the one that was read (`CallOf`). The semaphores are counted by the calls between taking and dropping a permit. |
| `HealthSaverProofs` (HealthSaver) | `TypeCorrect`, `PromptWritersHoldLock`, `FileAlwaysWhole`, `SkipsAreSafe` | `Lifecycle` and `LockKept` hold whatever the disk does: a blocking write is awaited by its task or outlives it in the teardown, and the lock is kept from before the saver starts until `finish` ends. `TempIsOurs` (a write past the creation of its temp file has that very file at its path) needs the hypothesis `NoSlowHandover`: a write that may outlast the shutdown budget never meets a second instance. `HealthSaver_handover` shows the hypothesis to be needed. `SkipsAreSafe` follows the baseline: it is what the start restored from the file, until a save of this process replaces both. |
| `HealthSaverProofs` (Server) | `LogFlushedHolds`, `OverloadIsFullHolds` | `HandlersInv`: the permits of the limiter and the handlers that run add up to `MaxClients`, whether a handler ends, panics or is dropped. `LogInv`: `owed` is the server's lines in the channel, in the drain's hand and in the last write of each console stream; once the log was joined on working sinks, the first two are empty (`Joined`), because the drain ends on a closed and empty channel (`DrainDone`). |
| `SessionProofs` (Session, Tunnel) | `Inductive`, `StreamsArriveWhole`, `ToldOnce`, `OnlySilenceIsCut`, `NeverBanned`, `HelloGoesWholeHolds` | `Streams`: what the upstream accepted followed by what is in hand is exactly the bytes read, from the request's pipelined bytes on, and the same the other way; every read extends it (`StreamGrows`), every write moves its boundary (`StreamMoves`). `Ends`: a direction that closed has nothing in hand and nothing unread. `Clock`: an armed timer's remainder plus the silence so far is the idle time unless progress was confirmed, and the copy loop's clock is never ahead of the silence. `Told`: the handler's place determines what has been announced, and a recovery that began too late has ended in silence. `HelloInv`, on top of these: before sending starts all that was read is in hand, so a decision to send was made on a prefix of the stream, which the signature alone classifies as a hello or not yet; whatever is read or sent later neither shortens that prefix nor undoes a reason for giving up. Of `Payload` only `Classify` is opened: the results hold whatever the record walk and the name parsers decide. |
| `SessionProofs` (Inbound) | `AcceptedIsAuthorisedHolds`, `HeadIsChunkIndependentHolds`, `PayloadIntactHolds` | `InboundInv` says what `accept` knows at each place. `WhoIsIt`: nothing is asked and nobody known until the credentials are complete; they are one of those the client supplied; only a client that was never asked for a password is anonymous. `WhereIsTheHead`: no end of the head lies in what has been read so far (`ScanFinds`: resuming three characters back misses none), so the first end a read finds is the first there is (`PrefixEnds`). `WhereIsThePayload`: how much of the wire precedes the payload. |

Where two parts appear under one module, it extends the modules of both, whose
names are disjoint (`DialSpec`, `ServerSpec` and `InboundSpec` beside the other
component's `Spec`): ChainDial beside ChainPlan, whose `record_failure` it feeds;
Server beside HealthSaver, whose `finish` it waits for; Inbound beside Session, which
takes over its request. The two proofs share no variables and no lemmas about either
component's steps.

Assumptions, all on constants and all evaluated by TLC: `N` is a natural number;
the quarantine policy is one `QuarantinePolicy::validate` accepts, and `LengthOf` is
monotonic between `Initial` and `MaxLen` (which `DurationMatches` gives for
`duration_for`); a plan's layers are sequences without repetition, which is what
`deduplicate` returns; the set of upstreams is finite, a set-up's levels and
rotators are not empty (an empty `ProxyRotator` cannot be constructed), and its budget is a natural number;
callers, clients and processes are finite sets; the pool's cap and the bounds on
forgets, edits and crashes are natural numbers, and the admission slots positive;
passwords, pictures and clients are none of the marks the models use for their absence;
a session's streams and limits are natural numbers, with the pipelined bytes a
beginning of what the client says, and buffers, fragments and caps are positive;
dialled chains are not empty and shorter than `MaxUsize`; the clients of the server
are a finite set and its sizes natural numbers; a script for `accept` is a sequence
of the characters the model tells apart with a sequence of header lines;
a restore makes some picture of every picture (`RestoresAssumption`).
Hypotheses other than these stand in the theorems: `Lease <= Initial` in the
corollary `OneHolder`, `NoSlowHandover` in `FileAlwaysWhole`, prompt writes in
`PromptWritersHoldLock`.

Only proved: `VerdictIsRight`, `OneTunnelOnly`, `SequentialWithoutHedging`,
`ExclusiveHandshake`, `TrippedIsArmed`, `LeaseOnlyOnProbation`, `OneHolder`, `LiveCounts`,
`NothingSkipped`, `FreshPick`, `BudgetKept`, `NoRouteTwice`, `OneLiveRefill`,
`QueueOnPublishedCap`, `PermitsAddUp`, the statements of `NeverBanned` and
`PromptWritersHoldLock` and the type invariants, for which a run on a small instance
adds nothing. Every other proved property is also checked by a run.

Only model-checked:

* every liveness property (the prover has no fairness or ENABLED reasoning);
* what a recursive definition computes (no induction over data): `DurationFor`; the
  destination of `RightDestination`, which is about the record walk and the line
  walk of `Payload` on two prefixes of one stream (its half about banned names is
  `NeverBanned`); and `StartupIsSound`, about what filtering and flattening do to a
  list of upstreams of any length.

Every other invariant and action property of a passing run is stated by a theorem.
Writing the proofs changed the models in one respect: several `CASE` expressions
had overlapping guards (`Classify` of `Payload`, the replies and charges of
`ChainDial`), of which TLC takes the first and TLA+ any; their guards are now
disjoint, in the order of the code's early returns.

## Findings

* `HealthSaver_handover`: `health/mod.rs` says two writers never race over the
  temp file because the lock is released only after the final write. A write
  that outlasts the shutdown budget runs on after the release.

The observations under the modules are smaller disagreements between a comment and
the code, or limits of what the code promises.

## Not modelled

* Sand rating and weighted selection: floating-point weights and random draws in
  sequential code. The models let a pick return any upstream it may return.
* The recency and expiry sets of the sticky cache: Establish lets an entry vanish
  at any time, which covers whatever they evict.
* Configuration files, the command line and its texts: sequential parsing without
  shared state. The CLI's edits of the users file are in InitClaim.
* Byte formats beyond what a decision needs (SOCKS5, HTTP and TLS encodings,
  Base64), cryptography, name resolution, the wording of log lines and the byte
  counters of `tunnel_log`, and the Windows file commit.

## Plan

All components with concurrent or failing steps have a module, and the safety
properties of eleven of them are proved. What would extend the project:

1. A proof of `RightDestination` and `StartupIsSound`, with a prover that does
   induction over sequences; for `RightDestination` the lemma is that what
   `Decided` has settled for a prefix holds for every longer one.
2. The Windows commit path of the users file, as a second way to commit in
   `InitClaim`.
3. The recency and expiry sets of the sticky cache, if the order of eviction comes
   to matter to a property.
