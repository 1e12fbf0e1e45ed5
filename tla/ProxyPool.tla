----------------------------- MODULE ProxyPool -----------------------------
(***************************************************************************)
(* The pre-connect TCP pool of resocks5-net, for ONE endpoint (host, port): *)
(* every map of `ProxyPool` is keyed by the endpoint and no operation      *)
(* touches two keys, so endpoints do not interact.                         *)
(*                                                                         *)
(* Callers run `acquire`, `reserve_permit`, `checkout` and                 *)
(* `checkout_unguarded` on any worker thread, concurrently with the        *)
(* endpoint's refill task and with `spawn_refill_for` / `forget` / drop.   *)
(* A step of the model is a run of code between two points at which        *)
(* another thread can see or change what it uses.                          *)
(*                                                                         *)
(* `forget` starts a new generation of the endpoint.  A spare queue, its   *)
(* refill task and a cap semaphore are named by the generation in which    *)
(* they were created; 0 stands for "no entry in the map".                  *)
(***************************************************************************)
EXTENDS Integers, Sequences, FiniteSets

CONSTANTS
    Callers,         \* concurrent users of the pool, each with one connection
    MaxPerUpstream,  \* the configured cap of live connections
    MaxForgets,      \* bound: calls of `forget`
    Scenes           \* the callers that call, the configured number of spares,
                     \* and how often `forget` is called

ASSUME CallersAssumption == IsFiniteSet(Callers)
ASSUME SizesAssumption ==
    /\ MaxPerUpstream \in Nat /\ MaxForgets \in Nat
    /\ Scenes \subseteq [callers : SUBSET Callers, spare : Nat, forgets : 0 .. MaxForgets]

\* `new`: a zero cap is treated as one.
Cap == IF MaxPerUpstream = 0 THEN 1 ELSE MaxPerUpstream

Gens == 1 .. (MaxForgets + 1)
None == 0

Ops == {"acquire", "reserve", "checkout", "unguarded"}

\* A queued spare: usable, closed by the peer, or past max_session_age_sec.
Kinds == {"good", "dead", "stale"}

VARIABLES
    scene,       \* the scene of this run
    pools,       \* the published spare queue, or None
    caps,        \* the published cap semaphore, or None
    registered,  \* the queue whose refill task is in `refill_tasks`, or None
    admin,       \* progress of the holder of the `refill_tasks` lock
    forgets,     \* completed cap removals: the current generation is forgets + 1
    avail,       \* free permits of each semaphore
    queue,       \* the spares of each generation, oldest first
    notified,    \* the queue's Notify holds a stored wake-up
    semOf,       \* the semaphore a refill task captured when it was spawned
    task,        \* where each refill task is
    aborted,     \* abort() was called on the task's handle
    keepers,     \* spares popped by a recycling task and not yet pushed back
    pc, op,      \* each caller's control point and the operation it runs
    arc,         \* the queue or the semaphore a call holds an Arc of, or None
    hand,        \* the kind of the spare a caller just popped, or "none"
    permit       \* the semaphore whose permit the caller owns, or None

adminVars  == <<pools, caps, registered, admin, forgets>>
sharedVars == <<avail, queue, notified>>
taskVars   == <<semOf, task, aborted, keepers>>
callerVars == <<pc, op, arc, hand, permit>>
vars == <<scene, adminVars, sharedVars, taskVars, callerVars>>

-----------------------------------------------------------------------------
(* Helpers *)

\* `spawn_refill_for`: spare_per_proxy.max(1).min(max_per_upstream)
Target == LET atLeastOne == IF scene.spare = 0 THEN 1 ELSE scene.spare
          IN  IF atLeastOne <= Cap THEN atLeastOne ELSE Cap

Gen == forgets + 1

ReleaseForgets(s) == avail' = avail                              \* mutant
\* Dropping an OwnedSemaphorePermit of s.
Release(s) == avail' = [avail EXCEPT ![s] = @ + 1]

\* `try_acquire_owned` on s.
TryAcquire(s) == avail[s] > 0 /\ avail' = [avail EXCEPT ![s] = @ - 1]

NotifyNobody(p) == notified' = notified                          \* mutant
\* `notify_one`: at most one wake-up is stored.
NotifyOne(p) == notified' = [notified EXCEPT ![p] = TRUE]

Room(p) == Len(queue[p]) < Target

\* `upstream_semaphore`: the published semaphore, else a new one is published.
\* A semaphore is created with Cap permits, which Init already gives it.
UpstreamSemaphore == IF caps # None THEN caps ELSE Gen

\* A checkout by one of `some` holds an Arc of queue p.
Checkout(c) == pc[c] \in {"pop", "notify", "judge"}
ClonedBy(p, some) == \E c \in some : Checkout(c) /\ arc[c] = p

\* n permits of queue p's semaphore are released; if the last Arc of p goes
\* with them, so do the queue, its spares and their permits.
ReleaseAndDrop(p, n, last) ==
    /\ queue' = IF last THEN [queue EXCEPT ![p] = <<>>] ELSE queue
    /\ avail' = [avail EXCEPT ![semOf[p]] = @ + n + (IF last THEN Len(queue[p]) ELSE 0)]

Goto(c, label) == pc' = [pc EXCEPT ![c] = label]

Init ==
    /\ scene \in Scenes
    /\ pools = None /\ caps = None /\ registered = None
    /\ admin = "free" /\ forgets = 0
    /\ avail = [g \in Gens |-> Cap]
    /\ queue = [g \in Gens |-> <<>>] /\ keepers = [g \in Gens |-> <<>>]
    /\ notified = [g \in Gens |-> FALSE] /\ aborted = [g \in Gens |-> FALSE]
    /\ semOf = [g \in Gens |-> None] /\ task = [g \in Gens |-> "none"]
    /\ pc = [c \in Callers |-> "idle"] /\ op = [c \in Callers |-> "acquire"]
    /\ arc = [c \in Callers |-> None] /\ permit = [c \in Callers |-> None]
    /\ hand = [c \in Callers |-> "none"]

-----------------------------------------------------------------------------
(* Callers: checkout_prewarmed, checkout, checkout_unguarded *)

\* The pool exists (calls borrow it, so it is not being dropped).
Open == admin \notin {"drop", "gone"}

\* A checkout finds the published queue and clones its Arc.
CheckoutBegin(c, o) ==
    /\ Open /\ pc[c] = "idle" /\ o # "reserve" /\ pools # None
    /\ op' = [op EXCEPT ![c] = o]
    /\ arc' = [arc EXCEPT ![c] = pools]
    /\ Goto(c, "pop")
    /\ UNCHANGED <<scene, adminVars, sharedVars, taskVars, hand, permit>>

\* `queue.pop()` returned a spare; its socket and permit are in c's hands.
CheckoutPop(c) ==
    LET p == arc[c] IN
    /\ pc[c] = "pop" /\ queue[p] # <<>>
    /\ hand' = [hand EXCEPT ![c] = Head(queue[p])]
    /\ queue' = [queue EXCEPT ![p] = Tail(@)]
    /\ permit' = [permit EXCEPT ![c] = semOf[p]]
    /\ Goto(c, "notify")
    /\ UNCHANGED <<scene, adminVars, avail, notified, taskVars, op, arc>>

\* `queue.pop()` returned None: wake the refill task and drop the Arc.
\* (Had it been the last one, the queue dropped with it would be empty.)
CheckoutEmpty(c) ==
    /\ pc[c] = "pop" /\ queue[arc[c]] = <<>>
    /\ NotifyOne(arc[c])
    /\ arc' = [arc EXCEPT ![c] = None]
    /\ Goto(c, IF op[c] = "acquire" THEN "sem" ELSE "idle")
    /\ UNCHANGED <<scene, adminVars, avail, queue, taskVars, op, hand, permit>>

CheckoutNotify(c) ==
    /\ pc[c] = "notify"
    /\ NotifyOne(arc[c])
    /\ Goto(c, "judge")
    /\ UNCHANGED <<scene, adminVars, avail, queue, taskVars, op, arc, hand, permit>>

\* The spare is fresh and alive: the caller has a connection.  The unguarded
\* checkout drops the permit here and keeps the bare socket.
CheckoutKeep(c) ==
    LET p == arc[c]
        bare == op[c] = "unguarded"
        last == pools # p /\ task[p] = "dead" /\ ~ClonedBy(p, Callers \ {c})
    IN
    /\ pc[c] = "judge" /\ hand[c] = "good"
    /\ hand' = [hand EXCEPT ![c] = "none"]
    /\ arc' = [arc EXCEPT ![c] = None]
    /\ permit' = IF bare THEN [permit EXCEPT ![c] = None] ELSE permit
    /\ ReleaseAndDrop(p, IF bare THEN 1 ELSE 0, last)
    /\ Goto(c, "live")
    /\ UNCHANGED <<scene, adminVars, notified, taskVars, op>>

\* The spare is stale or dead: socket and permit are dropped, try the next.
CheckoutDiscard(c) ==
    /\ pc[c] = "judge" /\ hand[c] # "good"
    /\ hand' = [hand EXCEPT ![c] = "none"]
    /\ permit' = [permit EXCEPT ![c] = None]
    /\ Release(permit[c])
    /\ Goto(c, "pop")
    /\ UNCHANGED <<scene, adminVars, queue, notified, taskVars, op, arc>>

-----------------------------------------------------------------------------
(* Callers: reserve_permit and the fresh connect of acquire *)

\* A gate path reserves a slot for a tunnelled hop, or `acquire` found no
\* published queue and goes on to a fresh connect.
ReserveBegin(c, o) ==
    /\ Open /\ pc[c] = "idle"
    /\ o = "reserve" \/ (o = "acquire" /\ pools = None)
    /\ op' = [op EXCEPT ![c] = o]
    /\ Goto(c, "sem")
    /\ UNCHANGED <<scene, adminVars, sharedVars, taskVars, arc, hand, permit>>

\* Clone the endpoint's semaphore, publishing it on first use.
GetSemaphore(c) ==
    /\ pc[c] = "sem"
    /\ caps' = UpstreamSemaphore
    /\ arc' = [arc EXCEPT ![c] = UpstreamSemaphore]
    /\ Goto(c, "try")
    /\ UNCHANGED <<scene, pools, registered, admin, forgets, sharedVars, taskVars, op, hand, permit>>

\* A reserved slot: `acquire` dials under it, a tunnelled hop is live at once.
Reserved(c, s) ==
    /\ permit' = [permit EXCEPT ![c] = s]
    /\ arc' = [arc EXCEPT ![c] = None]
    /\ Goto(c, IF op[c] = "acquire" THEN "dial" ELSE "live")

\* Either of the two `try_acquire_owned` calls succeeds.
ReserveTake(c) ==
    /\ pc[c] \in {"try", "retry"}
    /\ TryAcquire(arc[c])
    /\ Reserved(c, arc[c])
    /\ UNCHANGED <<scene, adminVars, queue, notified, taskVars, op, hand>>

\* The first try fails; then there is no idle spare to take apart.
ReserveMiss(c) ==
    /\ \/ pc[c] = "try" /\ avail[arc[c]] = 0 /\ Goto(c, "steal")
       \/ pc[c] = "steal" /\ (pools # None => queue[pools] = <<>>) /\ Goto(c, "retry")
    /\ UNCHANGED <<scene, adminVars, sharedVars, taskVars, op, arc, hand, permit>>

\* Pop an idle spare.  The map's read guard is held until the spare has been
\* taken apart, so `forget` cannot remove the queue in between.
ReservePop(c) ==
    /\ pc[c] = "steal" /\ pools # None /\ queue[pools] # <<>>
    /\ hand' = [hand EXCEPT ![c] = Head(queue[pools])]
    /\ queue' = [queue EXCEPT ![pools] = Tail(@)]
    /\ permit' = [permit EXCEPT ![c] = semOf[pools]]
    /\ Goto(c, "strip")
    /\ UNCHANGED <<scene, adminVars, avail, notified, taskVars, op, arc>>

\* Drop the spare's stream, wake the refill task, keep the permit.
ReserveStrip(c) ==
    /\ pc[c] = "strip"
    /\ hand' = [hand EXCEPT ![c] = "none"]
    /\ NotifyOne(pools)
    /\ Reserved(c, permit[c])
    /\ UNCHANGED <<scene, adminVars, avail, queue, taskVars, op>>

\* The second try fails as well: AtCapacity.
AtCapacity(c) ==
    /\ pc[c] = "retry" /\ avail[arc[c]] = 0
    /\ arc' = [arc EXCEPT ![c] = None]
    /\ Goto(c, "idle")
    /\ UNCHANGED <<scene, adminVars, sharedVars, taskVars, op, hand, permit>>

DialDoneDropsPermit(c) ==                                        \* mutant
    /\ pc[c] = "dial"
    /\ permit' = [permit EXCEPT ![c] = None] /\ Release(permit[c])
    /\ Goto(c, "live")
    /\ UNCHANGED <<scene, adminVars, queue, notified, taskVars, op, arc, hand>>
DialDone(c) ==
    /\ pc[c] = "dial"
    /\ Goto(c, "live")
    /\ UNCHANGED <<scene, adminVars, sharedVars, taskVars, op, arc, hand, permit>>

\* The dial fails, times out or is cancelled; or a live connection ends.
\* Dropping the UpstreamStream releases whatever permit it carries.
Close(c) ==
    /\ pc[c] \in {"dial", "live"}
    /\ permit' = [permit EXCEPT ![c] = None]
    /\ IF permit[c] # None THEN Release(permit[c]) ELSE avail' = avail
    /\ Goto(c, "idle")
    /\ UNCHANGED <<scene, adminVars, queue, notified, taskVars, op, arc, hand>>

-----------------------------------------------------------------------------
(* spawn_refill_for, forget and Drop, under the refill_tasks lock *)

\* The queue is published; a second spawn finds the entry and returns.
SpawnPublish ==
    /\ admin = "free" /\ pools = None
    /\ pools' = Gen
    /\ admin' = "spawn"
    /\ UNCHANGED <<scene, caps, registered, forgets, sharedVars, taskVars, callerVars>>

\* The task captures the semaphore, is spawned and registered; unlock.
SpawnRegister ==
    /\ admin = "spawn"
    /\ caps' = UpstreamSemaphore
    /\ semOf' = [semOf EXCEPT ![pools] = UpstreamSemaphore]
    /\ task' = [task EXCEPT ![pools] = "parked"]
    /\ registered' = pools
    /\ admin' = "free"
    /\ UNCHANGED <<scene, pools, forgets, sharedVars, aborted, keepers, callerVars>>

\* forget, first removal; it waits for readers holding the map's guard.
ForgetPools ==
    /\ admin = "free" /\ forgets < scene.forgets
    /\ \A c \in Callers : pc[c] # "strip"
    /\ pools' = None
    /\ admin' = "forget_caps"
    /\ UNCHANGED <<scene, caps, registered, forgets, sharedVars, taskVars, callerVars>>

ForgetCaps ==
    /\ admin = "forget_caps"
    /\ caps' = None
    /\ forgets' = forgets + 1
    /\ admin' = "forget_abort"
    /\ UNCHANGED <<scene, pools, registered, sharedVars, taskVars, callerVars>>

DetachRegistered == registered' = None /\ aborted' = aborted     \* mutant
AbortRegistered ==
    /\ registered' = None
    /\ aborted' = [g \in Gens |-> aborted[g] \/ g = registered]

\* forget aborts the task.  Drop aborts it when no call borrows the pool;
\* connections may outlive both.
AbortTasks ==
    /\ \/ admin = "forget_abort" /\ admin' = "free"
       \/ /\ admin = "free" /\ admin' = "drop"
          /\ \A c \in Callers : pc[c] \in {"idle", "live"}
    /\ AbortRegistered
    /\ UNCHANGED <<scene, pools, caps, forgets, sharedVars, semOf, task, keepers, callerVars>>

\* The maps go.  If the task has ended already, this was the queue's last Arc.
DropMaps ==
    /\ admin = "drop"
    /\ pools' = None /\ caps' = None
    /\ admin' = "gone"
    /\ IF pools # None /\ task[pools] = "dead" THEN ReleaseAndDrop(pools, 0, TRUE)
       ELSE UNCHANGED <<queue, avail>>
    /\ UNCHANGED <<scene, registered, forgets, notified, taskVars, callerVars>>

-----------------------------------------------------------------------------
(* The refill task of generation p.  Once abort() was called, tokio drops  *)
(* the task instead of polling it again, so an await that parked the task  *)
(* never returns.  A stored notification does not park it.                 *)

TaskGoto(p, from, to) == task[p] = from /\ task' = [task EXCEPT ![p] = to]

\* Steps that only move on: the first poll or the end of a backoff sleep; the
\* cap is spent, so sleep; the queue is full, so wait; the max_age timer fires;
\* everything is drained; every keeper is back.
TaskMove(p) ==
    /\ \/ TaskGoto(p, "parked", "top") /\ ~aborted[p]
       \/ TaskGoto(p, "top", "parked") /\ Room(p) /\ avail[semOf[p]] = 0
       \/ TaskGoto(p, "top", "waiting") /\ ~Room(p)
       \/ TaskGoto(p, "waiting", "draining") /\ ~aborted[p]
       \/ TaskGoto(p, "draining", "refilling") /\ queue[p] = <<>>
       \/ TaskGoto(p, "refilling", "top") /\ keepers[p] = <<>>
    /\ UNCHANGED <<scene, adminVars, sharedVars, semOf, aborted, keepers, callerVars>>

\* Below target and a permit is free: connect under it.
TaskDial(p) ==
    /\ TaskGoto(p, "top", "connecting") /\ Room(p)
    /\ TryAcquire(semOf[p])
    /\ UNCHANGED <<scene, adminVars, queue, notified, semOf, aborted, keepers, callerVars>>

\* ArrayQueue::push: a spare that finds no room is dropped with its permit.
Push(p, kind) ==
    IF Room(p) THEN queue' = [queue EXCEPT ![p] = Append(@, kind)] /\ avail' = avail
    ELSE queue' = queue /\ Release(semOf[p])

TaskConnected(p) ==
    /\ TaskGoto(p, "connecting", "top") /\ ~aborted[p]
    /\ Push(p, "good")
    /\ UNCHANGED <<scene, adminVars, notified, semOf, aborted, keepers, callerVars>>

\* Error or timeout: the permit is dropped before the backoff sleep.
TaskConnectFailed(p) ==
    /\ TaskGoto(p, "connecting", "parked") /\ ~aborted[p]
    /\ Release(semOf[p])
    /\ UNCHANGED <<scene, adminVars, queue, notified, semOf, aborted, keepers, callerVars>>

TaskNotified(p) ==
    /\ TaskGoto(p, "waiting", "top") /\ notified[p]
    /\ notified' = [notified EXCEPT ![p] = FALSE]
    /\ UNCHANGED <<scene, adminVars, avail, queue, semOf, aborted, keepers, callerVars>>

\* Pop one spare: a stale one is dropped, any other is kept.
TaskDrain(p) ==
    /\ task[p] = "draining" /\ queue[p] # <<>>
    /\ queue' = [queue EXCEPT ![p] = Tail(@)]
    /\ IF Head(queue[p]) = "stale"
       THEN keepers' = keepers /\ Release(semOf[p])
       ELSE keepers' = [keepers EXCEPT ![p] = Append(@, Head(queue[p]))] /\ avail' = avail
    /\ UNCHANGED <<scene, adminVars, notified, semOf, task, aborted, callerVars>>

\* Push one keeper back.
TaskKeep(p) ==
    /\ task[p] = "refilling" /\ keepers[p] # <<>>
    /\ keepers' = [keepers EXCEPT ![p] = Tail(@)]
    /\ Push(p, Head(keepers[p]))
    /\ UNCHANGED <<scene, adminVars, notified, semOf, task, aborted, callerVars>>

\* Cancellation takes effect at an await point and drops the task's locals:
\* the permit of a connect in flight and the task's Arc of the queue.
TaskAbort(p) ==
    /\ aborted[p] /\ task[p] \in {"parked", "connecting", "waiting"}
    /\ task' = [task EXCEPT ![p] = "dead"]
    /\ ReleaseAndDrop(p, IF task[p] = "connecting" THEN 1 ELSE 0,
                      pools # p /\ ~ClonedBy(p, Callers))
    /\ UNCHANGED <<scene, adminVars, notified, semOf, aborted, keepers, callerVars>>

-----------------------------------------------------------------------------
(* The world: peers close idle sockets, time passes.  Spares age in queue  *)
(* order because only the refill task pushes.                              *)

SpareSpoils(p, i) ==
    /\ i \in 1 .. Len(queue[p])
    /\ \/ queue[p][i] = "good" /\ queue' = [queue EXCEPT ![p][i] = "dead"]
       \/ /\ queue[p][i] # "stale" /\ \A j \in 1 .. (i - 1) : queue[p][j] = "stale"
          /\ queue' = [queue EXCEPT ![p][i] = "stale"]
    /\ UNCHANGED <<scene, adminVars, avail, notified, taskVars, callerVars>>

-----------------------------------------------------------------------------
CallStart(c) == c \in scene.callers /\ \E o \in Ops : CheckoutBegin(c, o) \/ ReserveBegin(c, o)

\* The steps a call takes by itself once it has started.
CallStep(c) == \/ CheckoutPop(c) \/ CheckoutEmpty(c) \/ CheckoutNotify(c)
               \/ CheckoutKeep(c) \/ CheckoutDiscard(c)
               \/ GetSemaphore(c) \/ ReserveTake(c) \/ ReserveMiss(c)
               \/ ReservePop(c) \/ ReserveStrip(c) \/ AtCapacity(c)

TaskStep(p) == \/ TaskMove(p) \/ TaskDial(p) \/ TaskConnected(p) \/ TaskConnectFailed(p)
               \/ TaskNotified(p) \/ TaskDrain(p) \/ TaskKeep(p)

Next == \/ \E c \in Callers : CallStart(c) \/ CallStep(c) \/ DialDone(c) \/ Close(c)
        \/ SpawnPublish \/ SpawnRegister \/ ForgetPools \/ ForgetCaps \/ AbortTasks \/ DropMaps
        \/ \E p \in Gens : \/ TaskStep(p) \/ TaskAbort(p)
                           \/ \E i \in 1 .. Target : SpareSpoils(p, i)

Spec == Init /\ [][Next]_vars

\* Calls and lock holders are synchronous code, a task is polled whenever it
\* is ready, every connect and sleep is bounded, and a cancelled task is
\* dropped at its next await.  Nothing is assumed of peers or of callers
\* that hold a connection.
Fairness == /\ \A c \in Callers : WF_vars(CallStep(c))
            /\ WF_vars(SpawnRegister \/ ForgetCaps \/ DropMaps)
            /\ WF_vars(admin = "forget_abort" /\ AbortTasks)
            /\ \A p \in Gens : WF_vars(TaskStep(p)) /\ WF_vars(TaskAbort(p))

FairSpec == Spec /\ Fairness

-----------------------------------------------------------------------------
(* Properties *)

AdminStates == {"free", "spawn", "forget_caps", "forget_abort", "drop", "gone"}
TaskStates  == {"none", "parked", "top", "connecting", "waiting", "draining", "refilling", "dead"}
PcStates    == {"idle", "pop", "notify", "judge", "sem", "try", "steal", "strip", "retry",
                "dial", "live"}
GenOrNone   == Gens \cup {None}

\* Every variable has its type; a queue never exceeds its ArrayQueue capacity.
TypeOK ==
    /\ scene \in Scenes
    /\ pools \in GenOrNone /\ caps \in GenOrNone /\ registered \in GenOrNone
    /\ admin \in AdminStates /\ forgets \in 0 .. MaxForgets
    /\ avail \in [Gens -> 0 .. Cap]
    /\ queue \in [Gens -> Seq(Kinds)] /\ keepers \in [Gens -> Seq(Kinds)]
    /\ \A g \in Gens : Len(queue[g]) + Len(keepers[g]) <= Target
    /\ notified \in [Gens -> BOOLEAN] /\ aborted \in [Gens -> BOOLEAN]
    /\ semOf \in [Gens -> GenOrNone] /\ task \in [Gens -> TaskStates]
    /\ pc \in [Callers -> PcStates] /\ op \in [Callers -> Ops]
    /\ arc \in [Callers -> GenOrNone] /\ permit \in [Callers -> GenOrNone]
    /\ hand \in [Callers -> Kinds \cup {"none"}]

\* Permits of semaphore s owned by callers, and by the refill task and its
\* spares (the generation's queue is charged to one semaphore).
Holders(s) == {c \in Callers : permit[c] = s}
SparePermits(g) == Len(queue[g]) + Len(keepers[g]) + (IF task[g] = "connecting" THEN 1 ELSE 0)

\* No permit is leaked or released twice, whatever path drops it (a failed or
\* cancelled dial, a discarded spare, an abort, the drop of a forgotten queue):
\* the free permits of a semaphore and the ones in use always add up to the cap.
PermitsConserved ==
    \A g \in Gens :
        avail[g] + Cardinality(Holders(g)) + (IF semOf[g] = g THEN SparePermits(g) ELSE 0) = Cap

\* The published queue is charged to the published semaphore, so a spare and a
\* fresh connection always draw on the same budget (forget removes the queue
\* before the semaphore; spawn_refill_for publishes before it captures).
QueueOnPublishedCap ==
    pools # None /\ admin # "spawn" => semOf[pools] = caps

\* A refill task that is not being cancelled is the registered one: forget and
\* drop can always reach it, and there is at most one per endpoint.
OneLiveRefill ==
    \A g \in Gens : task[g] \notin {"none", "dead"} /\ ~aborted[g] => registered = g

\* A caller is between popping a spare of g and waking the refill task.
AboutToNotify(g) ==
    \E c \in Callers : \/ pc[c] = "notify" /\ arc[c] = g
                       \/ pc[c] = "strip" /\ pools = g

\* No lost wake-up: a refill task that waits with no stored notification has a
\* full queue, unless the caller that popped a spare has yet to notify it.
NoLostWakeup ==
    \A g \in Gens : (task[g] = "waiting" /\ ~notified[g])
                       => (Len(queue[g]) = Target \/ AboutToNotify(g))

\* A caller has an open socket to the endpoint, or is dialling one.
Socket(c) == hand[c] # "none" \/ pc[c] = "dial" \/ (pc[c] = "live" /\ op[c] # "reserve")

\* The bound of the module's documentation: within one generation the live
\* connections, spares and refill dials to the endpoint stay within the cap.
\* Only checkout_unguarded hands out a socket that is not counted.
WithinCap ==
    LET counted == {c \in Callers : Socket(c) /\ ~(op[c] = "unguarded" /\ pc[c] = "live")} IN
    /\ forgets = 0 => Cardinality(counted) + SparePermits(1) <= Cap
    /\ \A c \in counted : permit[c] # None

\* A forgotten generation winds down: its task ends and its spares are closed.
ForgottenDrains ==
    \A g \in Gens : (g < Gen /\ admin = "free") ~> (task[g] \in {"none", "dead"} /\ queue[g] = <<>>)
=============================================================================
