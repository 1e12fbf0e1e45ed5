----------------------------- MODULE Establish -----------------------------
(***************************************************************************)
(* establish_connection: one budget of upstream attempts spent in three    *)
(* phases.  Sticky routes are tried first: a cached chain is dialled at    *)
(* once, a cached single upstream is queued for the race.  Then chains are *)
(* dialled one by one from a lazily built plan, as long as the reserve of  *)
(* the last phase is not touched.  Then the queued and the remaining       *)
(* single upstreams race.  The plan is a ChainSupply, which ChainPlan      *)
(* implements; the race keeps the contract of OneTunnel, which Hedged      *)
(* implements.  Other requests, cache expiry and eviction, and probes      *)
(* change the sticky entries and the quarantine between any two steps.     *)
(***************************************************************************)
EXTENDS Integers, Sequences, FiniteSets

CONSTANTS
    Node,        \* upstream identities
    Setups,      \* configurations: gates (a set of nodes per level), exits
                 \* (one per rotator, v6 first), max_upstream_attempts, banned
    MaxOthers    \* bound on steps of the rest of the process

ASSUME NodeAssumption == IsFiniteSet(Node)
ASSUME SetupsAssumption ==
    \A s \in Setups : /\ s.gates \in Seq((SUBSET Node) \ {{}})
                      /\ s.exits \in Seq((SUBSET Node) \ {{}})
                      /\ s.max \in Nat /\ s.banned \in BOOLEAN
ASSUME MaxOthersAssumption == MaxOthers \in Nat

VARIABLES
    setup,       \* the configuration
    sticky,      \* the target's entry in the sticky cache of each exit rotator
    quarantined, \* cells whose upstream is quarantined or on probation
    others,      \* steps of the rest of the process so far
    pc,          \* where the request is
    at,          \* the rotator a loop over the exit rotators is at
    cached,      \* what get_linked read from the cache
    attempts, reserve, tried,
    queue,       \* `candidates`: rotator, route, cached
    plan,        \* "none", "real", or "placeholder" (a plan of no layers)
    left,        \* chains the plan still owes
    owner,       \* the rotator whose copy of an exit the plan uses
    pick,        \* the chain being dialled
    dead,        \* nodes the plan has marked dead
    fate,        \* the attempts launched in the race
    result,      \* "none", "ok", "error", "refused" or "cancelled"
    via,         \* the candidate that got the tunnel
    offered,     \* history: routes the plan and pick_order had to offer
    dials        \* history: routes dialled

shared == <<setup, others>>
search == <<attempts, reserve, tried, queue, dials>>
planned == <<plan, owner, offered>>
supplied == <<left, pick, dead>>
race == <<fate, via>>
vars == <<shared, sticky, quarantined, pc, at, cached, search, planned, supplied, race, result>>

NoRoute == <<>>
Nobody == [rot |-> 0, route |-> NoRoute, cached |-> FALSE]
Rotators == DOMAIN setup.exits
Levels == DOMAIN setup.gates

Exit(route) == route[Len(route)]
GateCell(l, n) == <<"gate", l, n>>
ExitCell(r, n) == <<"exit", r, n>>
Cells == UNION ({{GateCell(l, n) : n \in setup.gates[l]} : l \in Levels}
                  \cup {{ExitCell(r, n) : n \in setup.exits[r]} : r \in Rotators})

\* The cell of hop h of a route whose exit is rotator r's.
HopCell(route, h, r) == IF h = Len(route) THEN ExitCell(r, route[h]) ELSE GateCell(h, route[h])

\* The upstreams pick_order permutes: the healthy ones, or all if none is.
Selectable(nodes, healthy) == IF healthy = {} THEN nodes ELSE healthy
GateOrder(l) == Selectable(setup.gates[l], {n \in setup.gates[l] : GateCell(l, n) \notin quarantined})
ExitOrder(r) == Selectable(setup.exits[r], {n \in setup.exits[r] : ExitCell(r, n) \notin quarantined})

\* Chains of one gate per level and an exit, as a plan or a cache entry holds them.
ChainsOver(gates, exits) ==
    {c \in [1 .. Len(gates) + 1 -> Node] :
        Exit(c) \in exits /\ \A l \in DOMAIN gates : c[l] \in gates[l]}
Configured(r) == ChainsOver(setup.gates, setup.exits[r])
Singles(nodes) == {<<n>> : n \in nodes}

\* What link_proxy may have been given: a single upstream or a chain of r.
Linkable(r) == Singles(setup.exits[r]) \cup (IF setup.gates = <<>> THEN {} ELSE Configured(r))

Supply == INSTANCE ChainSupply WITH last <- pick, Supplies <- {}

Init == /\ setup \in Setups
        /\ sticky \in [Rotators -> UNION {Linkable(r) : r \in Rotators} \cup {NoRoute}]
        /\ \A r \in Rotators : sticky[r] \in Linkable(r) \cup {NoRoute}
        /\ quarantined = {} /\ others = 0
        /\ pc = "start" /\ at = 1 /\ cached = NoRoute
        /\ attempts = 0 /\ tried = {} /\ queue = <<>> /\ dials = <<>>
        /\ reserve = (IF Rotators = {} THEN 0 ELSE 1)
        /\ plan = "none" /\ owner = <<>> /\ offered = {}
        /\ left = {} /\ pick = NoRoute /\ dead = {}
        /\ fate = <<>> /\ via = Nobody /\ result = "none"

-----------------------------------------------------------------------------
(* Effects the phases share *)

Return(r) == result' = r /\ pc' = "done"

Unlink(r) == sticky' = [sticky EXCEPT ![r] = NoRoute]
Link(r, route) == sticky' = [sticky EXCEPT ![r] = route]

\* One attempt of the budget is spent on dialling a chain.
Dial(route) == /\ attempts' = attempts + 1
               /\ tried' = tried \cup {route}
               /\ dials' = Append(dials, route)
               /\ UNCHANGED <<reserve, queue>>

\* ChainPlan::new, from the pick_order of every level and exit rotator; an
\* exit offered by two rotators belongs to the first.
BuildPlan ==
    LET exits == UNION {ExitOrder(r) : r \in Rotators}
    IN  /\ plan' = "real"
        /\ left' = ChainsOver([l \in Levels |-> GateOrder(l)], exits)
        /\ offered' = offered \cup left'
        /\ owner' = [n \in exits |-> CHOOSE r \in Rotators :
                        n \in ExitOrder(r) /\ \A k \in 1 .. r - 1 : n \notin ExitOrder(k)]
        /\ UNCHANGED <<pick, dead>>

KeepPlan == UNCHANGED <<planned, supplied>>

\* ChainPick::record_success: every hop is healthy again.
RecordChainSuccess(route, r) ==
    quarantined' = quarantined \ {HopCell(route, h, r) : h \in DOMAIN route}

\* ChainPlan::record_failure: at most one hop is found dead, which strikes its
\* chains from the plan and may quarantine it.
RecordChainFailure(route, r) ==
    \/ UNCHANGED <<supplied, quarantined>>
    \/ \E h \in DOMAIN route :
          /\ Supply!Strike(route[h]) /\ dead' = dead \cup {route[h]}
          /\ \/ quarantined' = quarantined
             \/ quarantined' = quarantined \cup {HopCell(route, h, r)}

-----------------------------------------------------------------------------
(* Sticky routes *)

Start ==
    /\ pc = "start"
    /\ IF setup.banned THEN Return("refused") ELSE pc' = "read" /\ result' = result
    /\ UNCHANGED <<shared, sticky, quarantined, at, cached, search, planned, supplied, race>>

\* get_linked takes the cache's lock, and after it the ratings' lock.
ReadSticky ==
    /\ pc = "read" /\ at \in Rotators
    /\ cached' = sticky[at] /\ pc' = "judge"
    /\ UNCHANGED <<shared, sticky, quarantined, at, search, planned, supplied, race, result>>

\* `continue` with the next rotator.
NextRotator == pc' = "read" /\ at' = at + 1 /\ cached' = NoRoute /\ result' = result

Hidden == cached # NoRoute => ExitCell(at, Exit(cached)) \in quarantined
JudgeMiss ==
    /\ pc = "judge" /\ Hidden
    /\ NextRotator
    /\ UNCHANGED <<shared, sticky, quarantined, search, planned, supplied, race>>

\* A cached single upstream waits for the race, in a slot of its own.
RaiseReserve ==
    LET queued == Len(queue) + 1 IN IF reserve < queued THEN queued ELSE reserve
JudgeSingle ==
    /\ pc = "judge" /\ ~Hidden /\ Len(cached) = 1
    /\ IF cached \in tried THEN UNCHANGED search
       ELSE /\ queue' = queue \o <<[rot |-> at, route |-> cached, cached |-> TRUE]>>
            /\ tried' = tried \cup {cached}
            /\ reserve' = RaiseReserve
            /\ UNCHANGED <<attempts, dials>>
    /\ NextRotator
    /\ UNCHANGED <<shared, sticky, quarantined, planned, supplied, race>>

\* A chain that resolve no longer finds, or with a quarantined gate, is dropped.
GatesHealthy == \A l \in Levels : GateCell(l, cached[l]) \notin quarantined
Sound == cached \in Configured(at) /\ GatesHealthy
JudgeStale ==
    /\ pc = "judge" /\ ~Hidden /\ Len(cached) > 1 /\ ~Sound
    /\ Unlink(at) /\ NextRotator
    /\ UNCHANGED <<shared, quarantined, search, planned, supplied, race>>

JudgeTried ==
    /\ pc = "judge" /\ ~Hidden /\ Len(cached) > 1 /\ Sound /\ cached \in tried
    /\ NextRotator
    /\ UNCHANGED <<shared, sticky, quarantined, search, planned, supplied, race>>

JudgeChain ==
    /\ pc = "judge" /\ ~Hidden /\ Len(cached) > 1 /\ Sound /\ cached \notin tried
    /\ IF attempts >= setup.max
       THEN Return("error") /\ UNCHANGED <<search, pick>>
       ELSE Dial(cached) /\ pick' = cached /\ pc' = "cachedDial" /\ result' = result
    /\ UNCHANGED <<shared, sticky, quarantined, at, cached, planned, left, dead, race>>

CachedChainConnects ==
    /\ pc = "cachedDial"
    /\ RecordChainSuccess(pick, at)
    /\ via' = [rot |-> at, route |-> pick, cached |-> TRUE]
    /\ Return("ok")
    /\ UNCHANGED <<shared, sticky, at, cached, search, planned, supplied, fate>>

\* The first failure builds the plan, or a placeholder once the budget is spent.
BudgetLeftForTwo == attempts + reserve + 1 < setup.max             \* mutant
BudgetLeft == attempts + reserve < setup.max
PlanNeeded == BudgetLeft
CachedChainFails ==
    /\ pc = "cachedDial"
    /\ IF plan # "none" THEN KeepPlan
       ELSE IF PlanNeeded THEN BuildPlan
       ELSE plan' = "placeholder" /\ UNCHANGED <<owner, offered, supplied>>
    /\ pc' = "blame"
    /\ UNCHANGED <<shared, sticky, quarantined, at, cached, search, race, result>>

BlameCached ==
    /\ pc = "blame"
    /\ RecordChainFailure(pick, at) /\ Unlink(at) /\ NextRotator
    /\ UNCHANGED <<shared, search, planned, race>>

-----------------------------------------------------------------------------
(* The plan *)

\* After the last rotator the plan is built, unless a failure already did.
EnterWalk ==
    /\ pc = "read" /\ at \notin Rotators
    /\ IF setup.gates # <<>> /\ BudgetLeft /\ plan = "none" THEN BuildPlan ELSE KeepPlan
    /\ pc' = "walk"
    /\ UNCHANGED <<shared, sticky, quarantined, at, cached, search, race, result>>

Walking == setup.gates # <<>> /\ BudgetLeft
Fallback == pc' = "fallback" /\ at' = 1

LeaveWalk ==
    /\ pc = "walk"
    /\ \/ ~Walking /\ UNCHANGED <<left, pick>>
       \/ Walking /\ Supply!Exhausted
    /\ Fallback
    /\ UNCHANGED <<shared, sticky, quarantined, cached, search, planned, dead, race, result>>

DialUntried(chain) == IF chain \in tried THEN UNCHANGED <<search, pc>>
                      ELSE Dial(chain) /\ pc' = "walkDial"
WalkOn(chain) ==
    /\ pc = "walk" /\ Walking
    /\ Supply!Offer(chain)
    /\ DialUntried(chain)
    /\ UNCHANGED <<shared, sticky, quarantined, at, cached, planned, dead, race, result>>

ChainConnects ==
    LET r == owner[Exit(pick)]
    IN  /\ pc = "walkDial"
        /\ RecordChainSuccess(pick, r)
        /\ Link(r, pick)
        /\ via' = [rot |-> r, route |-> pick, cached |-> FALSE]
        /\ Return("ok")
        /\ UNCHANGED <<shared, at, cached, search, planned, supplied, fate>>

ChainFails ==
    /\ pc = "walkDial"
    /\ RecordChainFailure(pick, owner[Exit(pick)])
    /\ pc' = "walk"
    /\ UNCHANGED <<shared, sticky, at, cached, search, planned, race, result>>

-----------------------------------------------------------------------------
(* The race of single upstreams *)

Room == setup.max - attempts - Len(queue)
Orders(nodes) == {s \in [1 .. Cardinality(nodes) -> nodes] :
                     \A i, j \in DOMAIN s : s[i] = s[j] => i = j}
Smaller(a, b) == IF a < b THEN a ELSE b

\* One rotator's untried upstreams, in any order, as far as the budget goes.
QueueSingles ==
    /\ pc = "fallback" /\ at \in Rotators /\ Room > 0
    /\ \E order \in Orders({n \in ExitOrder(at) : <<n>> \notin tried}) :
          LET taken == 1 .. Smaller(Len(order), Room)
          IN  /\ queue' = queue \o [i \in taken |->
                              [rot |-> at, route |-> <<order[i]>>, cached |-> FALSE]]
              /\ tried' = tried \cup {<<order[i]>> : i \in taken}
    /\ offered' = offered \cup Singles(ExitOrder(at))
    /\ at' = at + 1
    /\ UNCHANGED <<shared, sticky, quarantined, pc, cached, attempts, reserve, dials,
                   plan, owner, supplied, race, result>>

\* truncate, then connect_hedged.
Truncated ==
    LET room == IF attempts < setup.max THEN setup.max - attempts ELSE 0
    IN  SubSeq(queue, 1, Smaller(Len(queue), room))
StartRace ==
    /\ pc = "fallback" /\ (at \notin Rotators \/ Room <= 0)
    /\ queue' = Truncated
    /\ pc' = "race"
    /\ UNCHANGED <<shared, sticky, quarantined, at, cached, attempts, reserve, tried, dials,
                   planned, supplied, race, result>>

Racing == pc = "race" /\ result \in {"none", "ok"}
RaceUnchanged == UNCHANGED <<shared, pc, at, cached, attempts, reserve, tried, queue, planned, supplied>>

Launch ==
    /\ pc = "race" /\ result = "none" /\ Len(fate) < Len(queue)
    /\ fate' = Append(fate, "open")
    /\ dials' = Append(dials, queue[Len(fate) + 1].route)
    /\ UNCHANGED <<sticky, quarantined, via, result>> /\ RaceUnchanged

\* report_attempt of a win: the single upstream becomes the sticky route.
AttemptWins(i) ==
    LET c == queue[i]
    IN  /\ pc = "race" /\ result = "none" /\ fate[i] = "open"
        /\ fate' = [fate EXCEPT ![i] = "won"] /\ via' = c /\ result' = "ok"
        /\ quarantined' = quarantined \ {ExitCell(c.rot, Exit(c.route))}
        /\ IF c.cached THEN UNCHANGED sticky ELSE Link(c.rot, c.route)
        /\ UNCHANGED dials /\ RaceUnchanged

\* report_attempt of a failure.  One that comes after the win leaves the
\* sticky route alone.
UnlinkAlways(c) == IF c.cached THEN Unlink(c.rot) ELSE UNCHANGED sticky    \* mutant
UnlinkFailed(c) == IF c.cached /\ result = "none" THEN Unlink(c.rot) ELSE UNCHANGED sticky
AttemptFails(i) ==
    LET c == queue[i]
    IN  /\ Racing /\ fate[i] = "open"
        /\ fate' = [fate EXCEPT ![i] = "failed"]
        /\ UnlinkFailed(c)
        /\ \/ quarantined' = quarantined
           \/ quarantined' = quarantined \cup {ExitCell(c.rot, Exit(c.route))}
        /\ UNCHANGED <<dials, via, result>> /\ RaceUnchanged

\* Lost to the winner, or ended by a panic: nothing is recorded.  A success
\* after the win (LateSuccess) does not happen: Hedged!OneTunnelOnly.
AttemptVanishes(i) ==
    /\ Racing /\ fate[i] = "open"
    /\ fate' = [fate EXCEPT ![i] = IF result = "ok" THEN "lost" ELSE "failed"]
    /\ UNCHANGED <<sticky, quarantined, dials, via, result>> /\ RaceUnchanged

RaceFails ==
    /\ pc = "race" /\ result = "none" /\ Len(fate) = Len(queue)
    /\ \A i \in DOMAIN fate : fate[i] = "failed"
    /\ Return("error")
    /\ UNCHANGED <<shared, sticky, quarantined, at, cached, search, planned, supplied, race>>

\* The client's task is dropped at an await.
Cancel ==
    /\ pc \in {"cachedDial", "walkDial", "race"} /\ result = "none"
    /\ Return("cancelled")
    /\ UNCHANGED <<shared, sticky, quarantined, at, cached, search, planned, supplied, race>>

-----------------------------------------------------------------------------
(* The rest of the process *)

ByOthers == /\ others < MaxOthers /\ others' = others + 1
            /\ UNCHANGED <<setup, pc, at, cached, search, planned, supplied, race, result>>

OtherLinks(r, route) == ByOthers /\ Link(r, route) /\ UNCHANGED quarantined

\* Another request unlinks the route, or it expires or is evicted.
OtherUnlinks(r) == ByOthers /\ sticky[r] # NoRoute /\ Unlink(r) /\ UNCHANGED quarantined

HealthChanges(cell) ==
    /\ ByOthers /\ UNCHANGED sticky
    /\ quarantined' = IF cell \in quarantined THEN quarantined \ {cell} ELSE quarantined \cup {cell}

Others == \/ \E r \in Rotators : OtherUnlinks(r) \/ \E route \in Linkable(r) : OtherLinks(r, route)
          \/ \E cell \in Cells : HealthChanges(cell)

Sticky == \/ Start \/ ReadSticky \/ JudgeMiss \/ JudgeSingle \/ JudgeStale \/ JudgeTried
          \/ JudgeChain \/ CachedChainConnects \/ CachedChainFails \/ BlameCached
Walk == \/ EnterWalk \/ LeaveWalk \/ ChainConnects \/ ChainFails
        \/ \E chain \in left : WalkOn(chain)
Race == \/ QueueSingles \/ StartRace \/ Launch \/ RaceFails
        \/ \E i \in DOMAIN fate : AttemptWins(i) \/ AttemptFails(i) \/ AttemptVanishes(i)

Next == Sticky \/ Walk \/ Race \/ Cancel \/ Others

Spec == Init /\ [][Next]_vars

-----------------------------------------------------------------------------
(* Properties *)

Dialled == {dials[i] : i \in DOMAIN dials}

\* Types; the plan knows the rotator of every chain it still owes, and the
\* walk meets a plan that was built (the code's expect), never the placeholder:
\* the budget that was spent when the placeholder was chosen stays spent.
TypeOK ==
    /\ setup \in Setups
    /\ \A r \in Rotators : sticky[r] \in Linkable(r) \cup {NoRoute}
    /\ quarantined \subseteq Cells
    /\ others \in 0 .. MaxOthers
    /\ pc \in {"start", "read", "judge", "cachedDial", "blame", "walk", "walkDial",
               "fallback", "race", "done"}
    /\ at \in 1 .. Len(setup.exits) + 1
    /\ attempts \in Nat /\ reserve \in Nat
    /\ plan \in {"none", "placeholder", "real"}
    /\ \A c \in left : Exit(c) \in DOMAIN owner
    /\ pc = "walkDial" => Exit(pick) \in DOMAIN owner
    /\ pc \in {"walk", "walkDial"} /\ Walking => plan = "real"
    /\ Len(fate) <= Len(queue)
    /\ result \in {"none", "ok", "error", "refused", "cancelled"}

\* max_upstream_attempts bounds what a request dials over all three phases,
\* and a banned target is not dialled at all.
BudgetKept == Len(dials) <= (IF setup.banned THEN 0 ELSE setup.max)

\* tried_routes: no route is dialled twice by one request, though the same
\* route may be cached by both rotators, be offered by the plan and be a
\* member of both rotators.
NoRouteTwice == \A i, j \in DOMAIN dials : dials[i] = dials[j] => i = j

\* An error means that the budget is spent, or that everything the plan and
\* the rotators had to offer was dialled or ruled out by a dead node: the
\* reserve never keeps attempts from the chains that nobody uses later.
ErrIsExhaustive ==
    result = "error" =>
        \/ Len(dials) = setup.max
        \/ /\ setup.gates # <<>> => plan = "real"
           /\ \A c \in offered : c \in Dialled \/ (Len(c) > 1 /\ \E n \in dead : Supply!HasNode(c, n))

\* The request writes a sticky entry only as it succeeds, and then the route
\* that succeeded in the rotator it belongs to; it removes entries only
\* before.  In particular an attempt that fails after the win removes nothing.
LinksTheWinner ==
    [][others' = others =>
          \A r \in Rotators : sticky'[r] # sticky[r] =>
              \/ sticky'[r] = NoRoute /\ result' = "none"
              \/ result = "none" /\ result' = "ok" /\ via'.rot = r /\ sticky'[r] = via'.route]_vars
=============================================================================
