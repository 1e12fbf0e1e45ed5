-------------------------- MODULE EstablishProofs --------------------------
(***************************************************************************)
(* Proofs about Establish, for any finite set of upstreams, any gates, any *)
(* number of exit rotators and any budget.                                 *)
(***************************************************************************)
EXTENDS Establish, FiniteSetTheorems, TLAPS

-----------------------------------------------------------------------------
(* The inductive invariant *)

Fates == {"open", "won", "failed", "lost"}
Candidate == [rot : Nat, route : Seq(Node), cached : BOOLEAN]

Typed == /\ setup \in Setups
         /\ at \in Nat /\ at >= 1
         /\ attempts \in Nat /\ reserve \in Nat
         /\ sticky \in [Rotators -> Seq(Node)]
         /\ cached \in Seq(Node) /\ pick \in Seq(Node) /\ left \subseteq Seq(Node)
         /\ tried \subseteq Seq(Node)
         /\ queue \in Seq(Candidate)
         /\ dials \in Seq(Seq(Node))
         /\ fate \in Seq(Fates)

\* The accounts of the budget: what the chains took and what the race launched
\* is what was dialled, and the race has no more candidates than attempts left.
Accounts == /\ attempts <= setup.max
            /\ Len(dials) = attempts + Len(fate)
            /\ pc \notin {"race", "done"} => fate = <<>>
            /\ pc = "race" => attempts + Len(queue) <= setup.max /\ Len(fate) <= Len(queue)

\* tried covers what was dialled and what is queued; what is queued and not
\* launched was not dialled.
Tried == /\ \A i \in DOMAIN dials : dials[i] \in tried
         /\ \A j \in DOMAIN queue : queue[j].route \in tried
         /\ \A i, j \in DOMAIN queue : queue[i].route = queue[j].route => i = j
         /\ \A i \in DOMAIN dials, j \in DOMAIN queue : j > Len(fate) => dials[i] # queue[j].route

Banned == setup.banned => dials = <<>> /\ pc \in {"start", "done"}

Inv == Typed /\ Accounts /\ Tried /\ Banned /\ BudgetKept /\ NoRouteTwice

-----------------------------------------------------------------------------
(* Configurations, routes and plans *)

\* A candidate is made of a rotator and a route.
LEMMA CandidateMade ==
    ASSUME NEW r \in Nat, NEW route \in Seq(Node), NEW c \in BOOLEAN
    PROVE  [rot |-> r, route |-> route, cached |-> c] \in Candidate
  BY DEF Candidate

\* The route of a queued candidate.
LEMMA CandidateRoute ==
    ASSUME NEW q \in Seq(Candidate), NEW i \in 1 .. Len(q)
    PROVE  q[i] \in Candidate /\ q[i].route \in Seq(Node)
<1>1. q[i] \in Candidate
  OBVIOUS
<1> QED
  BY <1>1 DEF Candidate

\* A sequence grows by one at its end.
LEMMA Appended ==
    ASSUME NEW S, NEW s \in Seq(S), NEW e \in S
    PROVE  /\ Append(s, e) \in Seq(S) /\ Len(s) \in Nat /\ Len(Append(s, e)) = Len(s) + 1
           /\ DOMAIN s = 1 .. Len(s) /\ DOMAIN Append(s, e) = 1 .. Len(s) + 1
           /\ \A i \in DOMAIN s : Append(s, e)[i] = s[i]
           /\ Append(s, e)[Len(s) + 1] = e
  OBVIOUS

\* One element of a sequence is replaced.
LEMMA Replaced ==
    ASSUME NEW S, NEW s \in Seq(S), NEW i \in DOMAIN s, NEW e \in S
    PROVE  [s EXCEPT ![i] = e] \in Seq(S) /\ Len([s EXCEPT ![i] = e]) = Len(s)
  OBVIOUS

\* What a configuration is.
LEMMA SetupFacts ==
    ASSUME setup \in Setups
    PROVE  /\ setup.gates \in Seq((SUBSET Node) \ {{}}) /\ setup.exits \in Seq((SUBSET Node) \ {{}})
           /\ setup.max \in Nat /\ setup.banned \in BOOLEAN
           /\ Len(setup.gates) \in Nat /\ Levels = 1 .. Len(setup.gates)
           /\ Len(setup.exits) \in Nat /\ Rotators = 1 .. Len(setup.exits)
           /\ \A r \in Rotators : r \in Nat /\ setup.exits[r] \subseteq Node
  BY SetupsAssumption DEF Levels, Rotators

\* Chains are sequences of nodes.
LEMMA ChainsAreRoutes ==
    ASSUME NEW gates, Len(gates) \in Nat, NEW exits
    PROVE  ChainsOver(gates, exits) \subseteq Seq(Node)
<1>1. Len(gates) + 1 \in Nat
  OBVIOUS
<1>2. ChainsOver(gates, exits) \subseteq [1 .. Len(gates) + 1 -> Node]
  BY DEF ChainsOver
<1>3. \A n \in Nat : [1 .. n -> Node] \subseteq Seq(Node)
  OBVIOUS
<1> QED
  BY <1>1, <1>2, <1>3

\* What link_proxy is given is a route.
LEMMA LinkableRoutes ==
    ASSUME setup \in Setups, NEW r \in Rotators
    PROVE  Linkable(r) \subseteq Seq(Node)
<1>1. Configured(r) \subseteq Seq(Node)
  BY ChainsAreRoutes, SetupFacts DEF Configured
<1>2. Singles(setup.exits[r]) \subseteq Seq(Node)
  <2>1. \A n \in setup.exits[r] : n \in Node
    BY SetupFacts
  <2>2. \A n \in Node : <<n>> \in Seq(Node)
    OBVIOUS
  <2> QED
    BY <2>1, <2>2, Zenon DEF Singles
<1> QED
  BY <1>1, <1>2 DEF Linkable

\* pick_order permutes upstreams of its rotator.
LEMMA ExitOrderFacts ==
    ASSUME setup \in Setups, NEW r \in Rotators
    PROVE  ExitOrder(r) \subseteq Node
<1>1. ExitOrder(r) \subseteq setup.exits[r]
  BY DEF ExitOrder, Selectable
<1> QED
  BY <1>1, SetupFacts

\* A new plan owes routes.
LEMMA BuildPlanRoutes ==
    ASSUME setup \in Setups, BuildPlan
    PROVE  left' \subseteq Seq(Node) /\ pick' = pick
<1> DEFINE gates == [l \in Levels |-> GateOrder(l)]
<1>1. left' = ChainsOver(gates, UNION {ExitOrder(r) : r \in Rotators}) /\ pick' = pick
  BY DEF BuildPlan
<1>2. Len(gates) \in Nat
  BY SetupFacts
<1> HIDE DEF gates
<1> QED
  BY <1>1, <1>2, ChainsAreRoutes

\* Initially nothing is tried.
LEMMA InitInv == Init => Inv
<1> SUFFICES ASSUME Init PROVE Inv
  OBVIOUS
<1>1. /\ setup \in Setups /\ pc = "start" /\ at = 1 /\ cached = <<>> /\ attempts = 0
      /\ tried = {} /\ queue = <<>> /\ dials = <<>> /\ left = {} /\ pick = <<>> /\ fate = <<>>
      /\ reserve \in {0, 1}
  BY DEF Init, NoRoute
<1>2. sticky \in [Rotators -> Seq(Node)]
  <2>1. /\ sticky \in [Rotators -> UNION {Linkable(r) : r \in Rotators} \cup {NoRoute}]
        /\ \A r \in Rotators : sticky[r] \in Linkable(r) \cup {NoRoute}
    BY Zenon DEF Init
  <2>2. \A r \in Rotators : sticky[r] \in Seq(Node)
    <3>1. \A r \in Rotators : Linkable(r) \subseteq Seq(Node)
      BY <1>1, LinkableRoutes
    <3>2. NoRoute \in Seq(Node)
      BY DEF NoRoute
    <3> QED
      BY <2>1, <3>1, <3>2, Zenon
  <2> QED
    BY <2>1, <2>2
<1>3. setup.max \in Nat /\ setup.banned \in BOOLEAN
  BY <1>1, SetupFacts
<1> QED
  BY <1>1, <1>2, <1>3 DEF Inv, Typed, Accounts, Tried, Banned, BudgetKept, NoRouteTwice

-----------------------------------------------------------------------------
(* Steps of the request *)

\* A step that neither dials nor queues.
LEMMA QuietInv ==
    ASSUME Inv, Typed', UNCHANGED <<setup, attempts, tried, queue, dials, fate>>,
           pc' \in {"race", "done"} \/ pc \notin {"race", "done"},
           pc' = "race" => pc = "race",
           setup.banned => pc' \in {"start", "done"}
    PROVE  Inv'
<1>1. Accounts'
  BY DEF Inv, Accounts
<1>2. Tried'
  BY DEF Inv, Tried
<1>3. Banned' /\ BudgetKept' /\ NoRouteTwice'
  BY DEF Inv, Banned, BudgetKept, NoRouteTwice
<1> QED
  BY <1>1, <1>2, <1>3 DEF Inv

\* Dialling a chain that was not tried, with an attempt left.
LEMMA DialInv ==
    ASSUME Inv, Typed', NEW route \in Seq(Node), Dial(route), route \notin tried,
           attempts < setup.max, UNCHANGED <<setup, fate>>,
           pc \notin {"race", "done"}, pc' \notin {"race", "done"}, ~setup.banned
    PROVE  Inv'
<1>1. /\ attempts' = attempts + 1 /\ tried' = tried \cup {route} /\ queue' = queue
      /\ dials' = Append(dials, route)
  BY DEF Dial
<1>2. /\ attempts \in Nat /\ dials \in Seq(Seq(Node)) /\ setup.max \in Nat
      /\ fate = <<>> /\ Len(dials) = attempts + Len(fate) /\ queue \in Seq(Candidate)
  BY SetupFacts DEF Inv, Typed, Accounts
<1>3. /\ Len(dials') = Len(dials) + 1 /\ DOMAIN dials' = 1 .. Len(dials) + 1
      /\ DOMAIN dials = 1 .. Len(dials) /\ Len(dials) \in Nat
      /\ \A i \in DOMAIN dials : dials'[i] = dials[i]
      /\ dials'[Len(dials) + 1] = route
  BY <1>1, <1>2
<1>4. Accounts'
  BY <1>1, <1>2, <1>3 DEF Inv, Accounts
<1>5. Tried'
  BY <1>1, <1>2, <1>3 DEF Inv, Tried
<1>6. NoRouteTwice'
  BY <1>1, <1>3 DEF Inv, NoRouteTwice, Tried
<1>7. Banned' /\ BudgetKept'
  BY <1>1, <1>2, <1>3 DEF Banned, BudgetKept
<1> QED
  BY <1>4, <1>5, <1>6, <1>7 DEF Inv

\* Queuing routes that were not tried, before the race.
LEMMA QueueInv ==
    ASSUME Inv, Typed', NEW new \in Seq(Candidate), queue' = queue \o new,
           tried' = tried \cup {new[i].route : i \in DOMAIN new},
           \A i \in DOMAIN new : new[i].route \notin tried,
           \A i, j \in DOMAIN new : new[i].route = new[j].route => i = j,
           UNCHANGED <<setup, attempts, dials, fate>>,
           pc \notin {"race", "done"}, pc' \notin {"race", "done"}, ~setup.banned
    PROVE  Inv'
<1>1. queue \in Seq(Candidate) /\ fate = <<>>
  BY DEF Inv, Typed, Accounts
<1>2. /\ Len(queue') = Len(queue) + Len(new) /\ Len(queue) \in Nat /\ Len(new) \in Nat
      /\ DOMAIN queue = 1 .. Len(queue) /\ DOMAIN new = 1 .. Len(new)
      /\ DOMAIN queue' = 1 .. Len(queue) + Len(new)
      /\ \A i \in DOMAIN queue : queue'[i] = queue[i]
      /\ \A i \in DOMAIN queue' : i \notin DOMAIN queue =>
             i - Len(queue) \in DOMAIN new /\ queue'[i] = new[i - Len(queue)]
  BY <1>1
<1>3. \A j \in DOMAIN queue' : queue'[j].route \in tried'
  BY <1>2 DEF Inv, Tried
<1>4. ASSUME NEW i \in DOMAIN queue', NEW j \in DOMAIN queue', queue'[i].route = queue'[j].route
      PROVE  i = j
  <2>1. CASE i \in DOMAIN queue /\ j \in DOMAIN queue
    BY <1>2, <1>4, <2>1 DEF Inv, Tried
  <2>2. CASE i \notin DOMAIN queue /\ j \notin DOMAIN queue
    <3>1. i - Len(queue) = j - Len(queue)
      BY <1>2, <1>4, <2>2
    <3> QED
      BY <1>2, <3>1
  <2>3. CASE i \in DOMAIN queue /\ j \notin DOMAIN queue
    BY <1>2, <1>4, <2>3 DEF Inv, Tried
  <2>4. CASE i \notin DOMAIN queue /\ j \in DOMAIN queue
    BY <1>2, <1>4, <2>4 DEF Inv, Tried
  <2> QED
    BY <2>1, <2>2, <2>3, <2>4
<1>5. ASSUME NEW i \in DOMAIN dials, NEW j \in DOMAIN queue'
      PROVE  dials[i] # queue'[j].route
  <2>1. dials[i] \in tried
    BY DEF Inv, Tried
  <2>2. CASE j \in DOMAIN queue
    BY <1>1, <1>2, <2>2 DEF Inv, Tried
  <2>3. CASE j \notin DOMAIN queue
    BY <1>2, <2>1, <2>3
  <2> QED
    BY <2>2, <2>3
<1>6. Tried'
  BY <1>3, <1>4, <1>5 DEF Inv, Tried
<1>7. Accounts' /\ Banned' /\ BudgetKept' /\ NoRouteTwice'
  BY DEF Inv, Accounts, Banned, BudgetKept, NoRouteTwice
<1> QED
  BY <1>6, <1>7 DEF Inv

\* Linking and unlinking keep the cache one of routes.
LEMMA CacheTyped ==
    ASSUME Inv, NEW r, NEW route \in Seq(Node), Link(r, route) \/ Unlink(r), setup' = setup
    PROVE  sticky' \in [Rotators -> Seq(Node)]' /\ sticky' \in [Rotators -> Seq(Node)]
<1>1. sticky \in [Rotators -> Seq(Node)] /\ <<>> \in Seq(Node) /\ Rotators' = Rotators
  BY DEF Inv, Typed, Rotators
<1>2. sticky' = [sticky EXCEPT ![r] = route] \/ sticky' = [sticky EXCEPT ![r] = <<>>]
  BY DEF Link, Unlink, NoRoute
<1> QED
  BY <1>1, <1>2

\* Only a request for a target that is not banned is past its first step.
LEMMA NotBanned ==
    ASSUME Inv, pc \notin {"start", "done"}
    PROVE  ~setup.banned
  BY DEF Inv, Banned

\* The steps over the sticky routes.
LEMMA StickyInv == Inv /\ Sticky => Inv'
<1> SUFFICES ASSUME Inv, Sticky PROVE Inv'
  OBVIOUS
<1>0. Typed /\ <<>> \in Seq(Node)
  BY DEF Inv
<1>1. CASE Start
  <2>1. Typed' /\ UNCHANGED <<setup, attempts, tried, queue, dials, fate>>
    BY <1>0, <1>1 DEF Start, shared, search, planned, supplied, race, Typed, Rotators
  <2>2. /\ pc \notin {"race", "done"} /\ pc' \in {"read", "done"}
        /\ setup.banned => pc' = "done"
    BY <1>1 DEF Start, Return
  <2> QED
    BY <2>1, <2>2, QuietInv
<1>2. CASE ReadSticky
  <2>1. Typed' /\ UNCHANGED <<setup, attempts, tried, queue, dials, fate>>
    BY <1>0, <1>2 DEF ReadSticky, shared, search, planned, supplied, race, Typed, Rotators
  <2>2. pc = "read" /\ pc' = "judge"
    BY <1>2 DEF ReadSticky
  <2> QED
    BY <2>1, <2>2, QuietInv, NotBanned
<1>3. CASE JudgeMiss \/ JudgeTried
  <2>0. /\ UNCHANGED <<setup, sticky, left, pick, attempts, reserve, tried, queue, dials, fate>>
        /\ at' = at + 1 /\ cached' = <<>>
    BY <1>3 DEF JudgeMiss, JudgeTried, NextRotator, shared, search, planned, supplied, race, NoRoute
  <2>1. Typed' /\ UNCHANGED <<setup, attempts, tried, queue, dials, fate>>
    BY <1>0, <2>0 DEF Typed, Rotators
  <2>2. pc = "judge" /\ pc' = "read"
    BY <1>3 DEF JudgeMiss, JudgeTried, NextRotator
  <2> QED
    BY <2>1, <2>2, QuietInv, NotBanned
<1>4. CASE JudgeSingle
  <2>1. /\ pc = "judge" /\ pc' = "read" /\ setup' = setup /\ sticky' = sticky /\ left' = left
        /\ pick' = pick /\ fate' = fate /\ cached' = <<>> /\ at' = at + 1
    BY <1>4 DEF JudgeSingle, NextRotator, shared, planned, supplied, race, NoRoute
  <2>2. ~setup.banned
    BY <2>1, NotBanned
  <2>3. CASE UNCHANGED search
    <3>1. Typed' /\ UNCHANGED <<setup, attempts, tried, queue, dials, fate>>
      BY <1>0, <2>1, <2>3 DEF search, Typed, Rotators
    <3> QED
      BY <2>1, <2>2, <3>1, QuietInv
  <2>4. CASE ~UNCHANGED search
    <3> DEFINE c == [rot |-> at, route |-> cached, cached |-> TRUE]
    <3>1. /\ cached \notin tried /\ queue' = queue \o <<c>> /\ tried' = tried \cup {cached}
          /\ reserve' = RaiseReserve /\ attempts' = attempts /\ dials' = dials
      BY <1>4, <2>4 DEF JudgeSingle
    <3>2. c \in Candidate /\ <<c>> \in Seq(Candidate)
      BY <1>0 DEF Typed, Candidate
    <3>3. queue' \in Seq(Candidate) /\ Len(queue) \in Nat
      BY <1>0, <3>1, <3>2 DEF Typed
    <3>4. reserve' \in Nat
      BY <1>0, <3>1, <3>3 DEF RaiseReserve, Typed
    <3>5. Typed'
      BY <1>0, <2>1, <3>1, <3>3, <3>4 DEF Typed, Rotators
    <3>6. /\ \A i \in DOMAIN <<c>> : i = 1 /\ <<c>>[i].route = cached
          /\ {<<c>>[i].route : i \in DOMAIN <<c>>} = {cached}
      OBVIOUS
    <3> QED
      BY <2>1, <2>2, <3>1, <3>2, <3>3, <3>5, <3>6, QueueInv
  <2> QED
    BY <2>3, <2>4
<1>5. CASE JudgeStale
  <2>1. sticky' \in [Rotators -> Seq(Node)] /\ setup' = setup
    BY <1>0, <1>5, CacheTyped DEF JudgeStale, shared
  <2>2. Typed' /\ UNCHANGED <<setup, attempts, tried, queue, dials, fate>>
    BY <1>0, <1>5, <2>1 DEF JudgeStale, NextRotator, shared, search, planned, supplied,
                            race, Typed, Rotators, NoRoute
  <2>3. pc = "judge" /\ pc' = "read"
    BY <1>5 DEF JudgeStale, NextRotator
  <2> QED
    BY <2>2, <2>3, QuietInv, NotBanned
<1>6. CASE JudgeChain
  <2>1. /\ pc = "judge" /\ setup' = setup /\ sticky' = sticky /\ left' = left /\ fate' = fate
        /\ at' = at /\ cached' = cached /\ cached \notin tried
    BY <1>6 DEF JudgeChain, shared, planned, race
  <2>2. CASE attempts >= setup.max
    <3>1. pc' = "done" /\ UNCHANGED <<attempts, reserve, tried, queue, dials, pick>>
      BY <1>6, <2>2 DEF JudgeChain, Return, search
    <3>2. Typed'
      BY <1>0, <2>1, <3>1 DEF Typed, Rotators
    <3> QED
      BY <2>1, <3>1, <3>2, QuietInv
  <2>3. CASE ~(attempts >= setup.max)
    <3>1. Dial(cached) /\ pick' = cached /\ pc' = "cachedDial"
      BY <1>6, <2>3 DEF JudgeChain
    <3>2. attempts < setup.max /\ cached \in Seq(Node)
      BY <1>0, <2>3, SetupFacts DEF Typed
    <3>3. Typed'
      BY <1>0, <2>1, <3>1, <3>2 DEF Typed, Rotators, Dial
    <3> QED
      BY <2>1, <3>1, <3>2, <3>3, DialInv, NotBanned
  <2> QED
    BY <2>2, <2>3
<1>7. CASE CachedChainConnects
  <2>1. Typed' /\ UNCHANGED <<setup, attempts, tried, queue, dials, fate>> /\ pc' = "done"
    BY <1>0, <1>7 DEF CachedChainConnects, Return, shared, search, planned, supplied, Typed, Rotators
  <2> QED
    BY <2>1, QuietInv
<1>8. CASE CachedChainFails
  <2>1. left' \subseteq Seq(Node) /\ pick' = pick
    BY <1>0, <1>8, BuildPlanRoutes DEF CachedChainFails, KeepPlan, supplied, Typed
  <2>2. Typed' /\ UNCHANGED <<setup, attempts, tried, queue, dials, fate>>
    BY <1>0, <1>8, <2>1 DEF CachedChainFails, shared, search, race, Typed, Rotators
  <2>3. pc = "cachedDial" /\ pc' = "blame"
    BY <1>8 DEF CachedChainFails
  <2> QED
    BY <2>2, <2>3, QuietInv, NotBanned
<1>9. CASE BlameCached
  <2>1. left' \subseteq left /\ pick' = pick
    BY <1>9 DEF BlameCached, RecordChainFailure, supplied, Supply!Strike
  <2>2. sticky' \in [Rotators -> Seq(Node)] /\ setup' = setup
    BY <1>0, <1>9, CacheTyped DEF BlameCached, shared
  <2>3. Typed' /\ UNCHANGED <<setup, attempts, tried, queue, dials, fate>>
    BY <1>0, <1>9, <2>1, <2>2 DEF BlameCached, NextRotator, shared, search, race, Typed,
                                  Rotators, NoRoute
  <2>4. pc = "blame" /\ pc' = "read"
    BY <1>9 DEF BlameCached, NextRotator
  <2> QED
    BY <2>3, <2>4, QuietInv, NotBanned
<1> QED
  BY <1>1, <1>2, <1>3, <1>4, <1>5, <1>6, <1>7, <1>8, <1>9 DEF Sticky

\* The steps over the plan.
LEMMA WalkInv == Inv /\ Walk => Inv'
<1> SUFFICES ASSUME Inv, Walk PROVE Inv'
  OBVIOUS
<1>0. Typed /\ <<>> \in Seq(Node)
  BY DEF Inv
<1>1. CASE EnterWalk
  <2>1. left' \subseteq Seq(Node) /\ pick' = pick
    BY <1>0, <1>1, BuildPlanRoutes DEF EnterWalk, KeepPlan, supplied, Typed
  <2>2. Typed' /\ UNCHANGED <<setup, attempts, tried, queue, dials, fate>>
    BY <1>0, <1>1, <2>1 DEF EnterWalk, shared, search, race, Typed, Rotators
  <2>3. pc = "read" /\ pc' = "walk"
    BY <1>1 DEF EnterWalk
  <2> QED
    BY <2>2, <2>3, QuietInv, NotBanned
<1>2. CASE LeaveWalk
  <2>1. left' = left /\ (pick' = pick \/ pick' = <<>>)
    BY <1>2 DEF LeaveWalk, Supply!Exhausted, Supply!NoPick
  <2>0. /\ UNCHANGED <<setup, sticky, cached, attempts, reserve, tried, queue, dials, fate>>
        /\ at' = 1
    BY <1>2 DEF LeaveWalk, Fallback, shared, search, race
  <2>4. left' \subseteq Seq(Node) /\ pick' \in Seq(Node) /\ at' \in Nat /\ at' >= 1
    <3>1. pick \in Seq(Node) /\ left \subseteq Seq(Node)
      BY <1>0 DEF Typed
    <3>2. pick' \in Seq(Node)
      BY <1>0, <2>1, <3>1, Zenon
    <3> QED
      BY <2>0, <2>1, <3>1, <3>2
  <2>2. Typed' /\ UNCHANGED <<setup, attempts, tried, queue, dials, fate>>
    BY <1>0, <2>0, <2>4 DEF Typed, Rotators
  <2>3. pc = "walk" /\ pc' = "fallback"
    BY <1>2 DEF LeaveWalk, Fallback
  <2> QED
    BY <2>2, <2>3, QuietInv, NotBanned
<1>3. ASSUME NEW chain \in left, WalkOn(chain) PROVE Inv'
  <2>1. /\ pc = "walk" /\ setup' = setup /\ sticky' = sticky /\ fate' = fate /\ at' = at
        /\ cached' = cached /\ pick' = chain /\ left' = left \ {chain} /\ BudgetLeft
    BY <1>3 DEF WalkOn, Walking, Supply!Offer, shared, race
  <2>2. chain \in Seq(Node) /\ attempts < setup.max
    BY <1>0, <2>1, SetupFacts DEF Typed, BudgetLeft
  <2>3. CASE chain \in tried
    <3>1. UNCHANGED <<attempts, reserve, tried, queue, dials, pc>>
      BY <1>3, <2>3 DEF WalkOn, DialUntried, search
    <3>2. Typed'
      BY <1>0, <2>1, <2>2, <3>1 DEF Typed, Rotators
    <3> QED
      BY <2>1, <3>1, <3>2, QuietInv, NotBanned
  <2>4. CASE chain \notin tried
    <3>1. Dial(chain) /\ pc' = "walkDial"
      BY <1>3, <2>4 DEF WalkOn, DialUntried
    <3>2. Typed'
      BY <1>0, <2>1, <2>2, <3>1 DEF Typed, Rotators, Dial
    <3> QED
      BY <2>1, <2>2, <2>4, <3>1, <3>2, DialInv, NotBanned
  <2> QED
    BY <2>3, <2>4
<1>4. CASE ChainConnects
  <2>1. sticky' \in [Rotators -> Seq(Node)] /\ setup' = setup
    BY <1>0, <1>4, CacheTyped DEF ChainConnects, shared, Typed
  <2>2. Typed' /\ UNCHANGED <<setup, attempts, tried, queue, dials, fate>> /\ pc' = "done"
    BY <1>0, <1>4, <2>1 DEF ChainConnects, Return, shared, search, planned, supplied, Typed, Rotators
  <2> QED
    BY <2>2, QuietInv
<1>5. CASE ChainFails
  <2>1. left' \subseteq left /\ pick' = pick
    BY <1>5 DEF ChainFails, RecordChainFailure, supplied, Supply!Strike
  <2>2. Typed' /\ UNCHANGED <<setup, attempts, tried, queue, dials, fate>>
    BY <1>0, <1>5, <2>1 DEF ChainFails, shared, search, race, Typed, Rotators
  <2>3. pc = "walkDial" /\ pc' = "walk"
    BY <1>5 DEF ChainFails
  <2> QED
    BY <2>2, <2>3, QuietInv, NotBanned
<1> QED
  BY <1>1, <1>2, <1>3, <1>4, <1>5 DEF Walk

\* What of the queue the budget leaves to the race.
LEMMA TruncatedFacts ==
    ASSUME Inv
    PROVE  /\ Truncated \in Seq(Candidate)
           /\ Len(Truncated) \in Nat /\ Len(Truncated) <= Len(queue)
           /\ attempts + Len(Truncated) <= setup.max
           /\ \A i \in DOMAIN Truncated : i \in DOMAIN queue /\ Truncated[i] = queue[i]
<1> DEFINE room == IF attempts < setup.max THEN setup.max - attempts ELSE 0
           n == Smaller(Len(queue), room)
<1>1. /\ attempts \in Nat /\ setup.max \in Nat /\ attempts <= setup.max
      /\ queue \in Seq(Candidate) /\ Len(queue) \in Nat
  BY SetupFacts DEF Inv, Typed, Accounts
<1>2. n \in Nat /\ n <= Len(queue) /\ attempts + n <= setup.max
  BY <1>1 DEF Smaller
<1>3. Truncated = SubSeq(queue, 1, n)
  BY DEF Truncated
<1> HIDE DEF n
<1> QED
  BY <1>1, <1>2, <1>3

\* What QueueSingles adds to the queue: single upstreams that were not tried,
\* each once, and either all of the rotator's or as many as there was room for.
LEMMA SinglesQueued ==
    ASSUME Inv, QueueSingles
    PROVE  \E new \in Seq(Candidate) :
              /\ queue' = queue \o new
              /\ tried' = tried \cup {new[i].route : i \in DOMAIN new}
              /\ \A i \in DOMAIN new : /\ new[i].route \notin tried /\ new[i].route \in Seq(Node)
                                       /\ Len(new[i].route) = 1
              /\ \A i, j \in DOMAIN new : new[i].route = new[j].route => i = j
              /\ \/ Len(new) = Room
                 \/ \A n \in ExitOrder(at) : <<n>> \in tried'
<1>0. Typed
  BY DEF Inv
<1> DEFINE untried == {n \in ExitOrder(at) : <<n>> \notin tried}
<1>1. PICK order \in Orders(untried) :
        LET taken == 1 .. Smaller(Len(order), Room)
        IN  /\ queue' = queue \o [i \in taken |->
                            [rot |-> at, route |-> <<order[i]>>, cached |-> FALSE]]
            /\ tried' = tried \cup {<<order[i]>> : i \in taken}
  BY DEF QueueSingles
<1>2. at \in Rotators /\ Room > 0
  BY DEF QueueSingles
<1>3. untried \subseteq Node /\ IsFiniteSet(untried)
  <2>1. untried \subseteq Node
    BY <1>0, <1>2, ExitOrderFacts DEF Typed
  <2> QED
    BY <2>1, NodeAssumption, FS_Subset
<1>4. Cardinality(untried) \in Nat
  BY <1>3, FS_CardinalityType
<1>5. /\ order \in [1 .. Cardinality(untried) -> untried]
      /\ \A i, j \in DOMAIN order : order[i] = order[j] => i = j
  BY DEF Orders
<1>18. \A n \in ExitOrder(at) : <<n>> \in tried \/ n \in untried
  OBVIOUS
<1>19. \A n \in untried : <<n>> \notin tried
  OBVIOUS
<1> HIDE DEF untried
<1>6. Len(order) = Cardinality(untried)
  BY <1>4, <1>5
<1> DEFINE m == Smaller(Len(order), Room)
           new == [i \in 1 .. m |-> [rot |-> at, route |-> <<order[i]>>, cached |-> FALSE]]
<1>7. Room \in Int
  BY <1>0, SetupFacts DEF Room, Typed
<1>8. m \in Nat /\ m <= Len(order) /\ (m = Len(order) \/ m = Room)
  BY <1>2, <1>4, <1>6, <1>7 DEF Smaller
<1>9. queue' = queue \o new /\ tried' = tried \cup {<<order[i]>> : i \in 1 .. m}
  BY <1>1
<1> HIDE DEF m
<1>10. \A i \in 1 .. m : i \in DOMAIN order /\ order[i] \in untried /\ order[i] \in Node
  BY <1>3, <1>4, <1>5, <1>6, <1>8
<1>11. \A i \in 1 .. m : [rot |-> at, route |-> <<order[i]>>, cached |-> FALSE] \in Candidate
  <2>1. at \in Nat /\ \A i \in 1 .. m : <<order[i]>> \in Seq(Node)
    BY <1>0, <1>10 DEF Typed
  <2> QED
    BY <2>1, CandidateMade
<1>12. /\ new \in Seq(Candidate) /\ DOMAIN new = 1 .. m /\ Len(new) = m
       /\ \A i \in 1 .. m : new[i].route = <<order[i]>>
  BY <1>8, <1>11
<1>13. tried' = tried \cup {new[i].route : i \in DOMAIN new}
  BY <1>9, <1>12
<1>14. \A i \in DOMAIN new : new[i].route \notin tried
  BY <1>10, <1>12, <1>19
<1>15. \A i, j \in DOMAIN new : new[i].route = new[j].route => i = j
  BY <1>5, <1>10, <1>12
<1>16. \A i \in DOMAIN new : new[i].route \in Seq(Node) /\ Len(new[i].route) = 1
  <2>1. \A n \in Node : <<n>> \in Seq(Node) /\ Len(<<n>>) = 1
    OBVIOUS
  <2> QED
    BY <1>10, <1>12, <2>1
<1>17. ASSUME m = Len(order), NEW n \in ExitOrder(at) PROVE <<n>> \in tried'
  <2>1. CASE n \in untried
    <3> DEFINE S == 1 .. Cardinality(untried)
    <3>1. IsFiniteSet(S) /\ Cardinality(S) = Cardinality(untried)
      BY <1>4, FS_Interval
    <3>2. order \in Injection(S, untried)
      BY <1>5 DEF Injection, IsInjective
    <3>3. order \in Surjection(S, untried)
      BY <1>3, <3>1, <3>2, FS_Injection
    <3>4. PICK i \in S : order[i] = n
      BY <2>1, <3>3 DEF Surjection
    <3> QED
      BY <1>6, <1>9, <1>17, <3>4
  <2>2. CASE <<n>> \in tried
    BY <1>9, <2>2
  <2> QED
    BY <1>18, <2>1, <2>2
<1> HIDE DEF new
<1>20. Len(new) = Room \/ \A n \in ExitOrder(at) : <<n>> \in tried'
  BY <1>8, <1>12, <1>17
<1>21. queue' = queue \o new /\ new \in Seq(Candidate)
  BY <1>9, <1>12
<1> QED
  BY <1>13, <1>14, <1>15, <1>16, <1>20, <1>21

\* The steps of the race, before and after the win.
LEMMA RaceInv == Inv /\ Race => Inv'
<1> SUFFICES ASSUME Inv, Race PROVE Inv'
  OBVIOUS
<1>0. Typed
  BY DEF Inv
<1>1. CASE QueueSingles
  <2>1. PICK new \in Seq(Candidate) :
          /\ queue' = queue \o new
          /\ tried' = tried \cup {new[i].route : i \in DOMAIN new}
          /\ \A i \in DOMAIN new : new[i].route \notin tried /\ new[i].route \in Seq(Node)
          /\ \A i, j \in DOMAIN new : new[i].route = new[j].route => i = j
    BY <1>1, SinglesQueued
  <2>2. /\ pc = "fallback" /\ pc' = pc /\ at' = at + 1
        /\ UNCHANGED <<setup, sticky, left, pick, cached, attempts, reserve, dials, fate>>
    BY <1>1 DEF QueueSingles, shared, supplied, race
  <2>3. tried' \subseteq Seq(Node)
    BY <1>0, <2>1 DEF Typed
  <2>4. queue' \in Seq(Candidate)
    BY <1>0, <2>1 DEF Typed
  <2>5. Typed'
    BY <1>0, <2>2, <2>3, <2>4 DEF Typed, Rotators
  <2> QED
    BY <2>1, <2>2, <2>5, QueueInv, NotBanned
<1>2. CASE StartRace
  <2>1. /\ pc = "fallback" /\ pc' = "race" /\ queue' = Truncated
        /\ UNCHANGED <<setup, sticky, left, pick, at, cached, attempts, reserve, tried, dials, fate>>
    BY <1>2 DEF StartRace, shared, supplied, race
  <2>2. fate = <<>> /\ ~setup.banned
    BY <2>1, NotBanned DEF Inv, Accounts
  <2>3. Typed'
    BY <1>0, <2>1, TruncatedFacts DEF Typed, Rotators
  <2>4. Accounts'
    BY <2>1, <2>2, TruncatedFacts DEF Inv, Accounts
  <2>5. Tried'
    BY <2>1, <2>2, TruncatedFacts DEF Inv, Tried
  <2>6. Banned' /\ BudgetKept' /\ NoRouteTwice'
    BY <2>1, <2>2 DEF Inv, Banned, BudgetKept, NoRouteTwice
  <2> QED
    BY <2>3, <2>4, <2>5, <2>6 DEF Inv
<1>3. CASE Launch
  <2> DEFINE k == Len(fate) + 1
  <2>1. /\ pc = "race" /\ pc' = "race" /\ Len(fate) < Len(queue)
        /\ fate' = Append(fate, "open") /\ dials' = Append(dials, queue[k].route)
        /\ UNCHANGED <<setup, sticky, left, pick, at, cached, attempts, reserve, tried, queue>>
    BY <1>3 DEF Launch, RaceUnchanged, shared, supplied
  <2>2. /\ fate \in Seq(Fates) /\ queue \in Seq(Candidate) /\ dials \in Seq(Seq(Node))
        /\ attempts \in Nat /\ setup.max \in Nat /\ Len(dials) = attempts + Len(fate)
        /\ attempts + Len(queue) <= setup.max /\ ~setup.banned
    BY <1>0, <2>1, SetupFacts, NotBanned DEF Typed, Inv, Accounts
  <2>3. k \in DOMAIN queue /\ queue[k] \in Candidate /\ queue[k].route \in Seq(Node)
    BY <2>1, <2>2, CandidateRoute
  <2> DEFINE r == queue[k].route
  <2>12. r \in Seq(Node) /\ dials' = Append(dials, r)
    BY <2>1, <2>3
  <2> HIDE DEF r
  <2>4. /\ fate' \in Seq(Fates) /\ Len(fate') = k /\ dials' \in Seq(Seq(Node))
        /\ Len(dials') = Len(dials) + 1 /\ Len(dials) \in Nat /\ Len(fate) \in Nat
        /\ DOMAIN dials = 1 .. Len(dials) /\ DOMAIN dials' = 1 .. Len(dials) + 1
        /\ \A i \in DOMAIN dials : dials'[i] = dials[i]
        /\ dials'[Len(dials) + 1] = r
    <3>1. "open" \in Fates /\ fate' = Append(fate, "open")
      BY <2>1 DEF Fates
    <3>2. fate' \in Seq(Fates) /\ Len(fate') = k /\ Len(fate) \in Nat
      BY <2>2, <3>1, Appended
    <3>3. /\ Append(dials, r) \in Seq(Seq(Node)) /\ Len(dials) \in Nat
          /\ Len(Append(dials, r)) = Len(dials) + 1
          /\ DOMAIN dials = 1 .. Len(dials) /\ DOMAIN Append(dials, r) = 1 .. Len(dials) + 1
          /\ \A i \in DOMAIN dials : Append(dials, r)[i] = dials[i]
          /\ Append(dials, r)[Len(dials) + 1] = r
      <4>1. r \in Seq(Node) /\ dials \in Seq(Seq(Node))
        BY <2>2, <2>12
      <4> HIDE DEF k
      <4> QED
        BY <4>1, Appended
    <3> QED
      BY <2>12, <3>2, <3>3
  <2> USE DEF r
  <2>5. Typed'
    BY <1>0, <2>1, <2>4 DEF Typed, Rotators
  <2>6. Accounts' /\ Banned' /\ BudgetKept'
    BY <2>1, <2>2, <2>4 DEF Accounts, Banned, BudgetKept, Inv
  <2>7. \A i \in DOMAIN dials : dials[i] # queue[k].route
    BY <2>3, <2>4 DEF Inv, Tried
  <2>8. NoRouteTwice'
    BY <2>4, <2>7 DEF Inv, NoRouteTwice
  <2>9. \A i \in DOMAIN dials' : dials'[i] \in tried'
    BY <2>1, <2>3, <2>4 DEF Inv, Tried
  <2>10. ASSUME NEW i \in DOMAIN dials', NEW j \in DOMAIN queue, j > k
         PROVE  dials'[i] # queue[j].route
    <3>1. CASE i \in DOMAIN dials
      <4>1. j > Len(fate)
        BY <2>2, <2>4, <2>10
      <4> QED
        BY <2>4, <3>1, <4>1 DEF Inv, Tried
    <3>2. CASE i = Len(dials) + 1
      BY <2>3, <2>4, <2>10, <3>2 DEF Inv, Tried
    <3> QED
      BY <2>4, <3>1, <3>2
  <2>11. Tried'
    BY <2>1, <2>4, <2>9, <2>10 DEF Inv, Tried
  <2> QED
    BY <2>5, <2>6, <2>8, <2>11 DEF Inv
\* An attempt settles: nothing is dialled or queued, and only fate[i] changes.
<1>4. ASSUME NEW i \in DOMAIN fate,
             \E f \in {"won", "failed", "lost"} : fate' = [fate EXCEPT ![i] = f],
             RaceUnchanged, pc = "race", dials' = dials, sticky' \in [Rotators -> Seq(Node)]
      PROVE  Inv'
  <2>1. /\ pc' = "race"
        /\ UNCHANGED <<setup, left, pick, at, cached, attempts, reserve, tried, queue, dials>>
    BY <1>4 DEF RaceUnchanged, shared, supplied
  <2>2. fate' \in Seq(Fates) /\ Len(fate') = Len(fate)
    <3>1. PICK f \in {"won", "failed", "lost"} : fate' = [fate EXCEPT ![i] = f]
      BY <1>4
    <3>2. f \in Fates /\ fate \in Seq(Fates)
      BY <1>0 DEF Typed, Fates
    <3> QED
      BY <3>1, <3>2, Replaced
  <2>3. Typed'
    BY <1>0, <1>4, <2>1, <2>2 DEF Typed, Rotators
  <2>4. Accounts' /\ Tried'
    BY <1>4, <2>1, <2>2 DEF Inv, Accounts, Tried
  <2>5. Banned' /\ BudgetKept' /\ NoRouteTwice'
    BY <1>4, <2>1 DEF Inv, Banned, BudgetKept, NoRouteTwice
  <2> QED
    BY <2>3, <2>4, <2>5 DEF Inv
<1>5. ASSUME NEW i \in DOMAIN fate, pc = "race"
      PROVE  queue[i].route \in Seq(Node)
  <2>1. i \in 1 .. Len(queue)
    BY <1>0, <1>5 DEF Inv, Typed, Accounts
  <2> QED
    BY <1>0, <2>1, CandidateRoute DEF Typed
<1>6. ASSUME NEW i \in DOMAIN fate, AttemptWins(i) PROVE Inv'
  <2>1. /\ pc = "race" /\ fate' = [fate EXCEPT ![i] = "won"] /\ RaceUnchanged /\ dials' = dials
        /\ sticky' = sticky \/ Link(queue[i].rot, queue[i].route)
    BY <1>6 DEF AttemptWins
  <2>2. sticky' \in [Rotators -> Seq(Node)]
    BY <1>0, <1>5, <2>1, CacheTyped DEF Typed, RaceUnchanged, shared
  <2> QED
    BY <1>4, <2>1, <2>2
<1>7. ASSUME NEW i \in DOMAIN fate, AttemptFails(i) PROVE Inv'
  <2>1. /\ pc = "race" /\ fate' = [fate EXCEPT ![i] = "failed"] /\ RaceUnchanged /\ dials' = dials
        /\ sticky' = sticky \/ Unlink(queue[i].rot)
    BY <1>7 DEF AttemptFails, UnlinkFailed, Racing
  <2>2. sticky' \in [Rotators -> Seq(Node)]
    BY <1>0, <1>5, <2>1, CacheTyped DEF Typed, RaceUnchanged, shared
  <2> QED
    BY <1>4, <2>1, <2>2
<1>8. ASSUME NEW i \in DOMAIN fate, AttemptVanishes(i) PROVE Inv'
  <2>1. /\ pc = "race" /\ RaceUnchanged /\ dials' = dials /\ sticky' = sticky
        /\ fate' = [fate EXCEPT ![i] = "lost"] \/ fate' = [fate EXCEPT ![i] = "failed"]
    BY <1>8 DEF AttemptVanishes, Racing
  <2> QED
    BY <1>0, <1>4, <2>1 DEF Typed
<1>9. CASE RaceFails
  <2>1. Typed' /\ UNCHANGED <<setup, attempts, tried, queue, dials, fate>> /\ pc' = "done"
    BY <1>0, <1>9 DEF RaceFails, Return, shared, search, planned, supplied, race, Typed, Rotators
  <2> QED
    BY <2>1, QuietInv
<1> QED
  BY <1>1, <1>2, <1>3, <1>6, <1>7, <1>8, <1>9 DEF Race

\* Every step of the request, and of the rest of the process, keeps the invariant.
LEMMA StepInv == Inv /\ [Next]_vars => Inv'
<1> SUFFICES ASSUME Inv, [Next]_vars PROVE Inv'
  OBVIOUS
<1>0. Typed
  BY DEF Inv
<1>1. CASE Cancel
  <2>1. Typed' /\ UNCHANGED <<setup, attempts, tried, queue, dials, fate>> /\ pc' = "done"
    BY <1>0, <1>1 DEF Cancel, Return, shared, search, planned, supplied, race, Typed, Rotators
  <2> QED
    BY <2>1, QuietInv
\* Others change only the cache and the quarantine.
<1>2. ASSUME sticky' \in [Rotators -> Seq(Node)],
             UNCHANGED <<setup, pc, at, cached, search, planned, supplied, race, result>>
      PROVE  Inv'
  <2>1. Typed' /\ UNCHANGED <<setup, attempts, tried, queue, dials, fate, pc>>
    BY <1>0, <1>2 DEF search, planned, supplied, race, Typed, Rotators
  <2> QED
    BY <2>1, QuietInv DEF Inv, Banned
<1>3. CASE Others
  <2>1. ASSUME NEW r \in Rotators, OtherUnlinks(r) PROVE Inv'
    <3>1. sticky' \in [Rotators -> Seq(Node)]
      BY <1>0, <2>1, CacheTyped DEF OtherUnlinks, ByOthers, Typed
    <3> QED
      BY <1>2, <2>1, <3>1 DEF OtherUnlinks, ByOthers
  <2>2. ASSUME NEW r \in Rotators, NEW route \in Linkable(r), OtherLinks(r, route) PROVE Inv'
    <3>1. route \in Seq(Node)
      BY <1>0, LinkableRoutes DEF Typed
    <3>2. sticky' \in [Rotators -> Seq(Node)]
      BY <2>2, <3>1, CacheTyped DEF OtherLinks, ByOthers
    <3> QED
      BY <1>2, <2>2, <3>2 DEF OtherLinks, ByOthers
  <2>3. ASSUME NEW cell \in Cells, HealthChanges(cell) PROVE Inv'
    BY <1>0, <1>2, <2>3 DEF HealthChanges, ByOthers, Typed
  <2> QED
    BY <1>3, <2>1, <2>2, <2>3 DEF Others
<1>4. CASE UNCHANGED vars
  BY <1>0, <1>2, <1>4 DEF vars, shared, Typed
<1> QED
  BY <1>1, <1>3, <1>4, StickyInv, WalkInv, RaceInv DEF Next

-----------------------------------------------------------------------------
(* The end of the search *)

Queued == {queue[j].route : j \in DOMAIN queue}
Ruled(c) == Len(c) > 1 /\ \E n \in dead : Supply!HasNode(c, n)
Searching == pc \notin {"race", "done"}

\* Where the request is: it has no result while it searches, a rotator in hand
\* while it judges a sticky route, and without gates it never meets a chain.
Paths == /\ others \in Nat
         /\ Searching => result = "none"
         /\ pc = "race" => result \in {"none", "ok"}
         /\ pc \in {"judge", "cachedDial", "blame"} => at \in Rotators
         /\ setup.gates = <<>> =>
               /\ pc \notin {"cachedDial", "blame", "walkDial"}
               /\ Len(cached) <= 1 /\ \A r \in Rotators : Len(sticky[r]) <= 1
         /\ \A j \in DOMAIN queue : Len(queue[j].route) = 1

\* What was tried is a chain that was dialled or a single upstream that is
\* queued; the reserve covers the queue and asks for one slot at least.
Queues == Searching => /\ \A c \in tried : c \in Dialled \/ c \in Queued
                       /\ \A c \in Dialled : Len(c) # 1
                       /\ reserve <= 1 \/ reserve <= Len(queue)
                       /\ Rotators = {} => reserve = 0
                       /\ pc = "fallback" /\ at > 1 /\ Room > 0 => Len(queue) > 0

\* The plan was built unless the budget is gone, and a walk that ends with
\* budget left has emptied it.
Plans == /\ plan \in {"none", "placeholder", "real"} /\ \A c \in left : Len(c) > 1
         /\ plan = "none" => \A c \in offered : Len(c) = 1
         /\ setup.gates = <<>> => plan = "none"
         /\ Searching /\ plan = "placeholder" => ~BudgetLeft
         /\ pc \in {"walk", "walkDial", "fallback"} /\ Walking => plan = "real"
         /\ pc = "fallback" /\ Walking => left = {}

\* No route that was offered is forgotten.
Offers == Searching =>
    \A c \in offered : \/ Len(c) = 1 /\ (Room > 0 => c \in tried)
                       \/ Len(c) > 1 /\ (c \in left \/ c \in Dialled \/ Ruled(c))

\* The race has the rest of the budget, or all there is to dial.
Complete == /\ setup.gates # <<>> => plan = "real"
            /\ \A c \in offered : c \in Dialled \/ c \in Queued \/ Ruled(c)
Races == pc = "race" => /\ attempts + Len(queue) = setup.max \/ Complete
                        /\ \A j \in DOMAIN queue : j <= Len(fate) => queue[j].route \in Dialled

Spent == Queues /\ Plans /\ Offers /\ Races /\ ErrIsExhaustive

\* Appending candidates for single upstreams to the queue.
LEMMA QueueOfSingles ==
    ASSUME NEW q \in Seq(Candidate), NEW new \in Seq(Candidate),
           \A i \in DOMAIN q : Len(q[i].route) = 1, \A i \in DOMAIN new : Len(new[i].route) = 1
    PROVE  \A i \in DOMAIN (q \o new) : Len((q \o new)[i].route) = 1
<1>1. /\ Len(q) \in Nat /\ Len(new) \in Nat /\ DOMAIN q = 1 .. Len(q) /\ DOMAIN new = 1 .. Len(new)
      /\ DOMAIN (q \o new) = 1 .. Len(q) + Len(new)
      /\ \A i \in DOMAIN q : (q \o new)[i] = q[i]
      /\ \A i \in DOMAIN (q \o new) : i \notin DOMAIN q =>
             i - Len(q) \in DOMAIN new /\ (q \o new)[i] = new[i - Len(q)]
  OBVIOUS
<1> QED
  BY <1>1

\* A step that changes neither the queue nor a sticky entry.
LEMMA QuietPaths ==
    ASSUME Paths, UNCHANGED <<setup, sticky, queue>>, others' \in Nat,
           pc' \notin {"race", "done"} => result' = "none",
           pc' = "race" => result' \in {"none", "ok"},
           pc' \in {"judge", "cachedDial", "blame"} => at' \in Rotators,
           setup.gates = <<>> => pc' \notin {"cachedDial", "blame", "walkDial"} /\ Len(cached') <= 1
    PROVE  Paths'
  BY DEF Paths, Searching, Rotators

\* Linking a route that fits the gates, or unlinking one.
LEMMA LinkPaths ==
    ASSUME Inv, Paths, NEW r, NEW route, sticky' = [sticky EXCEPT ![r] = route],
           setup.gates = <<>> => Len(route) <= 1
    PROVE  setup.gates = <<>> => \A k \in Rotators : Len(sticky'[k]) <= 1
<1> SUFFICES ASSUME setup.gates = <<>>, NEW k \in Rotators PROVE Len(sticky'[k]) <= 1
  OBVIOUS
<1>1. DOMAIN sticky = Rotators /\ Len(sticky[k]) <= 1
  BY DEF Inv, Typed, Paths
<1> QED
  BY <1>1

\* Without gates only single upstreams are linked.
LEMMA LinkableIsSingle ==
    ASSUME setup.gates = <<>>, NEW r, NEW route \in Linkable(r)
    PROVE  Len(route) = 1 /\ Len(route) <= 1
<1>1. route \in Singles(setup.exits[r])
  BY DEF Linkable
<1>2. PICK n \in setup.exits[r] : route = <<n>>
  BY <1>1 DEF Singles
<1> QED
  BY <1>2

LEMMA PathsStep == Inv /\ Paths /\ [Next]_vars => Paths'
<1> SUFFICES ASSUME Inv, Paths, [Next]_vars PROVE Paths'
  OBVIOUS
<1> USE DEF Searching, Rotators
<1>0. Len(<<>>) <= 1 /\ others \in Nat
  BY DEF Paths
<1>1. CASE Start \/ ReadSticky \/ JudgeMiss \/ JudgeTried \/ CachedChainConnects
  <2>1. /\ UNCHANGED <<setup, sticky, queue>> /\ others' = others
        /\ pc' \in {"read", "judge", "done"} /\ pc \notin {"race", "done"}
        /\ pc' # "done" => result' = result
        /\ pc' = "judge" => at' = at /\ at \in Rotators
        /\ cached' = cached \/ cached' = <<>> \/ (cached' = sticky[at] /\ at \in Rotators)
    BY <1>1 DEF Start, ReadSticky, JudgeMiss, JudgeTried, CachedChainConnects, Return,
                NextRotator, shared, search, NoRoute
  <2> QED
    BY <1>0, <2>1, QuietPaths DEF Paths
<1>2. CASE JudgeSingle
  <2>1. /\ UNCHANGED <<setup, sticky>> /\ others' = others /\ pc = "judge" /\ pc' = "read"
        /\ result' = result /\ cached' = <<>> /\ Len(cached) = 1
    BY <1>2 DEF JudgeSingle, NextRotator, shared, NoRoute
  <2>2. \A j \in DOMAIN queue' : Len(queue'[j].route) = 1
    <3>1. CASE queue' = queue
      BY <3>1 DEF Paths
    <3>2. CASE queue' # queue
      <4> DEFINE c == [rot |-> at, route |-> cached, cached |-> TRUE]
      <4>1. queue' = queue \o <<c>>
        BY <1>2, <3>2 DEF JudgeSingle, search
      <4>2. c \in Candidate
        BY CandidateMade DEF Inv, Typed
      <4>3. /\ <<c>> \in Seq(Candidate)
            /\ \A i \in DOMAIN <<c>> : Len(<<c>>[i].route) = 1
        BY <2>1, <4>2
      <4> HIDE DEF c
      <4>4. queue \in Seq(Candidate) /\ \A i \in DOMAIN queue : Len(queue[i].route) = 1
        BY DEF Inv, Typed, Paths
      <4> QED
        BY <4>1, <4>3, <4>4, QueueOfSingles
    <3> QED
      BY <3>1, <3>2
  <2> QED
    BY <1>0, <2>1, <2>2 DEF Paths
<1>3. CASE JudgeStale \/ BlameCached
  <2>1. /\ UNCHANGED <<setup, queue>> /\ others' = others /\ pc \in {"judge", "blame"}
        /\ pc' = "read" /\ result' = result /\ cached' = <<>>
        /\ sticky' = [sticky EXCEPT ![at] = <<>>]
    BY <1>3 DEF JudgeStale, BlameCached, Unlink, NextRotator, shared, search, NoRoute
  <2>2. setup.gates = <<>> => \A k \in Rotators : Len(sticky'[k]) <= 1
    BY <1>0, <2>1, LinkPaths
  <2> QED
    BY <1>0, <2>1, <2>2 DEF Paths
<1>4. CASE JudgeChain
  <2>1. /\ UNCHANGED <<setup, sticky, queue, at, cached>> /\ others' = others /\ pc = "judge"
        /\ Len(cached) > 1 /\ pc' \in {"done", "cachedDial"}
        /\ pc' # "done" => result' = result
    BY <1>4 DEF JudgeChain, Return, Dial, shared, search
  <2>2. setup.gates # <<>>
    <3>1. Len(cached) \in Nat
      BY DEF Inv, Typed
    <3> QED
      BY <2>1, <3>1 DEF Paths
  <2> QED
    BY <1>0, <2>1, <2>2, QuietPaths DEF Paths
<1>5. CASE CachedChainFails \/ EnterWalk \/ LeaveWalk \/ ChainFails
  <2>1. /\ UNCHANGED <<setup, sticky, queue, cached, result>> /\ others' = others
        /\ pc \notin {"race", "done"} /\ pc' \in {"blame", "walk", "fallback"}
        /\ pc' = "blame" => pc = "cachedDial" /\ at' = at
    BY <1>5 DEF CachedChainFails, EnterWalk, LeaveWalk, ChainFails, Fallback, shared, search
  <2> QED
    BY <1>0, <2>1, QuietPaths DEF Paths
<1>6. ASSUME NEW chain \in left, WalkOn(chain) PROVE Paths'
  <2>1. /\ UNCHANGED <<setup, sticky, queue, cached, result>> /\ others' = others
        /\ pc = "walk" /\ pc' \in {"walk", "walkDial"} /\ setup.gates # <<>>
    BY <1>6 DEF WalkOn, DialUntried, Dial, Walking, shared, search
  <2> QED
    BY <1>0, <2>1, QuietPaths DEF Paths
<1>7. CASE ChainConnects
  <2>1. /\ UNCHANGED <<setup, queue, cached>> /\ others' = others /\ pc = "walkDial" /\ pc' = "done"
    BY <1>7 DEF ChainConnects, Return, shared, search
  <2> QED
    BY <1>0, <2>1 DEF Paths
<1>8. CASE QueueSingles
  <2>1. /\ UNCHANGED <<setup, sticky, cached, result, pc>> /\ others' = others /\ pc = "fallback"
    BY <1>8 DEF QueueSingles, shared
  <2>2. PICK new \in Seq(Candidate) : queue' = queue \o new /\ \A i \in DOMAIN new : Len(new[i].route) = 1
    BY <1>8, SinglesQueued
  <2>3. \A j \in DOMAIN queue' : Len(queue'[j].route) = 1
    BY <2>2, QueueOfSingles DEF Inv, Typed, Paths
  <2> QED
    BY <1>0, <2>1, <2>3 DEF Paths
<1>9. CASE StartRace
  <2>1. /\ UNCHANGED <<setup, sticky, cached, result>> /\ others' = others /\ pc = "fallback"
        /\ pc' = "race" /\ queue' = Truncated
    BY <1>9 DEF StartRace, shared
  <2> QED
    BY <1>0, <2>1, TruncatedFacts DEF Paths
<1>10. CASE Launch \/ RaceFails \/ Cancel
  <2>1. /\ UNCHANGED <<setup, sticky, queue, cached>> /\ others' = others
        /\ pc' = "done" \/ (pc' = "race" /\ result' = "none")
    BY <1>10 DEF Launch, RaceFails, Cancel, Return, RaceUnchanged, shared, search
  <2> QED
    BY <1>0, <2>1, QuietPaths DEF Paths
<1>11. ASSUME NEW i \in DOMAIN fate, AttemptWins(i) \/ AttemptFails(i) \/ AttemptVanishes(i)
       PROVE  Paths'
  <2>1. /\ UNCHANGED <<setup, queue, cached>> /\ others' = others /\ pc = "race" /\ pc' = "race"
        /\ result' = result \/ result' = "ok"
        /\ \/ sticky' = sticky
           \/ sticky' = [sticky EXCEPT ![queue[i].rot] = <<>>]
           \/ sticky' = [sticky EXCEPT ![queue[i].rot] = queue[i].route]
    BY <1>11 DEF AttemptWins, AttemptFails, AttemptVanishes, Racing, UnlinkFailed, Link, Unlink,
                 RaceUnchanged, shared, NoRoute
  <2>2. i \in DOMAIN queue /\ Len(queue[i].route) <= 1
    <3>1. i \in 1 .. Len(queue) /\ queue \in Seq(Candidate)
      BY <2>1 DEF Inv, Typed, Accounts
    <3>2. i \in DOMAIN queue
      BY <3>1
    <3>3. Len(queue[i].route) = 1
      BY <3>2 DEF Paths
    <3> QED
      BY <3>2, <3>3
  <2>3. setup.gates = <<>> => \A k \in Rotators : Len(sticky'[k]) <= 1
    BY <1>0, <2>1, <2>2, LinkPaths DEF Paths
  <2> QED
    BY <1>0, <2>1, <2>3 DEF Paths
<1>12. CASE Others
  <2>1. /\ UNCHANGED <<setup, pc, at, cached, queue, result>> /\ others' = others + 1
    BY <1>12 DEF Others, OtherLinks, OtherUnlinks, HealthChanges, ByOthers, search
  <2>2. \/ sticky' = sticky
        \/ \E r \in Rotators : sticky' = [sticky EXCEPT ![r] = <<>>]
        \/ \E r \in Rotators : \E route \in Linkable(r) : sticky' = [sticky EXCEPT ![r] = route]
    BY <1>12, Zenon DEF Others, OtherLinks, OtherUnlinks, HealthChanges, Link, Unlink, NoRoute
  <2>3. setup.gates = <<>> => \A r \in Rotators : \A route \in Linkable(r) : Len(route) <= 1
    BY LinkableIsSingle
  <2>4. setup.gates = <<>> => \A k \in Rotators : Len(sticky'[k]) <= 1
    BY <1>0, <2>2, <2>3, LinkPaths DEF Paths
  <2> QED
    BY <1>0, <2>1, <2>4 DEF Paths
<1>13. CASE UNCHANGED vars
  BY <1>0, <1>13 DEF vars, shared, search, Paths
<1> QED
  BY <1>1, <1>2, <1>3, <1>4, <1>5, <1>6, <1>7, <1>8, <1>9, <1>10, <1>11, <1>12, <1>13
  DEF Next, Sticky, Walk, Race

LEMMA InitPaths == Init => Paths
<1> SUFFICES ASSUME Init PROVE Paths
  OBVIOUS
<1>1. /\ others = 0 /\ pc = "start" /\ result = "none" /\ cached = <<>> /\ queue = <<>>
      /\ \A r \in Rotators : sticky[r] \in Linkable(r) \cup {NoRoute}
  BY Zenon DEF Init, NoRoute
<1>2. setup.gates = <<>> => \A r \in Rotators : Len(sticky[r]) <= 1
  <2>1. setup.gates = <<>> => \A r \in Rotators : \A route \in Linkable(r) : Len(route) <= 1
    BY LinkableIsSingle
  <2>2. Len(NoRoute) <= 1
    BY DEF NoRoute
  <2> QED
    BY <1>1, <2>1, <2>2
<1> QED
  BY <1>1, <1>2 DEF Paths, Searching

\* The budget in numbers.
LEMMA Numbers ==
    ASSUME Inv
    PROVE  /\ setup.max \in Nat /\ attempts \in Nat /\ reserve \in Nat /\ attempts <= setup.max
           /\ queue \in Seq(Candidate) /\ Len(queue) \in Nat /\ DOMAIN queue = 1 .. Len(queue)
           /\ fate \in Seq(Fates) /\ Len(fate) \in Nat
           /\ Len(dials) = attempts + Len(fate) /\ Room \in Int
           /\ Room = setup.max - attempts - Len(queue)
  BY SetupFacts DEF Inv, Typed, Accounts, Room

LEMMA DialledGrows ==
    ASSUME Inv, NEW route \in Seq(Node), dials' = Append(dials, route)
    PROVE  Dialled' = Dialled \cup {route}
<1>1. dials \in Seq(Seq(Node))
  BY DEF Inv, Typed
<1>2. /\ Len(dials) \in Nat /\ DOMAIN dials = 1 .. Len(dials) /\ DOMAIN dials' = 1 .. Len(dials) + 1
      /\ \A i \in DOMAIN dials : dials'[i] = dials[i]
      /\ dials'[Len(dials) + 1] = route
  BY <1>1, Appended
<1>3. \A i \in DOMAIN dials' : i \in DOMAIN dials \/ i = Len(dials) + 1
  BY <1>2
<1>4. DOMAIN dials \subseteq DOMAIN dials' /\ Len(dials) + 1 \in DOMAIN dials'
  BY <1>2
<1>5. Dialled' \subseteq Dialled \cup {route}
  BY <1>2, <1>3 DEF Dialled
<1>6. Dialled \cup {route} \subseteq Dialled'
  BY <1>2, <1>4 DEF Dialled
<1> QED
  BY <1>5, <1>6

LEMMA QueuedGrows ==
    ASSUME queue \in Seq(Candidate), NEW new \in Seq(Candidate), queue' = queue \o new
    PROVE  /\ Len(queue') = Len(queue) + Len(new)
           /\ Queued' = Queued \cup {new[i].route : i \in DOMAIN new}
<1>1. /\ Len(queue) \in Nat /\ Len(new) \in Nat /\ Len(queue') = Len(queue) + Len(new)
      /\ DOMAIN queue = 1 .. Len(queue) /\ DOMAIN new = 1 .. Len(new)
      /\ DOMAIN queue' = 1 .. Len(queue) + Len(new)
      /\ \A i \in DOMAIN queue : queue'[i] = queue[i]
      /\ \A i \in DOMAIN queue' : i \notin DOMAIN queue =>
             i - Len(queue) \in DOMAIN new /\ queue'[i] = new[i - Len(queue)]
      /\ \A i \in DOMAIN new : queue'[Len(queue) + i] = new[i]
  OBVIOUS
<1>2. Queued' \subseteq Queued \cup {new[i].route : i \in DOMAIN new}
  BY <1>1 DEF Queued
<1>3. Queued \subseteq Queued'
  BY <1>1 DEF Queued
<1>4. ASSUME NEW i \in DOMAIN new PROVE new[i].route \in Queued'
  <2>1. Len(queue) + i \in DOMAIN queue'
    BY <1>1
  <2> QED
    BY <1>1, <2>1 DEF Queued
<1> QED
  BY <1>1, <1>2, <1>3, <1>4

Early == {"start", "read", "judge", "cachedDial", "blame"}

\* A step that leaves the search alone.
LEMMA QuietSpent ==
    ASSUME Spent, UNCHANGED <<setup, attempts, reserve, tried, queue, dials, plan, offered, left, dead>>,
           Len(fate') = Len(fate),
           \/ pc' = pc /\ at' = at /\ result' # "error"
           \/ pc' = pc /\ at' = at /\ result' = result
           \/ pc \in Early /\ pc' \in Early /\ result' = result
           \/ pc' = "done" /\ result' # "error"
    PROVE  Spent'
<1>1. /\ Dialled' = Dialled /\ Queued' = Queued /\ Room' = Room
      /\ BudgetLeft' <=> BudgetLeft
      /\ \A c \in offered : Ruled(c)' <=> Ruled(c)
  BY DEF Dialled, Queued, Room, BudgetLeft, Ruled
<1>2. Queues' /\ Offers'
  BY <1>1 DEF Spent, Queues, Offers, Searching, Early, Rotators
<1>3. Plans' /\ Races'
  BY <1>1 DEF Spent, Plans, Races, Complete, Searching, Early, Walking
<1>4. ErrIsExhaustive'
  BY <1>1 DEF Spent, ErrIsExhaustive, Ruled
<1> QED
  BY <1>2, <1>3, <1>4 DEF Spent

\* A chain is dialled, from the cache or from the plan.
LEMMA DialSpent ==
    ASSUME Inv, Paths, Spent, NEW route \in Seq(Node), Len(route) > 1, Dial(route),
           UNCHANGED <<setup, plan, offered, dead, result>>,
           \/ pc \in Early /\ pc' \in Early /\ left' = left
           \/ pc = "walk" /\ pc' = "walkDial" /\ left' = left \ {route}
    PROVE  Spent'
<1>1. /\ attempts' = attempts + 1 /\ reserve' = reserve /\ queue' = queue
      /\ tried' = tried \cup {route} /\ Dialled' = Dialled \cup {route}
  BY DialledGrows DEF Dial
<1>2. /\ Queued' = Queued /\ Room' = Room - 1 /\ Room \in Int /\ result' = "none"
      /\ BudgetLeft' => BudgetLeft
  <2>1. Queued' = Queued
    BY <1>1 DEF Queued
  <2>2. Room' = Room - 1 /\ Room \in Int
    <3>1. Room' = setup.max - (attempts + 1) - Len(queue)
      BY <1>1 DEF Room
    <3> QED
      BY <3>1, Numbers, SMTT(30)
  <2>3. BudgetLeft' => BudgetLeft
    BY <1>1, Numbers DEF BudgetLeft
  <2>4. result' = "none"
    BY DEF Paths, Searching, Early
  <2> QED
    BY <2>1, <2>2, <2>3, <2>4
<1>3. Searching /\ pc # "fallback" /\ Searching' /\ pc' # "fallback" /\ Len(route) # 1
  <2>1. Len(route) # 1
    <3>1. \A n \in Nat : n > 1 => n # 1
      OBVIOUS
    <3>2. Len(route) \in Nat
      OBVIOUS
    <3> QED
      BY <3>1, <3>2
  <2> QED
    BY <2>1 DEF Searching, Early
<1>4. Queues'
  BY <1>1, <1>2, <1>3 DEF Spent, Queues, Rotators
<1>5. Plans'
  BY <1>2, <1>3 DEF Spent, Plans, Walking, Early
<1>6. Offers'
  <2> SUFFICES ASSUME NEW c \in offered
               PROVE  \/ Len(c) = 1 /\ (Room' > 0 => c \in tried')
                      \/ Len(c) > 1 /\ (c \in left' \/ c \in Dialled' \/ Ruled(c)')
    BY DEF Offers
  <2>1. \/ Len(c) = 1 /\ (Room > 0 => c \in tried)
        \/ Len(c) > 1 /\ (c \in left \/ c \in Dialled \/ Ruled(c))
    BY <1>3 DEF Spent, Offers
  <2>2. Ruled(c)' <=> Ruled(c)
    BY DEF Ruled
  <2>3. Room' > 0 => Room > 0
    BY <1>2
  <2> QED
    BY <1>1, <2>1, <2>2, <2>3
<1>7. Races' /\ ErrIsExhaustive'
  BY <1>2, <1>3 DEF Races, ErrIsExhaustive, Searching
<1> QED
  BY <1>4, <1>5, <1>6, <1>7 DEF Spent

\* Single upstreams are queued, by a sticky entry or from a rotator.
LEMMA QueueSpent ==
    ASSUME Inv, Paths, Spent, NEW new \in Seq(Candidate), queue' = queue \o new,
           tried' = tried \cup {new[i].route : i \in DOMAIN new}, NEW singles,
           offered' = offered \cup singles,
           \A c \in singles : Len(c) = 1 /\ (Room' > 0 => c \in tried'),
           UNCHANGED <<setup, attempts, dials, plan, left, dead, result>>,
           reserve' \in Nat /\ reserve' >= reserve,
           reserve' <= 1 \/ reserve' <= Len(queue'), Rotators = {} => reserve' = 0,
           \/ pc \in Early /\ pc' \in Early
           \/ pc = "fallback" /\ pc' = "fallback" /\ (Room' > 0 => Len(queue') > 0)
    PROVE  Spent'
<1>1. /\ Len(queue') = Len(queue) + Len(new)
      /\ Queued' = Queued \cup {new[i].route : i \in DOMAIN new}
  BY QueuedGrows, Numbers
<1>2. Dialled' = Dialled /\ result' = "none" /\ Searching /\ Searching'
  BY DEF Dialled, Paths, Searching, Early
<1>3. (BudgetLeft' => BudgetLeft) /\ (Room' > 0 => Room > 0)
  <2>1. Len(new) \in Nat
    OBVIOUS
  <2>2. Room' = setup.max - attempts - (Len(queue) + Len(new))
    BY <1>1 DEF Room
  <2>3. BudgetLeft' <=> attempts + reserve' < setup.max
    BY DEF BudgetLeft
  <2> QED
    <3>1. BudgetLeft' => BudgetLeft
      BY <2>3, Numbers DEF BudgetLeft
    <3>2. Room' > 0 => Room > 0
      BY <2>1, <2>2, Numbers, SMTT(30)
    <3> QED
      BY <3>1, <3>2
<1>4. Queues'
  BY <1>1, <1>2 DEF Spent, Queues, Rotators, Early
<1>5. Plans'
  BY <1>2, <1>3 DEF Spent, Plans, Walking, Early
<1>6. Offers'
  <2> SUFFICES ASSUME NEW c \in offered'
               PROVE  \/ Len(c) = 1 /\ (Room' > 0 => c \in tried')
                      \/ Len(c) > 1 /\ (c \in left' \/ c \in Dialled' \/ Ruled(c)')
    BY DEF Offers
  <2>1. CASE c \in offered
    <3>1. \/ Len(c) = 1 /\ (Room > 0 => c \in tried)
          \/ Len(c) > 1 /\ (c \in left \/ c \in Dialled \/ Ruled(c))
      BY <1>2, <2>1 DEF Spent, Offers
    <3>2. Ruled(c)' <=> Ruled(c)
      BY DEF Ruled
    <3> QED
      BY <1>2, <1>3, <3>1, <3>2
  <2>2. CASE c \in singles
    BY <2>2
  <2> QED
    BY <2>1, <2>2
<1>7. Races' /\ ErrIsExhaustive'
  BY <1>2 DEF Races, ErrIsExhaustive, Searching
<1> QED
  BY <1>4, <1>5, <1>6, <1>7 DEF Spent

\* A dead hop strikes its chains from the plan.
LEMMA StrikeSpent ==
    ASSUME Inv, Paths, Spent, NEW r, RecordChainFailure(pick, r),
           UNCHANGED <<setup, attempts, reserve, tried, queue, dials, plan, offered, result>>,
           \/ pc = "blame" /\ pc' = "read"
           \/ pc = "walkDial" /\ pc' = "walk"
    PROVE  Spent'
<1>1. /\ left' \subseteq left /\ dead \subseteq dead'
      /\ \A c \in left : c \in left' \/ \E n \in dead' : Supply!HasNode(c, n)
  <2>1. CASE UNCHANGED supplied
    BY <2>1 DEF supplied
  <2>2. CASE ~UNCHANGED supplied
    <3>1. PICK h \in DOMAIN pick : Supply!Strike(pick[h]) /\ dead' = dead \cup {pick[h]}
      BY <2>2 DEF RecordChainFailure
    <3>2. left' = {c \in left : ~Supply!HasNode(c, pick[h])}
      BY <3>1 DEF Supply!Strike
    <3> QED
      BY <3>1, <3>2
  <2> QED
    BY <2>1, <2>2
<1>2. /\ Dialled' = Dialled /\ Queued' = Queued /\ Room' = Room
      /\ BudgetLeft' <=> BudgetLeft
      /\ result' = "none" /\ Searching /\ Searching'
  BY DEF Dialled, Queued, Room, BudgetLeft, Paths, Searching
<1>3. Queues'
  BY <1>2 DEF Spent, Queues, Rotators
<1>4. Plans'
  BY <1>1, <1>2 DEF Spent, Plans, Walking
<1>5. Offers'
  <2> SUFFICES ASSUME NEW c \in offered
               PROVE  \/ Len(c) = 1 /\ (Room' > 0 => c \in tried')
                      \/ Len(c) > 1 /\ (c \in left' \/ c \in Dialled' \/ Ruled(c)')
    BY DEF Offers
  <2>1. \/ Len(c) = 1 /\ (Room > 0 => c \in tried)
        \/ Len(c) > 1 /\ (c \in left \/ c \in Dialled \/ Ruled(c))
    BY <1>2 DEF Spent, Offers
  <2>2. CASE Len(c) = 1
    BY <1>2, <2>1, <2>2
  <2>3. CASE Len(c) > 1 /\ c \in left
    BY <1>1, <2>3 DEF Ruled
  <2>4. CASE Len(c) > 1 /\ (c \in Dialled \/ Ruled(c))
    BY <1>1, <1>2, <2>4 DEF Ruled
  <2> QED
    BY <2>1, <2>2, <2>3, <2>4
<1>6. Races' /\ ErrIsExhaustive'
  BY <1>2 DEF Races, ErrIsExhaustive, Searching
<1> QED
  BY <1>3, <1>4, <1>5, <1>6 DEF Spent

\* The plan is built, of chains.
LEMMA BuildSpent ==
    ASSUME Inv, Paths, Spent, BuildPlan, plan = "none", setup.gates # <<>>,
           UNCHANGED <<setup, attempts, reserve, tried, queue, dials, result>>,
           \/ pc = "cachedDial" /\ pc' = "blame"
           \/ pc = "read" /\ pc' = "walk"
    PROVE  Spent'
<1>1. \A c \in left' : Len(c) > 1
  <2> DEFINE gates == [l \in Levels |-> GateOrder(l)]
  <2>1. left' = ChainsOver(gates, UNION {ExitOrder(k) : k \in Rotators})
    BY DEF BuildPlan
  <2>2. Len(gates) \in Nat /\ Len(gates) >= 1
    <3>1. /\ setup.gates \in Seq((SUBSET Node) \ {{}}) /\ Levels = 1 .. Len(setup.gates)
          /\ Len(setup.gates) \in Nat
      BY SetupFacts DEF Inv, Typed
    <3>2. Len(setup.gates) >= 1
      BY <3>1
    <3>3. Len(gates) = Len(setup.gates)
      BY <3>1
    <3> QED
      BY <3>1, <3>2, <3>3
  <2> HIDE DEF gates
  <2>3. left' \subseteq [1 .. Len(gates) + 1 -> Node]
    BY <2>1 DEF ChainsOver
  <2>4. \A c \in left' : Len(c) = Len(gates) + 1
    BY <2>2, <2>3
  <2> QED
    BY <2>2, <2>4
<1>2. plan' = "real" /\ offered' = offered \cup left' /\ dead' = dead
  BY DEF BuildPlan
<1>3. /\ Dialled' = Dialled /\ Room' = Room /\ result' = "none" /\ Searching /\ Searching'
      /\ Queued' = Queued
  BY DEF Dialled, Room, Queued, Paths, Searching
<1>4. Queues'
  BY <1>3 DEF Spent, Queues, Rotators
<1>5. Plans'
  BY <1>1, <1>2, <1>3 DEF Spent, Plans, Walking
<1>6. Offers'
  <2> SUFFICES ASSUME NEW c \in offered'
               PROVE  \/ Len(c) = 1 /\ (Room' > 0 => c \in tried')
                      \/ Len(c) > 1 /\ (c \in left' \/ c \in Dialled' \/ Ruled(c)')
    BY DEF Offers
  <2>1. CASE c \in left'
    BY <1>1, <2>1
  <2>2. CASE c \in offered
    <3>1. Len(c) = 1
      BY <2>2 DEF Spent, Plans
    <3>2. Room > 0 => c \in tried
      <4>1. ~(Len(c) > 1)
        BY <3>1
      <4> QED
        BY <1>3, <2>2, <4>1 DEF Spent, Offers
    <3> QED
      BY <1>3, <3>1, <3>2
  <2> QED
    BY <1>2, <2>1, <2>2
<1>7. Races' /\ ErrIsExhaustive'
  BY <1>3 DEF Races, ErrIsExhaustive, Searching
<1> QED
  BY <1>4, <1>5, <1>6, <1>7 DEF Spent

LEMMA StickySpent == Inv /\ Paths /\ Spent /\ Sticky => Spent'
<1> SUFFICES ASSUME Inv, Paths, Spent, Sticky PROVE Spent'
  OBVIOUS
<1>1. CASE Start \/ ReadSticky \/ JudgeMiss \/ JudgeTried \/ JudgeStale \/ CachedChainConnects
  <2>1. /\ UNCHANGED <<setup, attempts, reserve, tried, queue, dials, plan, offered, left, dead, fate>>
        /\ pc \in Early
        /\ \/ pc' \in Early /\ result' = result
           \/ pc' = "done" /\ result' # "error"
    BY <1>1 DEF Start, ReadSticky, JudgeMiss, JudgeTried, JudgeStale, CachedChainConnects, Return,
                NextRotator, shared, search, planned, supplied, race, Early
  <2> QED
    BY <2>1, QuietSpent
<1>2. CASE JudgeSingle
  <2>1. /\ UNCHANGED <<setup, plan, offered, left, dead, fate, result>>
        /\ pc = "judge" /\ pc' = "read" /\ pc \in Early /\ pc' \in Early
    BY <1>2 DEF JudgeSingle, NextRotator, shared, planned, supplied, race, Early
  <2>2. CASE UNCHANGED search
    <3>1. UNCHANGED <<attempts, reserve, tried, queue, dials>>
      BY <2>2 DEF search
    <3> QED
      BY <2>1, <3>1, QuietSpent
  <2>3. CASE ~UNCHANGED search
    <3> DEFINE c == [rot |-> at, route |-> cached, cached |-> TRUE]
    <3>1. /\ queue' = queue \o <<c>> /\ tried' = tried \cup {cached}
          /\ reserve' = RaiseReserve /\ attempts' = attempts /\ dials' = dials
      BY <1>2, <2>3 DEF JudgeSingle
    <3>2. c \in Candidate /\ c.route = cached
      BY CandidateMade DEF Inv, Typed
    <3> HIDE DEF c
    <3>3. /\ <<c>> \in Seq(Candidate) /\ Len(<<c>>) = 1
          /\ {<<c>>[i].route : i \in DOMAIN <<c>>} = {cached}
      BY <3>2
    <3>4. Len(queue') = Len(queue) + 1
      BY <3>1, <3>3, QueuedGrows, Numbers
    <3>5. reserve' = IF reserve < Len(queue) + 1 THEN Len(queue) + 1 ELSE reserve
      BY <3>1 DEF RaiseReserve
    <3>6. reserve' \in Nat /\ reserve' >= reserve
      BY <3>5, Numbers
    <3>7. reserve' <= 1 \/ reserve' <= Len(queue')
      <4>1. reserve <= 1 \/ reserve <= Len(queue)
        BY <2>1 DEF Spent, Queues, Searching, Early
      <4> QED
        BY <3>4, <3>5, <4>1, Numbers
    <3>8. Rotators # {}
      BY <2>1 DEF Paths
    <3> DEFINE new == <<c>>
               none == {}
    <3>9. /\ offered' = offered \cup none /\ queue' = queue \o new /\ new \in Seq(Candidate)
          /\ tried' = tried \cup {new[i].route : i \in DOMAIN new}
          /\ \A d \in none : Len(d) = 1 /\ (Room' > 0 => d \in tried')
      BY <2>1, <3>1, <3>3
    <3> HIDE DEF new, none
    <3> QED
      BY <2>1, <3>1, <3>6, <3>7, <3>8, <3>9, QueueSpent
  <2> QED
    BY <2>2, <2>3
<1>3. CASE JudgeChain
  <2>1. /\ UNCHANGED <<setup, plan, offered, left, dead, fate>> /\ pc = "judge" /\ Len(cached) > 1
    BY <1>3 DEF JudgeChain, shared, planned, race
  <2>2. CASE attempts >= setup.max
    <3>1. pc' = "done" /\ UNCHANGED <<attempts, reserve, tried, queue, dials>>
      BY <1>3, <2>2 DEF JudgeChain, Return, search
    <3>2. fate = <<>>
      BY <2>1 DEF Inv, Accounts
    <3>3. Len(dials) = setup.max
      <4>1. Len(fate) = 0
        BY <3>2
      <4> QED
        BY <2>2, <4>1, Numbers
    <3>4. ErrIsExhaustive'
      BY <2>1, <3>1, <3>3 DEF ErrIsExhaustive
    <3>5. Queues' /\ Offers' /\ Races'
      BY <3>1 DEF Queues, Offers, Races, Searching
    <3>6. Plans'
      BY <2>1, <3>1 DEF Spent, Plans, Searching
    <3> QED
      BY <3>4, <3>5, <3>6 DEF Spent
  <2>3. CASE ~(attempts >= setup.max)
    <3>1. Dial(cached) /\ pc' = "cachedDial" /\ result' = result
      BY <1>3, <2>3 DEF JudgeChain
    <3>2. cached \in Seq(Node) /\ pc \in Early /\ pc' \in Early
      BY <2>1, <3>1 DEF Inv, Typed, Early
    <3> QED
      BY <2>1, <3>1, <3>2, DialSpent
  <2> QED
    BY <2>2, <2>3
<1>4. CASE CachedChainFails
  <2>1. /\ UNCHANGED <<setup, attempts, reserve, tried, queue, dials, fate, result>>
        /\ pc = "cachedDial" /\ pc' = "blame" /\ pc \in Early /\ pc' \in Early
    BY <1>4 DEF CachedChainFails, shared, search, race, Early
  <2>2. CASE plan # "none"
    <3>1. UNCHANGED <<plan, offered, left, dead>>
      BY <1>4, <2>2 DEF CachedChainFails, KeepPlan, planned, supplied
    <3> QED
      BY <2>1, <3>1, QuietSpent
  <2>3. CASE plan = "none" /\ BudgetLeft
    <3>1. BuildPlan
      BY <1>4, <2>3 DEF CachedChainFails, PlanNeeded
    <3>2. setup.gates # <<>>
      BY <2>1 DEF Paths
    <3> QED
      BY <2>1, <2>3, <3>1, <3>2, BuildSpent
  <2>4. CASE plan = "none" /\ ~BudgetLeft
    <3>1. plan' = "placeholder" /\ UNCHANGED <<offered, left, dead>>
      BY <1>4, <2>4 DEF CachedChainFails, PlanNeeded, supplied
    <3>2. /\ Dialled' = Dialled /\ Queued' = Queued /\ Room' = Room /\ result' = "none"
          /\ ~BudgetLeft'
      BY <2>1, <2>4 DEF Dialled, Queued, Room, BudgetLeft, Paths, Searching
    <3>3. Queues'
      BY <2>1, <3>2 DEF Spent, Queues, Rotators, Searching
    <3>4. Offers'
      BY <2>1, <3>1, <3>2 DEF Spent, Offers, Searching, Ruled
    <3>5. setup.gates # <<>>
      BY <2>1 DEF Paths
    <3>6. Plans'
      BY <2>1, <3>1, <3>2, <3>5 DEF Spent, Plans
    <3>7. Races' /\ ErrIsExhaustive'
      BY <2>1, <3>2 DEF Races, ErrIsExhaustive
    <3> QED
      BY <3>3, <3>4, <3>6, <3>7 DEF Spent
  <2> QED
    BY <2>2, <2>3, <2>4
<1>5. CASE BlameCached
  <2>1. /\ UNCHANGED <<setup, attempts, reserve, tried, queue, dials, plan, offered, result>>
        /\ pc = "blame" /\ pc' = "read" /\ RecordChainFailure(pick, at)
    BY <1>5 DEF BlameCached, NextRotator, shared, search, planned
  <2> QED
    BY <2>1, StrikeSpent
<1> QED
  BY <1>1, <1>2, <1>3, <1>4, <1>5 DEF Sticky

LEMMA WalkSpent == Inv /\ Paths /\ Spent /\ Walk => Spent'
<1> SUFFICES ASSUME Inv, Paths, Spent, Walk PROVE Spent'
  OBVIOUS
<1>1. CASE EnterWalk
  <2>1. /\ UNCHANGED <<setup, attempts, reserve, tried, queue, dials, fate, result>>
        /\ pc = "read" /\ pc' = "walk"
    BY <1>1 DEF EnterWalk, shared, search, race
  <2>2. CASE setup.gates # <<>> /\ BudgetLeft /\ plan = "none"
    <3>1. BuildPlan
      BY <1>1, <2>2 DEF EnterWalk
    <3> QED
      BY <2>1, <2>2, <3>1, BuildSpent
  <2>3. CASE ~(setup.gates # <<>> /\ BudgetLeft /\ plan = "none")
    <3>1. UNCHANGED <<plan, offered, left, dead>>
      BY <1>1, <2>3 DEF EnterWalk, KeepPlan, planned, supplied
    <3>2. /\ Dialled' = Dialled /\ Queued' = Queued /\ Room' = Room /\ result' = "none"
          /\ BudgetLeft' <=> BudgetLeft
      BY <2>1 DEF Dialled, Queued, Room, BudgetLeft, Paths, Searching
    <3>3. Queues'
      BY <2>1, <3>2 DEF Spent, Queues, Rotators, Searching
    <3>4. Offers'
      BY <2>1, <3>1, <3>2 DEF Spent, Offers, Searching, Ruled
    <3>5. Plans'
      BY <2>1, <2>3, <3>1, <3>2 DEF Spent, Plans, Walking, Searching
    <3>6. Races' /\ ErrIsExhaustive'
      BY <2>1, <3>2 DEF Races, ErrIsExhaustive
    <3> QED
      BY <3>3, <3>4, <3>5, <3>6 DEF Spent
  <2> QED
    BY <2>2, <2>3
<1>2. CASE LeaveWalk
  <2>1. /\ UNCHANGED <<setup, attempts, reserve, tried, queue, dials, plan, offered, left, dead, result>>
        /\ pc = "walk" /\ pc' = "fallback" /\ at' = 1
        /\ Walking => left = {}
    BY <1>2 DEF LeaveWalk, Fallback, shared, search, planned, Supply!Exhausted
  <2>2. /\ Dialled' = Dialled /\ Queued' = Queued /\ Room' = Room /\ result' = "none"
        /\ BudgetLeft' <=> BudgetLeft
    BY <2>1 DEF Dialled, Queued, Room, BudgetLeft, Paths, Searching
  <2>3. Queues'
    BY <2>1, <2>2 DEF Spent, Queues, Rotators, Searching
  <2>4. Offers'
    BY <2>1, <2>2 DEF Spent, Offers, Searching, Ruled
  <2>5. Plans'
    BY <2>1, <2>2 DEF Spent, Plans, Walking, Searching
  <2>6. Races' /\ ErrIsExhaustive'
    BY <2>1, <2>2 DEF Races, ErrIsExhaustive
  <2> QED
    BY <2>3, <2>4, <2>5, <2>6 DEF Spent
<1>3. ASSUME NEW chain \in left, WalkOn(chain) PROVE Spent'
  <2>1. /\ UNCHANGED <<setup, plan, offered, dead, fate, result, at>> /\ pc = "walk"
        /\ left' = left \ {chain}
    BY <1>3 DEF WalkOn, Supply!Offer, shared, planned, race
  <2>2. chain \in Seq(Node) /\ Len(chain) > 1
    BY DEF Inv, Typed, Spent, Plans
  <2>3. CASE chain \notin tried
    <3>1. Dial(chain) /\ pc' = "walkDial"
      BY <1>3, <2>3 DEF WalkOn, DialUntried
    <3> QED
      BY <2>1, <2>2, <3>1, DialSpent
  \* A chain the sticky phase dialled.
  <2>4. CASE chain \in tried
    <3>1. UNCHANGED <<attempts, reserve, tried, queue, dials, pc>>
      BY <1>3, <2>4 DEF WalkOn, DialUntried, search
    <3>2. chain \in Dialled
      <4>1. chain \in Dialled \/ chain \in Queued
        BY <2>1, <2>4 DEF Spent, Queues, Searching
      <4>2. ASSUME chain \in Queued PROVE FALSE
        <5>1. PICK j \in DOMAIN queue : chain = queue[j].route
          BY <4>2 DEF Queued
        <5>2. Len(chain) = 1
          BY <5>1 DEF Paths
        <5> QED
          BY <2>2, <5>2
      <4> QED
        BY <4>1, <4>2
    <3>3. /\ Dialled' = Dialled /\ Queued' = Queued /\ Room' = Room /\ result' = "none"
          /\ BudgetLeft' <=> BudgetLeft
      BY <2>1, <3>1 DEF Dialled, Queued, Room, BudgetLeft, Paths, Searching
    <3>4. Queues'
      BY <2>1, <3>1, <3>3 DEF Spent, Queues, Rotators, Searching
    <3>5. Offers'
      BY <2>1, <3>1, <3>2, <3>3 DEF Spent, Offers, Searching, Ruled
    <3>6. Plans'
      BY <2>1, <3>1, <3>3 DEF Spent, Plans, Walking, Searching
    <3>7. Races' /\ ErrIsExhaustive'
      BY <2>1, <3>1, <3>3 DEF Races, ErrIsExhaustive
    <3> QED
      BY <3>4, <3>5, <3>6, <3>7 DEF Spent
  <2> QED
    BY <2>3, <2>4
<1>4. CASE ChainConnects
  <2>1. /\ UNCHANGED <<setup, attempts, reserve, tried, queue, dials, plan, offered, left, dead, fate>>
        /\ pc' = "done" /\ result' = "ok"
    BY <1>4 DEF ChainConnects, Return, shared, search, planned, supplied
  <2> QED
    BY <2>1, QuietSpent
<1>5. CASE ChainFails
  <2>1. /\ UNCHANGED <<setup, attempts, reserve, tried, queue, dials, plan, offered, result>>
        /\ pc = "walkDial" /\ pc' = "walk" /\ RecordChainFailure(pick, owner[Exit(pick)])
    BY <1>5 DEF ChainFails, shared, search, planned
  <2> QED
    BY <2>1, StrikeSpent
<1> QED
  BY <1>1, <1>2, <1>3, <1>4, <1>5 DEF Walk

\* The budget cuts the queue to what is left of it, or not at all.
LEMMA TruncatedLen ==
    ASSUME Inv
    PROVE  /\ Room <= 0 => attempts + Len(Truncated) = setup.max
           /\ Room > 0 => Len(Truncated) = Len(queue)
<1> DEFINE room == IF attempts < setup.max THEN setup.max - attempts ELSE 0
           n == Smaller(Len(queue), room)
<1>1. /\ n \in Nat /\ n <= Len(queue)
      /\ Room <= 0 => attempts + n = setup.max
      /\ Room > 0 => n = Len(queue)
  BY Numbers, SMTT(30) DEF Smaller
<1>2. Truncated = SubSeq(queue, 1, n)
  BY DEF Truncated
<1> HIDE DEF n
<1>3. Len(Truncated) = n
  <2>1. queue \in Seq(Candidate) /\ Len(queue) \in Nat
    BY Numbers
  <2>2. n \in Nat /\ n <= Len(queue)
    BY <1>1
  <2> QED
    BY <1>2, <2>1, <2>2
<1> QED
  BY <1>1, <1>3

\* An exit rotator orders at least one upstream.
LEMMA SomeExit ==
    ASSUME Inv, NEW r \in Rotators
    PROVE  ExitOrder(r) # {}
<1>1. setup.exits[r] # {}
  <2>1. setup.exits \in Seq((SUBSET Node) \ {{}}) /\ r \in 1 .. Len(setup.exits)
    BY SetupFacts DEF Inv, Typed
  <2> QED
    BY <2>1
<1> QED
  BY <1>1 DEF ExitOrder, Selectable

LEMMA RaceSpent == Inv /\ Paths /\ Spent /\ Race => Spent'
<1> SUFFICES ASSUME Inv, Paths, Spent, Race PROVE Spent'
  OBVIOUS
<1>1. CASE QueueSingles
  <2>1. /\ UNCHANGED <<setup, attempts, reserve, dials, plan, left, dead, result>>
        /\ pc = "fallback" /\ pc' = "fallback" /\ at \in Rotators /\ Room > 0
        /\ offered' = offered \cup Singles(ExitOrder(at))
    BY <1>1 DEF QueueSingles, shared, supplied
  <2>2. PICK new \in Seq(Candidate) :
          /\ queue' = queue \o new
          /\ tried' = tried \cup {new[i].route : i \in DOMAIN new}
          /\ \/ Len(new) = Room
             \/ \A n \in ExitOrder(at) : <<n>> \in tried'
    BY <1>1, SinglesQueued
  <2>3. Len(queue') = Len(queue) + Len(new) /\ Len(new) \in Nat
    BY <2>2, QueuedGrows, Numbers
  <2>4. Room' > 0 => \A n \in ExitOrder(at) : <<n>> \in tried'
    <3>1. Room' = setup.max - attempts - (Len(queue) + Len(new))
      BY <2>1, <2>3 DEF Room
    <3>2. Len(new) = Room => ~(Room' > 0)
      BY <2>3, <3>1, Numbers, SMTT(30)
    <3> QED
      BY <2>2, <3>2
  <2>5. Room' > 0 => Len(queue') > 0
    <3> SUFFICES ASSUME Room' > 0 PROVE Len(queue') > 0
      OBVIOUS
    <3>1. PICK n : n \in ExitOrder(at) /\ <<n>> \in tried'
      BY <2>1, <2>4, SomeExit
    <3>2. CASE <<n>> \in tried
      <4>1. Len(<<n>>) = 1
        OBVIOUS
      <4>2. <<n>> \in Queued
        BY <2>1, <3>2, <4>1 DEF Spent, Queues, Searching
      <4>3. DOMAIN queue # {}
        BY <4>2 DEF Queued
      <4>4. Len(queue) > 0
        BY <4>3, Numbers
      <4> QED
        BY <2>3, <4>4, Numbers
    <3>3. CASE <<n>> \notin tried
      <4>1. DOMAIN new # {}
        BY <2>2, <3>1, <3>3
      <4>2. Len(new) > 0
        BY <2>3, <4>1
      <4> QED
        BY <2>3, <4>2, Numbers
    <3> QED
      BY <3>2, <3>3
  <2>6. \A c \in Singles(ExitOrder(at)) : Len(c) = 1 /\ (Room' > 0 => c \in tried')
    <3> SUFFICES ASSUME NEW n \in ExitOrder(at)
                 PROVE  Len(<<n>>) = 1 /\ (Room' > 0 => <<n>> \in tried')
      BY DEF Singles
    <3> QED
      BY <2>4
  <2>7. reserve' \in Nat /\ reserve' >= reserve
    BY <2>1, Numbers
  <2>8. reserve' <= 1 \/ reserve' <= Len(queue')
    <3>1. reserve <= 1 \/ reserve <= Len(queue)
      BY <2>1 DEF Spent, Queues, Searching
    <3> QED
      BY <2>1, <2>3, <3>1, Numbers
  <2>9. Rotators # {}
    BY <2>1
  <2> QED
    BY <2>1, <2>2, <2>5, <2>6, <2>7, <2>8, <2>9, QueueSpent
<1>2. CASE StartRace
  <2>1. /\ UNCHANGED <<setup, attempts, tried, dials, plan, offered, left, dead, fate, result>>
        /\ pc = "fallback" /\ pc' = "race" /\ queue' = Truncated
        /\ at \notin Rotators \/ Room <= 0
    BY <1>2 DEF StartRace, shared, planned, supplied, race
  <2>2. result' = "none" /\ Dialled' = Dialled
    BY <2>1 DEF Paths, Searching, Dialled
  <2>3. \A j \in DOMAIN queue' : ~(j <= Len(fate'))
    <3>1. Len(fate') = 0
      BY <2>1 DEF Inv, Accounts
    <3>2. Truncated \in Seq(Candidate)
      BY TruncatedFacts
    <3>3. \A j \in DOMAIN queue' : j \in Nat /\ j >= 1
      BY <2>1, <3>2
    <3> QED
      BY <3>1, <3>3
  <2>4. CASE Room <= 0
    <3>1. attempts' + Len(queue') = setup'.max
      BY <2>1, <2>4, TruncatedLen
    <3>2. Races'
      BY <2>3, <3>1 DEF Races
    <3> QED
      BY <2>1, <2>2, <3>2 DEF Spent, Queues, Plans, Offers, ErrIsExhaustive, Searching
  <2>5. CASE Room > 0
    <3>1. Queued' = Queued
      <4>1. Len(Truncated) = Len(queue) /\ Truncated \in Seq(Candidate)
        BY <2>5, TruncatedLen, TruncatedFacts
      <4>2. DOMAIN queue' = DOMAIN queue /\ \A i \in DOMAIN queue : queue'[i] = queue[i]
        BY <2>1, <4>1, TruncatedFacts, Numbers
      <4> QED
        BY <4>2 DEF Queued
    <3>2. BudgetLeft
      <4>0. at \notin Rotators /\ (reserve <= 1 \/ reserve <= Len(queue))
        <5>1. reserve <= 1 \/ reserve <= Len(queue)
          BY <2>1 DEF Spent, Queues, Searching
        <5> QED
          BY <2>1, <2>5, <5>1, Numbers
      <4>1. CASE Rotators = {}
        <5>1. reserve = 0
          BY <2>1, <4>1 DEF Spent, Queues, Searching
        <5> QED
          BY <2>5, <5>1, Numbers DEF BudgetLeft
      <4>2. CASE Rotators # {}
        <5>1. at > 1
          <6>1. Rotators = 1 .. Len(setup.exits) /\ Len(setup.exits) \in Nat /\ at \in Nat /\ at >= 1
            BY SetupFacts DEF Inv, Typed
          <6>2. Len(setup.exits) >= 1
            BY <4>2, <6>1
          <6> QED
            BY <4>0, <6>1, <6>2
        <5>2. Len(queue) > 0
          BY <2>1, <2>5, <5>1 DEF Spent, Queues, Searching
        <5>3. reserve <= Len(queue)
          BY <4>0, <5>2, Numbers
        <5> QED
          BY <2>5, <5>3, Numbers DEF BudgetLeft
      <4> QED
        BY <4>1, <4>2
    <3>3. setup.gates # <<>> => plan = "real" /\ left = {}
      BY <2>1, <3>2 DEF Spent, Plans, Walking
    <3>4. ASSUME NEW c \in offered PROVE c \in Dialled \/ c \in Queued \/ Ruled(c)
      <4>1. \/ Len(c) = 1 /\ c \in tried
            \/ Len(c) > 1 /\ (c \in left \/ c \in Dialled \/ Ruled(c))
        BY <2>1, <2>5 DEF Spent, Offers, Searching
      <4>2. CASE c \in tried
        BY <2>1, <4>2 DEF Spent, Queues, Searching
      <4>3. CASE Len(c) > 1 /\ c \in left
        <5>1. setup.gates = <<>> => Len(c) = 1
          BY DEF Spent, Plans
        <5>2. Len(c) = 1 => ~(Len(c) > 1)
          OBVIOUS
        <5> QED
          BY <3>3, <4>3, <5>1, <5>2
      <4> QED
        BY <4>1, <4>2, <4>3
    <3>5. Complete'
      BY <2>1, <2>2, <3>1, <3>3, <3>4 DEF Complete, Ruled
    <3>6. Races'
      BY <2>3, <3>5 DEF Races
    <3> QED
      BY <2>1, <2>2, <3>6 DEF Spent, Queues, Plans, Offers, ErrIsExhaustive, Searching
  <2> QED
    BY <2>4, <2>5, Numbers
<1>3. CASE Launch
  <2> DEFINE k == Len(fate) + 1
             r == queue[k].route
  <2>1. /\ pc = "race" /\ pc' = "race" /\ result' = "none" /\ Len(fate) < Len(queue)
        /\ fate' = Append(fate, "open") /\ dials' = Append(dials, r)
        /\ UNCHANGED <<setup, attempts, tried, queue, plan, offered, left, dead>>
    BY <1>3 DEF Launch, RaceUnchanged, shared, planned, supplied
  <2>2. r \in Seq(Node) /\ Len(fate') = Len(fate) + 1
    <3>1. k \in 1 .. Len(queue)
      BY <2>1, Numbers
    <3>2. "open" \in Fates
      BY DEF Fates
    <3> QED
      BY <2>1, <3>1, <3>2, Numbers, CandidateRoute, Appended
  <2>3. Dialled' = Dialled \cup {r}
    BY <2>1, <2>2, DialledGrows
  <2>4. \A j \in DOMAIN queue : j <= Len(fate) + 1 => j <= Len(fate) \/ j = k
    BY Numbers
  <2> HIDE DEF r
  <2>5. \A j \in DOMAIN queue : j <= Len(fate') => queue[j].route \in Dialled'
    BY <2>1, <2>2, <2>3, <2>4 DEF Spent, Races, r
  <2> HIDE DEF k
  <2>6. attempts + Len(queue) = setup.max \/ Complete'
    BY <2>1, <2>3 DEF Spent, Races, Complete, Queued, Ruled
  <2>7. Races'
    BY <2>1, <2>5, <2>6 DEF Races
  <2> QED
    BY <2>1, <2>7 DEF Spent, Queues, Plans, Offers, ErrIsExhaustive, Searching
<1>4. ASSUME NEW i \in DOMAIN fate, AttemptWins(i) \/ AttemptFails(i) \/ AttemptVanishes(i)
      PROVE  Spent'
  <2>1. /\ pc = "race" /\ pc' = pc /\ at' = at /\ result' \in {result, "ok"}
        /\ UNCHANGED <<setup, attempts, reserve, tried, queue, dials, plan, offered, left, dead>>
        /\ \E f \in Fates : fate' = [fate EXCEPT ![i] = f]
    BY <1>4 DEF AttemptWins, AttemptFails, AttemptVanishes, Racing, RaceUnchanged, shared,
                planned, supplied, Fates
  <2>2. Len(fate') = Len(fate)
    BY <2>1, Numbers, Replaced
  <2>3. result' # "error"
    BY <2>1 DEF Paths
  <2> QED
    BY <2>1, <2>2, <2>3, QuietSpent
<1>5. CASE RaceFails
  <2>1. /\ pc = "race" /\ pc' = "done" /\ result' = "error" /\ Len(fate) = Len(queue)
        /\ UNCHANGED <<setup, attempts, tried, queue, dials, plan, offered, left, dead>>
    BY <1>5 DEF RaceFails, Return, shared, search, planned, supplied
  <2>2. CASE attempts + Len(queue) = setup.max
    <3>1. Len(dials) = setup.max
      BY <2>1, <2>2, Numbers
    <3>2. ErrIsExhaustive'
      BY <2>1, <3>1 DEF ErrIsExhaustive
    <3> QED
      BY <2>1, <3>2 DEF Spent, Queues, Plans, Offers, Races, Searching
  <2>3. CASE Complete
    <3>1. Queued \subseteq Dialled
      <4>1. \A j \in DOMAIN queue : j <= Len(fate)
        BY <2>1, Numbers
      <4> QED
        BY <2>1, <4>1 DEF Spent, Races, Queued
    <3>2. Dialled' = Dialled
      BY <2>1 DEF Dialled
    <3>3. ErrIsExhaustive'
      BY <2>1, <2>3, <3>1, <3>2 DEF ErrIsExhaustive, Complete, Ruled
    <3> QED
      BY <2>1, <3>3 DEF Spent, Queues, Plans, Offers, Races, Searching
  <2> QED
    BY <2>1, <2>2, <2>3 DEF Spent, Races
<1> QED
  BY <1>1, <1>2, <1>3, <1>4, <1>5 DEF Race

LEMMA SpentStep == Inv /\ Paths /\ Spent /\ [Next]_vars => Spent'
<1> SUFFICES ASSUME Inv, Paths, Spent, [Next]_vars PROVE Spent'
  OBVIOUS
<1>1. CASE Cancel
  <2>1. /\ UNCHANGED <<setup, attempts, reserve, tried, queue, dials, plan, offered, left, dead, fate>>
        /\ pc' = "done" /\ result' = "cancelled"
    BY <1>1 DEF Cancel, Return, shared, search, planned, supplied, race
  <2> QED
    BY <2>1, QuietSpent
<1>2. CASE Others \/ UNCHANGED vars
  <2>1. /\ UNCHANGED <<setup, attempts, reserve, tried, queue, dials, plan, offered, left, dead, fate>>
        /\ pc' = pc /\ at' = at /\ result' = result
    BY <1>2 DEF Others, OtherLinks, OtherUnlinks, HealthChanges, ByOthers, vars, shared, search,
                planned, supplied, race
  <2> QED
    BY <2>1, QuietSpent
<1> QED
  BY <1>1, <1>2, StickySpent, WalkSpent, RaceSpent DEF Next

LEMMA InitSpent == Init => Spent
<1> SUFFICES ASSUME Init PROVE Spent
  OBVIOUS
<1>1. /\ pc = "start" /\ tried = {} /\ dials = <<>> /\ offered = {} /\ left = {} /\ plan = "none"
      /\ result = "none" /\ reserve = IF Rotators = {} THEN 0 ELSE 1
  BY DEF Init
<1>2. Dialled = {}
  BY <1>1 DEF Dialled
<1> QED
  BY <1>1, <1>2 DEF Spent, Queues, Plans, Offers, Races, ErrIsExhaustive, Searching

-----------------------------------------------------------------------------
(* Theorems *)

\* The inductive invariant of establish_connection's budget.
THEOREM Invariance == Spec => []Inv
<1> QED
  BY InitInv, StepInv, PTL DEF Spec

\* A request dials at most max_upstream_attempts upstreams over its sticky
\* routes, its chains and its race, and none for a banned target.
THEOREM BudgetKeptHolds == Spec => []BudgetKept
<1>1. Inv => BudgetKept
  BY DEF Inv
<1> QED
  BY <1>1, Invariance, PTL

\* A request dials no route twice, whichever phases and rotators offer it.
THEOREM NoRouteTwiceHolds == Spec => []NoRouteTwice
<1>1. Inv => NoRouteTwice
  BY DEF Inv
<1> QED
  BY <1>1, Invariance, PTL

\* The request writes a sticky entry only as it succeeds, the route that
\* succeeded and in its own rotator's cache, and removes entries only while it
\* has no result: an attempt that fails after the win leaves the winner linked.
THEOREM LinksTheWinnerHolds == Spec => LinksTheWinner
<1> DEFINE Rule(r) == \/ sticky'[r] = NoRoute /\ result' = "none"
                      \/ result = "none" /\ result' = "ok" /\ via'.rot = r /\ sticky'[r] = via'.route
           W == others' = others => \A r \in Rotators : sticky'[r] # sticky[r] => Rule(r)
<1>1. ASSUME Inv, Paths, [Next]_vars PROVE [W]_vars
  <2> SUFFICES ASSUME Next, others' = others, NEW r \in Rotators, sticky'[r] # sticky[r]
               PROVE  Rule(r)
    BY <1>1
  <2>0. DOMAIN sticky = Rotators /\ others \in Nat
    BY <1>1 DEF Inv, Typed, Paths
  \* An entry is removed.
  <2>1. ASSUME NEW k, Unlink(k), result' = result, result = "none" PROVE Rule(r)
    BY <2>0, <2>1 DEF Unlink, NoRoute
  \* The winner is linked.
  <2>2. ASSUME NEW c, Link(c.rot, c.route), via' = c, result = "none", result' = "ok" PROVE Rule(r)
    BY <2>0, <2>2 DEF Link
  <2>3. CASE Sticky
    <3>1. JudgeStale \/ BlameCached
      BY <2>3 DEF Sticky, Start, ReadSticky, JudgeMiss, JudgeSingle, JudgeTried, JudgeChain,
                  CachedChainConnects, CachedChainFails
    <3>2. Unlink(at) /\ result' = result /\ pc \in {"judge", "blame"}
      BY <3>1 DEF JudgeStale, BlameCached, NextRotator
    <3> QED
      BY <1>1, <2>1, <3>2 DEF Paths, Searching
  <2>4. CASE Walk
    <3> DEFINE k == owner[Exit(pick)]
               c == [rot |-> k, route |-> pick, cached |-> FALSE]
    <3>1. ChainConnects
      BY <2>4 DEF Walk, EnterWalk, LeaveWalk, ChainFails, WalkOn
    <3>2. pc = "walkDial" /\ Link(k, pick) /\ via' = c /\ result' = "ok"
      BY <3>1 DEF ChainConnects, Return
    <3>3. Link(c.rot, c.route)
      BY <3>2
    <3> QED
      BY <1>1, <2>2, <3>2, <3>3 DEF Paths, Searching
  <2>5. CASE Race
    <3>1. PICK i \in DOMAIN fate : AttemptWins(i) \/ AttemptFails(i)
      BY <2>5 DEF Race, QueueSingles, StartRace, Launch, RaceFails, AttemptVanishes
    <3>2. CASE AttemptWins(i)
      BY <2>2, <3>2 DEF AttemptWins
    <3>3. CASE AttemptFails(i)
      <4>1. result' = result /\ UnlinkFailed(queue[i])
        BY <3>3 DEF AttemptFails
      <4> QED
        BY <2>1, <4>1 DEF UnlinkFailed
    <3> QED
      BY <3>1, <3>2, <3>3
  <2>6. ~Cancel
    BY DEF Cancel
  <2>7. ~Others
    <3>1. Others => others' = others + 1
      BY DEF Others, OtherLinks, OtherUnlinks, HealthChanges, ByOthers
    <3> QED
      BY <2>0, <3>1
  <2> QED
    BY <2>3, <2>4, <2>5, <2>6, <2>7 DEF Next
<1> QED
  BY <1>1, Invariance, InitPaths, PathsStep, PTL DEF Spec, LinksTheWinner

\* A request that ends in an error has spent its budget, or has dialled all
\* that the plan and the rotators offered and no dead node rules out: neither
\* the reserve nor the placeholder plan ever hides a route that could be paid.
THEOREM ErrIsExhaustiveHolds == Spec => []ErrIsExhaustive
<1>1. Spent => ErrIsExhaustive
  BY DEF Spent
<1> QED
  BY <1>1, Invariance, InitPaths, PathsStep, InitSpent, SpentStep, PTL DEF Spec
=============================================================================
