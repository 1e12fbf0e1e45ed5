----------------------------- MODULE ChainPlan -----------------------------
(***************************************************************************)
(* ChainPlan: the lazy walk over every chain of one gate per level and an  *)
(* exit.  `index` is an odometer whose last layer turns fastest; a node    *)
(* found dead strikes every chain that contains it, and the walk jumps     *)
(* over the whole subtree below it.  The plan is owned by one request:     *)
(* its operations never overlap, but failures of a cached chain, of the    *)
(* last pick or of an earlier one arrive between any two calls of next.    *)
(***************************************************************************)
EXTENDS Integers, Sequences, FiniteSets

CONSTANTS
    Node,          \* node identities (singleton_key)
    Layouts,       \* candidate layers a plan may be built from
    Cached,        \* chains GateLevels::resolve may find for a sticky route
    MaxExcluded    \* bound on exclude calls

Injective(s) == \A i, j \in DOMAIN s : s[i] = s[j] => i = j

ASSUME LayoutsAssumption ==
    \A L \in Layouts : /\ L \in Seq(Seq(Node)) /\ L # <<>>
                       /\ \A l \in DOMAIN L : Injective(L[l])
ASSUME CachedAssumption == \A c \in Cached : c \in Seq(Node) /\ c # <<>>
ASSUME MaxExcludedAssumption == MaxExcluded \in Nat

\* deduplicate: the first offer of every identity, in the order offered.
Deduplicate(offers) ==
    LET first == {i \in DOMAIN offers : \A j \in 1 .. i - 1 : offers[j] # offers[i]}
        Rank(i) == Cardinality({j \in first : j <= i})
    IN  [k \in 1 .. Cardinality(first) |->
            offers[CHOOSE i \in first : Rank(i) = k]]

VARIABLES
    layers,     \* candidates of each layer, fixed when the plan is built
    index,      \* the odometer: a position in every layer
    live,       \* candidates of each layer not marked dead
    dead,       \* nodes marked dead
    seen,       \* chains excluded
    done,       \* the plan is exhausted
    call,       \* "idle", or "next" inside next_pick's loop
    last,       \* position of the chain the last next returned, or NoPick
    charged,    \* what the last operation, if record_failure, told the rotators:
                \* hard (record_error) or soft (record_failure) per hop
    returned    \* history: positions of all chains returned

planVars == <<layers, index, live, dead, seen, done>>
vars == <<planVars, call, last, charged, returned>>

NoPick == <<>>
Nobody == [hard |-> {}, soft |-> {}]

Depth == Len(layers)
Level == 1 .. Depth
Positions == {p \in [Level -> UNION {DOMAIN layers[l] : l \in Level}] :
                 \A l \in Level : p[l] \in DOMAIN layers[l]}
ChainAt(p) == [l \in Level |-> layers[l][p[l]]]

Init == /\ layers \in Layouts
        /\ index = [l \in Level |-> 1]
        /\ live = [l \in Level |-> Len(layers[l])]
        /\ dead = {} /\ seen = {}
        /\ done = (\E l \in Level : layers[l] = <<>>)
        /\ call = "idle" /\ last = NoPick /\ charged = Nobody /\ returned = {}

-----------------------------------------------------------------------------
(* next_pick *)

CallNext == /\ call = "idle" /\ call' = "next" /\ charged' = Nobody
            /\ UNCHANGED <<planVars, last, returned>>

\* Turn the odometer at layer d: the layers below d start over, and a layer
\* at its end carries into the one above.  A carry out of the first layer
\* ends the plan.
BumpKeepsTail(d) ==                                                \* mutant
    LET room == {l \in 1 .. d : index[l] < Len(layers[l])}
        carry == CHOOSE l \in room : \A k \in room : k <= l
    IN  IF room = {}
        THEN done' = TRUE /\ index' = [l \in Level |-> 1]
        ELSE /\ done' = done
             /\ index' = [l \in Level |-> IF l = carry THEN index[l] + 1
                                          ELSE IF l \in carry + 1 .. d THEN 1 ELSE index[l]]
BumpWithoutEnd(d) ==                                               \* mutant
    LET room == {l \in 1 .. d : index[l] < Len(layers[l])}
        carry == CHOOSE l \in room : \A k \in room : k <= l
    IN  /\ done' = done
        /\ index' = [l \in Level |-> IF room = {} THEN 1
                                     ELSE IF l = carry THEN index[l] + 1
                                     ELSE IF l > carry THEN 1 ELSE index[l]]
Bump(d) ==
    LET room == {l \in 1 .. d : index[l] < Len(layers[l])}
        carry == CHOOSE l \in room : \A k \in room : k <= l
    IN  IF room = {}
        THEN done' = TRUE /\ index' = [l \in Level |-> 1]
        ELSE /\ done' = done
             /\ index' = [l \in Level |-> IF l < carry THEN index[l]
                                          ELSE IF l = carry THEN index[l] + 1 ELSE 1]

DeadLayers == {l \in Level : layers[l][index[l]] \in dead}

\* The outermost dead node of the current chain: jump over its subtree.
JumpSubtree ==
    /\ call = "next" /\ ~done /\ DeadLayers # {}
    /\ Bump(CHOOSE l \in DeadLayers : \A k \in DeadLayers : l <= k)
    /\ UNCHANGED <<layers, live, dead, seen, call, last, charged, returned>>

\* The current chain has no dead node: step past it, then return it unless
\* it is excluded.
TakePick ==
    /\ call = "next" /\ ~done /\ DeadLayers = {}
    /\ Bump(Depth)
    /\ IF ChainAt(index) \in seen
       THEN UNCHANGED <<call, last, returned>>
       ELSE call' = "idle" /\ last' = index /\ returned' = returned \cup {index}
    /\ UNCHANGED <<layers, live, dead, seen, charged>>

NextIsNone ==
    /\ call = "next" /\ done
    /\ call' = "idle" /\ last' = NoPick
    /\ UNCHANGED <<planVars, charged, returned>>

-----------------------------------------------------------------------------
(* mark_dead, exclude, record_failure *)

MarkDead(n) ==
    LET hit == {l \in Level : \E i \in DOMAIN layers[l] : layers[l][i] = n}
    IN  IF n \in dead THEN UNCHANGED planVars
        ELSE /\ dead' = dead \cup {n}
             /\ live' = [l \in Level |-> IF l \in hit THEN live[l] - 1 ELSE live[l]]
             /\ done' = (done \/ \E l \in hit : live'[l] = 0)
             /\ UNCHANGED <<layers, index, seen>>

\* Chains a caller can hold: resolved for a sticky route, or returned by next.
Held == Cached \cup {ChainAt(p) : p \in returned}

Exclude(key) ==
    /\ call = "idle" /\ Cardinality(seen) < MaxExcluded
    /\ seen' = seen \cup {key} /\ charged' = Nobody
    /\ UNCHANGED <<layers, index, live, dead, done, call, last, returned>>

\* An error of the request or of this host counts against nobody.
LocalFailure(pick) ==
    /\ call = "idle" /\ charged' = Nobody
    /\ UNCHANGED <<planVars, call, last, returned>>

\* ChainStage::Connect, ChainStage::Target, and a gate that is itself down:
\* one hop is at fault and dies.
HardFailure(pick, hop) ==
    /\ call = "idle" /\ charged' = [hard |-> {pick[hop]}, soft |-> {}]
    /\ MarkDead(pick[hop])
    /\ UNCHANGED <<call, last, returned>>

\* ChainStage::Hop(i) of a gate, ambiguous: the gate or the hop after it.
GateFailure(pick, hop) ==
    /\ call = "idle" /\ hop < Len(pick)
    /\ charged' = [hard |-> {}, soft |-> {pick[hop], pick[hop + 1]}]
    /\ UNCHANGED <<planVars, call, last, returned>>

\* A hop number that is no gate of this chain: every hop is charged softly.
UnknownFailure(pick) ==
    /\ call = "idle"
    /\ charged' = [hard |-> {}, soft |-> {pick[h] : h \in DOMAIN pick}]
    /\ UNCHANGED <<planVars, call, last, returned>>

RecordFailure(pick) ==
    \/ LocalFailure(pick)
    \/ \E hop \in DOMAIN pick : HardFailure(pick, hop) \/ GateFailure(pick, hop)
    \/ UnknownFailure(pick)

Loop == JumpSubtree \/ TakePick \/ NextIsNone
Next == CallNext \/ Loop \/ \E pick \in Held : Exclude(pick) \/ RecordFailure(pick)

Spec == Init /\ [][Next]_vars

\* next_pick is a loop without an await: it runs until it returns.
FairSpec == Spec /\ WF_vars(Loop)

-----------------------------------------------------------------------------
(* Properties *)

\* p comes before q in the order of the walk.
Before(p, q) == \E l \in Level : p[l] < q[l] /\ \A k \in 1 .. l - 1 : p[k] = q[k]

\* Some node of the chain at p was marked dead.
HasDead(p) == \E l \in Level : layers[l][p[l]] \in dead

\* Types; an unfinished plan stands at a chain it can look up.
TypeOK ==
    /\ layers \in Layouts
    /\ index \in [Level -> Nat]
    /\ live \in [Level -> Nat]
    /\ dead \subseteq Node
    /\ seen \subseteq Seq(Node)
    /\ done \in BOOLEAN
    /\ call \in {"idle", "next"}
    /\ returned \subseteq Positions
    /\ last \in returned \cup {NoPick}
    /\ charged \in [hard : SUBSET Node, soft : SUBSET Node]
    /\ done \/ index \in Positions

\* The live counters of mark_dead are exact: they never wrap below zero, and
\* an unfinished plan has a live candidate in every layer.
LiveCounts ==
    /\ \A l \in Level :
          live[l] = Cardinality({i \in DOMAIN layers[l] : layers[l][i] \notin dead})
    /\ ~done => \A l \in Level : live[l] > 0

\* next_pick loses no chain: whatever the walk has passed (everything, once
\* it is exhausted) was returned, was excluded or contains a dead node, though
\* whole subtrees are jumped and nodes die between calls.
NothingSkipped ==
    \A p \in Positions :
        (done \/ Before(p, index)) => p \in returned \/ ChainAt(p) \in seen \/ HasDead(p)

\* What next_pick returns is new, is behind every earlier pick in the order
\* of the walk, is not excluded and has no node known to be dead.
FreshPick ==
    [][ call = "next" /\ call' = "idle" /\ last' # NoPick =>
          /\ \A p \in returned : Before(p, last')
          /\ ChainAt(last') \notin seen /\ ~HasDead(last') ]_vars

\* Every chain of one candidate per layer.
ChainsOf(L) ==
    {c \in [DOMAIN L -> Node] : \A l \in DOMAIN L : \E i \in DOMAIN L[l] : c[l] = L[l][i]}

\* The chains the plan still owes its caller.
Owed == {ChainAt(p) : p \in {q \in Positions \ returned : ChainAt(q) \notin seen /\ ~HasDead(q)}}

Supply == INSTANCE ChainSupply WITH
    left <- Owed,
    last <- (IF last = NoPick THEN NoPick ELSE ChainAt(last)),
    Supplies <- {ChainsOf(L) : L \in Layouts}

\* To its caller the plan, with its odometer, jumps and counters, is a supply
\* of chains: next answers with a chain still owed, or with None only when
\* none is; a failure strikes chains and adds none.
ImplementsSupply == Supply!Spec

\* Every call of next_pick returns.
NextReturns == call = "next" ~> call = "idle"
=============================================================================
