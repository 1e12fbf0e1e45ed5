-------------------------- MODULE ChainPlanProofs --------------------------
(***************************************************************************)
(* Proofs about ChainPlan, for any node identities, any candidate layers   *)
(* without duplicates and any cached chains.  The last part is about       *)
(* ChainDial, which dials the chains of the plan.                          *)
(***************************************************************************)
EXTENDS ChainPlan, ChainDial, FiniteSetTheorems, WellFoundedInduction, TLAPS

-----------------------------------------------------------------------------
(* Least and greatest elements *)

\* A non-empty set of numbers has a least element (well-foundedness of <).
LEMMA LeastExists ==
    ASSUME NEW S, S \subseteq Nat, S # {}
    PROVE  \E m \in S : \A k \in S : m <= k
<1> DEFINE R == OpToRel(<, Nat)
<1>1. IsWellFoundedOn(R, Nat)
  BY NatLessThanWellFounded
<1>2. \A x, y \in Nat : x < y => <<x, y>> \in R
  BY DEF OpToRel
<1> HIDE DEF R
<1>3. \E x \in S : \A y \in S : ~(<<y, x>> \in R)
  BY <1>1, WFMin
<1>4. PICK x \in S : \A y \in S : ~(<<y, x>> \in R)
  BY <1>3
<1>5. \A k \in S : ~(k < x)
  BY <1>2, <1>4, Zenon
<1>6. \A k \in S : x <= k
  BY <1>5
<1> QED
  BY <1>6

\* A non-empty set of layers has a greatest element.
LEMMA GreatestExists ==
    ASSUME NEW S, NEW n \in Nat, S \subseteq 1 .. n, S # {}
    PROVE  \E m \in S : \A k \in S : k <= m
<1> DEFINE T == {n - k : k \in S}
<1>1. \A t \in T : t \in Nat
  OBVIOUS
<1>2. T \subseteq Nat /\ T # {}
  BY <1>1, Zenon
<1>3. PICK m \in T : \A k \in T : m <= k
  BY <1>2, LeastExists
<1>4. PICK x \in S : m = n - x
  OBVIOUS
<1>5. \A k \in S : n - x <= n - k
  BY <1>3, <1>4
<1> QED
  BY <1>4, <1>5

-----------------------------------------------------------------------------
(* Layers, positions and the odometer *)

\* What new guarantees of the layers: some layer exists, none repeats a node.
LEMMA LayerFacts ==
    ASSUME layers \in Layouts
    PROVE  /\ Depth \in Nat /\ Depth >= 1 /\ Level = 1 .. Depth
           /\ \A l \in Level : /\ layers[l] \in Seq(Node) /\ Len(layers[l]) \in Nat
                               /\ DOMAIN layers[l] = 1 .. Len(layers[l])
                               /\ Injective(layers[l])
  BY LayoutsAssumption DEF Depth, Level

\* The odometer p stands within every layer.
Within(p) == p \in [Level -> Nat] /\ \A l \in Level : p[l] \in 1 .. Len(layers[l])

\* Positions, as an interval per layer.
LEMMA InPositions ==
    ASSUME layers \in Layouts, NEW p
    PROVE  p \in Positions <=> Within(p)
<1>1. ASSUME p \in Positions PROVE Within(p)
  <2>1. /\ p \in [Level -> UNION {DOMAIN layers[l] : l \in Level}]
        /\ \A l \in Level : p[l] \in DOMAIN layers[l]
    BY <1>1 DEF Positions
  <2>2. \A l \in Level : p[l] \in 1 .. Len(layers[l]) /\ p[l] \in Nat
    <3> TAKE l \in Level
    <3>1. DOMAIN layers[l] = 1 .. Len(layers[l]) /\ Len(layers[l]) \in Nat
      BY LayerFacts
    <3>2. p[l] \in 1 .. Len(layers[l])
      BY <2>1, <3>1
    <3> QED
      BY <3>1, <3>2
  <2> QED
    BY <2>1, <2>2 DEF Within
<1>2. ASSUME Within(p) PROVE p \in Positions
  <2>1. \A l \in Level : p[l] \in DOMAIN layers[l]
    BY <1>2, LayerFacts DEF Within
  <2>2. p \in [Level -> UNION {DOMAIN layers[l] : l \in Level}]
    BY <1>2, <2>1 DEF Within
  <2> QED
    BY <2>1, <2>2 DEF Positions
<1> QED
  BY <1>1, <1>2

\* Turning the odometer at layer d moves it forward within the layers, or
\* ends the plan; it passes only positions equal to the old one up to d.
LEMMA BumpTurns ==
    ASSUME layers \in Layouts, layers' = layers, Within(index), ~done,
           NEW d \in Level, Bump(d)
    PROVE  /\ index' \in [Level -> Nat] /\ done' \in BOOLEAN
           /\ done' \/ (Within(index') /\ Before(index, index'))
           /\ \A p : Within(p) /\ Before(p, index) => done' \/ Before(p, index')
           /\ \A p : Within(p) /\ (done' \/ Before(p, index')) =>
                        Before(p, index) \/ \A k \in 1 .. d : p[k] = index[k]
<1> DEFINE room == {l \in 1 .. d : index[l] < Len(layers[l])}
           carry == CHOOSE l \in room : \A k \in room : k <= l
<1>0. d \in Nat /\ d <= Depth /\ Depth \in Nat /\ Level = 1 .. Depth
  BY LayerFacts
\* p and the odometer, when they differ up to d, have a first difference.
<1>3. ASSUME NEW p, NEW j \in 1 .. d, p[j] # index[j]
      PROVE  \E l \in 1 .. d : p[l] # index[l] /\ \A k \in 1 .. l - 1 : p[k] = index[k]
  <2> DEFINE D == {k \in 1 .. d : p[k] # index[k]}
  <2>1. D \subseteq Nat /\ D # {}
    BY <1>3
  <2>2. PICK l \in D : \A k \in D : l <= k
    BY <2>1, LeastExists
  <2>3. \A k \in 1 .. l - 1 : k \in 1 .. d /\ ~(l <= k)
    BY <1>0
  <2>4. \A k \in 1 .. l - 1 : p[k] = index[k]
    BY <2>2, <2>3
  <2> QED
    BY <2>2, <2>4
<1>1. CASE room = {}
  <2>1. done' = TRUE /\ index' = [l \in Level |-> 1]
    BY <1>1 DEF Bump
  <2>2. \A k \in 1 .. d : index[k] = Len(layers[k]) /\ k \in Level
    BY <1>0, <1>1, LayerFacts DEF Within
  <2>3. ASSUME NEW p, Within(p)
        PROVE  Before(p, index) \/ \A k \in 1 .. d : p[k] = index[k]
    <3>0. SUFFICES ASSUME NEW j \in 1 .. d, p[j] # index[j]
                   PROVE  Before(p, index)
      OBVIOUS
    <3>1. PICK l \in 1 .. d : p[l] # index[l] /\ \A k \in 1 .. l - 1 : p[k] = index[k]
      BY <1>3, <3>0
    <3>2. l \in Level /\ p[l] \in 1 .. Len(layers[l]) /\ index[l] = Len(layers[l])
      BY <2>2, <2>3 DEF Within
    <3>3. p[l] < index[l]
      BY <3>1, <3>2, LayerFacts
    <3> QED
      BY <3>1, <3>2, <3>3 DEF Before
  <2> QED
    BY <2>1, <2>3
<1>2. CASE room # {}
  <2>1. \E m \in room : \A k \in room : k <= m
    BY <1>0, <1>2, GreatestExists
  <2>2. carry \in room /\ \A k \in room : k <= carry
    BY <2>1
  <2>3. /\ done' = done
        /\ index' = [l \in Level |-> IF l < carry THEN index[l]
                                     ELSE IF l = carry THEN index[l] + 1 ELSE 1]
    BY <1>2 DEF Bump
  <2> HIDE DEF carry
  <2>4. /\ carry \in 1 .. d /\ carry \in Level /\ index[carry] < Len(layers[carry])
        /\ \A k \in 1 .. d : k > carry => index[k] = Len(layers[k])
    BY <1>0, <2>2, LayerFacts DEF Within
  <2> HIDE DEF room
  <2>5. \A l \in Level : /\ l < carry => index'[l] = index[l]
                         /\ l = carry => index'[l] = index[l] + 1
                         /\ l > carry => index'[l] = 1
    BY <1>0, <2>3, <2>4
  <2>6. Within(index')
    <3>1. ASSUME NEW l \in Level
          PROVE  index'[l] \in 1 .. Len(layers[l]) /\ index'[l] \in Nat
      <4>1. /\ l \in Nat /\ carry \in Nat /\ Len(layers[l]) \in Nat
            /\ index[l] \in Nat /\ index[l] >= 1 /\ index[l] <= Len(layers[l])
        BY <1>0, <2>4, LayerFacts DEF Within
      <4> QED
        BY <2>4, <2>5, <4>1
    <3> QED
      BY <2>3, <3>1 DEF Within
  <2>7. Before(index, index')
    BY <1>0, <2>4, <2>5, SMTT(30) DEF Before, Within
  <2>8. ASSUME NEW p, Within(p), Before(p, index)
        PROVE  Before(p, index')
    <3>1. PICK l \in Level : p[l] < index[l] /\ \A k \in 1 .. l - 1 : p[k] = index[k]
      BY <2>8 DEF Before
    <3>2. CASE l <= carry
      <4>0. p[l] \in Nat /\ index[l] \in Nat /\ l \in Nat /\ carry \in Nat
        BY <1>0, <2>4, <2>8 DEF Within
      <4>1. p[l] < index'[l]
        BY <2>5, <3>1, <3>2, <4>0
      <4>2. \A k \in 1 .. l - 1 : p[k] = index'[k]
        BY <1>0, <2>4, <2>5, <3>1, <3>2
      <4> QED
        BY <4>1, <4>2 DEF Before
    <3>3. CASE l > carry
      <4>1. p[carry] = index[carry] /\ index'[carry] = index[carry] + 1
        BY <1>0, <2>4, <2>5, <3>1, <3>3
      <4>2. p[carry] < index'[carry]
        BY <2>4, <4>1 DEF Within
      <4>3. \A k \in 1 .. carry - 1 : p[k] = index'[k]
        BY <1>0, <2>4, <2>5, <3>1, <3>3
      <4> QED
        BY <2>4, <4>2, <4>3 DEF Before
    <3> QED
      BY <1>0, <2>4, <3>2, <3>3
  <2>9. ASSUME NEW p, Within(p), Before(p, index')
        PROVE  Before(p, index) \/ \A k \in 1 .. d : p[k] = index[k]
    <3>1. PICK e \in Level : p[e] < index'[e] /\ \A k \in 1 .. e - 1 : p[k] = index'[k]
      BY <2>9 DEF Before
    <3>2. e <= carry
      BY <1>0, <2>4, <2>5, <2>9, <3>1, LayerFacts DEF Within
    <3>3. \A k \in 1 .. e - 1 : p[k] = index[k]
      BY <1>0, <2>4, <2>5, <3>1, <3>2
    <3>4. p[e] < index[e] \/ (e = carry /\ p[e] = index[e])
      BY <1>0, <2>4, <2>5, <2>9, <3>1, <3>2 DEF Within
    <3>5. ASSUME e = carry, p[carry] = index[carry], NEW l \in 1 .. d, p[l] # index[l],
                 \A k \in 1 .. l - 1 : p[k] = index[k]
          PROVE  Before(p, index)
      <4>1. l > carry /\ l \in Level
        BY <1>0, <2>4, <3>3, <3>5
      <4>2. index[l] = Len(layers[l]) /\ p[l] \in 1 .. Len(layers[l])
        BY <2>4, <2>9, <4>1 DEF Within
      <4>3. p[l] < index[l]
        BY <3>5, <4>1, <4>2, LayerFacts
      <4> QED
        BY <3>5, <4>1, <4>3 DEF Before
    <3>6. CASE p[e] < index[e]
      BY <3>3, <3>6 DEF Before
    <3>7. CASE e = carry /\ p[e] = index[e]
      <4>1. ASSUME NEW j \in 1 .. d, p[j] # index[j]
            PROVE  Before(p, index)
        <5>1. PICK l \in 1 .. d : p[l] # index[l] /\ \A k \in 1 .. l - 1 : p[k] = index[k]
          BY <1>3, <4>1
        <5> QED
          BY <3>5, <3>7, <5>1
      <4> QED
        BY <4>1
    <3> QED
      BY <3>4, <3>6, <3>7
  <2>10. done' = FALSE
    BY <2>3
  <2> QED
    BY <2>6, <2>7, <2>8, <2>9, <2>10, Zenon DEF Within
<1> QED
  BY <1>1, <1>2

-----------------------------------------------------------------------------
(* The live counters *)

\* The size of a layer's index range.
LEMMA UpToCard ==
    ASSUME NEW n \in Nat
    PROVE  Cardinality(1 .. n) = n
<1>1. Cardinality(1 .. n) = IF 1 > n THEN 0 ELSE n - 1 + 1
  BY FS_Interval
<1> QED
  BY <1>1

Alive(l) == {i \in DOMAIN layers[l] : layers[l][i] \notin dead}

\* The live candidates of a layer can be counted.
LEMMA AliveFinite ==
    ASSUME layers \in Layouts, NEW l \in Level
    PROVE  /\ IsFiniteSet(Alive(l)) /\ Cardinality(Alive(l)) \in Nat
           /\ (Cardinality(Alive(l)) = 0 => Alive(l) = {})
<1>0. DOMAIN layers[l] = 1 .. Len(layers[l]) /\ Len(layers[l]) \in Int /\ 1 \in Int
  BY LayerFacts
<1>1. IsFiniteSet(DOMAIN layers[l])
  BY <1>0, FS_Interval
<1>2. Alive(l) \in SUBSET (DOMAIN layers[l])
  BY DEF Alive
<1>3. IsFiniteSet(Alive(l))
  BY <1>1, <1>2, FS_Subset
<1> QED
  BY <1>3, FS_CardinalityType, FS_EmptySet

\* mark_dead decrements the counter of exactly the layers it empties by one.
LEMMA MarkDeadCounts ==
    ASSUME TypeOK, LiveCounts, NEW n \in Node, MarkDead(n)
    PROVE  LiveCounts' /\ live' \in [Level -> Nat] /\ layers' = layers
<1>0. layers \in Layouts /\ live \in [Level -> Nat] /\ done \in BOOLEAN
  BY DEF TypeOK
<1>1. CASE n \in dead
  BY <1>0, <1>1 DEF MarkDead, planVars, LiveCounts, Level, Depth
<1>2. CASE n \notin dead
  <2> DEFINE hit == {l \in Level : \E i \in DOMAIN layers[l] : layers[l][i] = n}
             AliveNow(l) == {i \in DOMAIN layers[l] : layers[l][i] \notin dead \cup {n}}
  <2>1. /\ dead' = dead \cup {n} /\ layers' = layers
        /\ live' = [l \in Level |-> IF l \in hit THEN live[l] - 1 ELSE live[l]]
        /\ done' = (done \/ \E l \in hit : live'[l] = 0)
    BY <1>2 DEF MarkDead
  <2>2. ASSUME NEW l \in Level
        PROVE  live'[l] = Cardinality(AliveNow(l)) /\ live'[l] \in Nat
    <3>1. live[l] = Cardinality(Alive(l)) /\ live[l] \in Nat /\ IsFiniteSet(Alive(l))
      BY <1>0, AliveFinite DEF LiveCounts, Alive
    <3>2. CASE l \in hit
      <4>1. PICK i \in DOMAIN layers[l] : layers[l][i] = n
        BY <3>2
      <4>2. i \in Alive(l) /\ AliveNow(l) = Alive(l) \ {i}
        BY <1>0, <1>2, <4>1, LayerFacts DEF Alive, Injective
      <4>3. Cardinality(Alive(l) \ {i}) = Cardinality(Alive(l)) - 1 /\ IsFiniteSet(Alive(l) \ {i})
        BY <3>1, <4>2, FS_RemoveElement
      <4>4. Cardinality(Alive(l) \ {i}) \in Nat
        BY <4>3, FS_CardinalityType
      <4>5. live'[l] = live[l] - 1
        BY <2>1, <3>2
      <4> QED
        BY <3>1, <4>2, <4>3, <4>4, <4>5
    <3>3. CASE l \notin hit
      <4>1. AliveNow(l) = Alive(l)
        BY <3>3 DEF Alive
      <4>2. live'[l] = live[l]
        BY <2>1, <3>3
      <4> QED
        BY <3>1, <4>1, <4>2
    <3> QED
      BY <3>2, <3>3
  <2>3. live' \in [Level -> Nat]
    BY <2>1, <2>2
  <2>4. ASSUME ~done', NEW l \in Level
        PROVE  live'[l] > 0
    <3>1. live[l] > 0 /\ (l \in hit => live'[l] # 0)
      BY <2>1, <2>4 DEF LiveCounts
    <3> HIDE DEF hit
    <3> QED
      BY <1>0, <2>1, <2>2, <3>1
  <2>5. Level' = Level
    BY <2>1 DEF Level, Depth
  <2>6. \A l \in Level :
          live'[l] = Cardinality({i \in DOMAIN layers'[l] : layers'[l][i] \notin dead'})
    BY <2>1, <2>2
  <2> QED
    BY <2>1, <2>3, <2>4, <2>5, <2>6 DEF LiveCounts
<1> QED
  BY <1>1, <1>2

-----------------------------------------------------------------------------
(* The inductive invariant *)

\* The walk has passed every chain it returned.
ReturnedBehind == \A p \in returned : done \/ Before(p, index)

Inv == TypeOK /\ LiveCounts /\ NothingSkipped /\ ReturnedBehind

\* A new plan satisfies the invariant.
LEMMA InitInv == Init => Inv
<1> SUFFICES ASSUME Init PROVE Inv
  OBVIOUS
<1>1. /\ layers \in Layouts /\ index = [l \in Level |-> 1]
      /\ live = [l \in Level |-> Len(layers[l])] /\ dead = {} /\ seen = {} /\ returned = {}
      /\ done = (\E l \in Level : layers[l] = <<>>)
      /\ call = "idle" /\ last = NoPick /\ charged = Nobody
  BY DEF Init
<1>2. \A l \in Level : /\ Len(layers[l]) \in Nat /\ (~done => Len(layers[l]) > 0)
                       /\ DOMAIN layers[l] = 1 .. Len(layers[l])
  BY <1>1, LayerFacts
<1>3. ~done => index \in Positions
  <2>1. ~done => Within(index)
    BY <1>1, <1>2 DEF Within
  <2> QED
    BY <1>1, <2>1, InPositions
<1>4. TypeOK
  BY <1>1, <1>2, <1>3 DEF TypeOK, Nobody
<1>5. LiveCounts
  <2>1. ASSUME NEW l \in Level
        PROVE  live[l] = Cardinality({i \in DOMAIN layers[l] : layers[l][i] \notin dead})
    <3>1. {i \in DOMAIN layers[l] : layers[l][i] \notin dead} = 1 .. Len(layers[l])
      BY <1>1, <1>2
    <3>2. Cardinality(1 .. Len(layers[l])) = Len(layers[l])
      BY <1>2, UpToCard
    <3> QED
      BY <1>1, <3>1, <3>2
  <2> QED
    BY <1>1, <1>2, <2>1 DEF LiveCounts
<1>6. NothingSkipped
  <2>1. ASSUME NEW p \in Positions PROVE ~done /\ ~Before(p, index)
    <3>1. Within(p)
      BY <1>1, <2>1, InPositions
    <3> QED
      BY <1>1, <1>2, <3>1 DEF Before, Within
  <2> QED
    BY <2>1 DEF NothingSkipped
<1>7. ReturnedBehind
  BY <1>1 DEF ReturnedBehind
<1> QED
  BY <1>4, <1>5, <1>6, <1>7 DEF Inv

\* A turn of the odometer at d keeps the invariant if the positions equal to
\* the old one up to d are accounted for.
LEMMA TurnKeeps ==
    ASSUME Inv, ~done, NEW d \in Level, Bump(d), UNCHANGED <<layers, live, dead, seen, charged>>,
           returned' = returned \/ returned' = returned \cup {index},
           call' \in {"idle", "next"}, last' \in returned' \cup {NoPick},
           \A p \in Positions : (\A k \in 1 .. d : p[k] = index[k]) =>
               p \in returned' \/ ChainAt(p) \in seen \/ HasDead(p)
    PROVE  Inv'
<1>0. layers \in Layouts /\ layers' = layers /\ index \in Positions /\ returned \subseteq Positions
  BY DEF Inv, TypeOK
<1>1. Within(index)
  BY <1>0, InPositions
<1>2. /\ index' \in [Level -> Nat] /\ done' \in BOOLEAN
      /\ done' \/ (Within(index') /\ Before(index, index'))
      /\ \A p : Within(p) /\ Before(p, index) => done' \/ Before(p, index')
      /\ \A p : Within(p) /\ (done' \/ Before(p, index')) =>
                   Before(p, index) \/ \A k \in 1 .. d : p[k] = index[k]
  BY <1>0, <1>1, BumpTurns
<1>3. /\ Level' = Level /\ Positions' = Positions
      /\ \A p : ChainAt(p)' = ChainAt(p) /\ HasDead(p)' = HasDead(p)
      /\ \A p, q : Before(p, q)' = Before(p, q)
      /\ Before(index, index)' = Before(index', index')
  BY <1>0 DEF Level, Depth, Positions, ChainAt, HasDead, Before
<1>4. done' \/ index' \in Positions
  BY <1>0, <1>2, InPositions
<1>5. TypeOK'
  BY <1>0, <1>2, <1>3, <1>4 DEF Inv, TypeOK
<1>6. LiveCounts'
  BY <1>3 DEF Inv, LiveCounts
<1>7. NothingSkipped'
  <2>1. ASSUME NEW p \in Positions, done' \/ Before(p, index')
        PROVE  p \in returned' \/ ChainAt(p) \in seen \/ HasDead(p)
    <3>1. Within(p)
      BY <1>0, <2>1, InPositions
    <3>2. CASE Before(p, index)
      BY <3>2, <2>1 DEF Inv, NothingSkipped
    <3>3. CASE \A k \in 1 .. d : p[k] = index[k]
      BY <3>3, <2>1
    <3> QED
      BY <1>2, <2>1, <3>1, <3>2, <3>3
  <2> QED
    BY <1>3, <2>1 DEF NothingSkipped, Before, ChainAt, HasDead
<1>8. ReturnedBehind'
  <2>1. ASSUME NEW p \in returned' PROVE done' \/ Before(p, index')
    <3>1. CASE p \in returned
      <4>1. Within(p) /\ Before(p, index)
        BY <1>0, <3>1, InPositions DEF Inv, ReturnedBehind
      <4> QED
        BY <1>2, <4>1
    <3>2. CASE p = index
      BY <1>2, <3>2
    <3> QED
      BY <3>1, <3>2
  <2> QED
    BY <1>3, <2>1 DEF ReturnedBehind, Before
<1> QED
  BY <1>5, <1>6, <1>7, <1>8 DEF Inv

\* Jumping over a dead node's subtree passes only chains with that node.
LEMMA JumpSubtreeInv == Inv /\ JumpSubtree => Inv'
<1> SUFFICES ASSUME Inv, JumpSubtree PROVE Inv'
  OBVIOUS
<1> DEFINE first == CHOOSE l \in DeadLayers : \A k \in DeadLayers : l <= k
<1>1. layers \in Layouts
  BY DEF Inv, TypeOK
<1>2. DeadLayers \subseteq Nat /\ DeadLayers # {}
  BY <1>1, LayerFacts DEF DeadLayers, JumpSubtree
<1>3. \E l \in DeadLayers : \A k \in DeadLayers : l <= k
  BY <1>2, LeastExists
<1>4. first \in DeadLayers
  BY <1>3
<1>5. /\ ~done /\ Bump(first) /\ UNCHANGED <<layers, live, dead, seen, charged>>
      /\ returned' = returned /\ call' = call /\ last' = last
  BY DEF JumpSubtree
<1> HIDE DEF first
<1>6. first \in Level /\ first \in 1 .. first /\ layers[first][index[first]] \in dead
  BY <1>1, <1>4, LayerFacts DEF DeadLayers
<1>7. \A p \in Positions : (\A k \in 1 .. first : p[k] = index[k]) =>
          p \in returned' \/ ChainAt(p) \in seen \/ HasDead(p)
  BY <1>6 DEF HasDead
<1>8. call' \in {"idle", "next"} /\ last' \in returned' \cup {NoPick}
  BY <1>5 DEF Inv, TypeOK
<1> QED
  BY <1>5, <1>6, <1>7, <1>8, TurnKeeps

\* Advancing passes only the chain just returned or excluded.
LEMMA TakePickInv == Inv /\ TakePick => Inv'
<1> SUFFICES ASSUME Inv, TakePick PROVE Inv'
  OBVIOUS
<1>1. layers \in Layouts /\ index \in Positions
  BY DEF Inv, TypeOK, TakePick
<1>2. Depth \in Level /\ Level = 1 .. Depth
  BY <1>1, LayerFacts
<1>3. ~done /\ Bump(Depth) /\ UNCHANGED <<layers, live, dead, seen, charged>>
  BY DEF TakePick
<1>4. /\ returned' = returned \/ returned' = returned \cup {index}
      /\ call' \in {"idle", "next"} /\ last' \in returned' \cup {NoPick}
      /\ index \in returned' \/ ChainAt(index) \in seen
  BY DEF TakePick, Inv, TypeOK
<1>5. ASSUME NEW p \in Positions, \A k \in 1 .. Depth : p[k] = index[k]
      PROVE  p \in returned' \/ ChainAt(p) \in seen \/ HasDead(p)
  <2>1. p = index
    BY <1>1, <1>2, <1>5 DEF Positions
  <2> QED
    BY <1>4, <2>1
<1> QED
  BY <1>2, <1>3, <1>4, <1>5, TurnKeeps

\* Marking a node dead keeps what the walk has passed accounted for.
LEMMA MarkDeadInv ==
    ASSUME Inv, NEW n \in Node, MarkDead(n), UNCHANGED <<call, last, returned>>,
           charged' \in [hard : SUBSET Node, soft : SUBSET Node]
    PROVE  Inv'
<1>1. /\ layers' = layers /\ index' = index /\ seen' = seen
      /\ dead \subseteq dead' /\ dead' \subseteq Node
      /\ done' \in BOOLEAN /\ (done => done')
  BY DEF Inv, TypeOK, MarkDead, planVars
<1>2. LiveCounts' /\ live' \in [Level -> Nat] /\ layers' = layers
  BY MarkDeadCounts DEF Inv
<1>3. layers \in Layouts /\ Level' = Level /\ Positions' = Positions /\ Depth' = Depth
  BY <1>1 DEF Inv, TypeOK, Level, Depth, Positions
<1>4. TypeOK'
  BY <1>1, <1>2, <1>3 DEF Inv, TypeOK
<1>5. ReturnedBehind'
  BY <1>1, <1>3 DEF Inv, ReturnedBehind, Before
<1>6. ASSUME NEW p \in Positions, HasDead(p)
      PROVE  HasDead(p)'
  BY <1>1, <1>3, <1>6 DEF HasDead
<1>7. ASSUME done', ~done, NEW p \in Positions
      PROVE  HasDead(p)'
  <2>1. PICK l \in Level : live'[l] = 0
    BY <1>7 DEF MarkDead, planVars
  <2>2. Cardinality({i \in DOMAIN layers'[l] : layers'[l][i] \notin dead'}) = 0
    BY <1>2, <1>3, <2>1 DEF LiveCounts
  <2>3. DOMAIN layers[l] = 1 .. Len(layers[l]) /\ Len(layers[l]) \in Int /\ 1 \in Int
    BY <1>3, LayerFacts
  <2>4. IsFiniteSet(DOMAIN layers[l])
    BY <2>3, FS_Interval
  <2>5. {i \in DOMAIN layers[l] : layers[l][i] \notin dead'} \in SUBSET DOMAIN layers[l]
    OBVIOUS
  <2>6. IsFiniteSet({i \in DOMAIN layers[l] : layers[l][i] \notin dead'})
    BY <2>4, <2>5, FS_Subset
  <2>7. {i \in DOMAIN layers[l] : layers[l][i] \notin dead'} = {}
    BY <1>1, <2>2, <2>6, FS_EmptySet
  <2>8. p[l] \in DOMAIN layers[l]
    BY DEF Positions
  <2> QED
    BY <1>1, <1>3, <2>7, <2>8 DEF HasDead
<1>8. NothingSkipped'
  <2>1. ASSUME NEW p \in Positions, done' \/ Before(p, index)
        PROVE  p \in returned \/ ChainAt(p) \in seen \/ HasDead(p)'
    BY <1>6, <1>7, <2>1 DEF Inv, NothingSkipped
  <2> QED
    BY <1>1, <1>3, <2>1 DEF NothingSkipped, Before, ChainAt
<1> QED
  BY <1>2, <1>4, <1>5, <1>8 DEF Inv

\* The chains a caller holds are sequences of nodes.
LEMMA HeldChains ==
    ASSUME Inv
    PROVE  \A pick \in Held : pick \in Seq(Node)
<1>1. ASSUME NEW p \in returned PROVE ChainAt(p) \in Seq(Node)
  <2>1. /\ Depth \in Nat /\ Level = 1 .. Depth
        /\ \A l \in Level : layers[l] \in Seq(Node) /\ p[l] \in DOMAIN layers[l]
    BY <1>1, LayerFacts DEF Inv, TypeOK, Positions
  <2>2. ChainAt(p) \in [1 .. Depth -> Node]
    BY <2>1 DEF ChainAt
  <2> QED
    BY <2>1, <2>2
<1> QED
  BY <1>1, CachedAssumption DEF Inv, Held

\* Every step of the plan and its callers keeps the invariant.
LEMMA StepInv == Inv /\ [Next]_vars => Inv'
<1> SUFFICES ASSUME Inv, [Next]_vars PROVE Inv'
  OBVIOUS
<1>0. TypeOK /\ \A pick \in Held : pick \in Seq(Node)
  BY HeldChains DEF Inv
\* Steps that move neither the walk, the layers nor the dead nodes.
<1>1. ASSUME UNCHANGED <<layers, index, live, dead, done, returned>>, seen \subseteq seen',
             TypeOK'
      PROVE  Inv'
  <2>1. Level' = Level /\ Positions' = Positions
    BY <1>1 DEF Level, Depth, Positions
  <2>2. LiveCounts'
    BY <1>1, <2>1 DEF Inv, LiveCounts
  <2>3. NothingSkipped'
    BY <1>1, <2>1 DEF Inv, NothingSkipped, Before, ChainAt, HasDead
  <2>4. ReturnedBehind'
    BY <1>1, <2>1 DEF Inv, ReturnedBehind, Before
  <2> QED
    BY <1>1, <2>2, <2>3, <2>4 DEF Inv
<1>2. ASSUME UNCHANGED <<layers, index, live, dead, done, returned>>,
             seen' \subseteq Seq(Node), call' \in {"idle", "next"},
             last' \in returned \cup {NoPick}, charged' \in [hard : SUBSET Node, soft : SUBSET Node]
      PROVE  TypeOK'
  <2>1. Level' = Level /\ Positions' = Positions
    BY <1>2 DEF Level, Depth, Positions
  <2> QED
    BY <1>0, <1>2, <2>1 DEF TypeOK
<1>3. CASE CallNext
  BY <1>0, <1>1, <1>2, <1>3 DEF CallNext, planVars, Nobody, TypeOK
<1>4. CASE NextIsNone
  BY <1>0, <1>1, <1>2, <1>4 DEF NextIsNone, planVars, TypeOK
<1>5. ASSUME NEW pick \in Held, Exclude(pick) PROVE Inv'
  BY <1>0, <1>1, <1>2, <1>5 DEF Exclude, Nobody, TypeOK
<1>6. ASSUME NEW pick \in Held, LocalFailure(pick) PROVE Inv'
  BY <1>0, <1>1, <1>2, <1>6 DEF LocalFailure, planVars, Nobody, TypeOK
<1>7. ASSUME NEW pick \in Held, NEW hop \in DOMAIN pick, HardFailure(pick, hop) PROVE Inv'
  <2>1. pick[hop] \in Node
    BY <1>0
  <2> QED
    BY <1>7, <2>1, MarkDeadInv DEF HardFailure
<1>8. ASSUME NEW pick \in Held, NEW hop \in DOMAIN pick, GateFailure(pick, hop) PROVE Inv'
  <2>1. pick[hop] \in Node /\ pick[hop + 1] \in Node
    BY <1>0, <1>8 DEF GateFailure
  <2> QED
    BY <1>0, <1>1, <1>2, <1>8, <2>1 DEF GateFailure, planVars, TypeOK
<1>9. ASSUME NEW pick \in Held, UnknownFailure(pick) PROVE Inv'
  <2>1. {pick[h] : h \in DOMAIN pick} \subseteq Node
    BY <1>0
  <2> QED
    BY <1>0, <1>1, <1>2, <1>9, <2>1 DEF UnknownFailure, planVars, TypeOK
<1>10. CASE UNCHANGED vars
  BY <1>0, <1>1, <1>2, <1>10 DEF vars, planVars, TypeOK
<1> QED
  BY <1>3, <1>4, <1>5, <1>6, <1>7, <1>8, <1>9, <1>10, JumpSubtreeInv, TakePickInv
     DEF Next, Loop, RecordFailure

-----------------------------------------------------------------------------
(* Theorems *)

\* The inductive invariant of ChainPlan's walk.
THEOREM Invariance == Spec => []Inv
<1> QED
  BY InitInv, StepInv, PTL DEF Spec

\* ChainPlan's state keeps its types; an unfinished plan always stands at a
\* chain that exists (next_pick's indexing cannot fail).
THEOREM TypeCorrect == Spec => []TypeOK
<1>1. Inv => TypeOK
  BY DEF Inv
<1> QED
  BY <1>1, Invariance, PTL

\* mark_dead's live counters are exact in every layer, never wrap, and a plan
\* goes on only while every layer has a live candidate.
THEOREM LiveCountsHold == Spec => []LiveCounts
<1>1. Inv => LiveCounts
  BY DEF Inv
<1> QED
  BY <1>1, Invariance, PTL

\* next_pick's walk, with advance and jump_subtree, loses no chain: all that
\* it passed was returned, excluded or has a dead node.
THEOREM NothingSkippedHolds == Spec => []NothingSkipped
<1>1. Inv => NothingSkipped
  BY DEF Inv
<1> QED
  BY <1>1, Invariance, PTL

\* next_pick never returns a chain twice, out of order, excluded or with a
\* node that is known to be dead.
THEOREM FreshPickHolds == Spec => FreshPick
<1> DEFINE Fresh == call = "next" /\ call' = "idle" /\ last' # NoPick =>
                      /\ \A p \in returned : Before(p, last')
                      /\ ChainAt(last') \notin seen /\ ~HasDead(last')
<1>1. Inv /\ [Next]_vars => [Fresh]_vars
  <2> SUFFICES ASSUME Inv, Next, call = "next", call' = "idle", last' # NoPick
               PROVE  /\ \A p \in returned : Before(p, last')
                      /\ ChainAt(last') \notin seen /\ ~HasDead(last')
    OBVIOUS
  <2>1. TakePick
    BY DEF Next, Loop, CallNext, JumpSubtree, NextIsNone, Exclude, RecordFailure,
           LocalFailure, HardFailure, GateFailure, UnknownFailure
  <2>2. last' = index /\ ~done /\ ChainAt(index) \notin seen /\ DeadLayers = {}
    BY <2>1 DEF TakePick
  <2>3. ~HasDead(index)
    BY <2>2 DEF HasDead, DeadLayers
  <2>4. \A p \in returned : Before(p, index)
    BY <2>2 DEF Inv, ReturnedBehind
  <2> QED
    BY <2>2, <2>3, <2>4
<1> QED
  BY <1>1, Invariance, PTL DEF Spec, FreshPick

-----------------------------------------------------------------------------
(* The plan is a supply of chains *)

\* Positions of the chains still owed, and the plan's last answer.
Due == {q \in Positions \ returned : ChainAt(q) \notin seen /\ ~HasDead(q)}
Answer == IF last = NoPick THEN NoPick ELSE ChainAt(last)

\* Different positions are different chains, as no layer repeats a node.
LEMMA ChainAtInjective ==
    ASSUME layers \in Layouts, NEW p \in Positions, NEW q \in Positions, ChainAt(p) = ChainAt(q)
    PROVE  p = q
<1>1. Level = 1 .. Depth /\ Within(p) /\ Within(q)
  BY LayerFacts, InPositions
<1>2. ASSUME NEW l \in Level PROVE p[l] = q[l]
  <2>1. ChainAt(p)[l] = layers[l][p[l]] /\ ChainAt(q)[l] = layers[l][q[l]]
    BY DEF ChainAt
  <2>2. p[l] \in DOMAIN layers[l] /\ q[l] \in DOMAIN layers[l] /\ Injective(layers[l])
    BY <1>1, LayerFacts DEF Within
  <2> QED
    BY <2>1, <2>2 DEF Injective
<1>3. p \in [Level -> Nat] /\ q \in [Level -> Nat]
  BY <1>1 DEF Within
<1> QED
  BY <1>2, <1>3

\* A new plan owes every chain of its layers.
LEMMA OwedAtFirst ==
    ASSUME Init
    PROVE  Owed = ChainsOf(layers)
<1>1. /\ layers \in Layouts /\ returned = {} /\ seen = {} /\ dead = {}
      /\ Level = DOMAIN layers
  BY LayoutsAssumption DEF Init, Level, Depth
<1>2. ASSUME NEW p \in Positions PROVE ChainAt(p) \in ChainsOf(layers)
  <2>1. \A l \in Level : p[l] \in DOMAIN layers[l] /\ layers[l] \in Seq(Node)
    BY <1>1, <1>2, LayerFacts DEF Positions
  <2> QED
    BY <1>1, <2>1 DEF ChainAt, ChainsOf
<1>3. ASSUME NEW c \in ChainsOf(layers) PROVE \E p \in Positions : ChainAt(p) = c
  <2> DEFINE p == [l \in Level |-> CHOOSE i \in DOMAIN layers[l] : c[l] = layers[l][i]]
  <2>1. \A l \in Level : p[l] \in DOMAIN layers[l] /\ c[l] = layers[l][p[l]]
    BY <1>1, <1>3 DEF ChainsOf
  <2>2. p \in Positions
    BY <2>1 DEF Positions
  <2>3. c \in [Level -> Node]
    BY <1>1, <1>3 DEF ChainsOf
  <2>4. ChainAt(p) = c
    BY <2>1, <2>3 DEF ChainAt
  <2> QED
    BY <2>2, <2>4
<1> QED
  BY <1>1, <1>2, <1>3 DEF Owed, HasDead

\* What the caller sees of a step that moves only the odometer.
LEMMA OwedUnchanged ==
    ASSUME UNCHANGED <<layers, returned, seen, dead>>
    PROVE  Owed' = Owed
  BY DEF Owed, Positions, ChainAt, HasDead, Level, Depth

\* next answers with a chain the plan owes, which it then owes no more.
LEMMA TakePickOffers ==
    ASSUME Inv, TakePick, last' # last \/ returned' # returned
    PROVE  /\ ChainAt(index) \in Owed /\ Owed' = Owed \ {ChainAt(index)}
           /\ Answer' = ChainAt(index)
<1>1. /\ layers \in Layouts /\ index \in Positions /\ returned \subseteq Positions
      /\ ~done /\ DeadLayers = {} /\ layers' = layers /\ seen' = seen /\ dead' = dead
  BY DEF Inv, TypeOK, TakePick
<1>2. ChainAt(index) \notin seen /\ last' = index /\ returned' = returned \cup {index}
  BY DEF TakePick
<1>3. ~HasDead(index)
  BY <1>1 DEF HasDead, DeadLayers
<1>4. index \notin returned
  <2>1. Within(index)
    BY <1>1, InPositions
  <2> QED
    BY <1>1, <2>1 DEF Inv, ReturnedBehind, Before, Within
<1>5. /\ Positions' = Positions /\ Level' = Level
      /\ \A p : ChainAt(p)' = ChainAt(p) /\ HasDead(p)' = HasDead(p)
  BY <1>1 DEF Positions, ChainAt, HasDead, Level, Depth
<1>6. ChainAt(index) \in Owed
  BY <1>1, <1>2, <1>3, <1>4 DEF Owed
<1>7. Owed' = Owed \ {ChainAt(index)}
  <2>1. Owed' = {ChainAt(p) : p \in {q \in Positions \ (returned \cup {index}) :
                                        ChainAt(q) \notin seen /\ ~HasDead(q)}}
    BY <1>1, <1>2, <1>5 DEF Owed, ChainAt, HasDead
  <2>2. \A p \in Positions : ChainAt(p) = ChainAt(index) => p = index
    BY <1>1, ChainAtInjective
  <2> QED
    BY <2>1, <2>2 DEF Owed
<1>8. index # NoPick
  <2>1. DOMAIN index = Level /\ 1 \in Level
    BY <1>1, LayerFacts DEF Positions
  <2> QED
    BY <2>1 DEF NoPick
<1>9. Answer' = ChainAt(index)
  BY <1>1, <1>2, <1>8 DEF Answer, ChainAt, Level, Depth
<1> QED
  BY <1>6, <1>7, <1>9

\* A node found dead strikes its chains from what is owed, and no other.
LEMMA MarkDeadStrikes ==
    ASSUME Inv, NEW n \in Node, MarkDead(n), UNCHANGED <<last, returned>>
    PROVE  Owed' = {c \in Owed : ~Supply!HasNode(c, n)} /\ Answer' = Answer
<1>1. /\ layers' = layers /\ seen' = seen /\ dead' = dead \cup {n}
  BY DEF MarkDead, planVars
<1>2. /\ Positions' = Positions /\ Level' = Level
      /\ \A p : ChainAt(p)' = ChainAt(p)
  BY <1>1 DEF Positions, ChainAt, Level, Depth
<1>3. ASSUME NEW p \in Positions
      PROVE  HasDead(p)' = (HasDead(p) \/ Supply!HasNode(ChainAt(p), n))
  BY <1>1, <1>2 DEF HasDead, Supply!HasNode, ChainAt
<1>4. Due' = {q \in Due : ~Supply!HasNode(ChainAt(q), n)}
  BY <1>1, <1>2, <1>3 DEF Due
<1>6. Owed' = {ChainAt(p) : p \in Due'}
  BY <1>1, <1>2 DEF Owed, Due
<1>5. Answer' = Answer
  BY <1>1, <1>2 DEF Answer, ChainAt
<1>7. Owed = {ChainAt(p) : p \in Due}
  BY DEF Owed, Due
<1> QED
  BY <1>4, <1>5, <1>6, <1>7

\* Every step of the plan is a step of a supply of chains, or invisible.
LEMMA StepSupplies == Inv /\ [Next]_vars => [Supply!Next]_<<Owed, Answer>>
<1> SUFFICES ASSUME Inv, [Next]_vars PROVE Supply!Next \/ UNCHANGED <<Owed, Answer>>
  OBVIOUS
<1>1. ASSUME UNCHANGED <<layers, returned, seen, dead, last>>
      PROVE  UNCHANGED <<Owed, Answer>>
  BY <1>1, OwedUnchanged DEF Answer, ChainAt, Level, Depth
<1>2. CASE CallNext
  BY <1>1, <1>2 DEF CallNext, planVars
<1>3. CASE JumpSubtree
  BY <1>1, <1>3 DEF JumpSubtree
<1>4. CASE TakePick
  <2>1. CASE last' # last \/ returned' # returned
    BY <1>4, <2>1, TakePickOffers DEF Supply!Next, Supply!Offer, Answer
  <2>2. CASE last' = last /\ returned' = returned
    BY <1>1, <1>4, <2>2 DEF TakePick
  <2> QED
    BY <2>1, <2>2
<1>5. CASE NextIsNone
  <2>1. Owed = {}
    BY <1>5 DEF NextIsNone, Inv, NothingSkipped, Owed
  <2>2. Owed' = Owed
    BY <1>5, OwedUnchanged DEF NextIsNone, planVars
  <2>3. Answer' = NoPick
    BY <1>5 DEF NextIsNone, Answer
  <2> QED
    BY <2>1, <2>2, <2>3 DEF Supply!Next, Supply!Exhausted, Supply!NoPick, Answer, NoPick
<1>6. ASSUME NEW pick \in Held, Exclude(pick)
      PROVE  Supply!Next \/ UNCHANGED <<Owed, Answer>>
  <2>1. /\ layers' = layers /\ returned' = returned /\ dead' = dead /\ last' = last
        /\ seen' = seen \cup {pick}
    BY <1>6 DEF Exclude
  <2>2. Answer' = Answer
    BY <2>1 DEF Answer, ChainAt, Level, Depth
  <2>3. /\ Positions' = Positions /\ \A p : ChainAt(p)' = ChainAt(p) /\ HasDead(p)' = HasDead(p)
    BY <2>1 DEF Positions, ChainAt, HasDead, Level, Depth
  <2>4. Due' = {q \in Due : ChainAt(q) # pick}
    BY <2>1, <2>3 DEF Due
  <2>5. Owed' = {ChainAt(p) : p \in Due'} /\ Owed = {ChainAt(p) : p \in Due}
    BY <2>1, <2>3 DEF Owed, Due
  <2>6. Owed' = Owed \ {pick}
    BY <2>4, <2>5
  <2> QED
    BY <2>2, <2>6 DEF Supply!Next, Supply!Withdraw, Answer
<1>7. ASSUME NEW pick \in Held, NEW hop \in DOMAIN pick, HardFailure(pick, hop)
      PROVE  Supply!Next \/ UNCHANGED <<Owed, Answer>>
  <2> DEFINE n == pick[hop]
  <2>1. n \in Node
    BY HeldChains
  <2>2. Owed' = {c \in Owed : ~Supply!HasNode(c, n)} /\ Answer' = Answer
    BY <1>7, <2>1, MarkDeadStrikes DEF HardFailure
  <2>3. CASE \E c \in Owed : Supply!HasNode(c, n)
    <3>1. n \in UNION {{c[h] : h \in DOMAIN c} : c \in Owed}
      BY <2>3 DEF Supply!HasNode
    <3>2. Supply!Strike(n)
      BY <2>2 DEF Supply!Strike, Answer
    <3> QED
      BY <3>1, <3>2 DEF Supply!Next
  <2>4. CASE ~\E c \in Owed : Supply!HasNode(c, n)
    BY <2>2, <2>4
  <2> QED
    BY <2>3, <2>4
<1>8. ASSUME NEW pick \in Held, NEW hop \in DOMAIN pick, GateFailure(pick, hop)
      PROVE  UNCHANGED <<Owed, Answer>>
  BY <1>1, <1>8 DEF GateFailure, planVars
<1>9. ASSUME NEW pick \in Held, LocalFailure(pick) \/ UnknownFailure(pick)
      PROVE  UNCHANGED <<Owed, Answer>>
  BY <1>1, <1>9 DEF LocalFailure, UnknownFailure, planVars
<1>10. CASE UNCHANGED vars
  BY <1>1, <1>10 DEF vars, planVars
<1> QED
  BY <1>2, <1>3, <1>4, <1>5, <1>6, <1>7, <1>8, <1>9, <1>10 DEF Next, Loop, RecordFailure

\* ChainPlan implements a supply of chains: next, over its odometer, jumps and
\* counters, offers every chain once unless it was struck or excluded, and
\* says None only when nothing is left.
THEOREM Implements == Spec => ImplementsSupply
<1>1. Init => Supply!Init
  <2> SUFFICES ASSUME Init PROVE Supply!Init
    OBVIOUS
  <2>1. Owed \in {ChainsOf(L) : L \in Layouts}
    BY OwedAtFirst DEF Init
  <2>2. last = NoPick
    BY DEF Init
  <2> QED
    BY <2>1, <2>2 DEF Supply!Init, Supply!NoPick, NoPick
<1>2. Inv /\ [Next]_vars => [Supply!Next]_(Supply!vars)
  BY StepSupplies DEF Supply!vars, Answer
<1> QED
  BY <1>1, <1>2, Invariance, PTL DEF Spec, ImplementsSupply, Supply!Spec

-----------------------------------------------------------------------------
(***************************************************************************)
(* ChainDial: dialling the chains the plan returns.  The theorems hold for *)
(* any nodes, protocols, finitely many calls and any chains shorter than   *)
(* usize::MAX (ChainDial's Sizes).                                         *)
(***************************************************************************)

\* A call is in one of these states; the last three give its permits back.
Ended == {"failed", "cancelled", "closed"}
DialPc == {"start", "acquire", "dialling", "reserve", "hop", "up"} \cup Ended
CallType == [pc : DialPc, i : Nat, step : {"none", "method", "auth", "tls", "request"}, held : SUBSET Nat,
             progress : Nat, sent : Nat, stage : Nat, err : ConnectErrors \cup {"none"}]

\* The permits a call's stream carries in each of its states: the outermost
\* node's with the socket, those of the nodes before i while the inner nodes
\* are reserved, all of them from the first handshake byte on.
HeldOf(d) ==
    CASE dial[d].pc \in {"start", "acquire"} \cup Ended -> {}
      [] dial[d].pc = "dialling" -> IF Pooled(d) THEN {1} ELSE {}
      [] dial[d].pc = "reserve" -> 1 .. dial[d].i - 1
      [] OTHER -> IF Pooled(d) THEN 1 .. Len(Chain(d)) ELSE {}

\* Where a call is in its chain, and what its progress cell says.
CallOK(d) ==
    /\ dial[d].i \in 1 .. Len(Chain(d))
    /\ dial[d].held = HeldOf(d)
    /\ dial[d].pc \in {"start", "acquire", "dialling", "reserve"} => dial[d].sent = 0 /\ dial[d].progress = 0
    /\ dial[d].pc \in {"acquire", "reserve"} => Pooled(d)
    /\ dial[d].pc = "reserve" => setup[d].via = "connect_chain" /\ dial[d].i > 1
    /\ dial[d].pc = "hop" => dial[d].sent = dial[d].i /\ dial[d].progress = HopStage(d)

\* What BlameIsDeserved and StageIsWhereItStopped ask of a failure e of call d
\* in stage s.
Excused(d, i, e) ==
    \/ cond[Chain(d)[i]] # "up"
    \/ Chain(d)[i] \in Misnamed /\ e = "Tls"
    \/ /\ e \in {"Tls", "HttpsTlsHandshake"}
       /\ \E j \in 1 .. i - 1 : cond[Chain(d)[j]] # "up"
    \/ here = "failing" /\ e \in {"IoConnect", "TcpConnect", "Tls", "HttpsTlsHandshake"}
Deserved(d, s, e) ==
    CheckTls(d) => \A i \in HardCharged(Chain(d), s, e) : Excused(d, i, e)
StoppedIn(d, s, e, sent) ==
    e \notin {"AtCapacity", "InvalidTarget"} =>
        CASE s = Connect -> sent = 0
          [] s = Target -> sent = Len(Chain(d)) \/ ~CheckTls(d)
          [] OTHER -> sent = s
FailureOK(d) ==
    dial[d].pc = "failed" => /\ Deserved(d, dial[d].stage, dial[d].err)
                             /\ StoppedIn(d, dial[d].stage, dial[d].err, dial[d].sent)

\* The permits held for a node, one pair per call and position.
Paid(n) == UNION {{d} \X {i \in dial[d].held : Chain(d)[i] = n} : d \in Dial}
DialType == /\ setup \in Setups /\ cond \in [Upstream -> Condition] /\ here \in {"up", "failing"}
            /\ free \in [Upstream -> Nat] /\ dial \in [Dial -> CallType]
DialCalls == \A d \in Dial : CallOK(d) /\ FailureOK(d)
DialPermits == \A n \in Upstream : IsFiniteSet(Paid(n)) /\ free[n] + Cardinality(Paid(n)) = Cap
DialInv == DialType /\ DialCalls /\ DialPermits

----------------------------------------------------------------------------
\* Facts about the chains.
LEMMA ChainFacts ==
    ASSUME Sizes, setup \in Setups, NEW d \in Dial
    PROVE  /\ Chain(d) \in Seq(Upstream)
           /\ Len(Chain(d)) \in Nat /\ Len(Chain(d)) > 0
           /\ Target \in Nat
           /\ Len(Chain(d)) < Target
           /\ \A i \in 1 .. Len(Chain(d)) : Chain(d)[i] \in Upstream
           /\ (setup[d].via \in {"connect_proxy", "connect_proxy_once"} => Len(Chain(d)) = 1)
<1>1. Chain(d) \in Seq(Upstream) /\ Chain(d) # <<>> /\ Len(Chain(d)) < MaxUsize
  BY DEF Sizes, Chain
<1>2. setup[d].via \in {"connect_proxy", "connect_proxy_once"} => Len(Chain(d)) = 1
  BY DEF Sizes, Chain
<1>3. MaxUsize \in Nat
  BY DEF Sizes
<1> HIDE DEF Chain
<1> QED
  BY <1>1, <1>2, <1>3 DEF Target

\* What a pair adds to the pairs: as many as the set.
LEMMA PairsCount ==
    ASSUME NEW S, IsFiniteSet(S), NEW x
    PROVE  IsFiniteSet({x} \X S) /\ Cardinality({x} \X S) = Cardinality(S)
<1> DEFINE f == [y \in S |-> <<x, y>>]
<1>1. f \in Bijection(S, {x} \X S)
  <2>1. f \in [S -> {x} \X S]
    OBVIOUS
  <2>2. \A a, b \in S : f[a] = f[b] => a = b
    OBVIOUS
  <2>3. \A t \in {x} \X S : \E s \in S : f[s] = t
    OBVIOUS
  <2> HIDE DEF f
  <2> QED
    BY <2>1, <2>2, <2>3 DEF Bijection, Injection, IsInjective, Surjection
<1>2. ExistsBijection(S, {x} \X S)
  BY <1>1 DEF ExistsBijection
<1> QED
  BY <1>2, FS_Bijection

\* The permits of a call are finitely many.
LEMMA HeldFinite ==
    ASSUME Sizes, DialType, NEW d \in Dial, CallOK(d)
    PROVE  /\ IsFiniteSet(dial[d].held)
           /\ dial[d].held \subseteq 1 .. Len(Chain(d))
<1>1. Len(Chain(d)) \in Nat /\ Len(Chain(d)) > 0
  BY ChainFacts DEF DialType
<1>2. dial[d].i \in 1 .. Len(Chain(d)) /\ dial[d].held = HeldOf(d)
  BY DEF CallOK
<1>3. HeldOf(d) \subseteq 1 .. Len(Chain(d))
  BY <1>1, <1>2 DEF HeldOf
<1>4. IsFiniteSet(1 .. Len(Chain(d)))
  BY <1>1, FS_Interval
<1> QED
  BY <1>2, <1>3, <1>4, FS_Subset

----------------------------------------------------------------------------
(* The permits: each of the three ways a step can change who holds them.   *)

\* Nobody takes or returns a permit.
LEMMA PermitsKept ==
    ASSUME DialPermits, UNCHANGED <<setup, free>>,
           \A e \in Dial : dial'[e].held = dial[e].held
    PROVE  DialPermits'
<1>1. ASSUME NEW n \in Upstream PROVE Paid(n)' = Paid(n)
  BY DEF Paid, Chain
<1> QED
  BY <1>1 DEF DialPermits

\* A call takes the permit of one more position.
LEMMA PermitTaken ==
    ASSUME DialPermits, setup' = setup, free \in [Upstream -> Nat], NEW d \in Dial, NEW i, i \notin dial[d].held,
           NEW n \in Upstream, Chain(d)[i] = n, Take(d, n),
           dial'[d].held = dial[d].held \cup {i},
           \A e \in Dial \ {d} : dial'[e].held = dial[e].held
    PROVE  DialPermits'
<1>1. free[n] > 0 /\ free' = [free EXCEPT ![n] = free[n] - 1]
  BY DEF Take
<1>2. Paid(n)' = Paid(n) \cup {<<d, i>>}
  BY DEF Paid, Chain
<1>3. <<d, i>> \notin Paid(n)
  BY DEF Paid
<1>4. IsFiniteSet(Paid(n)) /\ free[n] + Cardinality(Paid(n)) = Cap
  BY DEF DialPermits
<1>5. IsFiniteSet(Paid(n)') /\ Cardinality(Paid(n)') = Cardinality(Paid(n)) + 1
  <2> DEFINE P == Paid(n)
             q == <<d, i>>
  <2>1. IsFiniteSet(P) /\ q \notin P
    BY <1>3, <1>4
  <2> HIDE DEF P, q
  <2>2. IsFiniteSet(P \cup {q}) /\ Cardinality(P \cup {q}) = Cardinality(P) + 1
    BY <2>1, FS_AddElement
  <2> QED
    BY <1>2, <2>2 DEF P, q
<1>6. Cardinality(Paid(n)) \in Nat
  BY <1>4, FS_CardinalityType
<1>7. IsFiniteSet(Paid(n)') /\ free'[n] + Cardinality(Paid(n)') = Cap
  BY <1>1, <1>4, <1>5, <1>6
<1>8. ASSUME NEW m \in Upstream, m # n PROVE Paid(m)' = Paid(m) /\ free'[m] = free[m]
  <2>1. free'[m] = free[m]
    BY <1>1, <1>8
  <2>2. Paid(m)' = Paid(m)
    BY <1>8 DEF Paid, Chain
  <2> QED
    BY <2>1, <2>2
<1> QED
  BY <1>7, <1>8 DEF DialPermits

\* A call ends: every permit attached to its stream goes back.
LEMMA PermitsReleased ==
    ASSUME Sizes, DialType, DialPermits, setup' = setup, NEW d \in Dial, CallOK(d),
           Release(d), dial'[d].held = {},
           \A e \in Dial \ {d} : dial'[e].held = dial[e].held
    PROVE  DialPermits' /\ free' \in [Upstream -> Nat]
<1> DEFINE H(n) == {i \in dial[d].held : Chain(d)[i] = n}
<1>1. free' = [n \in Upstream |-> free[n] + Cardinality(H(n))]
  BY DEF Release
<1>2. IsFiniteSet(dial[d].held)
  BY HeldFinite
<1>3. ASSUME NEW n \in Upstream
      PROVE  /\ Cardinality(H(n)) \in Nat
             /\ IsFiniteSet(Paid(n)')
             /\ free'[n] + Cardinality(Paid(n)') = Cap
  <2>1. IsFiniteSet(H(n)) /\ Cardinality(H(n)) \in Nat
    BY <1>2, FS_Subset, FS_CardinalityType
  <2>2. IsFiniteSet({d} \X H(n)) /\ Cardinality({d} \X H(n)) = Cardinality(H(n))
    BY <2>1, PairsCount
  <2>3. /\ Paid(n) = Paid(n)' \cup ({d} \X H(n))
        /\ Paid(n)' \cap ({d} \X H(n)) = {}
    BY DEF Paid, Chain
  <2>4. IsFiniteSet(Paid(n)) /\ free[n] + Cardinality(Paid(n)) = Cap
    BY DEF DialPermits
  <2>5. IsFiniteSet(Paid(n)')
    BY <2>3, <2>4, FS_Subset
  <2> DEFINE P == Paid(n)'
             Q == {d} \X H(n)
  <2>6. IsFiniteSet(P) /\ IsFiniteSet(Q) /\ P \cap Q = {} /\ Paid(n) = P \cup Q
    BY <2>2, <2>3, <2>5
  <2> HIDE DEF P, Q
  <2>7. Cardinality(P \cup Q) = Cardinality(P) + Cardinality(Q) - Cardinality(P \cap Q)
    BY <2>6, FS_Union
  <2>8. Cardinality(P \cap Q) = 0 /\ Cardinality(P) \in Nat /\ Cardinality(Q) \in Nat
    BY <2>6, FS_EmptySet, FS_CardinalityType
  <2>9. Cardinality(Paid(n)) = Cardinality(P) + Cardinality(Q)
    BY <2>6, <2>7, <2>8
  <2>10. free[n] \in Nat /\ free'[n] = free[n] + Cardinality(H(n))
    BY <1>1 DEF DialType
  <2>11. Cardinality(Q) = Cardinality(H(n))
    BY <2>2 DEF Q
  <2>12. free'[n] + Cardinality(P) = Cap
    BY <2>4, <2>8, <2>9, <2>10, <2>11
  <2> QED
    BY <2>1, <2>5, <2>12 DEF P
<1>4. free' \in [Upstream -> Nat]
  BY <1>1, <1>3 DEF DialType
<1> QED
  BY <1>3, <1>4 DEF DialPermits
----------------------------------------------------------------------------
(* The calls.                                                              *)

\* A step of call d leaves the others as they are.
LEMMA CallsKept ==
    ASSUME DialCalls, setup' = setup, cond' = cond, here' = here, NEW d \in Dial,
           \A e \in Dial \ {d} : dial'[e] = dial[e],
           CallOK(d)', FailureOK(d)'
    PROVE  DialCalls'
<1>1. ASSUME NEW e \in Dial, e # d PROVE CallOK(e)' /\ FailureOK(e)'
  <2>1. CallOK(e) /\ FailureOK(e) /\ dial'[e] = dial[e]
    BY <1>1 DEF DialCalls
  <2>2. CallOK(e)'
    BY <2>1 DEF CallOK, HeldOf, Pooled, Chain, HopStage, Target, Hop
  <2>3. Deserved(e, dial[e].stage, dial[e].err)' <=> Deserved(e, dial[e].stage, dial[e].err)
    BY <2>1 DEF Deserved, Excused, CheckTls, NeedsTls, Chain
  <2>4. StoppedIn(e, dial[e].stage, dial[e].err, dial[e].sent)'
            <=> StoppedIn(e, dial[e].stage, dial[e].err, dial[e].sent)
    BY <2>1 DEF StoppedIn, CheckTls, NeedsTls, Chain, Target, Connect
  <2> QED
    BY <2>1, <2>2, <2>3, <2>4 DEF FailureOK
<1> QED
  BY <1>1 DEF DialCalls

\* A call fails: its permits go back, and the failure is right if it is right
\* for the stage and the error it names.
LEMMA FailKeeps ==
    ASSUME Sizes, DialInv, NEW d \in Dial, NEW s \in Nat, NEW e \in ConnectErrors,
           Fail(d, s, e), setup' = setup, cond' = cond, here' = here,
           Deserved(d, s, e), StoppedIn(d, s, e, dial[d].sent)
    PROVE  DialInv'
<1> USE DEF DialInv
<1>1. dial \in [Dial -> CallType] /\ CallOK(d)
  BY DEF DialType, DialCalls
<1>2. /\ dial' = [dial EXCEPT ![d] = [dial[d] EXCEPT !.pc = "failed", !.stage = s, !.err = e, !.held = {}]]
      /\ Release(d)
  BY <1>1 DEF Fail, CallType
<1>3. dial[d] \in CallType
  BY <1>1
<1>4. /\ dial'[d].pc = "failed" /\ dial'[d].held = {} /\ dial'[d].stage = s /\ dial'[d].err = e
      /\ dial'[d].sent = dial[d].sent /\ dial'[d].i = dial[d].i
      /\ dial'[d] \in CallType
  BY <1>1, <1>2, <1>3 DEF CallType, DialPc, Ended
<1>5. \A c \in Dial \ {d} : dial'[c] = dial[c]
  BY <1>1, <1>2
<1>6. dial' \in [Dial -> CallType]
  BY <1>1, <1>2, <1>4, <1>5
<1>7. DialPermits' /\ free' \in [Upstream -> Nat]
  BY <1>1, <1>2, <1>4, <1>5, PermitsReleased
<1>8. DialType'
  BY <1>6, <1>7 DEF DialType
<1>9. CallOK(d)'
  BY <1>1, <1>4 DEF CallOK, HeldOf, Ended, Chain
<1>10. Deserved(d, s, e)' <=> Deserved(d, s, e)
  BY DEF Deserved, Excused, CheckTls, NeedsTls, Chain
<1>11. StoppedIn(d, s, e, dial[d].sent)' <=> StoppedIn(d, s, e, dial[d].sent)
  BY <1>4 DEF StoppedIn, CheckTls, NeedsTls, Chain, Target, Connect
<1>12. FailureOK(d)'
  BY <1>4, <1>10, <1>11 DEF FailureOK
<1>13. DialCalls'
  BY <1>5, <1>9, <1>12, CallsKept
<1> QED
  BY <1>7, <1>8, <1>13

\* A call goes on: nothing fails, and the permits it holds are the ones of its
\* new state.
LEMMA MoveKeeps ==
    ASSUME DialInv, NEW d \in Dial, NEW r \in CallType,
           dial' = [dial EXCEPT ![d] = r], setup' = setup, cond' = cond, here' = here,
           r.pc # "failed", CallOK(d)', DialPermits', free' \in [Upstream -> Nat]
    PROVE  DialInv'
<1> USE DEF DialInv
<1>1. dial \in [Dial -> CallType]
  BY DEF DialType
<1>2. dial'[d] = r /\ dial' \in [Dial -> CallType] /\ \A c \in Dial \ {d} : dial'[c] = dial[c]
  BY <1>1
<1>3. FailureOK(d)'
  BY <1>2 DEF FailureOK
<1>4. DialCalls'
  BY <1>2, <1>3, CallsKept
<1>5. DialType'
  BY <1>2 DEF DialType
<1> QED
  BY <1>4, <1>5

\* A call is dropped or its tunnel closed.
LEMMA DropKeeps ==
    ASSUME Sizes, DialInv, NEW d \in Dial, NEW how \in {"cancelled", "closed"},
           Drop(d, how), setup' = setup, cond' = cond, here' = here
    PROVE  DialInv'
<1> USE DEF DialInv
<1> DEFINE r == [dial[d] EXCEPT !.pc = how, !.held = {}]
<1>1. dial \in [Dial -> CallType] /\ CallOK(d) /\ dial[d] \in CallType
  BY DEF DialType, DialCalls
<1>2. dial' = [dial EXCEPT ![d] = r] /\ Release(d)
  BY <1>1 DEF Drop, CallType
<1>3. r \in CallType /\ r.pc = how /\ r.held = {} /\ r.i = dial[d].i
  BY <1>1 DEF CallType, DialPc, Ended
<1> HIDE DEF r
<1>4. dial'[d] = r /\ \A c \in Dial \ {d} : dial'[c] = dial[c]
  BY <1>1, <1>2
<1>5. DialPermits' /\ free' \in [Upstream -> Nat]
  BY <1>1, <1>2, <1>3, <1>4, PermitsReleased
<1>6. CallOK(d)'
  BY <1>1, <1>3, <1>4 DEF CallOK, HeldOf, Ended, Chain
<1> QED
  BY <1>2, <1>3, <1>5, <1>6, MoveKeeps

\* Call d begins to speak to node k, holding the permits this takes.
LEMMA BeginKeeps ==
    ASSUME Sizes, DialInv, NEW d \in Dial, NEW k \in 1 .. Len(Chain(d)), NEW q \in CallType,
           q.held = (IF Pooled(d) THEN 1 .. Len(Chain(d)) ELSE {}),
           dial' = [dial EXCEPT ![d] = BeginHop(q, d, k)], setup' = setup, cond' = cond, here' = here,
           DialPermits', free' \in [Upstream -> Nat]
    PROVE  DialInv'
<1> DEFINE r == BeginHop(q, d, k)
<1>1. Len(Chain(d)) \in Nat /\ Target \in Nat /\ Chain(d)[k] \in Upstream
  BY ChainFacts DEF DialInv, DialType
<1>2. FirstStep(Chain(d)[k]) \in {"method", "request", "tls"}
  BY DEF FirstStep
<1>3. /\ r.pc = "hop" /\ r.i = k /\ r.sent = k /\ r.held = q.held
      /\ r.progress = (IF k = Len(Chain(d)) THEN Target ELSE k)
      /\ r \in CallType
  <2> DEFINE f == FirstStep(Chain(d)[k])
             g == IF k = Len(Chain(d)) THEN Target ELSE k
  <2>1. r = [q EXCEPT !.pc = "hop", !.i = k, !.step = f, !.sent = k, !.progress = g]
    <3>1. Hop(k - 1) = k
      BY <1>1 DEF Hop
    <3> QED
      BY <3>1 DEF BeginHop
  <2>2. f \in {"method", "request", "tls"} /\ g \in Nat /\ k \in Nat
    BY <1>1, <1>2
  <2> HIDE DEF r, f, g
  <2>3. r \in CallType /\ r.pc = "hop" /\ r.i = k /\ r.sent = k /\ r.held = q.held /\ r.progress = g
    BY <2>1, <2>2 DEF CallType, DialPc
  <2> QED
    BY <2>3 DEF g
<1> HIDE DEF r
<1>4. dial'[d] = r /\ dial' = [dial EXCEPT ![d] = r]
  BY DEF DialInv, DialType, r
<1>5. Chain(d)' = Chain(d) /\ Pooled(d)' = Pooled(d) /\ Target' = Target
  BY DEF Chain, Pooled, Target
<1>6. HopStage(d)' = IF k = Len(Chain(d)) THEN Target ELSE k
  BY <1>1, <1>3, <1>4, <1>5 DEF HopStage, Hop
<1>7. HeldOf(d)' = r.held
  BY <1>3, <1>4, <1>5 DEF HeldOf, Ended
<1>8. CallOK(d)'
  BY <1>1, <1>3, <1>4, <1>5, <1>6, <1>7 DEF CallOK
<1> QED
  BY <1>3, <1>4, <1>8, MoveKeeps

----------------------------------------------------------------------------
(* The actions.                                                            *)

\* Idle calls hold nothing and have sent nothing.
LEMMA DialStarts == Sizes /\ DialInit => DialInv
<1> SUFFICES ASSUME Sizes, DialInit PROVE DialInv
  OBVIOUS
<1>1. Idle \in CallType /\ Idle.held = {} /\ Idle.i = 1 /\ Idle.pc = "start" /\ Idle.sent = 0
        /\ Idle.progress = 0
  BY DEF Idle, CallType, DialPc, Ended, Connect
<1>2. dial = [d \in Dial |-> Idle] /\ setup \in Setups /\ cond \in Sick /\ here = "up"
        /\ free = [n \in Upstream |-> Cap]
  BY DEF DialInit
<1>3. Cap \in Nat /\ Sick \subseteq [Upstream -> Condition]
  BY DEF Sizes
<1>4. DialType
  BY <1>1, <1>2, <1>3 DEF DialType
<1>5. ASSUME NEW d \in Dial PROVE CallOK(d) /\ FailureOK(d)
  <2>1. Len(Chain(d)) \in Nat /\ Len(Chain(d)) > 0
    BY <1>2, ChainFacts
  <2>2. dial[d] = Idle
    BY <1>2
  <2>3. HeldOf(d) = {}
    BY <1>1, <2>2 DEF HeldOf
  <2>4. FailureOK(d)
    BY <1>1, <2>2 DEF FailureOK
  <2>5. CallOK(d)
    BY <1>1, <2>1, <2>2, <2>3 DEF CallOK
  <2> QED
    BY <2>4, <2>5
<1>6. ASSUME NEW n \in Upstream PROVE IsFiniteSet(Paid(n)) /\ free[n] + Cardinality(Paid(n)) = Cap
  <2>1. \A d \in Dial : dial[d].held = {}
    BY <1>1, <1>2
  <2>2. Paid(n) = {}
    BY <2>1 DEF Paid
  <2> QED
    BY <1>2, <1>3, <2>2, FS_EmptySet
<1> QED
  BY <1>4, <1>5, <1>6 DEF DialInv, DialCalls, DialPermits

LEMMA DialRefused == ASSUME Sizes, DialInv, NEW d \in Dial, Refused(d) PROVE DialInv'
<1> DEFINE s == Refusal(d)[1]
           e == Refusal(d)[2]
<1>1. dial[d].pc = "start" /\ e # "none" /\ Fail(d, s, e) /\ setup' = setup /\ cond' = cond /\ here' = here
  BY DEF Refused
<1>2. \/ s = Target /\ e = "InvalidTarget"
      \/ s \in {Connect, Target} /\ e = "Tls" /\ ~CheckTls(d)
      \/ s = Connect /\ e = "Total"
  BY <1>1 DEF Refusal, ConnectChainRefuses, ConnectProxyRefuses, ConnectProxyOnceRefuses,
              DialChainRefuses, DialChainOverRefuses, WithoutTls, StageOfSingle, Nothing
<1> HIDE DEF s, e
<1>3. CallOK(d)
  BY DEF DialInv, DialCalls
<1>4. Target \in Nat /\ Target # 0 /\ Connect = 0
  BY DEF Sizes, Target, Connect
<1>5. s \in Nat /\ e \in ConnectErrors
  BY <1>2, <1>4 DEF ConnectErrors, Timeouts
<1>6. Deserved(d, s, e)
  BY <1>2 DEF Deserved, HardCharged, RecordError, IsUpstreamDown
<1>7. dial[d].sent = 0
  BY <1>1, <1>3 DEF CallOK
<1>8. StoppedIn(d, s, e, dial[d].sent)
  BY <1>2, <1>4, <1>7 DEF StoppedIn
<1> QED
  BY <1>1, <1>5, <1>6, <1>8, FailKeeps

LEMMA DialStart == ASSUME Sizes, DialInv, NEW d \in Dial, Start(d) PROVE DialInv'
<1>1. /\ dial[d].pc = "start" /\ UNCHANGED <<setup, cond, here, free>>
      /\ dial \in [Dial -> CallType] /\ dial[d] \in CallType /\ CallOK(d) /\ DialPermits /\ free \in [Upstream -> Nat]
  BY DEF Start, DialInv, DialType, DialCalls
<1>2. dial[d].held = {}
  BY <1>1 DEF CallOK, HeldOf
<1>3. Len(Chain(d)) \in Nat /\ Len(Chain(d)) > 0
  BY ChainFacts DEF DialInv, DialType
<1>4. CASE Pooled(d) \/ setup[d].via # "dial_chain_over"
  <2> DEFINE pc == IF Pooled(d) THEN "acquire" ELSE "dialling"
             r == [dial[d] EXCEPT !.pc = pc]
  <2>1. dial' = [dial EXCEPT ![d] = r]
    <3>1. CASE Pooled(d)
      <4>1. setup[d].via # "dial_chain_over"
        BY <3>1 DEF Pooled
      <4> QED
        BY <3>1, <4>1 DEF Start
    <3>2. CASE ~Pooled(d)
      BY <1>4, <3>2 DEF Start
    <3> QED
      BY <3>1, <3>2
  <2>2. r \in CallType /\ r.pc = pc /\ r.held = {} /\ r.i = dial[d].i /\ r.sent = dial[d].sent
          /\ r.progress = dial[d].progress
    BY <1>1, <1>2 DEF CallType, DialPc
  <2> HIDE DEF r
  <2>3. dial'[d] = r /\ \A c \in Dial \ {d} : dial'[c] = dial[c]
    BY <1>1, <2>1
  <2>4. \A c \in Dial : dial'[c].held = dial[c].held
    BY <1>2, <2>2, <2>3
  <2>5. DialPermits'
    BY <1>1, <2>4, PermitsKept
  <2>6. CallOK(d)'
    BY <1>1, <2>2, <2>3 DEF CallOK, HeldOf, Ended, Pooled, Chain
  <2>7. r.pc # "failed" /\ free' \in [Upstream -> Nat] /\ setup' = setup /\ cond' = cond /\ here' = here
    BY <1>1, <2>2
  <2> QED
    BY <2>1, <2>2, <2>5, <2>6, <2>7, MoveKeeps
<1>5. CASE ~Pooled(d) /\ setup[d].via = "dial_chain_over"
  <2>1. dial' = [dial EXCEPT ![d] = BeginHop(dial[d], d, 1)]
    BY <1>5 DEF Start
  <2>2. dial'[d].held = {}
    BY <1>1, <1>2, <2>1 DEF BeginHop, CallType
  <2>3. \A c \in Dial \ {d} : dial'[c] = dial[c]
    BY <1>1, <2>1
  <2>4. DialPermits'
    BY <1>1, <1>2, <2>2, <2>3, PermitsKept
  <2>5. 1 \in 1 .. Len(Chain(d))
    BY <1>3
  <2> QED
    BY <1>1, <1>2, <1>5, <2>1, <2>4, <2>5, BeginKeeps
<1> QED
  BY <1>4, <1>5

\* A refused permit is charged to nobody.
LEMMA AtCapacityIsFree ==
    ASSUME NEW d, NEW s, NEW sent
    PROVE  /\ Deserved(d, s, "AtCapacity") /\ StoppedIn(d, s, "AtCapacity", sent)
           /\ "AtCapacity" \in ConnectErrors
  BY DEF Deserved, StoppedIn, HardCharged, RecordError, CountsAgainstUpstream, ConnectErrors

LEMMA DialAcquire == ASSUME Sizes, DialInv, NEW d \in Dial, Acquire(d) PROVE DialInv'
<1> DEFINE n == Chain(d)[1]
<1>1. /\ dial[d].pc = "acquire" /\ UNCHANGED <<setup, cond, here>>
      /\ dial \in [Dial -> CallType] /\ dial[d] \in CallType /\ CallOK(d) /\ DialPermits /\ free \in [Upstream -> Nat]
  BY DEF Acquire, DialInv, DialType, DialCalls
<1>2. dial[d].held = {} /\ Pooled(d)
  BY <1>1 DEF CallOK, HeldOf
<1>3. Len(Chain(d)) \in Nat /\ Len(Chain(d)) > 0 /\ n \in Upstream
  BY ChainFacts DEF DialInv, DialType
<1>4. CASE Take(d, n) /\ dial' = [dial EXCEPT ![d].pc = "dialling", ![d].held = {1}]
  <2> DEFINE r == [dial[d] EXCEPT !.pc = "dialling", !.held = {1}]
  <2>1. dial' = [dial EXCEPT ![d] = r]
    BY <1>1, <1>4 DEF CallType
  <2>2. r \in CallType /\ r.pc = "dialling" /\ r.held = {1} /\ r.i = dial[d].i /\ r.sent = dial[d].sent
          /\ r.progress = dial[d].progress
    <3>1. {1} \in SUBSET Nat
      OBVIOUS
    <3> QED
      BY <1>1, <3>1 DEF CallType, DialPc
  <2> HIDE DEF r
  <2>3. dial'[d] = r /\ \A c \in Dial \ {d} : dial'[c] = dial[c]
    BY <1>1, <2>1
  <2>4. dial'[d].held = dial[d].held \cup {1} /\ 1 \notin dial[d].held
    BY <1>2, <2>2, <2>3
  <2>5. DialPermits'
    BY <1>1, <1>3, <1>4, <2>3, <2>4, PermitTaken
  <2>6. free' \in [Upstream -> Nat]
    BY <1>1, <1>3, <1>4 DEF Take
  <2>7. Pooled(d)' /\ Chain(d)' = Chain(d)
    BY <1>1, <1>2 DEF Pooled, Chain
  <2>8. CallOK(d)'
    BY <1>1, <2>2, <2>3, <2>7 DEF CallOK, HeldOf, Ended
  <2> QED
    BY <1>1, <2>1, <2>2, <2>5, <2>6, <2>8, MoveKeeps
<1>5. CASE Fail(d, Connect, "AtCapacity")
  <2>1. Connect \in Nat
    BY DEF Connect
  <2> QED
    BY <1>1, <1>5, <2>1, AtCapacityIsFree, FailKeeps
<1> QED
  BY <1>4, <1>5 DEF Acquire

LEMMA DialTcpUp == ASSUME Sizes, DialInv, NEW d \in Dial, TcpUp(d) PROVE DialInv'
<1>1. /\ dial[d].pc = "dialling" /\ UNCHANGED <<setup, cond, here, free>>
      /\ dial \in [Dial -> CallType] /\ dial[d] \in CallType /\ CallOK(d) /\ DialPermits /\ free \in [Upstream -> Nat]
  BY DEF TcpUp, DialInv, DialType, DialCalls
<1>2. dial[d].held = IF Pooled(d) THEN {1} ELSE {}
  BY <1>1 DEF CallOK, HeldOf, Ended
<1>3. /\ Len(Chain(d)) \in Nat /\ Len(Chain(d)) > 0
      /\ (setup[d].via \in {"connect_proxy", "connect_proxy_once"} => Len(Chain(d)) = 1)
  BY ChainFacts DEF DialInv, DialType
<1>4. CASE setup[d].via = "connect_chain" /\ Len(Chain(d)) > 1
  <2> DEFINE r == [dial[d] EXCEPT !.pc = "reserve", !.i = 2]
  <2>1. dial' = [dial EXCEPT ![d] = r]
    BY <1>4 DEF TcpUp
  <2>2. r \in CallType /\ r.pc = "reserve" /\ r.held = dial[d].held /\ r.i = 2 /\ r.sent = dial[d].sent
          /\ r.progress = dial[d].progress
    BY <1>1 DEF CallType, DialPc
  <2> HIDE DEF r
  <2>3. dial'[d] = r /\ \A c \in Dial \ {d} : dial'[c] = dial[c]
    BY <1>1, <2>1
  <2>4. \A c \in Dial : dial'[c].held = dial[c].held
    BY <2>2, <2>3
  <2>5. DialPermits'
    BY <1>1, <2>4, PermitsKept
  <2>6. Pooled(d)' /\ Chain(d)' = Chain(d) /\ Pooled(d)
    BY <1>1, <1>4 DEF Pooled, Chain
  <2>7. HeldOf(d)' = {1}
    BY <2>2, <2>3 DEF HeldOf, Ended
  <2>8. CallOK(d)'
    BY <1>1, <1>2, <1>3, <1>4, <2>2, <2>3, <2>6, <2>7 DEF CallOK
  <2> QED
    BY <1>1, <2>1, <2>2, <2>5, <2>8, MoveKeeps
<1>5. CASE ~(setup[d].via = "connect_chain" /\ Len(Chain(d)) > 1)
  <2>1. dial' = [dial EXCEPT ![d] = BeginHop(dial[d], d, 1)]
    BY <1>5 DEF TcpUp
  <2>2. dial'[d].held = dial[d].held
    BY <1>1, <2>1 DEF BeginHop, CallType
  <2>3. \A c \in Dial \ {d} : dial'[c] = dial[c]
    BY <1>1, <2>1
  <2>4. DialPermits'
    BY <1>1, <1>2, <2>2, <2>3, PermitsKept
  <2>5. 1 \in 1 .. Len(Chain(d))
    BY <1>3
  <2>6. Pooled(d) => Len(Chain(d)) = 1
    <3>1. CASE setup[d].via = "connect_chain"
      <4>1. ~(Len(Chain(d)) > 1)
        BY <1>5, <3>1
      <4> QED
        <5>1. \A k \in Nat : k > 0 /\ ~(k > 1) => k = 1
          OBVIOUS
        <5> QED
          BY <1>3, <4>1, <5>1
    <3>2. CASE setup[d].via = "connect_proxy"
      BY <1>3, <3>2
    <3>3. Pooled(d) => setup[d].via \in {"connect_chain", "connect_proxy"}
      BY DEF Pooled
    <3> QED
      BY <3>1, <3>2, <3>3
  <2>7. dial[d].held = IF Pooled(d) THEN 1 .. Len(Chain(d)) ELSE {}
    BY <1>2, <2>6
  <2> QED
    BY <1>1, <2>1, <2>4, <2>5, <2>7, BeginKeeps
<1> QED
  BY <1>4, <1>5

LEMMA DialTcpFails == ASSUME Sizes, DialInv, NEW d \in Dial, TcpFails(d) PROVE DialInv'
<1>1. /\ dial[d].pc = "dialling" /\ UNCHANGED <<setup, cond, here>> /\ CallOK(d)
      /\ cond[Chain(d)[1]] = "down" \/ here = "failing"
  BY DEF TcpFails, DialInv, DialCalls
<1>2. PICK e \in {"IoConnect", "TcpConnect"} : Fail(d, StageOfSingle(e), e)
  BY DEF TcpFails
<1>3. StageOfSingle(e) = 0
  BY <1>2 DEF StageOfSingle, Connect
<1>4. HardCharged(Chain(d), 0, e) \subseteq {1}
  <2>1. Target # 0
    BY DEF Sizes, Target
  <2>2. Connect = 0
    BY DEF Connect
  <2>3. ~(0 \in 1 .. Len(Chain(d)) - 1)
    BY ChainFacts DEF DialInv, DialType
  <2> QED
    BY <2>1, <2>2, <2>3 DEF HardCharged
<1>5. Deserved(d, 0, e)
  BY <1>1, <1>4 DEF Deserved, Excused
<1>6. StoppedIn(d, 0, e, dial[d].sent)
  <2>1. Target # 0
    BY DEF Sizes, Target
  <2>2. dial[d].sent = 0
    BY <1>1 DEF CallOK
  <2> QED
    BY <2>1, <2>2 DEF StoppedIn, Connect
<1>7. e \in ConnectErrors /\ 0 \in Nat
  BY DEF ConnectErrors, Timeouts
<1> QED
  BY <1>1, <1>2, <1>3, <1>5, <1>6, <1>7, FailKeeps

LEMMA DialReserve == ASSUME Sizes, DialInv, NEW d \in Dial, Reserve(d) PROVE DialInv'
<1> DEFINE k == dial[d].i
           n == Chain(d)[k]
           paid == [dial[d] EXCEPT !.held = dial[d].held \cup {k}]
           next == [paid EXCEPT !.i = k + 1]
<1>1. /\ dial[d].pc = "reserve" /\ UNCHANGED <<setup, cond, here>>
      /\ dial \in [Dial -> CallType] /\ dial[d] \in CallType /\ CallOK(d) /\ DialPermits /\ free \in [Upstream -> Nat]
  BY DEF Reserve, DialInv, DialType, DialCalls
<1>2. /\ dial[d].held = 1 .. k - 1 /\ Pooled(d) /\ k > 1 /\ k \in 1 .. Len(Chain(d))
      /\ setup[d].via = "connect_chain" /\ dial[d].sent = 0 /\ dial[d].progress = 0
  BY <1>1 DEF CallOK, HeldOf, Ended
<1>3. Len(Chain(d)) \in Nat /\ n \in Upstream
  BY <1>2, ChainFacts DEF DialInv, DialType
<1>4. Chain(d)' = Chain(d) /\ Pooled(d)' = Pooled(d)
  BY <1>1 DEF Chain, Pooled
<1>5. /\ paid \in CallType /\ paid.held = 1 .. k /\ paid.pc = "reserve"
      /\ next \in CallType /\ next.held = 1 .. k /\ next.i = k + 1 /\ next.pc = "reserve"
      /\ next.sent = 0 /\ next.progress = 0
  <2>1. k \in Nat /\ k + 1 \in Nat /\ dial[d].held \cup {k} = 1 .. k
    BY <1>2, <1>3
  <2>2. 1 .. k \in SUBSET Nat
    BY <2>1
  <2> HIDE DEF k
  <2>3. paid \in CallType /\ paid.held = 1 .. k /\ paid.pc = "reserve" /\ paid.sent = 0 /\ paid.progress = 0
    BY <1>1, <1>2, <2>1, <2>2 DEF CallType
  <2> HIDE DEF paid
  <2> QED
    BY <2>1, <2>3 DEF CallType
<1>6. CASE Take(d, n) /\ k < Len(Chain(d)) /\ dial' = [dial EXCEPT ![d] = next]
  <2> HIDE DEF k, paid, next
  <2>1. dial'[d] = next /\ \A c \in Dial \ {d} : dial'[c] = dial[c]
    BY <1>1, <1>6
  <2>2. dial'[d].held = dial[d].held \cup {k} /\ k \notin dial[d].held
    BY <1>2, <1>3, <1>5, <2>1
  <2>3. DialPermits'
    BY <1>1, <1>3, <1>6, <2>1, <2>2, PermitTaken
  <2>4. free' \in [Upstream -> Nat]
    BY <1>1, <1>3, <1>6 DEF Take
  <2>5. HeldOf(d)' = 1 .. (k + 1) - 1
    BY <1>5, <2>1 DEF HeldOf, Ended
  <2>6. (k + 1) - 1 = k /\ k + 1 > 1 /\ k + 1 \in 1 .. Len(Chain(d))
    BY <1>2, <1>3, <1>6
  <2>7. CallOK(d)'
    BY <1>1, <1>2, <1>4, <1>5, <2>1, <2>5, <2>6 DEF CallOK
  <2> QED
    BY <1>1, <1>5, <1>6, <2>3, <2>4, <2>7, MoveKeeps
<1>7. CASE Take(d, n) /\ ~(k < Len(Chain(d))) /\ dial' = [dial EXCEPT ![d] = BeginHop(paid, d, 1)]
  <2>1. paid.held = 1 .. Len(Chain(d)) /\ 1 \in 1 .. Len(Chain(d))
    BY <1>2, <1>3, <1>5, <1>7
  <2> HIDE DEF k, paid, next
  <2>2. BeginHop(paid, d, 1).held = paid.held
    BY <1>5 DEF BeginHop, CallType
  <2>3. dial'[d].held = 1 .. k /\ \A c \in Dial \ {d} : dial'[c] = dial[c]
    BY <1>1, <1>5, <1>7, <2>2
  <2>4. dial'[d].held = dial[d].held \cup {k} /\ k \notin dial[d].held
    BY <1>2, <1>3, <2>3
  <2>5. DialPermits'
    BY <1>1, <1>3, <1>7, <2>3, <2>4, PermitTaken
  <2>6. free' \in [Upstream -> Nat]
    BY <1>1, <1>3, <1>7 DEF Take
  <2> QED
    BY <1>1, <1>2, <1>5, <1>7, <2>1, <2>5, <2>6, BeginKeeps
<1>8. CASE Fail(d, Hop(k - 2), "AtCapacity")
  <2>1. Hop(k - 2) \in Nat
    BY <1>2, <1>3 DEF Hop
  <2> QED
    BY <1>1, <1>8, <2>1, AtCapacityIsFree, FailKeeps
<1>9. \/ /\ Take(d, n)
         /\ dial' = [dial EXCEPT ![d] = IF k < Len(Chain(d)) THEN next ELSE BeginHop(paid, d, 1)]
      \/ Fail(d, Hop(k - 2), "AtCapacity")
  BY DEF Reserve
<1> HIDE DEF k, n, paid, next
<1> QED
  BY <1>6, <1>7, <1>8, <1>9

----------------------------------------------------------------------------
(* What a hop's handshake can bring back.                                  *)

LEMMA TimedOutIs ==
    ASSUME NEW n, NEW step
    PROVE  /\ TimedOut(n, step) \in {"Socks5Handshake", "HttpHandshake", "HttpsTlsHandshake", "HttpsConnectHandshake"}
           /\ TimedOut(n, "request") # "HttpsTlsHandshake"
  BY DEF TimedOut, Socks5TimedOut, HttpTimedOut, HttpsTimedOut

\* A node that works never answers with an error that counts as its death.
LEMMA ReplyIs ==
    ASSUME NEW n, NEW step, NEW place, NEW o \in Reply(n, step, place), o # "ok"
    PROVE  o \in ConnectErrors /\ (IsUpstreamDown(o) => cond[n] # "up")
<1>1. CASE step \in {"method", "auth"}
  <2>1. o \in Socks5Method(n, step, cond[n])
    BY <1>1 DEF Reply
  <2>2. cond[n] # "up" /\ o \in {"BadAuthVersion", "BadVersion", "AuthFailed", "MethodUnsupported"}
    BY <2>1 DEF Socks5Method
  <2> QED
    BY <2>2 DEF ConnectErrors, Violations
<1>2. CASE step = "tls"
  <2>1. o \in TlsReply(cond[n])
    BY <1>2 DEF Reply
  <2>2. cond[n] # "up" /\ o = "Tls"
    BY <2>1 DEF TlsReply
  <2> QED
    BY <2>2 DEF ConnectErrors
<1>3. CASE step \notin {"method", "auth", "tls"}
  <2>1. o \in Socks5Reply(place, cond[n]) \/ o \in HttpReply(n, place, cond[n])
    BY <1>3 DEF Reply
  <2>2. o \in Socks5Reply(place, cond[n]) =>
           \/ o \in {"ok", "Socks5Handshake", "ProxyRejected", "BadReply"}
           \/ cond[n] # "up" /\ o = "BadVersion"
    BY DEF Socks5Reply, Socks5TimedOut
  <2>3. o \in HttpReply(n, place, cond[n]) => o \in {"ok", "ProxyRejected", "BadReply", TimedOut(n, "request")}
    BY DEF HttpReply
  <2>4. \/ o \in {"ProxyRejected", "BadReply", "Socks5Handshake", "HttpHandshake", "HttpsConnectHandshake"}
        \/ cond[n] # "up" /\ o = "BadVersion"
    BY <2>1, <2>2, <2>3, TimedOutIs
  <2> QED
    BY <2>4 DEF IsUpstreamDown, ConnectErrors, Timeouts, Violations
<1> QED
  BY <1>1, <1>2, <1>3

LEMMA OutcomeIs ==
    ASSUME Sizes, DialInv, NEW d \in Dial, NEW o \in Outcomes(d), o # "ok"
    PROVE  o \in ConnectErrors /\ (IsUpstreamDown(o) => Excused(d, dial[d].i, o))
<1> DEFINE k == dial[d].i
           n == Chain(d)[k]
           step == dial[d].step
           way == {cond[Chain(d)[j]] : j \in 1 .. k}
           lost == here = "failing" \/ cond[n] = "foreign"
<1>1. k \in Nat
  BY DEF DialInv, DialType, CallType
<1>2. \/ o \in BadTarget(d)
      \/ NoServerName(d) /\ o = "Tls"
      \/ ("silent" \in way \/ lost) /\ o = TimedOut(n, step)
      \/ ("down" \in way \/ lost) /\ o \in Broken(n, step)
      \/ \E p \in Place(d, k) : o \in Reply(n, step, p)
  BY DEF Outcomes
<1>3. CASE o \in BadTarget(d)
  <2>1. o \in {"InvalidTarget", "BadTarget"}
    BY <1>3 DEF BadTarget
  <2> QED
    BY <2>1 DEF IsUpstreamDown, ConnectErrors, Violations
<1>4. CASE NoServerName(d) /\ o = "Tls"
  BY <1>4 DEF NoServerName, Excused, ConnectErrors
<1>5. ASSUME NEW c \in {"silent", "down"}, c \in way
      PROVE  cond[n] # "up" \/ \E j \in 1 .. k - 1 : cond[Chain(d)[j]] # "up"
  <2>1. PICK j \in 1 .. k : cond[Chain(d)[j]] = c
    BY <1>5
  <2>2. CASE j = k
    BY <2>1, <2>2
  <2>3. CASE j # k
    <3>1. j \in 1 .. k - 1
      BY <1>1, <2>3
    <3> QED
      BY <2>1, <3>1
  <2> QED
    BY <2>2, <2>3
<1>6. ASSUME "silent" \in way \/ "down" \in way \/ lost, o \in {"Tls", "HttpsTlsHandshake"}
      PROVE  Excused(d, k, o)
  <2>1. CASE lost
    BY <1>6, <2>1 DEF Excused
  <2>2. CASE "silent" \in way \/ "down" \in way
    <3> HIDE DEF k, n, way, lost
    <3>1. cond[n] # "up" \/ \E j \in 1 .. k - 1 : cond[Chain(d)[j]] # "up"
      BY <1>5, <2>2
    <3> QED
      BY <1>6, <3>1 DEF Excused, n
  <2> QED
    BY <1>6, <2>1, <2>2
<1>7. CASE ("silent" \in way \/ lost) /\ o = TimedOut(n, step)
  <2>1. o \in {"Socks5Handshake", "HttpHandshake", "HttpsTlsHandshake", "HttpsConnectHandshake"}
    BY <1>7, TimedOutIs
  <2>2. o \in ConnectErrors /\ (IsUpstreamDown(o) => o = "HttpsTlsHandshake")
    BY <2>1 DEF IsUpstreamDown, ConnectErrors, Timeouts
  <2> HIDE DEF way, lost
  <2> QED
    BY <1>6, <1>7, <2>2
<1>8. CASE ("down" \in way \/ lost) /\ o \in Broken(n, step)
  <2>1. o \in {"Tls", "IoHandshake", "BadReply"}
    BY <1>8 DEF Broken
  <2>2. o \in ConnectErrors /\ (IsUpstreamDown(o) => o = "Tls")
    BY <2>1 DEF IsUpstreamDown, ConnectErrors, Violations
  <2> HIDE DEF way, lost
  <2> QED
    BY <1>6, <1>8, <2>2
<1>9. CASE \E p \in Place(d, k) : o \in Reply(n, step, p)
  BY <1>9, ReplyIs DEF Excused
<1> HIDE DEF way, lost
<1> QED
  BY <1>2, <1>3, <1>4, <1>7, <1>8, <1>9

LEMMA DialHopStep == ASSUME Sizes, DialInv, NEW d \in Dial, HopStep(d) PROVE DialInv'
<1> DEFINE k == dial[d].i
           n == Chain(d)[k]
<1>1. /\ dial[d].pc = "hop" /\ UNCHANGED <<setup, cond, here>>
      /\ dial \in [Dial -> CallType] /\ dial[d] \in CallType /\ CallOK(d) /\ DialPermits /\ free \in [Upstream -> Nat]
  BY DEF HopStep, DialInv, DialType, DialCalls
<1>2. /\ dial[d].held = (IF Pooled(d) THEN 1 .. Len(Chain(d)) ELSE {}) /\ k \in 1 .. Len(Chain(d))
      /\ dial[d].sent = k /\ dial[d].progress = HopStage(d)
  BY <1>1 DEF CallOK, HeldOf, Ended
<1>3. Len(Chain(d)) \in Nat /\ n \in Upstream /\ Target \in Nat /\ Len(Chain(d)) < Target
  BY <1>2, ChainFacts DEF DialInv, DialType
<1>4. HopStage(d) = IF k = Len(Chain(d)) THEN Target ELSE k
  BY <1>2, <1>3 DEF HopStage, Hop
<1>5. PICK o \in Outcomes(d) :
          \/ o # "ok" /\ Fail(d, HopStage(d), o)
          \/ /\ o = "ok" /\ free' = free
             /\ dial' = [dial EXCEPT ![d] =
                    IF dial[d].step # "request" THEN [dial[d] EXCEPT !.step = NextStep(n, dial[d].step)]
                    ELSE IF k < Len(Chain(d)) THEN BeginHop(dial[d], d, k + 1)
                    ELSE [dial[d] EXCEPT !.pc = "up"]]
  BY DEF HopStep
<1>6. Chain(d)' = Chain(d) /\ Pooled(d)' = Pooled(d) /\ Target' = Target
  BY <1>1 DEF Chain, Pooled, Target
<1>7. CASE o # "ok" /\ Fail(d, HopStage(d), o)
  <2> HIDE DEF k, n
  <2>1. HopStage(d) \in Nat /\ o \in ConnectErrors
    BY <1>2, <1>3, <1>4, <1>7, OutcomeIs
  <2>2. HardCharged(Chain(d), HopStage(d), o) \subseteq {k}
    <3>1. HopStage(d) # Connect
      BY <1>2, <1>3, <1>4 DEF Connect
    <3>2. CASE k = Len(Chain(d))
      <4>1. HopStage(d) = Target /\ ~(Target \in 1 .. Len(Chain(d)) - 1)
        BY <1>2, <1>3, <1>4, <3>2
      <4> QED
        BY <3>1, <3>2, <4>1 DEF HardCharged
    <3>3. CASE k # Len(Chain(d))
      <4>1. HopStage(d) = k /\ k # Target
        BY <1>2, <1>3, <1>4, <3>3
      <4> QED
        BY <3>1, <3>3, <4>1 DEF HardCharged
    <3> QED
      BY <3>2, <3>3
  <2>3. HardCharged(Chain(d), HopStage(d), o) # {} => IsUpstreamDown(o)
    BY DEF HardCharged, RecordError
  <2>4. IsUpstreamDown(o) => Excused(d, k, o)
    BY <1>7, OutcomeIs DEF k
  <2>5. Deserved(d, HopStage(d), o)
    BY <2>2, <2>3, <2>4 DEF Deserved
  <2>6. StoppedIn(d, HopStage(d), o, dial[d].sent)
    BY <1>2, <1>3, <1>4 DEF StoppedIn, Connect
  <2> QED
    BY <1>1, <1>7, <2>1, <2>5, <2>6, FailKeeps
<1>8. CASE /\ free' = free /\ dial[d].step # "request"
           /\ dial' = [dial EXCEPT ![d] = [dial[d] EXCEPT !.step = NextStep(n, dial[d].step)]]
  <2> DEFINE r == [dial[d] EXCEPT !.step = NextStep(n, dial[d].step)]
  <2>1. NextStep(n, dial[d].step) \in {"auth", "request"}
    BY DEF NextStep
  <2>2. /\ r \in CallType /\ r.pc = "hop" /\ r.i = k /\ r.held = dial[d].held
        /\ r.sent = dial[d].sent /\ r.progress = dial[d].progress
    BY <1>1, <2>1 DEF CallType
  <2> HIDE DEF r
  <2>3. dial' = [dial EXCEPT ![d] = r] /\ dial'[d] = r /\ \A c \in Dial \ {d} : dial'[c] = dial[c]
    BY <1>1, <1>8 DEF r
  <2>4. \A c \in Dial : dial'[c].held = dial[c].held
    BY <2>2, <2>3
  <2>5. DialPermits'
    BY <1>1, <1>8, <2>4, PermitsKept
  <2>6. HopStage(d)' = HopStage(d) /\ HeldOf(d)' = dial[d].held
    <3>1. HeldOf(d)' = dial[d].held
      BY <1>2, <1>6, <2>2, <2>3 DEF HeldOf, Ended
    <3>2. dial'[d].i = dial[d].i
      BY <2>2, <2>3
    <3> QED
      BY <1>6, <3>1, <3>2 DEF HopStage, Hop
  <2>7. CallOK(d)'
    BY <1>2, <1>6, <2>2, <2>3, <2>6 DEF CallOK
  <2> QED
    BY <1>1, <1>8, <2>2, <2>3, <2>5, <2>7, MoveKeeps
<1>9. CASE /\ free' = free /\ k < Len(Chain(d))
           /\ dial' = [dial EXCEPT ![d] = BeginHop(dial[d], d, k + 1)]
  <2>1. k + 1 \in 1 .. Len(Chain(d))
    BY <1>2, <1>3, <1>9
  <2> HIDE DEF k
  <2>2. dial'[d].held = dial[d].held
    BY <1>1, <1>9 DEF BeginHop, CallType
  <2>3. \A c \in Dial : dial'[c].held = dial[c].held
    BY <1>1, <1>9, <2>2
  <2>4. DialPermits'
    BY <1>1, <1>9, <2>3, PermitsKept
  <2> QED
    BY <1>1, <1>2, <1>9, <2>1, <2>4, BeginKeeps
<1>10. CASE free' = free /\ dial' = [dial EXCEPT ![d] = [dial[d] EXCEPT !.pc = "up"]]
  <2> DEFINE r == [dial[d] EXCEPT !.pc = "up"]
  <2>1. r \in CallType /\ r.pc = "up" /\ r.i = k /\ r.held = dial[d].held
    BY <1>1 DEF CallType, DialPc
  <2> HIDE DEF r
  <2>2. dial' = [dial EXCEPT ![d] = r] /\ dial'[d] = r /\ \A c \in Dial \ {d} : dial'[c] = dial[c]
    BY <1>1, <1>10 DEF r
  <2>3. \A c \in Dial : dial'[c].held = dial[c].held
    BY <2>1, <2>2
  <2>4. DialPermits'
    BY <1>1, <1>10, <2>3, PermitsKept
  <2>5. HeldOf(d)' = dial[d].held
    BY <1>2, <1>6, <2>1, <2>2 DEF HeldOf, Ended
  <2>6. CallOK(d)'
    BY <1>2, <1>6, <2>1, <2>2, <2>5 DEF CallOK
  <2> QED
    BY <1>1, <1>10, <2>1, <2>2, <2>4, <2>6, MoveKeeps
<1> QED
  BY <1>5, <1>7, <1>8, <1>9, <1>10

LEMMA DialTotalElapsed == ASSUME Sizes, DialInv, NEW d \in Dial, TotalElapsed(d) PROVE DialInv'
<1> DEFINE s == dial[d].progress
<1>1. /\ dial[d].pc \in {"dialling", "hop"} /\ UNCHANGED <<setup, cond, here>> /\ CallOK(d) /\ Fail(d, s, "Total")
      /\ dial[d] \in CallType
  BY DEF TotalElapsed, DialInv, DialType, DialCalls
<1>2. s \in Nat /\ "Total" \in ConnectErrors
  BY <1>1 DEF CallType, ConnectErrors, Timeouts
<1>3. Deserved(d, s, "Total")
  BY DEF Deserved, HardCharged, RecordError, IsUpstreamDown
<1>4. /\ Len(Chain(d)) \in Nat /\ Target \in Nat /\ Len(Chain(d)) < Target
      /\ dial[d].i \in 1 .. Len(Chain(d))
  BY <1>1, ChainFacts DEF DialInv, DialType, CallOK
<1>5. CASE dial[d].pc = "dialling"
  <2>1. s = 0 /\ dial[d].sent = 0
    BY <1>1, <1>5 DEF CallOK
  <2>2. StoppedIn(d, s, "Total", dial[d].sent)
    BY <1>4, <2>1 DEF StoppedIn, Connect
  <2> QED
    BY <1>1, <1>2, <1>3, <2>2, FailKeeps
<1>6. CASE dial[d].pc = "hop"
  <2>1. dial[d].sent = dial[d].i /\ s = IF dial[d].i = Len(Chain(d)) THEN Target ELSE dial[d].i
    BY <1>1, <1>4, <1>6 DEF CallOK, HopStage, Hop
  <2>2. StoppedIn(d, s, "Total", dial[d].sent)
    BY <1>4, <2>1 DEF StoppedIn, Connect
  <2> QED
    BY <1>1, <1>2, <1>3, <2>2, FailKeeps
<1> QED
  BY <1>1, <1>5, <1>6

\* A failure that was excused stays so while the conditions get worse.
LEMMA WorseKeeps ==
    ASSUME Sizes, DialInv, UNCHANGED <<setup, free, dial>>,
           cond' \in [Upstream -> Condition], here' \in {"up", "failing"},
           \A m \in Upstream : cond[m] # "up" => cond'[m] # "up",
           here = "failing" => here' = "failing"
    PROVE  DialInv'
<1>1. DialType /\ DialCalls /\ DialPermits
  BY DEF DialInv
<1>2. DialType'
  BY <1>1 DEF DialType
<1>3. DialPermits'
  BY <1>1, PermitsKept
<1>4. ASSUME NEW d \in Dial PROVE CallOK(d)' /\ FailureOK(d)'
  <2>1. CallOK(d) /\ FailureOK(d)
    BY <1>1 DEF DialCalls
  <2>2. CallOK(d)'
    BY <2>1 DEF CallOK, HeldOf, Pooled, Chain, HopStage, Target, Hop
  <2>3. StoppedIn(d, dial[d].stage, dial[d].err, dial[d].sent)'
            <=> StoppedIn(d, dial[d].stage, dial[d].err, dial[d].sent)
    BY DEF StoppedIn, CheckTls, NeedsTls, Chain, Target, Connect
  <2>4. Deserved(d, dial[d].stage, dial[d].err) => Deserved(d, dial[d].stage, dial[d].err)'
    <3> DEFINE C == Chain(d)
               H == HardCharged(C, dial[d].stage, dial[d].err)
    <3>1. Chain(d)' = Chain(d) /\ (CheckTls(d)' <=> CheckTls(d)) /\ dial'[d] = dial[d]
      BY DEF Chain, CheckTls, NeedsTls
    <3>2. Len(C) \in Nat /\ Len(C) > 0 /\ \A i \in 1 .. Len(C) : C[i] \in Upstream
      BY <1>1, ChainFacts DEF DialType
    <3>3. H \subseteq 1 .. Len(C)
      BY <3>2 DEF HardCharged
    <3>4. HardCharged(Chain(d), dial[d].stage, dial[d].err)' = H
      BY <3>1 DEF HardCharged, RecordError, IsUpstreamDown, CountsAgainstUpstream, Connect, Target
    <3> SUFFICES ASSUME Deserved(d, dial[d].stage, dial[d].err), CheckTls(d), NEW i \in H
                 PROVE  Excused(d, i, dial[d].err)'
      BY <3>1, <3>4 DEF Deserved
    <3>5. i \in 1 .. Len(C)
      BY <3>3
    <3>6. \A j \in 1 .. i - 1 : j \in 1 .. Len(C)
      BY <3>2, <3>5
    <3>7. Excused(d, i, dial[d].err)
      BY DEF Deserved
    <3> HIDE DEF H
    <3> QED
      BY <3>1, <3>2, <3>5, <3>6, <3>7 DEF Excused
  <2> QED
    BY <2>1, <2>2, <2>3, <2>4 DEF FailureOK
<1> QED
  BY <1>2, <1>3, <1>4 DEF DialInv, DialCalls

LEMMA DialDegrade == ASSUME Sizes, DialInv, NEW n \in Upstream, Degrade(n) PROVE DialInv'
<1>1. PICK c \in {"down", "silent"} : cond' = [cond EXCEPT ![n] = c]
  BY DEF Degrade
<1>2. UNCHANGED <<setup, here, free, dial>> /\ DialType
  BY DEF Degrade, DialInv
<1>3. cond' \in [Upstream -> Condition] /\ here' \in {"up", "failing"}
  BY <1>1, <1>2 DEF DialType, Condition
<1>4. \A m \in Upstream : cond[m] # "up" => cond'[m] # "up"
  BY <1>1, <1>2 DEF DialType
<1> QED
  BY <1>2, <1>3, <1>4, WorseKeeps

LEMMA DialHereFails == ASSUME Sizes, DialInv, HereFails PROVE DialInv'
<1>1. UNCHANGED <<setup, cond, free, dial>> /\ here' = "failing" /\ DialType
  BY DEF HereFails, DialInv
<1>2. cond' \in [Upstream -> Condition] /\ here' \in {"up", "failing"}
  BY <1>1 DEF DialType
<1> QED
  BY <1>1, <1>2, WorseKeeps

LEMMA DialStep == ASSUME Sizes, DialInv, [DialNext]_dialVars PROVE DialInv'
<1>1. ASSUME NEW d \in Dial, Step(d) PROVE DialInv'
  BY <1>1, DialRefused, DialStart, DialAcquire, DialTcpUp, DialTcpFails, DialReserve, DialHopStep DEF Step
<1>2. ASSUME NEW d \in Dial, Cancel(d) PROVE DialInv'
  BY <1>2, DropKeeps DEF Cancel
<1>3. ASSUME NEW d \in Dial, Close(d) PROVE DialInv'
  BY <1>3, DropKeeps DEF Close
<1>4. CASE UNCHANGED dialVars
  <2>1. UNCHANGED <<setup, cond, here, free, dial>> /\ DialType /\ DialCalls /\ DialPermits
    BY <1>4 DEF dialVars, DialInv
  <2>2. DialType'
    BY <2>1 DEF DialType
  <2>3. DialPermits'
    BY <2>1, PermitsKept
  <2>4. ASSUME NEW d \in Dial PROVE CallOK(d)' /\ FailureOK(d)'
    <3>1. CallOK(d) /\ FailureOK(d)
      BY <2>1 DEF DialCalls
    <3>2. CallOK(d)'
      BY <2>1, <3>1 DEF CallOK, HeldOf, Pooled, Chain, HopStage, Target, Hop
    <3>3. FailureOK(d)'
      BY <2>1, <3>1 DEF FailureOK, Deserved, Excused, StoppedIn, CheckTls, NeedsTls, Chain, Target, Connect
    <3> QED
      BY <3>2, <3>3
  <2> QED
    BY <2>2, <2>3, <2>4 DEF DialInv, DialCalls
<1> QED
  BY <1>1, <1>2, <1>3, <1>4, DialTotalElapsed, DialDegrade, DialHereFails DEF DialNext

LEMMA DialInvImplies ==
    ASSUME Sizes, DialInv
    PROVE  HopCapKept /\ BlameIsDeserved /\ StageIsWhereItStopped
<1>1. DialType /\ DialCalls /\ DialPermits
  BY DEF DialInv
<1>2. BlameIsDeserved
  BY <1>1 DEF DialCalls, FailureOK, Deserved, Excused, BlameIsDeserved
<1>3. StageIsWhereItStopped
  BY <1>1 DEF DialCalls, FailureOK, StoppedIn, StageIsWhereItStopped
<1>4. ASSUME NEW n \in Upstream
      PROVE  /\ Cardinality(Through(n)) <= Cap
             /\ (\A d \in Dial : ~Running(d) /\ dial[d].pc # "up") => free[n] = Cap
  <2>1. IsFiniteSet(Paid(n)) /\ free[n] + Cardinality(Paid(n)) = Cap /\ free[n] \in Nat
    BY <1>1 DEF DialPermits, DialType
  <2>2. Cardinality(Paid(n)) \in Nat
    BY <2>1, FS_CardinalityType
  <2>3. ASSUME NEW d \in Dial, Carries(d) PROVE DOMAIN Chain(d) = dial[d].held
    <3>1. dial[d].held = 1 .. Len(Chain(d))
      BY <1>1, <2>3 DEF DialCalls, CallOK, HeldOf, Carries, Ended
    <3>2. Chain(d) \in Seq(Upstream)
      BY <1>1, ChainFacts DEF DialType
    <3> QED
      BY <3>1, <3>2
  <2>4. Through(n) \subseteq Paid(n)
    BY <2>3 DEF Through, Paid
  <2>5. Cardinality(Through(n)) <= Cardinality(Paid(n)) /\ Cardinality(Through(n)) \in Nat
    BY <2>1, <2>4, FS_Subset, FS_CardinalityType
  <2>6. Cardinality(Through(n)) <= Cap
    BY <2>1, <2>2, <2>5
  <2>8. ASSUME \A d \in Dial : ~Running(d) /\ dial[d].pc # "up" PROVE free[n] = Cap
    <3>1. \A d \in Dial : dial[d].held = {}
      BY <1>1, <2>8 DEF DialCalls, CallOK, HeldOf, Running, Ended
    <3>2. Paid(n) = {}
      BY <3>1 DEF Paid
    <3> QED
      BY <2>1, <3>2, FS_EmptySet
  <2> QED
    BY <2>6, <2>8
<1>5. HopCapKept
  BY <1>4 DEF HopCapKept
<1> QED
  BY <1>2, <1>3, <1>5

\* No more handshakes and tunnels of pool calls run through a node, as the
\* outermost or as an inner hop, than max_per_upstream, and a call that ended
\* keeps no permit (chain_pool.rs: a permit per node before the first byte).
THEOREM HopCapKeptHolds == DialSpec => []HopCapKept
<1>1. DialInv => HopCapKept
  BY SizesAssumption, DialInvImplies
<1> QED
  BY SizesAssumption, DialStarts, DialStep, <1>1, PTL DEF DialSpec
\* A failure that counts towards a quarantine is charged to a node that is out
\* of order, save where the code cannot tell: a host that is no server name, a
\* TLS handshake that ran through such a node, and the failure of the dialling
\* machine itself (chain.rs: the stage a failure names; tcp_dial.rs: every
\* connect error is the node's; classify.rs: what counts).
THEOREM BlameIsDeservedHolds == DialSpec => []BlameIsDeserved
<1>1. DialInv => BlameIsDeserved
  BY SizesAssumption, DialInvImplies
<1> QED
  BY SizesAssumption, DialStarts, DialStep, <1>1, PTL DEF DialSpec
\* The stage of a failed call is the step it was in, whether an answer, a
\* timeout of the step or the total timeout ended it (chain.rs: the progress
\* cell is stored before the hop is spoken to).
THEOREM StageIsWhereItStoppedHolds == DialSpec => []StageIsWhereItStopped
<1>1. DialInv => StageIsWhereItStopped
  BY SizesAssumption, DialInvImplies
<1> QED
  BY SizesAssumption, DialStarts, DialStep, <1>1, PTL DEF DialSpec

=============================================================================
