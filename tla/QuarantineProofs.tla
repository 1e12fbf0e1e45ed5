-------------------------- MODULE QuarantineProofs --------------------------
(***************************************************************************)
(* Proofs about Quarantine, for any set of upstreams and probers, any      *)
(* policy that validate accepts and any counter bound.                     *)
(***************************************************************************)
EXTENDS Quarantine, TLAPS

-----------------------------------------------------------------------------
(* Facts about the counters and lengths *)

LEMMA IncType ==
    ASSUME NEW x \in 0 .. MaxCount
    PROVE  Inc(x) \in 1 .. MaxCount /\ Inc(x) >= x /\ (x >= Threshold => Inc(x) >= Threshold)
  BY PolicyAssumption, BoundsAssumption DEF Inc, AtMost

LEMMA LengthType ==
    ASSUME NEW t \in 0 .. MaxCount
    PROVE  LengthOf[t] \in Initial .. MaxLen /\ LengthOf[t] \in 1 .. MaxLen
  BY PolicyAssumption, LengthAssumption

\* The type of the cells, on which alone the Cell operations act.
CellTypeOK ==
    /\ consecutive \in [Upstreams -> 0 .. MaxCount] /\ trips \in [Upstreams -> 0 .. MaxCount]
    /\ until \in [Upstreams -> Times] /\ lease \in [Upstreams -> (-1) .. Lease]

CellInv == CellTypeOK /\ TrippedIsArmed /\ LeaseOnlyOnProbation

\* A (re-)trip with a full streak and no lease keeps the cells right.
LEMMA TripKeeps ==
    ASSUME CellInv, NEW u \in Upstreams, NEW n \in 0 .. MaxCount, n >= Threshold,
           lease' = [lease EXCEPT ![u] = NoTime],
           consecutive' = [consecutive EXCEPT ![u] = n], Trip(u)
    PROVE  CellInv'
<1>1. Inc(trips[u]) \in 1 .. MaxCount /\ LengthOf[Inc(trips[u])] \in 1 .. MaxLen
  BY IncType, LengthType, BoundsAssumption DEF CellInv, CellTypeOK
<1>2. /\ trips' = [trips EXCEPT ![u] = Inc(trips[u])]
      /\ until' = [until EXCEPT ![u] = LengthOf[Inc(trips[u])]]
  BY DEF Trip
<1>3. CellTypeOK'
  BY <1>1, <1>2, PolicyAssumption DEF CellInv, CellTypeOK, Times, NoTime
<1>4. TrippedIsArmed'
  BY <1>1, <1>2 DEF CellInv, CellTypeOK, TrippedIsArmed, Tripped
<1>5. LeaseOnlyOnProbation'
  BY <1>2 DEF CellInv, CellTypeOK, LeaseOnlyOnProbation, Probation
<1> QED
  BY <1>3, <1>4, <1>5 DEF CellInv

LEMMA HardFailureKeeps ==
    ASSUME CellInv, NEW u \in Upstreams, HardFailure(u)
    PROVE  CellInv'
<1>1. CASE Quarantined(u)
  BY <1>1 DEF HardFailure, cellVars, CellInv, CellTypeOK, TrippedIsArmed, Tripped,
              LeaseOnlyOnProbation, Probation
<1>2. CASE ~Quarantined(u)
  <2> DEFINE n == Inc(consecutive[u])
  <2>1. n \in 0 .. MaxCount /\ n >= consecutive[u]
    BY IncType DEF CellInv, CellTypeOK
  <2>2. /\ lease' = [lease EXCEPT ![u] = NoTime]
        /\ consecutive' = [consecutive EXCEPT ![u] = n]
        /\ IF n < Threshold THEN UNCHANGED <<trips, until>> ELSE Trip(u)
    BY <1>2 DEF HardFailure
  <2>3. CASE n < Threshold
    \* An unarmed upstream is healthy: it stays so and holds no lease.
    <3> HIDE DEF n
    <3>1. ~Tripped(u)
      BY <2>1, <2>3, PolicyAssumption DEF CellInv, CellTypeOK, TrippedIsArmed
    <3> QED
      BY <2>1, <2>2, <2>3, <3>1, PolicyAssumption
         DEF CellInv, CellTypeOK, TrippedIsArmed, Tripped, LeaseOnlyOnProbation, Probation, NoTime
  <2>4. CASE n >= Threshold
    <3> HIDE DEF n
    <3>1. Trip(u)
      BY <2>1, <2>2, <2>4, PolicyAssumption
    <3> QED
      BY <2>1, <2>2, <2>4, <3>1, TripKeeps
  <2> HIDE DEF n
  <2> QED
    BY <2>1, <2>3, <2>4, PolicyAssumption
<1> QED
  BY <1>1, <1>2

LEMMA TripNowKeeps ==
    ASSUME CellInv, NEW u \in Upstreams, TripNow(u)
    PROVE  CellInv'
<1>1. AtLeast(consecutive[u], Threshold) \in 0 .. MaxCount
      /\ AtLeast(consecutive[u], Threshold) >= Threshold
  BY PolicyAssumption, BoundsAssumption DEF AtLeast, CellInv, CellTypeOK
<1> QED
  BY <1>1, TripKeeps DEF TripNow

LEMMA SuccessKeeps ==
    ASSUME CellInv, NEW u \in Upstreams, Success(u)
    PROVE  CellInv'
  BY PolicyAssumption, BoundsAssumption
     DEF Success, CellInv, CellTypeOK, TrippedIsArmed, Tripped, LeaseOnlyOnProbation, Probation,
         Times, NoTime
\* What a start makes of any health file: armed cells within the policy.
LEMMA RestoredCells ==
    ASSUME NEW f \in {NoFile} \cup [Upstreams -> Records], NEW idle \in 0 .. MaxLen
    PROVE  LET c == Restored(f, idle) IN
           /\ c.consecutive \in [Upstreams -> 0 .. MaxCount] /\ c.trips \in [Upstreams -> 0 .. MaxCount]
           /\ c.until \in [Upstreams -> Times]
           /\ \A u \in Upstreams : c.until[u] # NoTime =>
                                      c.consecutive[u] >= Threshold /\ c.trips[u] >= 1
<1> USE PolicyAssumption, BoundsAssumption
<1> DEFINE c == Restored(f, idle)
<1>1. ASSUME NEW r \in Records
      PROVE  /\ StillLeft(r, idle) \in 0 .. MaxLen
             /\ AtLeast(r.trips, 1) \in 1 .. MaxCount
             /\ Streak(r) \in Threshold .. MaxCount
  BY <1>1 DEF Records, StillLeft, AtLeast, AtMost, Streak
<1>2. c.consecutive \in [Upstreams -> 0 .. MaxCount]
  BY <1>1 DEF Restored
<1>3. c.trips \in [Upstreams -> 0 .. MaxCount]
  BY <1>1 DEF Restored
<1>4. c.until \in [Upstreams -> Times]
  BY <1>1 DEF Restored, Times, NoTime
<1>5. ASSUME NEW u \in Upstreams, c.until[u] # NoTime
      PROVE  c.consecutive[u] >= Threshold /\ c.trips[u] >= 1
  BY <1>1, <1>5 DEF Restored
<1> QED
  BY <1>2, <1>3, <1>4, <1>5

\* The time left of a quarantine and of a lease counts down together.
LEMMA TickCells ==
    ASSUME CellInv, Tick
    PROVE  CellInv'
  BY PolicyAssumption DEF CellInv, CellTypeOK, Tick, Down, Times, TrippedIsArmed, Tripped,
                          LeaseOnlyOnProbation, Probation, NoTime

-----------------------------------------------------------------------------
(* The rest of the type invariant *)

WorldTypeOK ==
    /\ inflight \in [Upstreams -> [{Alive, Dead} -> 0 .. MaxReq]]
    /\ probe \in [Probers -> [target : Upstreams, met : {Unmet, Alive, Dead}, left : 0 .. Lease]
                             \cup {NoProbe}]
    /\ check \in [Upstreams -> {"pending", "down", "done"}]
    /\ up \in [Upstreams -> BOOLEAN] /\ restarts \in 0 .. MaxRestarts /\ chain \in BOOLEAN
    /\ saved \in {NoFile} \cup [Upstreams -> Records]

LEMMA TypeParts == TypeOK <=> CellTypeOK /\ WorldTypeOK
  BY DEF TypeOK, CellTypeOK, WorldTypeOK

Safe == CellInv /\ WorldTypeOK

LEMMA SafeInit == Init => Safe
<1> SUFFICES ASSUME Init PROVE Safe
  OBVIOUS
<1> USE PolicyAssumption, BoundsAssumption
<1>1. saved \in {NoFile} \cup [Upstreams -> Records]
  BY DEF Init, OldFiles, Records
<1> DEFINE c == Restored(saved, 0)
<1>2. until = c.until /\ trips = c.trips /\ consecutive = c.consecutive
  BY DEF Init
<1>3. /\ c.consecutive \in [Upstreams -> 0 .. MaxCount] /\ c.trips \in [Upstreams -> 0 .. MaxCount]
      /\ c.until \in [Upstreams -> Times]
      /\ \A u \in Upstreams : c.until[u] # NoTime =>
                                 c.consecutive[u] >= Threshold /\ c.trips[u] >= 1
  BY <1>1, RestoredCells, 0 \in 0 .. MaxLen
<1> HIDE DEF c
<1>4. CellInv
  <2>1. lease = [u \in Upstreams |-> NoTime]
    BY DEF Init
  <2> QED
    BY <1>2, <1>3, <2>1 DEF CellInv, CellTypeOK, TrippedIsArmed, Tripped, LeaseOnlyOnProbation, NoTime
<1>5. WorldTypeOK
  <2>1. inflight \in [Upstreams -> [{Alive, Dead} -> 0 .. MaxReq]]
    BY DEF Init, NoRequests
  <2>2. probe \in [Probers -> [target : Upstreams, met : {Unmet, Alive, Dead}, left : 0 .. Lease]
                               \cup {NoProbe}]
    BY DEF Init
  <2>3. up \in [Upstreams -> BOOLEAN] /\ restarts \in 0 .. MaxRestarts /\ chain \in BOOLEAN
    BY DEF Init
  <2>4. check \in [Upstreams -> {"pending", "down", "done"}]
    BY DEF Init, StartUpCheck
  <2> QED
    BY <1>1, <2>1, <2>2, <2>3, <2>4 DEF WorldTypeOK
<1> QED
  BY <1>4, <1>5 DEF Safe

\* Every step changes the cells, if at all, by an operation of Cell.
LEMMA CellStep == Safe /\ [Next]_vars => CellInv'
<1> SUFFICES ASSUME Safe, [Next]_vars PROVE CellInv'
  OBVIOUS
<1>1. CASE UNCHANGED cellVars
  BY <1>1 DEF Safe, cellVars, CellInv, CellTypeOK, TrippedIsArmed, Tripped, LeaseOnlyOnProbation,
              Probation
<1>2. ASSUME NEW u \in Upstreams,
             Pick(u) \/ CheckEnds(u) \/ Flip(u) PROVE UNCHANGED cellVars
  BY <1>2 DEF Pick, CheckEnds, Flip
<1>3. ASSUME NEW u \in Upstreams, NEW m \in {Alive, Dead}, Report(u, m) PROVE CellInv'
  BY <1>3, <1>1, SuccessKeeps, HardFailureKeeps DEF Report, Safe
<1>4. ASSUME NEW u \in Upstreams, CheckQuarantines(u) PROVE CellInv'
  BY <1>4, TripNowKeeps DEF CheckQuarantines, Safe
<1>5. ASSUME NEW k \in Probers, ProbeMeets(k) \/ ProbeDropped(k) PROVE UNCHANGED cellVars
  BY <1>5 DEF ProbeMeets, ProbeDropped
<1>6. ASSUME NEW k \in Probers, ProbeSettles(k) PROVE CellInv'
  <2>1. probe[k].target \in Upstreams
    BY <1>6 DEF ProbeSettles, Safe, WorldTypeOK, NoProbe
  <2> QED
    BY <1>6, <2>1, SuccessKeeps, HardFailureKeeps DEF ProbeSettles, Safe
<1>7. CASE TakeProbes
  BY <1>7, PolicyAssumption
     DEF TakeProbes, Due, Safe, CellInv, CellTypeOK, TrippedIsArmed, Tripped,
         LeaseOnlyOnProbation, Probation
<1>8. CASE Save
  BY <1>8, <1>1 DEF Save
<1>9. CASE Restart
  <2>1. PICK idle \in 0 .. MaxLen : LET c == Restored(saved, idle) IN
            until' = c.until /\ trips' = c.trips /\ consecutive' = c.consecutive
    BY <1>9 DEF Restart
  <2>2. lease' = [u \in Upstreams |-> NoTime]
    BY <1>9 DEF Restart
  <2>3. saved \in {NoFile} \cup [Upstreams -> Records]
    BY DEF Safe, WorldTypeOK
  <2>4. /\ consecutive' \in [Upstreams -> 0 .. MaxCount] /\ trips' \in [Upstreams -> 0 .. MaxCount]
        /\ until' \in [Upstreams -> Times]
        /\ \A u \in Upstreams : until'[u] # NoTime =>
                                   consecutive'[u] >= Threshold /\ trips'[u] >= 1
    BY <2>1, <2>3, RestoredCells
  <2> QED
    BY <2>2, <2>4, PolicyAssumption
       DEF CellInv, CellTypeOK, TrippedIsArmed, Tripped, LeaseOnlyOnProbation, NoTime
<1>10. CASE Tick
  BY <1>10, TickCells DEF Safe
<1>11. CASE UNCHANGED vars
  BY <1>11, <1>1 DEF vars
<1> QED
  BY <1>1, <1>2, <1>3, <1>4, <1>5, <1>6, <1>7, <1>8, <1>9, <1>10, <1>11 DEF Next

LEMMA WorldStep == Safe /\ [Next]_vars => WorldTypeOK'
<1> SUFFICES ASSUME Safe, [Next]_vars PROVE WorldTypeOK'
  OBVIOUS
<1> USE PolicyAssumption, BoundsAssumption DEF Safe, WorldTypeOK
<1>1. ASSUME NEW u \in Upstreams, Pick(u) PROVE WorldTypeOK'
  <2>1. Met(u) \in {Alive, Dead} /\ inflight[u][Met(u)] + 1 \in 0 .. MaxReq
    BY <1>1 DEF Pick, Met, Alive, Dead
  <2>2. inflight' \in [Upstreams -> [{Alive, Dead} -> 0 .. MaxReq]]
    BY <1>1, <2>1 DEF Pick
  <2> QED
    BY <1>1, <2>2 DEF Pick
<1>2. ASSUME NEW u \in Upstreams, NEW m \in {Alive, Dead}, Report(u, m) PROVE WorldTypeOK'
  <2>1. /\ inflight[u][m] - 1 \in 0 .. MaxReq
        /\ inflight' = [inflight EXCEPT ![u][m] = inflight[u][m] - 1]
    BY <1>2 DEF Report
  <2>2. inflight' \in [Upstreams -> [{Alive, Dead} -> 0 .. MaxReq]]
    BY <2>1
  <2> QED
    BY <1>2, <2>2 DEF Report
<1>3. ASSUME NEW u \in Upstreams, CheckEnds(u) \/ CheckQuarantines(u) \/ Flip(u)
      PROVE  WorldTypeOK'
  BY <1>3 DEF CheckEnds, CheckQuarantines, Flip
<1>4. ASSUME NEW k \in Probers, ProbeMeets(k) PROVE WorldTypeOK'
  <2>1. /\ probe[k] \in [target : Upstreams, met : {Unmet, Alive, Dead}, left : 0 .. Lease]
        /\ probe' = [probe EXCEPT ![k].met = Met(probe[k].target)]
        /\ Met(probe[k].target) \in {Unmet, Alive, Dead}
    BY <1>4 DEF ProbeMeets, Idle, Met
  <2>2. [probe[k] EXCEPT !.met = Met(probe[k].target)]
            \in [target : Upstreams, met : {Unmet, Alive, Dead}, left : 0 .. Lease]
    BY <2>1
  <2>3. probe' = [probe EXCEPT ![k] = [probe[k] EXCEPT !.met = Met(probe[k].target)]]
    BY <2>1
  <2>4. probe' \in [Probers -> [target : Upstreams, met : {Unmet, Alive, Dead}, left : 0 .. Lease]
                                \cup {NoProbe}]
    BY <2>2, <2>3
  <2> QED
    BY <1>4, <2>4 DEF ProbeMeets
<1>5. ASSUME NEW k \in Probers, ProbeSettles(k) \/ ProbeDropped(k) PROVE WorldTypeOK'
  BY <1>5 DEF ProbeSettles, ProbeDropped
<1>6. CASE TakeProbes
  <2>1. PICK f \in [Due -> {k \in Probers : Idle(k)}] :
            probe' = [k \in Probers |->
                IF \E u \in Due : f[u] = k
                THEN [target |-> CHOOSE u \in Due : f[u] = k, met |-> Unmet, left |-> Lease]
                ELSE probe[k]]
    BY <1>6 DEF TakeProbes
  <2>2. ASSUME NEW k \in Probers, \E u \in Due : f[u] = k
        PROVE  (CHOOSE u \in Due : f[u] = k) \in Upstreams
    BY <2>2 DEF Due
  <2>3. ASSUME NEW k \in Probers
        PROVE  probe'[k] \in [target : Upstreams, met : {Unmet, Alive, Dead}, left : 0 .. Lease]
                              \cup {NoProbe}
    BY <2>1, <2>2
  <2> QED
    BY <1>6, <2>1, <2>3 DEF TakeProbes
<1>7. CASE Save
  <2>1. ASSUME NEW u \in Upstreams PROVE Record(u) \in Records
    BY <2>1 DEF Record, Records, AtLeast, CellInv, CellTypeOK, Times
  <2> QED
    BY <1>7, <2>1 DEF Save
<1>8. CASE Restart
  <2>1. check' \in [Upstreams -> {"pending", "down", "done"}]
    BY <1>8 DEF Restart, StartUpCheck
  <2>2. inflight' \in [Upstreams -> [{Alive, Dead} -> 0 .. MaxReq]]
    BY <1>8 DEF Restart, NoRequests
  <2>3. restarts' \in 0 .. MaxRestarts /\ UNCHANGED <<up, saved, chain>>
    BY <1>8, BoundsAssumption DEF Restart
  <2>4. probe' = [k \in Probers |-> NoProbe]
    BY <1>8 DEF Restart
  <2> QED
    BY <2>1, <2>2, <2>3, <2>4
<1>9. CASE Tick
  <2>1. ASSUME NEW k \in Probers
        PROVE  [probe[k] EXCEPT !.left = Down(@)]
                  \in [target : Upstreams, met : {Unmet, Alive, Dead}, left : 0 .. Lease] \cup {NoProbe}
    BY DEF Down, NoProbe
  <2> QED
    BY <1>9, <2>1 DEF Tick
<1>10. CASE UNCHANGED vars
  BY <1>10 DEF vars
<1> QED
  BY <1>1, <1>2, <1>3, <1>4, <1>5, <1>6, <1>7, <1>8, <1>9, <1>10 DEF Next

THEOREM SafeAlways == Spec => []Safe
<1>1. Safe /\ [Next]_vars => Safe'
  BY CellStep, WorldStep DEF Safe
<1> QED
  BY <1>1, SafeInit, PTL DEF Spec

\* Every variable of the quarantine keeps its type, for every policy.
THEOREM TypeCorrect == Spec => []TypeOK
<1>1. Safe => TypeOK
  BY TypeParts DEF Safe, CellInv
<1> QED
  BY <1>1, SafeAlways, PTL

\* A tripped upstream is armed, whichever path tripped or restored it.
THEOREM TrippedIsArmedHolds == Spec => []TrippedIsArmed
<1>1. Safe => TrippedIsArmed
  BY DEF Safe, CellInv
<1> QED
  BY <1>1, SafeAlways, PTL

\* No lease outlives the probation that granted it.
THEOREM LeaseOnlyOnProbationHolds == Spec => []LeaseOnlyOnProbation
<1>1. Safe => LeaseOnlyOnProbation
  BY DEF Safe, CellInv
<1> QED
  BY <1>1, SafeAlways, PTL

-----------------------------------------------------------------------------
(* Probes: an unexpired lease is the cell's, or another report ended it and *)
(* what is left of it runs out within Lease - Initial of the next claim.    *)

Covered(k, u) ==
    \/ Healthy(u)
    \/ Quarantined(u) /\ until[u] + Lease >= probe[k].left + Initial
    \/ Probation(u) /\ (lease[u] >= probe[k].left \/ Lease >= probe[k].left + Initial)

LeasesCovered ==
    \A k \in Probers, u \in Upstreams :
        (probe[k].target = u /\ probe[k].left > 0) => Covered(k, u)
\* A Cell operation clears an upstream, trips it for at least Initial, or
\* leaves its times alone.
LEMMA CellOutcome ==
    ASSUME CellInv, NEW w \in Upstreams, Success(w) \/ HardFailure(w) \/ TripNow(w),
           NEW u \in Upstreams
    PROVE  \/ until'[u] = until[u] /\ lease'[u] = lease[u]
           \/ until'[u] = NoTime
           \/ until'[u] >= Initial /\ until'[u] \in Nat /\ until'[u] > 0
<1> USE DEF CellInv, CellTypeOK
<1>1. ASSUME Trip(w) PROVE until'[w] >= Initial /\ until'[w] \in Nat /\ until'[w] > 0
  <2>1. LengthOf[Inc(trips[w])] \in Initial .. MaxLen
    BY IncType, LengthType
  <2> QED
    BY <1>1, <2>1, PolicyAssumption DEF Trip
<1>2. CASE u # w
  BY <1>2 DEF Success, HardFailure, TripNow, Trip, cellVars
<1>3. CASE u = w /\ (Success(w) \/ TripNow(w))
  BY <1>1, <1>3 DEF Success, TripNow
<1>4. CASE u = w /\ HardFailure(w)
  <2>1. CASE UNCHANGED cellVars \/ Trip(w)
    BY <1>1, <1>4, <2>1 DEF cellVars
  <2>2. CASE Inc(consecutive[w]) < Threshold /\ UNCHANGED until
    BY <1>4, <2>2, IncType, PolicyAssumption DEF TrippedIsArmed, Tripped
  <2> QED
    BY <1>4, <2>1, <2>2 DEF HardFailure
<1> QED
  BY <1>2, <1>3, <1>4

LeaseInv == Safe /\ LeasesCovered /\ LeasesApart

\* A step that grants no lease and lets none grow: it is enough that the
\* cells stay as they are or move as CellOutcome says.
LEMMA NoGrantKeeps ==
    ASSUME LeaseInv,
           \A k \in Probers : \/ probe'[k].left = 0
                              \/ /\ probe'[k].left = probe[k].left
                                 /\ probe'[k].target = probe[k].target,
           \A u \in Upstreams : \/ until'[u] = until[u] /\ lease'[u] = lease[u]
                                \/ until'[u] = NoTime
                                \/ until'[u] >= Initial /\ until'[u] \in Nat /\ until'[u] > 0
    PROVE  LeasesCovered' /\ LeasesApart'
<1> USE DEF LeaseInv, Safe, WorldTypeOK, CellInv, CellTypeOK
<1>1. ASSUME NEW k \in Probers PROVE probe[k].left \in 0 .. Lease
  BY PolicyAssumption DEF NoProbe
<1>2. LeasesApart'
  BY <1>1 DEF LeasesApart
<1>3. LeasesCovered'
  <2> SUFFICES ASSUME NEW k \in Probers, NEW u \in Upstreams,
                      probe'[k].target = u, probe'[k].left > 0
               PROVE  Covered(k, u)'
    BY DEF LeasesCovered
  <2>1. Covered(k, u) /\ probe'[k].left = probe[k].left /\ probe[k].left <= Lease
    BY <1>1, PolicyAssumption DEF LeasesCovered
  <2> QED
    BY <2>1, <1>1, PolicyAssumption DEF Covered, Healthy, Quarantined, Probation, Times, NoTime
<1> QED
  BY <1>2, <1>3

LEMMA TakeProbesKeeps ==
    ASSUME LeaseInv, TakeProbes
    PROVE  LeasesCovered' /\ LeasesApart'
<1> USE PolicyAssumption DEF LeaseInv, Safe, WorldTypeOK, CellInv, CellTypeOK
<1>1. PICK f \in [Due -> {k \in Probers : Idle(k)}] :
          /\ \A u, v \in Due : f[u] = f[v] => u = v
          /\ probe' = [k \in Probers |->
                IF \E u \in Due : f[u] = k
                THEN [target |-> CHOOSE u \in Due : f[u] = k, met |-> Unmet, left |-> Lease]
                ELSE probe[k]]
  BY DEF TakeProbes
<1>2. lease' = [u \in Upstreams |-> IF u \in Due THEN Lease ELSE lease[u]] /\ until' = until
  BY DEF TakeProbes
<1>3. ASSUME NEW k \in Probers PROVE probe[k].left \in 0 .. Lease
  BY DEF NoProbe
\* What is left of an ended lease of an upstream that is due is short.
<1>4. ASSUME NEW k \in Probers, probe[k].target \in Due, probe[k].left > 0
      PROVE  Lease >= probe[k].left + Initial
  <2> DEFINE u == probe[k].target
  <2>1. u \in Upstreams /\ until[u] = 0 /\ ~(lease[u] > 0)
    BY <1>4 DEF Due, Probation
  <2>2. Covered(k, u)
    BY <1>4, <2>1 DEF LeasesCovered
  <2> QED
    BY <1>3, <1>4, <2>1, <2>2 DEF Covered, Healthy, Quarantined, NoTime
<1>5. ASSUME NEW k \in Probers
      PROVE  \/ /\ probe'[k].target \in Due /\ probe'[k].left = Lease
                /\ f[probe'[k].target] = k
             \/ probe'[k] = probe[k]
  <2>1. CASE \E u \in Due : f[u] = k
    <3> DEFINE w == CHOOSE u \in Due : f[u] = k
    <3>1. w \in Due /\ f[w] = k
      BY <2>1
    <3>2. probe'[k] = [target |-> w, met |-> Unmet, left |-> Lease]
      BY <1>1, <2>1
    <3> HIDE DEF w
    <3> QED
      BY <3>1, <3>2
  <2>2. CASE ~(\E u \in Due : f[u] = k)
    BY <1>1, <2>2
  <2> QED
    BY <2>1, <2>2
<1>6. LeasesApart'
  <2> SUFFICES ASSUME NEW j \in Probers, NEW k \in Probers, j # k,
                      probe'[j].target = probe'[k].target, probe'[j].left > 0, probe'[k].left > 0
               PROVE  \/ probe'[j].left - probe'[k].left >= Initial
                      \/ probe'[k].left - probe'[j].left >= Initial
    BY DEF LeasesApart
  <2>1. CASE probe'[j] = probe[j] /\ probe'[k] = probe[k]
    BY <2>1 DEF LeasesApart
  <2>2. ASSUME NEW m \in Probers, NEW n \in Probers, m # n, probe'[m].target = probe'[n].target,
               probe'[n].left > 0, probe'[m].target \in Due, probe'[m].left = Lease,
               f[probe'[m].target] = m
        PROVE  probe'[m].left - probe'[n].left >= Initial
    <3>1. probe'[n] = probe[n]
      BY <1>5, <2>2
    <3>2. Lease >= probe[n].left + Initial
      BY <1>4, <2>2, <3>1
    <3> QED
      BY <1>3, <2>2, <3>1, <3>2
  <2> QED
    BY <1>5, <2>1, <2>2
<1>7. LeasesCovered'
  <2> SUFFICES ASSUME NEW k \in Probers, NEW u \in Upstreams,
                      probe'[k].target = u, probe'[k].left > 0
               PROVE  Covered(k, u)'
    BY DEF LeasesCovered
  <2>1. CASE u \in Due
    BY <1>2, <1>3, <1>4, <1>5, <2>1 DEF Covered, Probation, Due
  <2>2. CASE u \notin Due
    <3>1. probe'[k] = probe[k] /\ Covered(k, u)
      BY <1>5, <2>2 DEF LeasesCovered
    <3> QED
      BY <1>2, <2>2, <3>1 DEF Covered, Healthy, Quarantined, Probation
  <2> QED
    BY <2>1, <2>2
<1> QED
  BY <1>6, <1>7

LEMMA TickKeeps ==
    ASSUME LeaseInv, Tick
    PROVE  LeasesCovered' /\ LeasesApart'
<1> USE PolicyAssumption DEF LeaseInv, Safe, WorldTypeOK, CellInv, CellTypeOK
<1>1. ASSUME NEW k \in Probers
      PROVE  /\ probe[k].left \in 0 .. Lease
             /\ probe'[k].target = probe[k].target /\ probe'[k].left = Down(probe[k].left)
  BY DEF Tick, NoProbe
<1>2. until' = [u \in Upstreams |-> Down(until[u])] /\ lease' = [u \in Upstreams |-> Down(lease[u])]
  BY DEF Tick
<1>3. LeasesApart'
  BY <1>1 DEF LeasesApart, Down
<1>4. LeasesCovered'
  <2> SUFFICES ASSUME NEW k \in Probers, NEW u \in Upstreams,
                      probe'[k].target = u, probe'[k].left > 0
               PROVE  Covered(k, u)'
    BY DEF LeasesCovered
  <2>1. Covered(k, u) /\ probe[k].left > 1 /\ probe'[k].left = probe[k].left - 1
    BY <1>1 DEF LeasesCovered, Down
  <2>2. until[u] \in Times /\ lease[u] \in (-1) .. Lease
    OBVIOUS
  <2> QED
    BY <1>1, <1>2, <2>1, <2>2 DEF Covered, Healthy, Quarantined, Probation, Down, Times, NoTime
<1> QED
  BY <1>3, <1>4

LEMMA LeaseStep ==
    ASSUME LeaseInv, [Next]_vars
    PROVE  LeasesCovered' /\ LeasesApart'
<1> DEFINE SameProbe(k) == /\ probe'[k].left = probe[k].left
                           /\ probe'[k].target = probe[k].target
<1>1. CASE TakeProbes
  BY <1>1, TakeProbesKeeps
<1>2. CASE Tick
  BY <1>2, TickKeeps
<1>3. ASSUME \A k \in Probers : probe'[k].left = 0 \/ SameProbe(k),
             UNCHANGED cellVars \/ \E w \in Upstreams : Success(w) \/ HardFailure(w) \/ TripNow(w)
      PROVE  LeasesCovered' /\ LeasesApart'
  <2>1. CASE UNCHANGED cellVars
    BY <1>3, <2>1, NoGrantKeeps DEF cellVars
  <2>2. ASSUME NEW w \in Upstreams, Success(w) \/ HardFailure(w) \/ TripNow(w)
        PROVE  LeasesCovered' /\ LeasesApart'
    <3>1. CellInv
      BY DEF LeaseInv, Safe
    <3> QED
      BY <1>3, <2>2, <3>1, CellOutcome, NoGrantKeeps
  <2> QED
    BY <1>3, <2>1, <2>2
<1>4. ASSUME NEW u \in Upstreams, NEW m \in {Alive, Dead},
             \/ Pick(u) \/ Report(u, m) \/ CheckEnds(u) \/ CheckQuarantines(u) \/ Flip(u)
      PROVE  LeasesCovered' /\ LeasesApart'
  BY <1>3, <1>4 DEF Pick, Report, CheckEnds, CheckQuarantines, Flip
<1>5. ASSUME NEW k \in Probers, ProbeMeets(k) \/ ProbeSettles(k) \/ ProbeDropped(k)
      PROVE  LeasesCovered' /\ LeasesApart'
  <2>1. ASSUME NEW j \in Probers PROVE probe'[j].left = 0 \/ SameProbe(j)
    BY <1>5 DEF ProbeMeets, ProbeSettles, ProbeDropped, NoProbe, LeaseInv, Safe, WorldTypeOK
  <2>2. UNCHANGED cellVars \/ \E w \in Upstreams : Success(w) \/ HardFailure(w) \/ TripNow(w)
    BY <1>5 DEF ProbeMeets, ProbeSettles, ProbeDropped, NoProbe, LeaseInv, Safe, WorldTypeOK
  <2> QED
    BY <1>3, <2>1, <2>2
<1>6. CASE Save \/ UNCHANGED vars
  BY <1>3, <1>6 DEF Save, vars
<1>7. CASE Restart
  BY <1>7 DEF Restart, LeasesCovered, LeasesApart, NoProbe
<1> QED
  BY <1>1, <1>2, <1>4, <1>5, <1>6, <1>7 DEF Next

\* Two unexpired leases of one upstream were taken at least Initial apart,
\* whatever the lengths of lease and quarantine: a claim waits for the lease of
\* the last one, and whoever ends that lease early trips the upstream first.
THEOREM LeasesApartHolds == Spec => []LeasesApart
<1>1. Init => LeaseInv
  <2>1. Init => LeasesCovered /\ LeasesApart
    BY DEF Init, LeasesCovered, LeasesApart, NoProbe
  <2> QED
    BY <2>1, SafeInit DEF LeaseInv
<1>2. LeaseInv /\ [Next]_vars => LeaseInv'
  BY LeaseStep, CellStep, WorldStep DEF LeaseInv, Safe
<1>3. LeaseInv => LeasesApart
  BY DEF LeaseInv
<1> QED
  BY <1>1, <1>2, <1>3, PTL DEF Spec

\* "One holder at a time" (quarantine.rs) under a lease no longer than the
\* shortest quarantine: no two probes of one upstream own an unexpired lease.
COROLLARY OneHolder ==
    ASSUME Lease <= Initial
    PROVE  Spec => [](\A j, k \in Probers :
                        (j # k /\ probe[j].target = probe[k].target) =>
                            probe[j].left = 0 \/ probe[k].left = 0)
<1> DEFINE One == \A j, k \in Probers :
                      (j # k /\ probe[j].target = probe[k].target) =>
                          probe[j].left = 0 \/ probe[k].left = 0
<1>1. Safe /\ LeasesApart => One
  <2> SUFFICES ASSUME Safe, LeasesApart, NEW j \in Probers, NEW k \in Probers,
                      j # k, probe[j].target = probe[k].target
               PROVE  probe[j].left = 0 \/ probe[k].left = 0
    OBVIOUS
  <2>1. probe[j].left \in 0 .. Lease /\ probe[k].left \in 0 .. Lease
    BY PolicyAssumption DEF Safe, WorldTypeOK, NoProbe
  <2> QED
    BY <2>1, PolicyAssumption DEF LeasesApart
<1> QED
  BY <1>1, SafeAlways, LeasesApartHolds, PTL
-----------------------------------------------------------------------------
\* A re-trip without a success in between never shortens the quarantine, and
\* no quarantine is longer than the policy's maximum.
THEOREM BackoffGrowsHolds == Spec => BackoffGrows
<1>1. ASSUME Safe, [Next]_vars PROVE BackoffStep
  <2> SUFFICES ASSUME restarts' = restarts, NEW u \in Upstreams, trips[u] > 0, until'[u] > until[u]
               PROVE  until'[u] >= LengthOf[trips[u]] /\ until'[u] <= MaxLen
    BY DEF BackoffStep
  <2> USE <1>1 DEF Safe, CellInv, CellTypeOK
  <2>1. CASE Trip(u)
    <3>1. Inc(trips[u]) \in 0 .. MaxCount /\ Inc(trips[u]) >= trips[u]
      BY IncType
    <3>2. LengthOf[Inc(trips[u])] >= LengthOf[trips[u]] /\ LengthOf[Inc(trips[u])] <= MaxLen
      BY <3>1, LengthType, LengthAssumption
    <3> QED
      BY <2>1, <3>2 DEF Trip
  \* Nothing but a trip and a restart makes a quarantine longer.
  <2>2. ASSUME NEW w \in Upstreams, Success(w) \/ HardFailure(w) \/ TripNow(w) PROVE Trip(u)
    BY <2>2 DEF Success, HardFailure, TripNow, Trip, cellVars, Times, NoTime
  <2>3. ASSUME UNCHANGED until PROVE FALSE
    BY <2>3 DEF Times
  <2>4. CASE Tick
    BY <2>4, PolicyAssumption DEF Tick, Down, Times
  <2>5. CASE Restart
    BY <2>5, BoundsAssumption DEF Restart, WorldTypeOK
  <2>6. ASSUME NEW w \in Upstreams, NEW m \in {Alive, Dead},
               Report(w, m) \/ CheckQuarantines(w) PROVE Trip(u)
    BY <2>2, <2>3, <2>6 DEF Report, CheckQuarantines, cellVars
  <2>7. ASSUME NEW k \in Probers, ProbeSettles(k) PROVE Trip(u)
    <3>1. probe[k].target \in Upstreams
      BY <2>7 DEF ProbeSettles, WorldTypeOK, NoProbe
    <3> QED
      BY <2>2, <2>7, <3>1 DEF ProbeSettles
  <2>8. CASE \/ TakeProbes \/ Save \/ UNCHANGED vars
             \/ \E w \in Upstreams : Pick(w) \/ CheckEnds(w) \/ Flip(w)
             \/ \E k \in Probers : ProbeMeets(k) \/ ProbeDropped(k)
    BY <2>3, <2>8 DEF TakeProbes, Save, vars, cellVars, Pick, CheckEnds, Flip, ProbeMeets,
                      ProbeDropped
  <2> QED
    BY <2>1, <2>4, <2>5, <2>6, <2>7, <2>8 DEF Next
<1>2. Safe /\ [Next]_vars => [BackoffStep]_vars
  BY <1>1
<1> QED
  BY <1>2, SafeAlways, PTL DEF Spec, BackoffGrows
=============================================================================
