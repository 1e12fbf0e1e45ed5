----------------------------- MODULE Quarantine -----------------------------
(***************************************************************************)
(* The quarantine of dead upstreams: the per-upstream Cell of `rating`,    *)
(* the client requests that report into it, the out-of-band probes that    *)
(* claim an upstream on probation under a lease, the start-up check, and   *)
(* the records the health file carries across a restart.                   *)
(*                                                                         *)
(* Time is discrete.  An Instant of the code (`until`, `lease_until`, a    *)
(* probe's `lease_until`) is modelled by the time left until it, counted   *)
(* down by Tick and 0 once it has passed; NoTime stands for None.  The u32 *)
(* counters saturate at MaxCount.                                          *)
(***************************************************************************)
EXTENDS Backoff

CONSTANTS
    Upstreams,  \* the members of one rotator
    Threshold,  \* consecutive hard failures that quarantine
    Initial,    \* length of the first quarantine
    MaxLen,     \* upper bound of its doubling length
    LengthOf,   \* duration_for: length of the t-th quarantine
    Lease,      \* how long a probe owns the probation slot
    Probers,    \* probes that can be in flight at once
    MaxCount,   \* the value at which counters saturate
    MaxReq,     \* bound: concurrent client requests
    MaxRestarts \* bound: restarts of the process

\* QuarantinePolicy::validate, for an enabled policy.
ASSUME PolicyAssumption ==
    /\ Threshold \in Nat \ {0} /\ Initial \in Nat \ {0}
    /\ MaxLen \in Nat /\ MaxLen >= Initial
    /\ Lease \in Nat \ {0}
ASSUME BoundsAssumption ==
    /\ MaxCount \in Nat /\ MaxCount >= Threshold
    /\ MaxReq \in Nat /\ MaxRestarts \in Nat
\* What the state machine needs of duration_for; see Backoff.
ASSUME LengthAssumption ==
    /\ LengthOf \in [0 .. MaxCount -> Initial .. MaxLen]
    /\ \A s, t \in 0 .. MaxCount : s <= t => LengthOf[s] <= LengthOf[t]

NoTime == -1

VARIABLES
    consecutive, trips,   \* Cell: failure streak and quarantines so far
    until, lease,         \* Cell: time left of the quarantine and of the lease
    inflight,             \* client requests on each upstream, by what they met
    probe,                \* each prober: target, what it met, time left of its lease
    check,                \* start-up check of each upstream
    up,                   \* the world: the upstream answers
    saved,                \* the health file's record of each upstream
    restarts,
    chain                 \* an inner gate level (chain probes, fenced), or dialled directly

cellVars == <<consecutive, trips, until, lease>>
vars == <<cellVars, inflight, probe, check, up, saved, restarts, chain>>

Inc(x) == AtMost(x + 1, MaxCount)

-----------------------------------------------------------------------------
(* Cell *)

Healthy(u)     == until[u] = NoTime
Quarantined(u) == until[u] > 0
Probation(u)   == until[u] = 0
Tripped(u)     == until[u] # NoTime

TripFlat(u) == /\ trips' = [trips EXCEPT ![u] = Inc(@)]           \* mutant
               /\ until' = [until EXCEPT ![u] = Initial]
Trip(u) == /\ trips' = [trips EXCEPT ![u] = Inc(@)]
           /\ until' = [until EXCEPT ![u] = LengthOf[Inc(trips[u])]]

\* A failure inside an active quarantine belongs to an older request.
HardFailure(u) ==
    IF Quarantined(u) THEN UNCHANGED cellVars
    ELSE /\ lease' = [lease EXCEPT ![u] = NoTime]
         /\ consecutive' = [consecutive EXCEPT ![u] = Inc(@)]
         /\ IF Inc(consecutive[u]) < Threshold THEN UNCHANGED <<trips, until>>
            ELSE Trip(u)

TripNow(u) == /\ lease' = [lease EXCEPT ![u] = NoTime]
              /\ consecutive' = [consecutive EXCEPT ![u] = AtLeast(@, Threshold)]
              /\ Trip(u)

Success(u) == /\ consecutive' = [consecutive EXCEPT ![u] = 0]
              /\ trips' = [trips EXCEPT ![u] = 0]
              /\ until' = [until EXCEPT ![u] = NoTime]
              /\ lease' = [lease EXCEPT ![u] = NoTime]

DueLeased == {u \in Upstreams : Probation(u)}                    \* mutant
DueOnce == {u \in Upstreams : Probation(u) /\ lease[u] = NoTime}  \* mutant
\* `take_probes` leases every upstream on probation whose lease ran out.
Due == {u \in Upstreams : Probation(u) /\ ~(lease[u] > 0)}

\* `pick_order`: the healthy upstreams, or all when there is none.
Selectable == LET healthy == {u \in Upstreams : Healthy(u)}
              IN  IF healthy # {} THEN healthy ELSE Upstreams

-----------------------------------------------------------------------------
\* An attempt meets a live or a dead upstream some time before it reports.
Unmet == "unmet"
Alive == "alive"
Dead  == "dead"
Met(u) == IF up[u] THEN Alive ELSE Dead

NoRequests == [v \in {Alive, Dead} |-> 0]
NoProbe == [target |-> "none", met |-> Unmet, left |-> 0]
Idle(k) == probe[k] = NoProbe

\* One line of the health file.
Record(u) == [state |-> IF Healthy(u) THEN "alive" ELSE IF Quarantined(u) THEN "quarantined"
                        ELSE "probation",
              left |-> AtLeast(until[u], 0), trips |-> trips[u], failures |-> consecutive[u]]
NoFile == <<>>

\* A saved quarantine that ran out while the process was down is probation.
StillLeft(r, idle) ==
    IF r.state = "quarantined" THEN AtMost(AtLeast(r.left - idle, 0), MaxLen) ELSE 0

\* A restored streak is full under the policy of this run.
Streak(r) == AtLeast(r.failures, Threshold)

\* `restore`: the cells a start makes of the file, after `idle` time down.
\* Without a file they are fresh.
Restored(f, idle) ==
    LET dead(u) == f # NoFile /\ f[u].state # "alive" IN
    [until       |-> [u \in Upstreams |-> IF dead(u) THEN StillLeft(f[u], idle) ELSE NoTime],
     trips       |-> [u \in Upstreams |-> IF dead(u) THEN AtLeast(f[u].trips, 1) ELSE 0],
     consecutive |-> [u \in Upstreams |-> IF dead(u) THEN Streak(f[u]) ELSE 0]]

\* Without a saved picture the directly dialled upstreams are checked.
StartUpCheck(f) == [u \in Upstreams |-> IF f = NoFile /\ ~chain THEN "pending" ELSE "done"]

\* No file, or one left by a run under another policy: a lower threshold, a
\* longer quarantine.
OldFiles == {NoFile} \cup
    [Upstreams -> {[state |-> "quarantined", left |-> MaxLen + 1, trips |-> 0, failures |-> 0],
                   [state |-> "alive", left |-> 0, trips |-> 0, failures |-> 0]}]

Init ==
    /\ saved \in OldFiles /\ chain \in BOOLEAN
    /\ LET c == Restored(saved, 0) IN
        /\ until = c.until /\ trips = c.trips /\ consecutive = c.consecutive
    /\ check = StartUpCheck(saved)
    /\ lease = [u \in Upstreams |-> NoTime]
    /\ inflight = [u \in Upstreams |-> NoRequests]
    /\ probe = [k \in Probers |-> NoProbe]
    /\ up \in [Upstreams -> BOOLEAN]
    /\ restarts = 0

(* Clients *)

\* A request dials a selectable upstream and meets it as it is now.
Pick(u) ==
    /\ u \in Selectable /\ inflight[u][Alive] + inflight[u][Dead] < MaxReq
    /\ inflight' = [inflight EXCEPT ![u][Met(u)] = @ + 1]
    /\ UNCHANGED <<cellVars, probe, check, up, saved, restarts, chain>>

\* It ends later: record_success, record_hard_failure, or nothing that counts
\* here (a soft failure moves the sand weights only).
Report(u, met) ==
    /\ inflight[u][met] > 0
    /\ inflight' = [inflight EXCEPT ![u][met] = @ - 1]
    /\ \/ IF met = Alive THEN Success(u) ELSE HardFailure(u)
       \/ UNCHANGED cellVars
    /\ UNCHANGED <<probe, check, up, saved, restarts, chain>>

(* Probes *)

\* take_probes claims all due upstreams; a task per claimed upstream starts.
TakeProbes ==
    /\ Due # {}
    /\ \E f \in [Due -> {k \in Probers : Idle(k)}] :
        /\ \A u, v \in Due : f[u] = f[v] => u = v
        /\ probe' = [k \in Probers |->
               IF \E u \in Due : f[u] = k
               THEN [target |-> CHOOSE u \in Due : f[u] = k, met |-> Unmet, left |-> Lease]
               ELSE probe[k]]
    /\ lease' = [u \in Upstreams |-> IF u \in Due THEN Lease ELSE lease[u]]
    /\ UNCHANGED <<consecutive, trips, until, inflight, check, up, saved, restarts, chain>>

\* The connect of the probe ends.
ProbeMeets(k) ==
    /\ ~Idle(k) /\ probe[k].met = Unmet
    /\ probe' = [probe EXCEPT ![k].met = Met(probe[k].target)]
    /\ UNCHANGED <<cellVars, inflight, check, up, saved, restarts, chain>>

\* The settlement fence: a chain probe that ends after its lease is discarded.
Counts(k) == chain => probe[k].left > 0

\* The probe reports that the upstream was reached, or that it is down.
ProbeSettles(k) ==
    /\ probe[k].met # Unmet /\ Counts(k)
    /\ IF probe[k].met = Alive THEN Success(probe[k].target) ELSE HardFailure(probe[k].target)
    /\ probe' = [probe EXCEPT ![k] = NoProbe]
    /\ UNCHANGED <<inflight, check, up, saved, restarts, chain>>

\* Deferred at capacity, inconclusive, or settled after the lease: no report.
ProbeDropped(k) ==
    /\ ~Idle(k)
    /\ probe' = [probe EXCEPT ![k] = NoProbe]
    /\ UNCHANGED <<cellVars, inflight, check, up, saved, restarts, chain>>

(* Start-up check (probe_all): is_quarantined, then quarantine_now *)

\* The connect of the check ends.  An upstream that answers, that is at capacity
\* (not checked) or that is tripped already stays as it is.
CheckEnds(u) ==
    /\ check[u] = "pending"
    /\ \/ check' = [check EXCEPT ![u] = "done"]
       \/ ~up[u] /\ ~Tripped(u) /\ check' = [check EXCEPT ![u] = "down"]
    /\ UNCHANGED <<cellVars, inflight, probe, up, saved, restarts, chain>>

CheckQuarantines(u) ==
    /\ check[u] = "down"
    /\ TripNow(u)
    /\ check' = [check EXCEPT ![u] = "done"]
    /\ UNCHANGED <<inflight, probe, up, saved, restarts, chain>>

(* The health file and a restart *)

\* A save that no start will read (bound MaxRestarts) is left out.
Save ==
    /\ restarts < MaxRestarts
    /\ saved' = [u \in Upstreams |-> Record(u)]
    /\ UNCHANGED <<cellVars, inflight, probe, check, up, restarts, chain>>

Restart ==
    /\ restarts < MaxRestarts /\ restarts' = restarts + 1
    /\ \E idle \in 0 .. MaxLen : LET c == Restored(saved, idle) IN
        /\ until' = c.until /\ trips' = c.trips /\ consecutive' = c.consecutive
    /\ check' = StartUpCheck(saved)
    /\ lease' = [u \in Upstreams |-> NoTime]
    /\ inflight' = [u \in Upstreams |-> NoRequests]
    /\ probe' = [k \in Probers |-> NoProbe]
    /\ UNCHANGED <<up, saved, chain>>

(* The world *)

Down(t) == IF t > 0 THEN t - 1 ELSE t
Tick ==
    /\ until' = [u \in Upstreams |-> Down(until[u])]
    /\ lease' = [u \in Upstreams |-> Down(lease[u])]
    /\ probe' = [k \in Probers |-> [probe[k] EXCEPT !.left = Down(@)]]
    /\ UNCHANGED <<consecutive, trips, inflight, check, up, saved, restarts, chain>>

Flip(u) == /\ up' = [up EXCEPT ![u] = ~@]
           /\ UNCHANGED <<cellVars, inflight, probe, check, saved, restarts, chain>>

Next == \/ \E u \in Upstreams : Pick(u) \/ Report(u, Alive) \/ Report(u, Dead)
                                \/ CheckEnds(u) \/ CheckQuarantines(u) \/ Flip(u)
        \/ \E k \in Probers : ProbeMeets(k) \/ ProbeSettles(k) \/ ProbeDropped(k)
        \/ TakeProbes \/ Save \/ Restart \/ Tick

Spec == Init /\ [][Next]_vars

\* Time passes, client traffic keeps asking for due probes, and a probe that
\* is asked for again and again is not deferred or inconclusive forever: the
\* lease is longer than the timeouts of a probe, so some probe ends within it.
Fairness == /\ WF_vars(Tick) /\ WF_vars(TakeProbes)
            /\ \A k \in Probers : WF_vars(ProbeMeets(k) \/ ProbeSettles(k) \/ ProbeDropped(k))
            /\ \A u \in Upstreams :
                  /\ SF_vars(\E k \in Probers : probe[k].target = u /\ probe[k].left > 0 /\ ProbeMeets(k))
                  /\ SF_vars(\E k \in Probers : probe[k].target = u /\ ProbeSettles(k))
FairSpec == Spec /\ Fairness

-----------------------------------------------------------------------------
(* Properties *)

Times == (-1) .. MaxLen
Records == [state : {"alive", "quarantined", "probation"}, left : Nat,
            trips : 0 .. MaxCount, failures : 0 .. MaxCount]
\* Every variable has its type.
TypeOK ==
    /\ consecutive \in [Upstreams -> 0 .. MaxCount] /\ trips \in [Upstreams -> 0 .. MaxCount]
    /\ until \in [Upstreams -> Times] /\ lease \in [Upstreams -> (-1) .. Lease]
    /\ inflight \in [Upstreams -> [{Alive, Dead} -> 0 .. MaxReq]]
    /\ probe \in [Probers -> [target : Upstreams, met : {Unmet, Alive, Dead}, left : 0 .. Lease]
                             \cup {NoProbe}]
    /\ check \in [Upstreams -> {"pending", "down", "done"}]
    /\ up \in [Upstreams -> BOOLEAN] /\ restarts \in 0 .. MaxRestarts /\ chain \in BOOLEAN
    /\ saved \in {NoFile} \cup [Upstreams -> Records]

\* A tripped upstream carries a full streak and at least one trip, on every
\* path into that state (failures, start-up check, a restored record of another
\* policy): so one more failure on probation always quarantines it again.
TrippedIsArmed ==
    \A u \in Upstreams : Tripped(u) => consecutive[u] >= Threshold /\ trips[u] >= 1

\* A lease exists only on probation: no stale lease outlives the state that
\* granted it and delays the next probe.
LeaseOnlyOnProbation == \A u \in Upstreams : lease[u] # NoTime => Probation(u)

BackoffStep ==
    restarts' = restarts =>
        \A u \in Upstreams : (trips[u] > 0 /\ until'[u] > until[u]) =>
            until'[u] >= LengthOf[trips[u]] /\ until'[u] <= MaxLen
\* An upstream stays out of rotation without a probe for at most MaxLen, and a
\* re-trip without a success in between never shortens the quarantine.
BackoffGrows == [][BackoffStep]_vars

\* Two probes of one upstream that both own an unexpired lease took it at least
\* Initial apart.  A claim never overlaps the claim it follows: only a report
\* from elsewhere (a client, the start-up check) ends a lease before its time,
\* and then the upstream sits out a whole quarantine before it is claimed again.
\* So the slot has one holder at a time, as quarantine.rs promises, exactly when
\* the lease is no longer than that quarantine.
LeasesApart ==
    \A j, k \in Probers :
        (j # k /\ probe[j].target = probe[k].target /\ probe[j].left > 0 /\ probe[k].left > 0) =>
            probe[j].left - probe[k].left >= Initial \/ probe[k].left - probe[j].left >= Initial

\* A live upstream is not stranded: if it answers from some time on, it is in
\* rotation again and again (a lost or deferred probe is retried).
LiveUpstreamReturns ==
    \A u \in Upstreams : <>[](up[u]) => []<>(Healthy(u))
=============================================================================
