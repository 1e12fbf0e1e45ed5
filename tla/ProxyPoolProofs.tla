-------------------------- MODULE ProxyPoolProofs --------------------------
(***************************************************************************)
(* Proofs about ProxyPool, for any callers, cap, number of spares and      *)
(* number of forgets: no permit is leaked or released twice, the live      *)
(* connections stay within the cap, one refill task at a time works on the *)
(* published queue and draws on the published cap, and no wake-up of that  *)
(* task is lost.                                                           *)
(*                                                                         *)
(* The conservation of permits is an induction over who holds what: every  *)
(* step moves a permit between the semaphore, a caller's hands, a queued   *)
(* spare, a spare the recycler keeps and a refill dial in flight.  What    *)
(* makes it inductive is `Generations`: a queue is charged to the          *)
(* semaphore of its own generation, and a generation gets one queue only.  *)
(***************************************************************************)
EXTENDS ProxyPool, FiniteSetTheorems, SequenceTheorems, TLAPS

(* The parts of the inductive invariant. *)

\* What is published is of the current generation; the entries of a generation
\* are made once, and forget removes them before the next one starts.
Generations ==
    /\ pools \in {None, Gen} /\ caps \in {None, Gen}
    /\ admin = "spawn" => pools = Gen
    /\ admin \in {"forget_caps", "forget_abort", "gone"} => pools = None
    /\ admin = "forget_caps" => forgets < MaxForgets
    /\ \A g \in Gens : semOf[g] \in {None, g} /\ (semOf[g] = g => g <= Gen)
    /\ semOf[Gen] = Gen => (pools = Gen /\ admin # "spawn") \/ admin \in {"forget_caps", "gone"}
    /\ pools = Gen /\ admin # "spawn" => semOf[Gen] = Gen /\ caps = Gen

\* A queue without a task is empty, and spares are kept aside only while the
\* task recycles.
Stocked == \A g \in Gens :
    /\ semOf[g] = g <=> task[g] # "none"
    /\ task[g] = "none" => queue[g] = <<>>
    /\ task[g] \notin {"draining", "refilling"} => keepers[g] = <<>>

\* What a caller has in its hands at each point of its call.
InHandOf(c) ==
    /\ hand[c] # "none" <=> pc[c] \in {"notify", "judge", "strip"}
    /\ pc[c] \in {"idle", "pop", "sem", "try", "steal", "retry"} => permit[c] = None
    /\ pc[c] \in {"notify", "judge", "strip", "dial"} => permit[c] # None
    /\ pc[c] = "live" => (permit[c] = None <=> op[c] = "unguarded")
    /\ pc[c] \in {"pop", "notify", "judge", "try", "steal", "strip", "retry"} <=> arc[c] # None
    /\ pc[c] \in {"notify", "judge"} => permit[c] = arc[c] /\ semOf[arc[c]] = arc[c]
    /\ pc[c] = "strip" => permit[c] = pools
    /\ pc[c] \in {"pop", "notify", "judge"} => op[c] # "reserve"
    /\ pc[c] \in {"sem", "try", "steal", "strip", "retry"} => op[c] \in {"acquire", "reserve"}
    /\ pc[c] = "dial" => op[c] = "acquire"
    /\ permit[c] <= Gen /\ arc[c] <= Gen
    /\ admin \in {"drop", "gone"} => pc[c] \in {"idle", "live"}
InHand == \A c \in Callers : InHandOf(c)

\* The one registered task: forget and drop find it.
Registered == /\ (pools = None /\ admin = "free") \/ admin = "spawn" => registered = None
              /\ OneLiveRefill

IInv == TypeOK /\ Generations /\ Stocked /\ InHand /\ PermitsConserved /\ Registered /\ NoLostWakeup
-----------------------------------------------------------------------------
(* Constants, types and the counting of holders. *)

\* Where the permits of semaphore g are, other than free.
Held(g) == Cardinality(Holders(g))
Queued(g) == Len(queue[g])
Kept(g) == Len(keepers[g])
Dialling(g) == IF task[g] = "connecting" THEN 1 ELSE 0
Total(g) == avail[g] + Held(g) + Queued(g) + Kept(g) + Dialling(g)

\* TypeOK without the bound on free permits, which rests on conservation.
Typed ==
    /\ scene \in Scenes
    /\ pools \in GenOrNone /\ caps \in GenOrNone /\ registered \in GenOrNone
    /\ admin \in AdminStates /\ forgets \in 0 .. MaxForgets
    /\ avail \in [Gens -> Nat]
    /\ queue \in [Gens -> Seq(Kinds)] /\ keepers \in [Gens -> Seq(Kinds)]
    /\ \A g \in Gens : Queued(g) + Kept(g) <= Target
    /\ notified \in [Gens -> BOOLEAN] /\ aborted \in [Gens -> BOOLEAN]
    /\ semOf \in [Gens -> GenOrNone] /\ task \in [Gens -> TaskStates]
    /\ pc \in [Callers -> PcStates] /\ op \in [Callers -> Ops]
    /\ arc \in [Callers -> GenOrNone] /\ permit \in [Callers -> GenOrNone]
    /\ hand \in [Callers -> Kinds \cup {"none"}]


LEMMA Sizes == /\ Cap \in Nat /\ Cap >= 1 /\ None = 0 /\ MaxForgets \in Nat
               /\ Gens = 1 .. (MaxForgets + 1)
  BY SizesAssumption DEF Cap, None, Gens

LEMMA TargetSize == ASSUME scene \in Scenes PROVE Target \in Nat /\ 1 <= Target /\ Target <= Cap
<1>1. scene.spare \in Nat
  BY SizesAssumption
<1> QED
  BY <1>1, Sizes DEF Target

LEMMA HeldIsNat == ASSUME NEW g \in Gens PROVE IsFiniteSet(Holders(g)) /\ Held(g) \in Nat
<1>1. IsFiniteSet(Holders(g))
  BY CallersAssumption, FS_Subset DEF Holders
<1> QED
  BY <1>1, FS_CardinalityType DEF Held

SetPermit(c, v) == permit' = [permit EXCEPT ![c] = v]
HeldMoves(c, v) == \A g \in Gens :
    Held(g)' = Held(g) + (IF v = g THEN 1 ELSE 0) - (IF permit[c] = g THEN 1 ELSE 0)

\* One caller's permit changes: the counts of the two semaphores follow.
LEMMA PermitMoves ==
    ASSUME permit \in [Callers -> GenOrNone], NEW c \in Callers, NEW v \in GenOrNone,
           SetPermit(c, v)
    PROVE  HeldMoves(c, v)
<1> SUFFICES ASSUME NEW g \in Gens
             PROVE  Held(g)' = Held(g) + (IF v = g THEN 1 ELSE 0) - (IF permit[c] = g THEN 1 ELSE 0)
  BY DEF HeldMoves
<1> USE HeldIsNat DEF Held, SetPermit
<1>1. CASE v = g /\ permit[c] # g
  <2>1. Holders(g)' = Holders(g) \cup {c} /\ c \notin Holders(g)
    BY <1>1 DEF Holders
  <2>2. Cardinality(Holders(g) \cup {c}) = Cardinality(Holders(g)) + 1
    BY <2>1, FS_AddElement
  <2> QED
    BY <1>1, <2>1, <2>2
<1>2. CASE v # g /\ permit[c] = g
  <2>1. Holders(g)' = Holders(g) \ {c} /\ c \in Holders(g)
    BY <1>2 DEF Holders
  <2>2. Cardinality(Holders(g) \ {c}) = Cardinality(Holders(g)) - 1
    BY <2>1, FS_RemoveElement
  <2> QED
    BY <1>2, <2>1, <2>2
<1>3. CASE (v = g) <=> (permit[c] = g)
  <2>1. Holders(g)' = Holders(g)
    BY <1>3 DEF Holders
  <2> QED
    BY <1>3, <2>1
<1> QED
  BY <1>1, <1>2, <1>3

LEMMA SparesAreNat ==
    ASSUME Typed, NEW g \in Gens PROVE Queued(g) \in Nat /\ Kept(g) \in Nat /\ Dialling(g) \in Nat
<1>1. queue[g] \in Seq(Kinds) /\ keepers[g] \in Seq(Kinds)
  BY DEF Typed
<1>2. Queued(g) \in Nat /\ Kept(g) \in Nat
  BY <1>1 DEF Queued, Kept
<1> QED
  BY <1>2 DEF Dialling

\* A queue that was never handed to a task has no spares, so it does not matter
\* which semaphore it would be charged to.
LEMMA Conserved ==
    ASSUME Typed, Stocked, \A g \in Gens : semOf[g] \in {None, g}
    PROVE  PermitsConserved <=> \A g \in Gens : Total(g) = Cap
<1> SUFFICES ASSUME NEW g \in Gens
             PROVE  avail[g] + Held(g) + (IF semOf[g] = g THEN SparePermits(g) ELSE 0) = Total(g)
  BY DEF PermitsConserved, Held
<1>0. avail[g] \in Nat /\ Held(g) \in Nat /\ Queued(g) \in Nat /\ Kept(g) \in Nat
      /\ Dialling(g) \in Nat
  BY SparesAreNat, HeldIsNat DEF Typed
<1>1. CASE semOf[g] = g
  <2>1. SparePermits(g) = Queued(g) + Kept(g) + Dialling(g)
    BY DEF SparePermits, Queued, Kept, Dialling
  <2> QED
    BY <1>0, <1>1, <2>1 DEF Total
<1>2. CASE semOf[g] # g
  <2>1. task[g] = "none" /\ queue[g] = <<>> /\ keepers[g] = <<>>
    BY <1>2 DEF Stocked
  <2>2. Queued(g) = 0 /\ Kept(g) = 0 /\ Dialling(g) = 0
    BY <2>1 DEF Queued, Kept, Dialling
  <2> QED
    BY <1>0, <1>2, <2>2 DEF Total
<1> QED
  BY <1>1, <1>2

\* The bound on free permits follows.
LEMMA TypedOK ==
    ASSUME Typed, \A g \in Gens : Total(g) = Cap
    PROVE  TypeOK
<1>1. ASSUME NEW g \in Gens PROVE avail[g] \in 0 .. Cap
  <2>1. avail[g] \in Nat /\ Held(g) \in Nat /\ Queued(g) \in Nat /\ Kept(g) \in Nat
        /\ Dialling(g) \in Nat /\ Cap \in Nat
    BY SparesAreNat, HeldIsNat, Sizes DEF Typed
  <2> QED
    BY <2>1 DEF Total
<1>2. \A g \in Gens : Len(queue[g]) + Len(keepers[g]) <= Target
  BY DEF Typed, Queued, Kept
<1> QED
  BY <1>1, <1>2 DEF Typed, TypeOK

LEMMA TypedFromOK == TypeOK => Typed
<1> SUFFICES ASSUME TypeOK PROVE Typed
  OBVIOUS
<1>1. avail \in [Gens -> Nat]
  BY Sizes DEF TypeOK
<1>2. \A g \in Gens : Queued(g) + Kept(g) <= Target
  BY DEF TypeOK, Queued, Kept
<1> QED
  BY <1>1, <1>2 DEF Typed, TypeOK

Base == Typed /\ Generations /\ Stocked /\ InHand /\ Registered /\ NoLostWakeup

LEMMA BaseInit == Init => Base /\ \A g \in Gens : Total(g) = Cap
<1> SUFFICES ASSUME Init PROVE Base /\ \A g \in Gens : Total(g) = Cap
  OBVIOUS
<1> USE DEF Init, None
<1>1. Typed
  <2>1. \A g \in Gens : Queued(g) + Kept(g) <= Target
    BY TargetSize DEF Queued, Kept
  <2>2. forgets \in 0 .. MaxForgets
    BY SizesAssumption
  <2> QED
    BY <2>1, <2>2, Sizes DEF Typed, GenOrNone, AdminStates, TaskStates, PcStates, Ops
<1>2. Generations
  <2>1. Gen = 1 /\ 1 \in Gens /\ \A g \in Gens : semOf[g] = 0 /\ g # 0
    BY Sizes DEF Gen
  <2> QED
    BY <2>1 DEF Generations
<1>3. Stocked
  BY Sizes DEF Stocked
<1>4. InHand
  BY DEF InHand, InHandOf, Gen
<1>5. Registered
  BY DEF Registered, OneLiveRefill
<1>6. NoLostWakeup
  BY DEF NoLostWakeup
<1>7. ASSUME NEW g \in Gens PROVE Total(g) = Cap
  <2>1. Holders(g) = {}
    BY Sizes DEF Holders
  <2>2. Held(g) = 0
    BY <2>1, FS_EmptySet DEF Held
  <2>3. Queued(g) = 0 /\ Kept(g) = 0 /\ Dialling(g) = 0 /\ avail[g] = Cap
    BY DEF Queued, Kept, Dialling
  <2> QED
    BY <2>2, <2>3, Sizes DEF Total
<1> QED
  BY <1>1, <1>2, <1>3, <1>4, <1>5, <1>6, <1>7 DEF Base
\* ReleaseAndDrop: n permits of p go back, and with the last Arc every spare's.
Released(p, n) == queue' = queue /\ avail' = [avail EXCEPT ![p] = @ + n]
Dropped(p, n) == /\ queue' = [queue EXCEPT ![p] = <<>>]
                 /\ avail' = [avail EXCEPT ![p] = @ + n + Queued(p)]
Settled(p, n) == /\ queue' \in [Gens -> Seq(Kinds)] /\ avail' \in [Gens -> Nat]
                 /\ \A g \in Gens \ {p} : queue'[g] = queue[g] /\ avail'[g] = avail[g]
                 /\ queue'[p] \in {queue[p], <<>>}
                 /\ Queued(p)' \in Nat /\ Queued(p)' <= Queued(p)
                 /\ avail'[p] + Queued(p)' = avail[p] + Queued(p) + n

LEMMA DropOrNot ==
    ASSUME Typed, NEW p \in Gens, semOf[p] = p, NEW n \in Nat
    PROVE  /\ ReleaseAndDrop(p, n, TRUE) => Dropped(p, n)
           /\ ReleaseAndDrop(p, n, FALSE) => Released(p, n)
<1>1. avail[p] \in Nat /\ Queued(p) \in Nat
  BY SparesAreNat DEF Typed
<1>2. avail[p] + n + 0 = avail[p] + n
  BY <1>1
<1>3. ASSUME ReleaseAndDrop(p, n, TRUE) PROVE Dropped(p, n)
  BY <1>3 DEF ReleaseAndDrop, Dropped, Queued
<1>4. ASSUME ReleaseAndDrop(p, n, FALSE) PROVE Released(p, n)
  BY <1>2, <1>4 DEF ReleaseAndDrop, Released
<1> QED
  BY <1>3, <1>4

LEMMA DropSettles ==
    ASSUME Typed, NEW p \in Gens, NEW n \in Nat, Released(p, n) \/ Dropped(p, n)
    PROVE  Settled(p, n)
<1>1. /\ queue \in [Gens -> Seq(Kinds)] /\ avail \in [Gens -> Nat]
      /\ Queued(p) \in Nat /\ avail[p] \in Nat
  BY SparesAreNat DEF Typed
<1>2. CASE Released(p, n)
  <2>1. Queued(p)' = Queued(p) /\ avail'[p] = avail[p] + n
    BY <1>1, <1>2 DEF Released, Queued
  <2> QED
    BY <1>1, <1>2, <2>1 DEF Released, Settled
<1>3. CASE Dropped(p, n)
  <2>1. queue'[p] = <<>> /\ avail'[p] = avail[p] + n + Queued(p)
    BY <1>1, <1>3 DEF Dropped
  <2>2. Queued(p)' = 0
    BY <2>1 DEF Queued
  <2>3. queue' \in [Gens -> Seq(Kinds)]
    BY <1>1, <1>3 DEF Dropped
  <2>4. avail' \in [Gens -> Nat] /\ \A g \in Gens \ {p} : queue'[g] = queue[g] /\ avail'[g] = avail[g]
    BY <1>1, <1>3 DEF Dropped
  <2> QED
    BY <1>1, <2>1, <2>2, <2>3, <2>4 DEF Settled
<1> QED
  BY <1>2, <1>3

\* Balance is a matter of one semaphore at a time.
LEMMA NatParts ==
    ASSUME Typed, NEW g \in Gens
    PROVE  /\ avail[g] \in Nat /\ Held(g) \in Nat /\ Queued(g) \in Nat /\ Kept(g) \in Nat
           /\ Dialling(g) \in Nat
  BY SparesAreNat, HeldIsNat DEF Typed

LEMMA SettledShrinks ==
    ASSUME Typed, NEW p \in Gens, NEW n \in Nat, Settled(p, n), NEW g \in Gens
    PROVE  Queued(g)' \in Nat /\ Queued(g)' <= Queued(g)
<1>1. CASE g = p
  BY <1>1 DEF Settled
<1>2. CASE g # p
  <2>1. Queued(g)' = Queued(g)
    BY <1>2 DEF Settled, Queued
  <2> QED
    BY <2>1, SparesAreNat
<1> QED
  BY <1>1, <1>2

\* n permits come back from a caller or a dial.
LEMMA SettledBalance ==
    ASSUME Typed, NEW p \in Gens, NEW n \in Nat, Settled(p, n), NEW g \in Gens,
           Kept(g)' = Kept(g),
           Held(g)' + Dialling(g)' = Held(g) + Dialling(g) - (IF g = p THEN n ELSE 0),
           Held(g)' \in Int, Dialling(g)' \in Int
    PROVE  Total(g)' = Total(g)
<1>n. /\ avail[g] \in Nat /\ Held(g) \in Nat /\ Queued(g) \in Nat /\ Kept(g) \in Nat
      /\ Dialling(g) \in Nat
  BY NatParts
<1>1. CASE g = p
  <2>1. /\ avail'[g] \in Nat /\ Queued(g)' \in Nat
        /\ avail'[g] + Queued(g)' = avail[g] + Queued(g) + n
    BY <1>1 DEF Settled
  <2>2. Held(g)' + Dialling(g)' = Held(g) + Dialling(g) - n
    BY <1>1
  <2>3. (avail'[g] + Queued(g)') + (Held(g)' + Dialling(g)')
          = (avail[g] + Queued(g) + n) + (Held(g) + Dialling(g) - n)
    BY <2>1, <2>2
  <2>4. (avail'[g] + Queued(g)') + (Held(g)' + Dialling(g)') + Kept(g) = Total(g)
    BY <1>n, <2>3 DEF Total
  <2> QED
    BY <1>n, <2>1, <2>4 DEF Total
<1>2. CASE g # p
  <2>1. avail'[g] = avail[g] /\ Queued(g)' = Queued(g)
    BY <1>2 DEF Settled, Queued
  <2>2. Held(g)' + Dialling(g)' = Held(g) + Dialling(g)
    BY <1>2, <1>n
  <2> QED
    BY <1>n, <2>1, <2>2 DEF Total
<1> QED
  BY <1>1, <1>2

-----------------------------------------------------------------------------
(* The steps of a caller. *)

LEMMA GenInGens == ASSUME Typed PROVE Gen \in Gens /\ Gen # None
  BY Sizes DEF Typed, Gen

\* What a step of caller c leaves alone.
CallFrame(c) ==
    /\ UNCHANGED <<scene, pools, registered, admin, forgets, semOf, task, aborted, keepers>>
    /\ caps' \in {caps, UpstreamSemaphore}
    /\ \A d \in Callers \ {c} : /\ pc'[d] = pc[d] /\ op'[d] = op[d] /\ arc'[d] = arc[d]
                                /\ hand'[d] = hand[d] /\ permit'[d] = permit[d]

LEMMA CallFrames ==
    ASSUME Typed, NEW c \in Callers,
           CallStart(c) \/ CallStep(c) \/ DialDone(c) \/ Close(c)
    PROVE  CallFrame(c)
<1> USE DEF CallFrame, Typed, Goto, adminVars, taskVars
<1>1. CASE CallStart(c)
  BY <1>1 DEF CallStart, CheckoutBegin, ReserveBegin
<1>2. CASE CheckoutPop(c) \/ CheckoutEmpty(c) \/ CheckoutNotify(c) \/ CheckoutDiscard(c)
  BY <1>2 DEF CheckoutPop, CheckoutEmpty, CheckoutNotify, CheckoutDiscard
<1>3. CASE CheckoutKeep(c)
  BY <1>3 DEF CheckoutKeep
<1>4. CASE GetSemaphore(c) \/ ReserveTake(c) \/ ReserveMiss(c) \/ AtCapacity(c)
  BY <1>4 DEF GetSemaphore, ReserveTake, Reserved, ReserveMiss, AtCapacity
<1>5. CASE ReservePop(c) \/ ReserveStrip(c)
  BY <1>5 DEF ReservePop, ReserveStrip, Reserved
<1>6. CASE DialDone(c) \/ Close(c)
  BY <1>6 DEF DialDone, Close
<1> QED
  BY <1>1, <1>2, <1>3, <1>4, <1>5, <1>6 DEF CallStep

\* A caller's step keeps the invariant if its own hands are right afterwards,
\* spares are only taken from a queue, and a wake-up it owes has been sent.
LEMMA CallKeeps ==
    ASSUME Base, NEW c \in Callers, CallFrame(c), Typed', InHandOf(c)',
           \A g \in Gens : queue'[g] = queue[g] \/ queue[g] # <<>>,
           \A g \in Gens : task[g] = "waiting" /\ ~notified'[g] =>
               \/ Len(queue'[g]) = Len(queue[g])
               \/ AboutToNotify(g)',
           \A g \in Gens : notified'[g] \/ notified'[g] = notified[g],
           \A g \in Gens : (pc[c] = "notify" /\ arc[c] = g) \/ (pc[c] = "strip" /\ pools = g)
               => notified'[g]
    PROVE  Base'
<1> USE DEF Base, CallFrame
<1>1. Generations'
  BY DEF Generations, Gen, UpstreamSemaphore
<1>2. Stocked'
  BY DEF Stocked
<1>3. InHand'
  <2> SUFFICES ASSUME NEW d \in Callers, d # c PROVE InHandOf(d)'
    BY DEF InHand
  <2>1. InHandOf(d)
    BY DEF InHand
  <2> QED
    BY <2>1 DEF InHandOf, Gen
<1>4. Registered'
  BY DEF Registered, OneLiveRefill
<1>5. NoLostWakeup'
  <2> SUFFICES ASSUME NEW g \in Gens, task[g] = "waiting", ~notified'[g], ~AboutToNotify(g)'
               PROVE  Len(queue'[g]) = Target'
    BY DEF NoLostWakeup
  <2>1. ~notified[g] /\ Len(queue'[g]) = Len(queue[g])
    OBVIOUS
  <2>2. ~AboutToNotify(g)
    BY DEF AboutToNotify
  <2>3. Target' = Target
    BY DEF Target
  <2> QED
    BY <2>1, <2>2, <2>3 DEF NoLostWakeup
<1> QED
  BY <1>1, <1>2, <1>3, <1>4, <1>5
Balanced == \A g \in Gens : Total(g) = Cap

\* The types after a caller's step; a queue may have become shorter.
LEMMA CallTyped ==
    ASSUME Typed, NEW c \in Callers, CallFrame(c), caps' = caps,
           avail' \in [Gens -> Nat], notified' \in [Gens -> BOOLEAN],
           queue' \in [Gens -> Seq(Kinds)], \A g \in Gens : Queued(g)' <= Queued(g),
           pc' \in [Callers -> PcStates], op' = op, arc' \in [Callers -> GenOrNone],
           permit' \in [Callers -> GenOrNone], hand' \in [Callers -> Kinds \cup {"none"}]
    PROVE  Typed'
<1>1. ASSUME NEW g \in Gens PROVE (Queued(g) + Kept(g) <= Target)'
  <2>1. queue'[g] \in Seq(Kinds) /\ Target' = Target
    BY DEF CallFrame, Target
  <2>2. Queued(g)' \in Nat /\ Kept(g)' = Kept(g)
    BY <2>1 DEF CallFrame, Queued, Kept
  <2>3. Queued(g) \in Nat /\ Kept(g) \in Nat /\ Target \in Nat /\ Queued(g) + Kept(g) <= Target
    BY SparesAreNat, TargetSize DEF Typed
  <2> QED
    BY <2>1, <2>2, <2>3
<1> QED
  BY <1>1 DEF Typed, CallFrame

\* Steps that move no permit and no spare.
LEMMA CallMoves ==
    ASSUME Base, Balanced, NEW c \in Callers,
           \/ CallStart(c) \/ CheckoutEmpty(c) \/ CheckoutNotify(c) \/ GetSemaphore(c)
           \/ ReserveMiss(c) \/ AtCapacity(c) \/ DialDone(c)
    PROVE  Base' /\ Balanced'
<1> USE Sizes, GenInGens DEF Base, None
<1>1. CallFrame(c)
  BY CallFrames DEF CallStep
<1>2. UNCHANGED <<avail, queue, hand, permit>>
  BY DEF CallStart, CheckoutBegin, ReserveBegin, CheckoutEmpty, CheckoutNotify, GetSemaphore,
         ReserveMiss, AtCapacity, DialDone, sharedVars
<1>h. InHandOf(c)
  BY DEF InHand
<1>3. /\ notified' \in [Gens -> BOOLEAN]
      /\ \A g \in Gens : notified'[g] \/ notified'[g] = notified[g]
  BY DEF CallStart, CheckoutBegin, ReserveBegin, CheckoutEmpty, CheckoutNotify, GetSemaphore,
         ReserveMiss, AtCapacity, DialDone, sharedVars, NotifyOne, Typed
<1>4. \A g \in Gens : (pc[c] = "notify" /\ arc[c] = g) \/ (pc[c] = "strip" /\ pools = g)
        => notified'[g]
  BY DEF CallStart, CheckoutBegin, ReserveBegin, CheckoutEmpty, CheckoutNotify, GetSemaphore,
         ReserveMiss, AtCapacity, DialDone, NotifyOne, Typed
<1>5. /\ pc' \in [Callers -> PcStates] /\ op' \in [Callers -> Ops] /\ arc' \in [Callers -> GenOrNone]
      /\ caps' \in GenOrNone
  <2>1. CASE CallStart(c)
    <3>1. PICK o \in Ops : CheckoutBegin(c, o) \/ ReserveBegin(c, o)
      BY <2>1 DEF CallStart
    <3>2. caps' = caps /\ op' = [op EXCEPT ![c] = o]
      BY <3>1 DEF CheckoutBegin, ReserveBegin, adminVars
    <3>3. pc' \in [Callers -> PcStates]
      BY <3>1 DEF CheckoutBegin, ReserveBegin, Goto, Typed, PcStates
    <3>4. arc' \in [Callers -> GenOrNone]
      BY <3>1 DEF CheckoutBegin, ReserveBegin, Typed
    <3> QED
      BY <3>2, <3>3, <3>4 DEF Typed
  <2>2. CASE CheckoutEmpty(c) \/ CheckoutNotify(c) \/ ReserveMiss(c) \/ AtCapacity(c) \/ DialDone(c)
    <3>1. UNCHANGED <<op, caps>>
      BY <2>2 DEF CheckoutEmpty, CheckoutNotify, ReserveMiss, AtCapacity, DialDone, adminVars
    <3>2. pc' \in [Callers -> PcStates]
      BY <2>2 DEF CheckoutEmpty, CheckoutNotify, ReserveMiss, AtCapacity, DialDone, Goto, Typed,
                  PcStates
    <3>3. arc' \in [Callers -> GenOrNone]
      BY <2>2 DEF CheckoutEmpty, CheckoutNotify, ReserveMiss, AtCapacity, DialDone, Typed, GenOrNone
    <3> QED
      BY <3>1, <3>2, <3>3 DEF Typed
  <2>3. CASE GetSemaphore(c)
    BY <2>3 DEF GetSemaphore, UpstreamSemaphore, Goto, Typed, PcStates, GenOrNone
  <2> QED
    BY <2>1, <2>2, <2>3
<1>6. Typed'
  <2>1. Target' = Target
    BY <1>1 DEF Target, CallFrame
  <2>2. \A g \in Gens : Queued(g)' = Queued(g) /\ Kept(g)' = Kept(g)
    BY <1>1, <1>2 DEF CallFrame, Queued, Kept
  <2>3. \A g \in Gens : (Queued(g) + Kept(g) <= Target)'
    BY <2>1, <2>2 DEF Typed
  <2> QED
    BY <1>1, <1>2, <1>3, <1>5, <2>3 DEF Typed, CallFrame
<1>7. InHandOf(c)'
  <2> USE <1>h DEF InHandOf, Gen, Typed
  <2>1. CASE CallStart(c)
    <3>1. PICK o \in Ops : CheckoutBegin(c, o) \/ ReserveBegin(c, o)
      BY <2>1 DEF CallStart
    <3>2. CASE CheckoutBegin(c, o)
      BY <3>2, <1>1, <1>2 DEF CheckoutBegin, Goto, Open, CallFrame, Generations
    <3>3. CASE ReserveBegin(c, o)
      BY <3>3, <1>1, <1>2 DEF ReserveBegin, Goto, Open, CallFrame
    <3> QED
      BY <3>1, <3>2, <3>3
  <2>2. CASE CheckoutEmpty(c)
    BY <2>2, <1>1, <1>2 DEF CheckoutEmpty, Goto, CallFrame
  <2>3. CASE CheckoutNotify(c)
    BY <2>3, <1>1, <1>2 DEF CheckoutNotify, Goto, CallFrame
  <2>4. CASE GetSemaphore(c)
    BY <2>4, <1>1, <1>2 DEF GetSemaphore, Goto, CallFrame, UpstreamSemaphore, Generations
  <2>5. CASE ReserveMiss(c)
    BY <2>5, <1>1, <1>2 DEF ReserveMiss, Goto, CallFrame
  <2>6. CASE AtCapacity(c)
    BY <2>6, <1>1, <1>2 DEF AtCapacity, Goto, CallFrame
  <2>7. CASE DialDone(c)
    BY <2>7, <1>1, <1>2 DEF DialDone, Goto, CallFrame
  <2> QED
    BY <2>1, <2>2, <2>3, <2>4, <2>5, <2>6, <2>7
<1>8. Base'
  BY <1>1, <1>2, <1>3, <1>4, <1>6, <1>7, CallKeeps
<1>9. Balanced'
  BY <1>1, <1>2 DEF CallFrame, Balanced, Total, Held, Holders, Queued, Kept, Dialling
<1> QED
  BY <1>8, <1>9
\* Popping a spare: its permit goes from the queue into the caller's hands.
LEMMA CallPops ==
    ASSUME Base, Balanced, NEW c \in Callers, CheckoutPop(c) \/ ReservePop(c)
    PROVE  Base' /\ Balanced'
<1> USE Sizes, GenInGens DEF Base, None
<1>1. CallFrame(c)
  BY CallFrames DEF CallStep
<1>h. InHandOf(c)
  BY DEF InHand
<1>2. PICK p \in Gens :
        /\ queue[p] # <<>> /\ UNCHANGED <<avail, notified, op, arc, caps>>
        /\ queue' = [queue EXCEPT ![p] = Tail(@)]
        /\ hand' = [hand EXCEPT ![c] = Head(queue[p])]
        /\ permit' = [permit EXCEPT ![c] = semOf[p]]
        /\ \/ pc[c] = "pop" /\ p = arc[c] /\ pc' = [pc EXCEPT ![c] = "notify"]
           \/ pc[c] = "steal" /\ p = pools /\ pc' = [pc EXCEPT ![c] = "strip"]
  <2>1. CASE CheckoutPop(c)
    <3>1. arc[c] \in Gens
      BY <1>h, <2>1 DEF CheckoutPop, InHandOf, Typed, GenOrNone
    <3> QED
      BY <2>1, <3>1 DEF CheckoutPop, Goto, adminVars
  <2>2. CASE ReservePop(c)
    <3>1. pools \in Gens
      BY <2>2 DEF ReservePop, Typed, GenOrNone
    <3> QED
      BY <2>2, <3>1 DEF ReservePop, Goto, adminVars
  <2> QED
    BY <2>1, <2>2
<1>3. task[p] # "none" /\ semOf[p] = p /\ p <= Gen
  BY <1>2 DEF Stocked, Generations
<1>4. queue[p] \in Seq(Kinds)
  BY <1>2 DEF Typed
<1>5. Head(queue[p]) \in Kinds /\ Tail(queue[p]) \in Seq(Kinds) /\ Len(Tail(queue[p])) = Len(queue[p]) - 1
  BY <1>2, <1>4
<1>q. ASSUME NEW g \in Gens
      PROVE  /\ Queued(g)' = Queued(g) - (IF p = g THEN 1 ELSE 0)
             /\ Queued(g)' \in Nat /\ Queued(g)' <= Queued(g)
  <2>1. queue' = [queue EXCEPT ![p] = Tail(queue[p])] /\ queue \in [Gens -> Seq(Kinds)]
    BY <1>2 DEF Typed
  <2>2. CASE p = g
    BY <1>5, <2>1, <2>2 DEF Queued
  <2>3. CASE p # g
    BY <2>1, <2>3, SparesAreNat DEF Queued
  <2> QED
    BY <2>2, <2>3
<1>6. Typed'
  <2>1. Target' = Target
    BY <1>1 DEF Target, CallFrame
  <2>2. queue' \in [Gens -> Seq(Kinds)]
    BY <1>2, <1>5 DEF Typed
  <2>3. ASSUME NEW g \in Gens PROVE (Queued(g) + Kept(g) <= Target)'
    <3>1. Queued(g)' \in Nat /\ Queued(g)' <= Queued(g)
      BY <1>q
    <3>2. Kept(g)' = Kept(g)
      BY <1>1 DEF CallFrame, Kept
    <3>3. Queued(g) \in Nat /\ Kept(g) \in Nat /\ Target \in Nat /\ Queued(g) + Kept(g) <= Target
      BY SparesAreNat, TargetSize DEF Typed
    <3> QED
      BY <2>1, <3>1, <3>2, <3>3
  <2>4. hand' \in [Callers -> Kinds \cup {"none"}] /\ permit' \in [Callers -> GenOrNone]
        /\ pc' \in [Callers -> PcStates]
    BY <1>2, <1>3, <1>5 DEF Typed, GenOrNone, PcStates
  <2> QED
    BY <1>1, <1>2, <2>1, <2>2, <2>3, <2>4 DEF Typed, CallFrame
<1>7. InHandOf(c)'
  <2>1. /\ pc'[c] = (IF pc[c] = "pop" THEN "notify" ELSE "strip") /\ permit'[c] = p
        /\ hand'[c] # "none" /\ arc'[c] = arc[c] /\ op'[c] = op[c] /\ Gen' = Gen
    BY <1>1, <1>2, <1>3, <1>5 DEF Typed, Kinds, CallFrame, Gen
  <2> QED
    BY <1>1, <1>2, <1>3, <1>h, <2>1 DEF InHandOf, CallFrame
<1>8. Base'
  <2>1. \A g \in Gens : g # p => queue'[g] = queue[g]
    BY <1>2 DEF Typed
  <2>2. AboutToNotify(p)'
    <3>1. (pc'[c] = "notify" /\ arc'[c] = p) \/ (pc'[c] = "strip" /\ pools' = p)
      BY <1>1, <1>2 DEF Typed, CallFrame
    <3> QED
      BY <3>1 DEF AboutToNotify
  <2>3. \A g \in Gens : queue'[g] = queue[g] \/ queue[g] # <<>>
    BY <1>2, <2>1
  <2>4. \A g \in Gens : task[g] = "waiting" /\ ~notified'[g] =>
            \/ Len(queue'[g]) = Len(queue[g])
            \/ AboutToNotify(g)'
    BY <2>1, <2>2
  <2>5. \A g \in Gens : notified'[g] \/ notified'[g] = notified[g]
    BY <1>2
  <2> QED
    BY <1>1, <1>2, <1>6, <1>7, <2>3, <2>4, <2>5, CallKeeps
<1>9. Balanced'
  <2> SUFFICES ASSUME NEW g \in Gens PROVE Total(g)' = Total(g)
    BY DEF Balanced
  <2>1. Held(g)' = Held(g) + (IF p = g THEN 1 ELSE 0)
    <3>1. permit[c] = None /\ SetPermit(c, p) /\ permit \in [Callers -> GenOrNone]
          /\ p \in GenOrNone
      BY <1>2, <1>3, <1>h DEF InHandOf, Typed, GenOrNone, SetPermit
    <3>2. HeldMoves(c, p)
      BY <3>1, PermitMoves
    <3>3. permit[c] # g /\ Held(g) \in Nat
      BY <3>1, HeldIsNat
    <3> QED
      BY <3>2, <3>3 DEF HeldMoves
  <2>2. Queued(g)' = Queued(g) - (IF p = g THEN 1 ELSE 0)
    BY <1>q
  <2>3. avail'[g] = avail[g] /\ Kept(g)' = Kept(g) /\ Dialling(g)' = Dialling(g)
    BY <1>1, <1>2 DEF CallFrame, Kept, Dialling
  <2>4. /\ avail[g] \in Nat /\ Held(g) \in Nat /\ Queued(g) \in Nat /\ Kept(g) \in Nat
        /\ Dialling(g) \in Nat
    BY SparesAreNat, HeldIsNat DEF Typed
  <2> QED
    BY <2>1, <2>2, <2>3, <2>4, SMTT(30) DEF Total
<1> QED
  BY <1>8, <1>9
\* Taking the permit out of the semaphore.
LEMMA CallTakes ==
    ASSUME Base, Balanced, NEW c \in Callers, ReserveTake(c)
    PROVE  Base' /\ Balanced'
<1> USE Sizes, GenInGens DEF Base, None
<1>1. CallFrame(c)
  BY CallFrames DEF CallStep
<1>h. InHandOf(c)
  BY DEF InHand
<1>2. PICK s \in Gens :
        /\ s = arc[c] /\ pc[c] \in {"try", "retry"} /\ UNCHANGED <<queue, notified, op, hand, caps>>
        /\ avail[s] > 0 /\ avail' = [avail EXCEPT ![s] = @ - 1]
        /\ permit' = [permit EXCEPT ![c] = s] /\ arc' = [arc EXCEPT ![c] = None]
        /\ pc' = [pc EXCEPT ![c] = IF op[c] = "acquire" THEN "dial" ELSE "live"]
  <2>1. arc[c] \in Gens
    BY <1>h DEF ReserveTake, InHandOf, Typed, GenOrNone
  <2> QED
    BY <2>1 DEF ReserveTake, TryAcquire, Reserved, Goto, adminVars
<1>3. Typed'
  <2>1. avail' \in [Gens -> Nat]
    BY <1>2, SMTT(30) DEF Typed
  <2>2. queue' \in [Gens -> Seq(Kinds)] /\ \A g \in Gens : Queued(g)' <= Queued(g)
    BY <1>2, SparesAreNat DEF Typed, Queued
  <2>3. pc' \in [Callers -> PcStates] /\ arc' \in [Callers -> GenOrNone]
        /\ permit' \in [Callers -> GenOrNone]
    BY <1>2 DEF Typed, PcStates, GenOrNone
  <2>4. notified' \in [Gens -> BOOLEAN] /\ hand' \in [Callers -> Kinds \cup {"none"}]
    BY <1>2 DEF Typed
  <2> QED
    BY <1>1, <1>2, <2>1, <2>2, <2>3, <2>4, CallTyped
<1>4. InHandOf(c)'
  <2>1. /\ pc'[c] = (IF op[c] = "acquire" THEN "dial" ELSE "live") /\ arc'[c] = None
        /\ permit'[c] = s /\ op'[c] = op[c] /\ hand'[c] = hand[c] /\ Gen' = Gen
    BY <1>1, <1>2 DEF Typed, CallFrame, Gen
  <2>2. Gen \in Nat
    BY GenInGens
  <2> QED
    BY <1>1, <1>2, <1>h, <2>1, <2>2 DEF InHandOf, CallFrame
<1>5. Base'
  BY <1>1, <1>2, <1>3, <1>4, CallKeeps
<1>6. Balanced'
  <2> SUFFICES ASSUME NEW g \in Gens PROVE Total(g)' = Total(g)
    BY DEF Balanced
  <2>1. permit[c] = None /\ SetPermit(c, s) /\ permit \in [Callers -> GenOrNone] /\ s \in GenOrNone
    BY <1>2, <1>h DEF InHandOf, Typed, GenOrNone, SetPermit
  <2>2. HeldMoves(c, s)
    BY <2>1, PermitMoves
  <2>3. permit[c] # g
    BY <2>1
  <2>4. Held(g)' = Held(g) + (IF s = g THEN 1 ELSE 0)
    BY <2>2, <2>3, HeldIsNat, SMTT(30) DEF HeldMoves
  <2>5. avail'[g] = avail[g] - (IF s = g THEN 1 ELSE 0)
    <3>1. avail \in [Gens -> Nat] /\ avail' = [avail EXCEPT ![s] = avail[s] - 1]
      BY <1>2 DEF Typed
    <3>2. CASE s = g
      BY <3>1, <3>2
    <3>3. CASE s # g
      BY <3>1, <3>3
    <3> QED
      BY <3>2, <3>3
  <2>6. Queued(g)' = Queued(g) /\ Kept(g)' = Kept(g) /\ Dialling(g)' = Dialling(g)
    BY <1>1, <1>2 DEF CallFrame, Kept, Dialling, Queued
  <2>7. /\ avail[g] \in Nat /\ Held(g) \in Nat /\ Queued(g) \in Nat /\ Kept(g) \in Nat
        /\ Dialling(g) \in Nat
    BY SparesAreNat, HeldIsNat DEF Typed
  <2> QED
    BY <2>4, <2>5, <2>6, <2>7 DEF Total
<1> QED
  BY <1>5, <1>6

\* Dropping a permit: a discarded spare, a failed dial, a connection that ends.
LEMMA CallReleases ==
    ASSUME Base, Balanced, NEW c \in Callers, CheckoutDiscard(c) \/ Close(c)
    PROVE  Base' /\ Balanced'
<1> USE Sizes, GenInGens DEF Base, None
<1>1. CallFrame(c)
  BY CallFrames DEF CallStep
<1>h. InHandOf(c)
  BY DEF InHand
<1>p. permit[c] \in GenOrNone /\ (pc[c] = "judge" => permit[c] # None)
  BY <1>h DEF Typed, InHandOf
<1>2. /\ UNCHANGED <<queue, notified, op, arc, caps>>
      /\ avail' = IF permit[c] # None THEN [avail EXCEPT ![permit[c]] = @ + 1] ELSE avail
      /\ permit' = [permit EXCEPT ![c] = None]
      /\ \/ /\ pc[c] = "judge" /\ pc' = [pc EXCEPT ![c] = "pop"]
            /\ hand' = [hand EXCEPT ![c] = "none"]
         \/ pc[c] \in {"dial", "live"} /\ pc' = [pc EXCEPT ![c] = "idle"] /\ hand' = hand
  BY <1>p DEF CheckoutDiscard, Close, Release, Goto, adminVars
<1>3. Typed'
  <2>1. avail' \in [Gens -> Nat]
    <3>1. avail \in [Gens -> Nat] /\ (permit[c] # None => permit[c] \in Gens)
      BY <1>p DEF Typed, GenOrNone
    <3>2. CASE permit[c] # None
      BY <1>2, <3>1, <3>2
    <3>3. CASE permit[c] = None
      BY <1>2, <3>1, <3>3
    <3> QED
      BY <3>2, <3>3
  <2>2. queue' \in [Gens -> Seq(Kinds)] /\ \A g \in Gens : Queued(g)' <= Queued(g)
    BY <1>2, SparesAreNat DEF Typed, Queued
  <2>3. pc' \in [Callers -> PcStates]
    BY <1>2 DEF Typed, PcStates
  <2>4. arc' \in [Callers -> GenOrNone] /\ permit' \in [Callers -> GenOrNone]
    BY <1>2 DEF Typed, GenOrNone
  <2>5. notified' \in [Gens -> BOOLEAN] /\ hand' \in [Callers -> Kinds \cup {"none"}]
    BY <1>2 DEF Typed
  <2> QED
    BY <1>1, <1>2, <2>1, <2>2, <2>3, <2>4, <2>5, CallTyped
<1>4. InHandOf(c)'
  <2>1. /\ permit'[c] = None /\ arc'[c] = arc[c] /\ op'[c] = op[c] /\ Gen' = Gen
        /\ \/ pc[c] = "judge" /\ pc'[c] = "pop" /\ hand'[c] = "none"
           \/ pc[c] \in {"dial", "live"} /\ pc'[c] = "idle" /\ hand'[c] = hand[c]
    BY <1>1, <1>2 DEF Typed, CallFrame, Gen
  <2>2. Gen \in Nat
    BY GenInGens
  <2> QED
    BY <1>1, <1>h, <2>1, <2>2 DEF InHandOf, CallFrame
<1>5. Base'
  <2>1. \A g \in Gens : ~((pc[c] = "notify" /\ arc[c] = g) \/ (pc[c] = "strip" /\ pools = g))
    BY <1>2
  <2> QED
    BY <1>1, <1>2, <1>3, <1>4, <2>1, CallKeeps
<1>6. Balanced'
  <2> SUFFICES ASSUME NEW g \in Gens PROVE Total(g)' = Total(g)
    BY DEF Balanced
  <2>1. SetPermit(c, None) /\ permit \in [Callers -> GenOrNone] /\ None \in GenOrNone /\ None # g
    BY <1>2, SMTT(30) DEF Typed, GenOrNone, SetPermit
  <2>2. HeldMoves(c, None)
    BY <2>1, PermitMoves
  <2>4. Held(g)' = Held(g) - (IF permit[c] = g THEN 1 ELSE 0)
    BY <2>1, <2>2, HeldIsNat DEF HeldMoves
  <2>5. avail'[g] = avail[g] + (IF permit[c] = g THEN 1 ELSE 0)
    <3>1. avail \in [Gens -> Nat]
      BY DEF Typed
    <3>2. CASE permit[c] = g
      BY <1>2, <2>1, <3>1, <3>2
    <3>3. CASE permit[c] # g
      BY <1>2, <3>1, <3>3
    <3> QED
      BY <3>2, <3>3
  <2>6. Queued(g)' = Queued(g) /\ Kept(g)' = Kept(g) /\ Dialling(g)' = Dialling(g)
    BY <1>1, <1>2 DEF CallFrame, Kept, Dialling, Queued
  <2>7. /\ avail[g] \in Nat /\ Held(g) \in Nat /\ Queued(g) \in Nat /\ Kept(g) \in Nat
        /\ Dialling(g) \in Nat
    BY SparesAreNat, HeldIsNat DEF Typed
  <2> QED
    BY <2>4, <2>5, <2>6, <2>7 DEF Total
<1> QED
  BY <1>5, <1>6
\* Taking a reclaimed spare apart: the permit stays in hand, the stream goes.
LEMMA CallStrips ==
    ASSUME Base, Balanced, NEW c \in Callers, ReserveStrip(c)
    PROVE  Base' /\ Balanced'
<1> USE Sizes, GenInGens DEF Base, None
<1>1. CallFrame(c)
  BY CallFrames DEF CallStep
<1>h. InHandOf(c)
  BY DEF InHand
<1>2. /\ pc[c] = "strip" /\ UNCHANGED <<avail, queue, op, caps>>
      /\ hand' = [hand EXCEPT ![c] = "none"] /\ arc' = [arc EXCEPT ![c] = None]
      /\ notified' = [notified EXCEPT ![pools] = TRUE] /\ permit' = [permit EXCEPT ![c] = permit[c]]
      /\ pc' = [pc EXCEPT ![c] = IF op[c] = "acquire" THEN "dial" ELSE "live"]
  BY DEF ReserveStrip, Reserved, NotifyOne, Goto, adminVars
<1>3. permit' = permit /\ pools \in Gens
  BY <1>2, <1>h DEF InHandOf, Typed, GenOrNone
<1>4. Typed'
  <2>1. queue' \in [Gens -> Seq(Kinds)] /\ \A g \in Gens : Queued(g)' <= Queued(g)
    BY <1>2, SparesAreNat DEF Typed, Queued
  <2>2. pc' \in [Callers -> PcStates]
    BY <1>2 DEF Typed, PcStates
  <2>3. /\ arc' \in [Callers -> GenOrNone] /\ permit' \in [Callers -> GenOrNone]
        /\ avail' \in [Gens -> Nat] /\ hand' \in [Callers -> Kinds \cup {"none"}]
    BY <1>2, <1>3 DEF Typed, GenOrNone
  <2>4. notified' \in [Gens -> BOOLEAN]
    BY <1>2, <1>3 DEF Typed
  <2> QED
    BY <1>1, <1>2, <2>1, <2>2, <2>3, <2>4, CallTyped
<1>5. InHandOf(c)'
  <2>1. /\ permit'[c] = permit[c] /\ arc'[c] = None /\ op'[c] = op[c] /\ Gen' = Gen
        /\ pc'[c] = (IF op[c] = "acquire" THEN "dial" ELSE "live") /\ hand'[c] = "none"
    BY <1>1, <1>2, <1>3 DEF Typed, CallFrame, Gen
  <2>2. Gen \in Nat
    BY GenInGens
  <2> QED
    BY <1>1, <1>2, <1>h, <2>1, <2>2 DEF InHandOf, CallFrame
<1>6. Base'
  <2>1. /\ \A g \in Gens : notified'[g] \/ notified'[g] = notified[g]
        /\ notified'[pools]
    BY <1>2, <1>3 DEF Typed
  <2>2. \A g \in Gens : (pc[c] = "notify" /\ arc[c] = g) \/ (pc[c] = "strip" /\ pools = g)
          => notified'[g]
    BY <1>2, <2>1
  <2> QED
    BY <1>1, <1>2, <1>4, <1>5, <2>1, <2>2, CallKeeps
<1>7. Balanced'
  BY <1>1, <1>2, <1>3, SMTT(30) DEF CallFrame, Balanced, Total, Held, Holders, Queued, Kept, Dialling
<1> QED
  BY <1>6, <1>7

\* Handing out a fresh spare.  The unguarded checkout drops its permit, and the
\* last Arc of a forgotten queue takes the spares left in it along.
LEMMA CallKeepsSpare ==
    ASSUME Base, Balanced, NEW c \in Callers, CheckoutKeep(c)
    PROVE  Base' /\ Balanced'
<1> USE Sizes, GenInGens DEF Base, None
<1>1. CallFrame(c)
  BY CallFrames DEF CallStep
<1>h. InHandOf(c)
  BY DEF InHand
<1>2. PICK p \in Gens, n \in {0, 1} :
        /\ p = arc[c] /\ pc[c] = "judge" /\ UNCHANGED <<notified, op, caps>>
        /\ n = (IF op[c] = "unguarded" THEN 1 ELSE 0)
        /\ Released(p, n) \/ (task[p] = "dead" /\ Dropped(p, n))
        /\ hand' = [hand EXCEPT ![c] = "none"] /\ arc' = [arc EXCEPT ![c] = None]
        /\ permit' = (IF n = 1 THEN [permit EXCEPT ![c] = None] ELSE permit)
        /\ pc' = [pc EXCEPT ![c] = "live"]
  <2>1. arc[c] \in Gens /\ semOf[arc[c]] = arc[c]
    BY <1>h DEF CheckoutKeep, InHandOf, Typed, GenOrNone
  <2>2. PICK n \in {0, 1} : n = (IF op[c] = "unguarded" THEN 1 ELSE 0)
    OBVIOUS
  <2>3. Released(arc[c], n) \/ (task[arc[c]] = "dead" /\ Dropped(arc[c], n))
    <3>1. CASE pools # arc[c] /\ task[arc[c]] = "dead" /\ ~ClonedBy(arc[c], Callers \ {c})
      <4>1. ReleaseAndDrop(arc[c], n, TRUE)
        BY <2>2, <3>1 DEF CheckoutKeep, ReleaseAndDrop
      <4> QED
        BY <2>1, <3>1, <4>1, DropOrNot
    <3>2. CASE ~(pools # arc[c] /\ task[arc[c]] = "dead" /\ ~ClonedBy(arc[c], Callers \ {c}))
      <4>1. ReleaseAndDrop(arc[c], n, FALSE)
        BY <2>2, <3>2 DEF CheckoutKeep, ReleaseAndDrop
      <4> QED
        BY <2>1, <4>1, DropOrNot
    <3> QED
      BY <3>1, <3>2
  <2>4. permit' = (IF n = 1 THEN [permit EXCEPT ![c] = None] ELSE permit)
    BY <2>2 DEF CheckoutKeep
  <2> QED
    BY <2>1, <2>2, <2>3, <2>4 DEF CheckoutKeep, Goto, adminVars
<1>3. semOf[p] = p /\ permit[c] = p
  BY <1>2, <1>h DEF InHandOf
<1>4. Settled(p, n)
  BY <1>2, DropSettles
<1>q. \A g \in Gens : Queued(g)' <= Queued(g)
  BY <1>4, SettledShrinks
<1>5. Typed'
  <2>1. queue' \in [Gens -> Seq(Kinds)] /\ avail' \in [Gens -> Nat]
    BY <1>4 DEF Settled
  <2>3. pc' \in [Callers -> PcStates]
    BY <1>2 DEF Typed, PcStates
  <2>4. arc' \in [Callers -> GenOrNone] /\ permit' \in [Callers -> GenOrNone]
    BY <1>2 DEF Typed, GenOrNone
  <2>5. notified' \in [Gens -> BOOLEAN] /\ hand' \in [Callers -> Kinds \cup {"none"}]
    BY <1>2 DEF Typed
  <2> QED
    BY <1>1, <1>2, <1>q, <2>1, <2>3, <2>4, <2>5, CallTyped
<1>6. InHandOf(c)'
  <2>1. /\ permit'[c] = (IF n = 1 THEN None ELSE p) /\ arc'[c] = None /\ op'[c] = op[c]
        /\ Gen' = Gen /\ pc'[c] = "live" /\ hand'[c] = "none"
    BY <1>1, <1>2, <1>3 DEF Typed, CallFrame, Gen
  <2>2. Gen \in Nat /\ p <= Gen
    BY <1>3, <1>h, GenInGens DEF InHandOf
  <2> QED
    BY <1>1, <1>2, <1>3, <1>h, <2>1, <2>2 DEF InHandOf, CallFrame
<1>7. Base'
  <2>1. \A g \in Gens : queue'[g] = queue[g] \/ queue[g] # <<>>
    BY <1>4 DEF Settled
  <2>2. \A g \in Gens : task[g] = "waiting" => Len(queue'[g]) = Len(queue[g])
    BY <1>2, <1>4 DEF Settled, Released
  <2> QED
    BY <1>1, <1>2, <1>5, <1>6, <2>1, <2>2, CallKeeps
<1>8. Balanced'
  <2> SUFFICES ASSUME NEW g \in Gens PROVE Total(g)' = Total(g)
    BY DEF Balanced
  <2>1. Held(g)' = Held(g) - (IF g = p THEN n ELSE 0)
    <3>1. CASE n = 0
      <4>1. Holders(g)' = Holders(g)
        BY <1>2, <3>1 DEF Holders
      <4> QED
        BY <3>1, <4>1, HeldIsNat DEF Held
    <3>2. CASE n = 1
      <4>0. permit' = [permit EXCEPT ![c] = None]
        BY <1>2, <3>2
      <4>1. SetPermit(c, None) /\ permit \in [Callers -> GenOrNone] /\ None \in GenOrNone /\ None # g
        BY <4>0, SMTT(30) DEF Typed, GenOrNone, SetPermit
      <4>2. HeldMoves(c, None)
        BY <4>1, PermitMoves
      <4>3. Held(g)' = Held(g) + 0 - (IF p = g THEN 1 ELSE 0)
        BY <1>3, <4>1, <4>2 DEF HeldMoves
      <4> QED
        BY <3>2, <4>3, HeldIsNat
    <3> QED
      BY <3>1, <3>2
  <2>2. Kept(g)' = Kept(g) /\ Dialling(g)' = Dialling(g)
    BY <1>1 DEF CallFrame, Kept, Dialling
  <2>n. /\ avail[g] \in Nat /\ Held(g) \in Nat /\ Queued(g) \in Nat /\ Kept(g) \in Nat
        /\ Dialling(g) \in Nat
    BY NatParts
  <2>3. CASE g = p
    <3>1. /\ avail'[g] \in Nat /\ Queued(g)' \in Nat
          /\ avail'[g] + Queued(g)' = avail[g] + Queued(g) + n
      BY <1>4, <2>3 DEF Settled
    <3>2. Held(g)' = Held(g) - n
      BY <2>1, <2>3
    <3> QED
      <4> HIDE Sizes, GenInGens DEF Base, None
      <4>1. n \in Nat /\ Held(g)' \in Int
        BY <2>n, <3>2
      <4>2. avail'[g] + Held(g)' + Queued(g)' = avail[g] + Held(g) + Queued(g)
        BY <2>n, <3>1, <3>2, <4>1
      <4> QED
        BY <2>2, <2>n, <3>1, <3>2, <4>1, <4>2 DEF Total
  <2>4. CASE g # p
    <3>1. avail'[g] = avail[g] /\ Queued(g)' = Queued(g)
      BY <1>4, <2>4 DEF Settled, Queued
    <3>2. Held(g)' = Held(g)
      BY <2>1, <2>4, <2>n
    <3> QED
      BY <2>2, <3>1, <3>2 DEF Total
  <2> QED
    BY <2>3, <2>4
<1> QED
  BY <1>7, <1>8

LEMMA CallerSteps ==
    ASSUME Base, Balanced, NEW c \in Callers,
           CallStart(c) \/ CallStep(c) \/ DialDone(c) \/ Close(c)
    PROVE  Base' /\ Balanced'
  BY CallMoves, CallPops, CallTakes, CallReleases, CallStrips, CallKeepsSpare DEF CallStep

-----------------------------------------------------------------------------
(* spawn_refill_for, forget and Drop. *)

LEMMA StillBalanced ==
    ASSUME Balanced, UNCHANGED <<avail, queue, keepers, permit>>,
           \A g \in Gens : Dialling(g)' = Dialling(g)
    PROVE  Balanced'
<1> SUFFICES ASSUME NEW g \in Gens PROVE Total(g)' = Total(g)
  BY DEF Balanced
<1>1. Queued(g)' = Queued(g) /\ Kept(g)' = Kept(g) /\ Held(g)' = Held(g)
  BY DEF Queued, Kept, Held, Holders
<1> QED
  BY <1>1 DEF Total

\* Types when no spare moves.
LEMMA AdminTyped ==
    ASSUME Typed, UNCHANGED <<scene, avail, queue, keepers, notified, callerVars>>,
           pools' \in GenOrNone, caps' \in GenOrNone, registered' \in GenOrNone,
           admin' \in AdminStates, forgets' \in 0 .. MaxForgets,
           aborted' \in [Gens -> BOOLEAN], semOf' \in [Gens -> GenOrNone],
           task' \in [Gens -> TaskStates]
    PROVE  Typed'
<1>1. Target' = Target
  BY DEF Target
<1>2. \A g \in Gens : Queued(g)' = Queued(g) /\ Kept(g)' = Kept(g)
  BY DEF Queued, Kept
<1>3. \A g \in Gens : (Queued(g) + Kept(g) <= Target)'
  BY <1>1, <1>2 DEF Typed
<1> QED
  BY <1>3 DEF Typed, callerVars

\* Nobody is taking a spare apart while no queue is published.
LEMMA NoStrip ==
    ASSUME Base, pools = None
    PROVE  \A c \in Callers : pc[c] # "strip"
  BY DEF Base, InHand, InHandOf

LEMMA SpawnPublishKeeps ==
    ASSUME Base, Balanced, SpawnPublish
    PROVE  Base' /\ Balanced'
<1> USE GenInGens DEF Base, SpawnPublish
<1>0. Gen' = Gen /\ Target' = Target
  BY DEF Gen, Target
<1>1. Typed'
  BY AdminTyped DEF Typed, GenOrNone, AdminStates, sharedVars, taskVars
<1>2. Generations'
  BY <1>0 DEF Generations, taskVars
<1>3. Stocked'
  BY DEF Stocked, sharedVars, taskVars
<1>4. InHand'
  <2> SUFFICES ASSUME NEW c \in Callers PROVE InHandOf(c)'
    BY DEF InHand
  <2>1. InHandOf(c) /\ pc[c] # "strip"
    BY NoStrip DEF InHand
  <2> QED
    BY <1>0, <2>1 DEF InHandOf, callerVars, taskVars
<1>5. Registered'
  BY DEF Registered, OneLiveRefill, taskVars
<1>6. NoLostWakeup'
  <2>1. \A g \in Gens : AboutToNotify(g) => AboutToNotify(g)'
    BY NoStrip DEF AboutToNotify, callerVars
  <2> QED
    BY <1>0, <2>1 DEF NoLostWakeup, sharedVars, taskVars
<1>7. Balanced'
  BY StillBalanced DEF Dialling, sharedVars, taskVars, callerVars
<1> QED
  BY <1>1, <1>2, <1>3, <1>4, <1>5, <1>6, <1>7

LEMMA SpawnRegisterKeeps ==
    ASSUME Base, Balanced, SpawnRegister
    PROVE  Base' /\ Balanced'
<1> USE GenInGens DEF Base
<1>0. Gen' = Gen /\ Target' = Target
  BY DEF Gen, Target, SpawnRegister
<1>1. /\ pools = Gen /\ pools' = Gen /\ caps' = Gen /\ registered' = Gen
      /\ admin = "spawn" /\ admin' = "free"
      /\ semOf' = [semOf EXCEPT ![Gen] = Gen] /\ task' = [task EXCEPT ![Gen] = "parked"]
      /\ UNCHANGED <<scene, forgets, avail, queue, notified, aborted, keepers, callerVars>>
  BY DEF SpawnRegister, UpstreamSemaphore, Generations, sharedVars
<1>2. semOf[Gen] # Gen /\ task[Gen] = "none" /\ queue[Gen] = <<>> /\ keepers[Gen] = <<>>
  BY <1>1 DEF Generations, Stocked
<1>3. Typed'
  <2>1. semOf' \in [Gens -> GenOrNone] /\ task' \in [Gens -> TaskStates]
    BY <1>1 DEF Typed, GenOrNone, TaskStates
  <2>2. /\ pools' \in GenOrNone /\ caps' \in GenOrNone /\ registered' \in GenOrNone
        /\ admin' \in AdminStates /\ forgets' \in 0 .. MaxForgets /\ aborted' \in [Gens -> BOOLEAN]
    BY <1>1 DEF Typed, GenOrNone, AdminStates
  <2> QED
    BY <1>1, <2>1, <2>2, AdminTyped
<1>4. Generations'
  <2>1. semOf'[Gen] = Gen /\ \A g \in Gens \ {Gen} : semOf'[g] = semOf[g]
    BY <1>1 DEF Typed
  <2>2. Gen \in Nat
    BY Sizes DEF Typed, Gen
  <2> QED
    BY <1>0, <1>1, <2>1, <2>2 DEF Generations
<1>5. Stocked'
  BY <1>1, <1>2 DEF Stocked, Typed
<1>6. InHand'
  <2> SUFFICES ASSUME NEW c \in Callers PROVE InHandOf(c)'
    BY DEF InHand
  <2>1. InHandOf(c) /\ arc[c] \in GenOrNone
    BY DEF InHand, Typed
  <2>2. pc[c] \in {"notify", "judge"} => semOf'[arc[c]] = arc[c]
    BY <1>1, <2>1 DEF InHandOf, Typed, GenOrNone
  <2> QED
    BY <1>0, <1>1, <2>1, <2>2 DEF InHandOf, callerVars
<1>7. Registered'
  <2> SUFFICES ASSUME NEW g \in Gens, task'[g] \notin {"none", "dead"}, ~aborted'[g], g # Gen
               PROVE  FALSE
    BY <1>1 DEF Registered, OneLiveRefill
  <2>1. task[g] = task'[g] /\ registered = None /\ g # None
    BY <1>1, Sizes DEF Registered, Typed
  <2> QED
    BY <1>1, <2>1 DEF Registered, OneLiveRefill
<1>8. NoLostWakeup'
  <2> SUFFICES ASSUME NEW g \in Gens, task'[g] = "waiting", ~notified'[g]
               PROVE  (Len(queue[g]) = Target \/ AboutToNotify(g))'
    BY DEF NoLostWakeup
  <2>1. task[g] = "waiting"
    BY <1>1 DEF Typed
  <2>2. AboutToNotify(g)' <=> AboutToNotify(g)
    BY <1>1 DEF AboutToNotify, callerVars
  <2> QED
    BY <1>0, <1>1, <2>1, <2>2 DEF NoLostWakeup
<1>9. Balanced'
  <2>1. \A g \in Gens : Dialling(g)' = Dialling(g)
    BY <1>1, <1>2 DEF Dialling, Typed
  <2> QED
    BY <1>1, <2>1, StillBalanced DEF callerVars
<1> QED
  BY <1>3, <1>4, <1>5, <1>6, <1>7, <1>8, <1>9

LEMMA ForgetKeeps ==
    ASSUME Base, Balanced, ForgetPools \/ ForgetCaps
    PROVE  Base' /\ Balanced'
<1> USE GenInGens, Sizes DEF Base
<1>1. /\ UNCHANGED <<scene, registered, avail, queue, notified, semOf, task, aborted, keepers, callerVars>>
      /\ pools' = None /\ Target' = Target
      /\ \/ /\ admin = "free" /\ admin' = "forget_caps" /\ caps' = caps /\ forgets' = forgets
            /\ forgets < scene.forgets /\ \A c \in Callers : pc[c] # "strip"
         \/ /\ admin = "forget_caps" /\ admin' = "forget_abort" /\ caps' = None /\ pools = None
            /\ forgets' = forgets + 1
  BY DEF ForgetPools, ForgetCaps, Generations, Target, sharedVars, taskVars
<1>2. \A c \in Callers : pc[c] # "strip"
  BY <1>1, NoStrip
<1>3. forgets < MaxForgets /\ forgets \in Nat /\ Gen = forgets + 1 /\ Gen' = forgets' + 1
  <2>1. scene.forgets \in 0 .. MaxForgets
    BY SizesAssumption DEF Typed
  <2> QED
    BY <1>1, <2>1 DEF Typed, Generations, Gen
<1>4. Typed'
  <2>1. forgets' \in 0 .. MaxForgets
    BY <1>1, <1>3
  <2>2. pools' \in GenOrNone /\ caps' \in GenOrNone /\ admin' \in AdminStates
    BY <1>1 DEF Typed, GenOrNone, AdminStates
  <2> QED
    BY <1>1, <2>1, <2>2, AdminTyped DEF Typed
<1>5. Generations'
  BY <1>1, <1>3 DEF Generations
<1>6. Stocked'
  BY <1>1 DEF Stocked
<1>7. InHand'
  <2> SUFFICES ASSUME NEW c \in Callers PROVE InHandOf(c)'
    BY DEF InHand
  <2>1. InHandOf(c) /\ arc[c] \in Nat /\ permit[c] \in Nat
    BY SMTT(30) DEF InHand, Typed, GenOrNone
  <2> QED
    BY <1>1, <1>2, <1>3, <2>1 DEF InHandOf, callerVars
<1>8. Registered'
  BY <1>1 DEF Registered, OneLiveRefill
<1>9. NoLostWakeup'
  <2>1. \A g \in Gens : AboutToNotify(g) => AboutToNotify(g)'
    BY <1>1, <1>2 DEF AboutToNotify, callerVars
  <2> QED
    BY <1>1, <2>1 DEF NoLostWakeup
<1>10. Balanced'
  BY <1>1, StillBalanced DEF Dialling, callerVars
<1> QED
  BY <1>4, <1>5, <1>6, <1>7, <1>8, <1>9, <1>10

LEMMA AbortTasksKeeps ==
    ASSUME Base, Balanced, AbortTasks
    PROVE  Base' /\ Balanced'
<1> USE GenInGens DEF Base
<1>1. /\ UNCHANGED <<scene, pools, caps, forgets, avail, queue, notified, semOf, task, keepers, callerVars>>
      /\ registered' = None /\ aborted' = [g \in Gens |-> aborted[g] \/ g = registered]
      /\ Target' = Target /\ Gen' = Gen
      /\ \/ admin = "forget_abort" /\ admin' = "free" /\ pools = None
         \/ /\ admin = "free" /\ admin' = "drop"
            /\ \A c \in Callers : pc[c] \in {"idle", "live"}
  BY DEF AbortTasks, AbortRegistered, Generations, Target, Gen, sharedVars
<1>2. Typed'
  <2>1. aborted' \in [Gens -> BOOLEAN]
    BY <1>1
  <2>2. registered' \in GenOrNone /\ admin' \in AdminStates
    BY <1>1 DEF Typed, GenOrNone, AdminStates
  <2> QED
    BY <1>1, <2>1, <2>2, AdminTyped DEF Typed
<1>3. Generations'
  BY <1>1 DEF Generations
<1>4. Stocked'
  BY <1>1 DEF Stocked
<1>5. InHand'
  BY <1>1 DEF InHand, InHandOf, callerVars
<1>6. Registered'
  BY <1>1 DEF Registered, OneLiveRefill
<1>7. NoLostWakeup'
  <2>1. \A g \in Gens : AboutToNotify(g)' <=> AboutToNotify(g)
    BY <1>1 DEF AboutToNotify, callerVars
  <2> QED
    BY <1>1, <2>1 DEF NoLostWakeup
<1>8. Balanced'
  BY <1>1, StillBalanced DEF Dialling, callerVars
<1> QED
  BY <1>2, <1>3, <1>4, <1>5, <1>6, <1>7, <1>8

\* Drop lets go of the queue; if its task has ended, every spare goes with it.
LEMMA DropMapsKeeps ==
    ASSUME Base, Balanced, DropMaps
    PROVE  Base' /\ Balanced'
<1> USE GenInGens DEF Base
<1>1. /\ UNCHANGED <<scene, registered, forgets, notified, semOf, task, aborted, keepers, callerVars>>
      /\ admin = "drop" /\ admin' = "gone" /\ pools' = None /\ caps' = None
      /\ Target' = Target /\ Gen' = Gen
  BY DEF DropMaps, Target, Gen, taskVars
<1>2. PICK p \in Gens : (task[p] = "dead" /\ Dropped(p, 0)) \/ Released(p, 0)
  <2>1. CASE pools # None /\ task[pools] = "dead"
    <3>1. pools \in Gens /\ semOf[pools] = pools
      BY <1>1, <2>1 DEF Typed, GenOrNone, Generations
    <3>2. ReleaseAndDrop(pools, 0, TRUE)
      BY <2>1 DEF DropMaps
    <3> QED
      BY <2>1, <3>1, <3>2, DropOrNot
  <2>2. CASE ~(pools # None /\ task[pools] = "dead")
    <3>1. UNCHANGED <<queue, avail>>
      BY <2>2 DEF DropMaps
    <3>2. avail[Gen] + 0 = avail[Gen]
      BY DEF Typed
    <3>3. Released(Gen, 0)
      BY <3>1, <3>2 DEF Released, Typed
    <3> QED
      BY <3>3
  <2> QED
    BY <2>1, <2>2
<1>3. Settled(p, 0)
  BY <1>2, DropSettles
<1>4. Typed'
  <2>1. \A g \in Gens : (Queued(g) + Kept(g) <= Target)'
    <3> SUFFICES ASSUME NEW g \in Gens PROVE (Queued(g) + Kept(g) <= Target)'
      OBVIOUS
    <3>1. Kept(g)' = Kept(g)
      BY <1>1 DEF Kept
    <3>2. Queued(g)' \in Nat /\ Queued(g)' <= Queued(g)
      BY <1>3, SettledShrinks
    <3>3. Queued(g) \in Nat /\ Kept(g) \in Nat /\ Target \in Nat /\ Queued(g) + Kept(g) <= Target
      BY SparesAreNat, TargetSize DEF Typed
    <3> QED
      BY <1>1, <3>1, <3>2, <3>3
  <2>2. pools' \in GenOrNone /\ caps' \in GenOrNone /\ admin' \in AdminStates
    BY <1>1 DEF GenOrNone, AdminStates
  <2>3. queue' \in [Gens -> Seq(Kinds)] /\ avail' \in [Gens -> Nat]
    BY <1>3 DEF Settled
  <2> QED
    BY <1>1, <2>1, <2>2, <2>3 DEF Typed, callerVars
<1>5. Generations'
  BY <1>1 DEF Generations
<1>6. Stocked'
  BY <1>1, <1>3 DEF Stocked, Settled
<1>7. InHand'
  BY <1>1 DEF InHand, InHandOf, callerVars
<1>8. Registered'
  BY <1>1 DEF Registered, OneLiveRefill
<1>9. NoLostWakeup'
  <2>1. \A g \in Gens : AboutToNotify(g) => AboutToNotify(g)'
    BY <1>1 DEF AboutToNotify, callerVars, InHand, InHandOf
  <2>2. \A g \in Gens : task[g] = "waiting" => queue'[g] = queue[g]
    BY <1>2, <1>3 DEF Settled, Released
  <2> QED
    BY <1>1, <2>1, <2>2 DEF NoLostWakeup
<1>10. Balanced'
  <2> SUFFICES ASSUME NEW g \in Gens PROVE Total(g)' = Total(g)
    BY DEF Balanced
  <2>1. Held(g)' = Held(g) /\ Kept(g)' = Kept(g) /\ Dialling(g)' = Dialling(g)
    BY <1>1 DEF Held, Holders, Kept, Dialling, callerVars
  <2>2. Held(g) \in Nat /\ Dialling(g) \in Nat
    BY NatParts
  <2>3. Held(g)' + Dialling(g)' = Held(g) + Dialling(g) - (IF g = p THEN 0 ELSE 0)
    BY <2>1, <2>2
  <2> QED
    BY <1>3, <2>1, <2>2, <2>3, SettledBalance
<1> QED
  BY <1>4, <1>5, <1>6, <1>7, <1>8, <1>9, <1>10

-----------------------------------------------------------------------------
(* The steps of the refill task of generation p, and the spares ageing. *)

TaskFrame(p) ==
    /\ UNCHANGED <<scene, pools, caps, registered, admin, forgets, semOf, aborted, callerVars>>
    /\ \A g \in Gens \ {p} : /\ avail'[g] = avail[g] /\ queue'[g] = queue[g]
                             /\ notified'[g] = notified[g] /\ task'[g] = task[g]
                             /\ keepers'[g] = keepers[g]

\* The permits of p, other than the ones callers hold.
Stock(p) == (avail[p] + Dialling(p)) + (Queued(p) + Kept(p))

TaskTypes ==
    /\ avail \in [Gens -> Nat] /\ notified \in [Gens -> BOOLEAN]
    /\ queue \in [Gens -> Seq(Kinds)] /\ keepers \in [Gens -> Seq(Kinds)]
    /\ task \in [Gens -> TaskStates]

\* A step of the task keeps the invariant if it balances p's permits, leaves no
\* spare aside when it stops recycling, and waits only with a full queue.
LEMMA TaskKeeps ==
    ASSUME Base, Balanced, NEW p \in Gens, TaskFrame(p), TaskTypes', Stock(p)' = Stock(p),
           Queued(p)' + Kept(p)' <= Target,
           task[p] # "none", task'[p] # "none",
           task[p] = "dead" => task'[p] = "dead",
           task'[p] \notin {"draining", "refilling"} => keepers'[p] = <<>>,
           task'[p] = "waiting" /\ ~notified'[p] => Len(queue'[p]) = Target \/ AboutToNotify(p)
    PROVE  Base' /\ Balanced'
<1> USE DEF Base, TaskFrame
<1>0. Gen' = Gen /\ Target' = Target
  BY DEF Gen, Target
<1>1. Typed'
  <2>1. ASSUME NEW g \in Gens PROVE (Queued(g) + Kept(g) <= Target)'
    <3>1. CASE g = p
      BY <1>0, <3>1
    <3>2. CASE g # p
      <4>1. Queued(g)' = Queued(g) /\ Kept(g)' = Kept(g)
        BY <3>2 DEF Queued, Kept
      <4> QED
        BY <1>0, <4>1 DEF Typed
    <3> QED
      BY <3>1, <3>2
  <2> QED
    BY <2>1 DEF Typed, TaskTypes, callerVars
<1>2. Generations'
  BY <1>0 DEF Generations
<1>3. Stocked'
  BY DEF Stocked
<1>4. InHand'
  BY <1>0 DEF InHand, InHandOf, callerVars
<1>5. Registered'
  BY DEF Registered, OneLiveRefill
<1>6. NoLostWakeup'
  <2>1. \A g \in Gens : AboutToNotify(g) => AboutToNotify(g)'
    BY DEF AboutToNotify, callerVars
  <2> QED
    BY <1>0, <2>1 DEF NoLostWakeup
<1>7. Balanced'
  <2> SUFFICES ASSUME NEW g \in Gens PROVE Total(g)' = Total(g)
    BY DEF Balanced
  <2>1. Held(g)' = Held(g)
    BY DEF Held, Holders, callerVars
  <2>2. CASE g = p
    <3>1. /\ avail[g] \in Nat /\ Held(g) \in Nat /\ Queued(g) \in Nat /\ Kept(g) \in Nat
          /\ Dialling(g) \in Nat
      BY NatParts
    <3>2. avail'[g] \in Nat /\ Queued(g)' \in Nat /\ Kept(g)' \in Nat /\ Dialling(g)' \in Nat
      <4>1. queue'[g] \in Seq(Kinds) /\ keepers'[g] \in Seq(Kinds) /\ avail'[g] \in Nat
        BY DEF TaskTypes
      <4>2. Queued(g)' \in Nat /\ Kept(g)' \in Nat
        BY <4>1 DEF Queued, Kept
      <4> QED
        BY <4>1, <4>2 DEF Dialling
    <3>3. Stock(g)' = Stock(g)
      BY <2>2
    <3>4. Total(g) = Stock(g) + Held(g)
      BY <3>1 DEF Total, Stock
    <3>5. Total(g)' = Stock(g)' + Held(g)'
      BY <2>1, <3>1, <3>2 DEF Total, Stock
    <3> QED
      BY <2>1, <3>3, <3>4, <3>5
  <2>3. CASE g # p
    <3>1. avail'[g] = avail[g] /\ Queued(g)' = Queued(g) /\ Kept(g)' = Kept(g)
          /\ Dialling(g)' = Dialling(g)
      BY <2>3 DEF Queued, Kept, Dialling
    <3> QED
      BY <2>1, <3>1 DEF Total
  <2> QED
    BY <2>2, <2>3
<1> QED
  BY <1>1, <1>2, <1>3, <1>4, <1>5, <1>6, <1>7

\* What holds of a task that runs.
LEMMA Running ==
    ASSUME Base, NEW p \in Gens, task[p] \notin {"none", "dead"}
    PROVE  /\ semOf[p] = p /\ avail[p] \in Nat /\ Queued(p) \in Nat /\ Kept(p) \in Nat
           /\ Target \in Nat /\ Queued(p) + Kept(p) <= Target
           /\ queue[p] \in Seq(Kinds) /\ keepers[p] \in Seq(Kinds)
           /\ task[p] \notin {"draining", "refilling"} => keepers[p] = <<>> /\ Kept(p) = 0
<1>1. semOf[p] = p /\ (task[p] \notin {"draining", "refilling"} => keepers[p] = <<>>)
  BY DEF Base, Stocked
<1>2. task[p] \notin {"draining", "refilling"} => Kept(p) = 0
  BY <1>1 DEF Kept
<1>3. avail[p] \in Nat /\ Queued(p) \in Nat /\ Kept(p) \in Nat
  BY NatParts DEF Base
<1>4. /\ Target \in Nat /\ Queued(p) + Kept(p) <= Target
      /\ queue[p] \in Seq(Kinds) /\ keepers[p] \in Seq(Kinds)
  BY TargetSize DEF Base, Typed
<1> QED
  BY <1>1, <1>2, <1>3, <1>4

LEMMA TaskMoveKeeps ==
    ASSUME Base, Balanced, NEW p \in Gens, TaskMove(p) \/ TaskNotified(p)
    PROVE  Base' /\ Balanced'
<1>1. task[p] \notin {"none", "dead", "connecting"} /\ task[p] \in TaskStates /\ task' = [task EXCEPT ![p] = task'[p]]
      /\ task'[p] \notin {"none", "dead", "connecting"} /\ task'[p] \in TaskStates
  BY DEF TaskMove, TaskNotified, TaskGoto, Base, Typed, TaskStates
<1>2. UNCHANGED <<scene, pools, caps, registered, admin, forgets, semOf, aborted, callerVars,
                  avail, queue, keepers>>
  BY DEF TaskMove, TaskNotified, adminVars, sharedVars
<1>3. notified' \in [Gens -> BOOLEAN] /\ \A g \in Gens \ {p} : notified'[g] = notified[g]
  BY DEF TaskMove, TaskNotified, sharedVars, Base, Typed
<1>4. TaskFrame(p)
  BY <1>1, <1>2, <1>3 DEF TaskFrame, Base, Typed
<1>5. TaskTypes'
  BY <1>1, <1>2, <1>3 DEF TaskTypes, Base, Typed
<1>6. Queued(p)' = Queued(p) /\ Kept(p)' = Kept(p) /\ Dialling(p)' = Dialling(p)
  BY <1>1, <1>2 DEF Queued, Kept, Dialling
<1>7. Stock(p)' = Stock(p) /\ Queued(p)' + Kept(p)' <= Target
  BY <1>1, <1>2, <1>6, Running DEF Stock
<1>8. task'[p] \notin {"draining", "refilling"} => keepers'[p] = <<>>
  <2>1. task[p] \notin {"draining", "refilling"} => keepers[p] = <<>>
    BY <1>1, Running
  <2> QED
    BY <1>2, <2>1 DEF TaskMove, TaskNotified, TaskGoto, Base, Typed
<1>9. task'[p] = "waiting" => Len(queue'[p]) = Target
  <2>1. task'[p] = "waiting" => task[p] = "top" /\ ~Room(p)
    BY DEF TaskMove, TaskNotified, TaskGoto, Base, Typed
  <2>2. ~Room(p) => ~(Queued(p) < Target)
    BY DEF Room, Queued
  <2>3. task[p] = "top" => Kept(p) = 0
    BY <1>1, Running
  <2>4. task'[p] = "waiting" => Queued(p) = Target
    BY <1>1, <2>1, <2>2, <2>3, Running
  <2> QED
    BY <1>2, <2>4 DEF Queued
<1> QED
  BY <1>1, <1>4, <1>5, <1>7, <1>8, <1>9, TaskKeeps

\* A refill dial starts, fails, or is handed its permit back.
LEMMA TaskDialKeeps ==
    ASSUME Base, Balanced, NEW p \in Gens, TaskDial(p) \/ TaskConnectFailed(p)
    PROVE  Base' /\ Balanced'
<1>1. /\ UNCHANGED <<scene, pools, caps, registered, admin, forgets, semOf, aborted, callerVars,
                     queue, keepers, notified>>
      /\ \/ /\ task[p] = "top" /\ task' = [task EXCEPT ![p] = "connecting"]
            /\ avail[semOf[p]] > 0 /\ avail' = [avail EXCEPT ![semOf[p]] = @ - 1]
         \/ /\ task[p] = "connecting" /\ task' = [task EXCEPT ![p] = "parked"]
            /\ avail' = [avail EXCEPT ![semOf[p]] = @ + 1]
  BY DEF TaskDial, TaskConnectFailed, TaskGoto, TryAcquire, Release, adminVars
<1>2. task[p] \notin {"none", "dead", "draining", "refilling"}
  BY <1>1
<1>3. /\ semOf[p] = p /\ avail[p] \in Nat /\ Queued(p) \in Nat /\ Kept(p) \in Nat
      /\ Queued(p) + Kept(p) <= Target /\ keepers[p] = <<>>
  BY <1>2, Running
<1>4. avail \in [Gens -> Nat] /\ task \in [Gens -> TaskStates]
  BY DEF Base, Typed
<1>5. TaskFrame(p)
  BY <1>1, <1>3, <1>4 DEF TaskFrame
<1>6. TaskTypes'
  <2>1. avail' \in [Gens -> Nat]
    BY <1>1, <1>3, <1>4
  <2>2. task' \in [Gens -> TaskStates]
    BY <1>1, <1>4 DEF TaskStates
  <2> QED
    BY <1>1, <2>1, <2>2 DEF TaskTypes, Base, Typed
<1>7. Queued(p)' = Queued(p) /\ Kept(p)' = Kept(p)
  BY <1>1 DEF Queued, Kept
<1>8. avail'[p] + Dialling(p)' = avail[p] + Dialling(p) /\ Dialling(p) \in Nat /\ Dialling(p)' \in Nat
  BY <1>1, <1>3, <1>4 DEF Dialling
<1>9. Stock(p)' = Stock(p)
  BY <1>7, <1>8 DEF Stock
<1>10. task'[p] \in {"connecting", "parked"}
  BY <1>1, <1>4
<1> QED
  BY <1>1, <1>2, <1>3, <1>5, <1>6, <1>7, <1>9, <1>10, TaskKeeps

\* A spare enters the queue, or is dropped because there is no room.
Pushed(p) == \/ Queued(p)' = Queued(p) + 1 /\ Queued(p) < Target /\ avail'[p] = avail[p]
             \/ Queued(p)' = Queued(p) /\ avail'[p] = avail[p] + 1

LEMMA PushMoves ==
    ASSUME Base, NEW p \in Gens, semOf[p] = p, NEW kind \in Kinds, Push(p, kind)
    PROVE  /\ Pushed(p) /\ queue' \in [Gens -> Seq(Kinds)] /\ avail' \in [Gens -> Nat]
           /\ \A g \in Gens \ {p} : avail'[g] = avail[g] /\ queue'[g] = queue[g]
<1>1. queue \in [Gens -> Seq(Kinds)] /\ avail \in [Gens -> Nat] /\ queue[p] \in Seq(Kinds)
  BY DEF Base, Typed
<1>2. CASE Room(p)
  <2>1. queue' = [queue EXCEPT ![p] = Append(queue[p], kind)] /\ avail' = avail
    BY <1>2 DEF Push
  <2>2. Append(queue[p], kind) \in Seq(Kinds) /\ Len(Append(queue[p], kind)) = Len(queue[p]) + 1
    BY <1>1
  <2>3. Queued(p)' = Queued(p) + 1
    BY <1>1, <2>1, <2>2 DEF Queued
  <2>4. Queued(p) < Target
    BY <1>2 DEF Room, Queued
  <2> QED
    BY <1>1, <2>1, <2>2, <2>3, <2>4 DEF Pushed
<1>3. CASE ~Room(p)
  <2>1. queue' = queue /\ avail' = [avail EXCEPT ![p] = avail[p] + 1]
    BY <1>3 DEF Push, Release
  <2>2. Queued(p)' = Queued(p)
    BY <2>1 DEF Queued
  <2>3. avail'[p] = avail[p] + 1
    BY <1>1, <2>1
  <2> QED
    BY <1>1, <2>1, <2>2, <2>3 DEF Pushed
<1> QED
  BY <1>2, <1>3

LEMMA TaskConnectedKeeps ==
    ASSUME Base, Balanced, NEW p \in Gens, TaskConnected(p)
    PROVE  Base' /\ Balanced'
<1>1. /\ UNCHANGED <<scene, pools, caps, registered, admin, forgets, semOf, aborted, callerVars,
                     keepers, notified>>
      /\ task[p] = "connecting" /\ task' = [task EXCEPT ![p] = "top"] /\ Push(p, "good")
  BY DEF TaskConnected, TaskGoto, adminVars
<1>2. /\ semOf[p] = p /\ avail[p] \in Nat /\ Queued(p) \in Nat /\ Kept(p) = 0 /\ Target \in Nat
      /\ Queued(p) + Kept(p) <= Target /\ keepers[p] = <<>>
  BY <1>1, Running
<1>3. /\ Pushed(p) /\ queue' \in [Gens -> Seq(Kinds)] /\ avail' \in [Gens -> Nat]
      /\ \A g \in Gens \ {p} : avail'[g] = avail[g] /\ queue'[g] = queue[g]
  BY <1>1, <1>2, PushMoves DEF Kinds
<1>4. task \in [Gens -> TaskStates]
  BY DEF Base, Typed
<1>5. TaskFrame(p)
  BY <1>1, <1>3, <1>4 DEF TaskFrame
<1>6. TaskTypes'
  <2>1. task' \in [Gens -> TaskStates]
    BY <1>1, <1>4 DEF TaskStates
  <2> QED
    BY <1>1, <1>3, <2>1 DEF TaskTypes, Base, Typed
<1>7. Kept(p)' = 0 /\ Dialling(p) = 1 /\ Dialling(p)' = 0 /\ task'[p] = "top"
  BY <1>1, <1>2, <1>4 DEF Kept, Dialling
<1>8. Stock(p)' = Stock(p)
  BY <1>2, <1>3, <1>7 DEF Stock, Pushed
<1>9. Queued(p)' + Kept(p)' <= Target
  BY <1>2, <1>3, <1>7 DEF Pushed
<1> QED
  BY <1>1, <1>2, <1>5, <1>6, <1>7, <1>8, <1>9, TaskKeeps

\* Recycling: spares move from the queue to the keepers and back.
LEMMA TaskDrainKeeps ==
    ASSUME Base, Balanced, NEW p \in Gens, TaskDrain(p)
    PROVE  Base' /\ Balanced'
<1>1. /\ UNCHANGED <<scene, pools, caps, registered, admin, forgets, semOf, aborted, callerVars,
                     notified, task>>
      /\ task[p] = "draining" /\ queue[p] # <<>> /\ queue' = [queue EXCEPT ![p] = Tail(queue[p])]
      /\ \/ keepers' = keepers /\ avail' = [avail EXCEPT ![semOf[p]] = avail[semOf[p]] + 1]
         \/ /\ keepers' = [keepers EXCEPT ![p] = Append(keepers[p], Head(queue[p]))]
            /\ avail' = avail
  BY DEF TaskDrain, Release, adminVars
<1>2. /\ semOf[p] = p /\ avail[p] \in Nat /\ Queued(p) \in Nat /\ Kept(p) \in Nat /\ Target \in Nat
      /\ Queued(p) + Kept(p) <= Target /\ queue[p] \in Seq(Kinds) /\ keepers[p] \in Seq(Kinds)
  BY <1>1, Running
<1>3. /\ Tail(queue[p]) \in Seq(Kinds) /\ Len(Tail(queue[p])) = Len(queue[p]) - 1
      /\ Head(queue[p]) \in Kinds
  BY <1>1, <1>2
<1>4. /\ Append(keepers[p], Head(queue[p])) \in Seq(Kinds)
      /\ Len(Append(keepers[p], Head(queue[p]))) = Len(keepers[p]) + 1
  BY <1>2, <1>3
<1>5. /\ queue \in [Gens -> Seq(Kinds)] /\ keepers \in [Gens -> Seq(Kinds)]
      /\ avail \in [Gens -> Nat] /\ task \in [Gens -> TaskStates]
  BY DEF Base, Typed
<1>6. TaskFrame(p)
  BY <1>1, <1>2, <1>5 DEF TaskFrame
<1>7. TaskTypes'
  <2>1. queue' \in [Gens -> Seq(Kinds)]
    BY <1>1, <1>3, <1>5
  <2>2. keepers' \in [Gens -> Seq(Kinds)]
    BY <1>1, <1>4, <1>5
  <2>3. avail' = avail \/ avail' = [avail EXCEPT ![p] = avail[p] + 1]
    BY <1>1, <1>2
  <2>4. avail' \in [Gens -> Nat]
    BY <1>5, <2>3
  <2> QED
    BY <1>1, <2>1, <2>2, <2>4 DEF TaskTypes, Base, Typed
<1>8. Queued(p)' = Queued(p) - 1 /\ Dialling(p)' = Dialling(p) /\ Dialling(p) = 0
  BY <1>1, <1>3, <1>5 DEF Queued, Dialling
<1>9. \/ Kept(p)' = Kept(p) /\ avail'[p] = avail[p] + 1
      \/ Kept(p)' = Kept(p) + 1 /\ avail'[p] = avail[p]
  <2>1. CASE keepers' = keepers
    BY <1>1, <1>2, <1>5, <2>1 DEF Kept
  <2>2. CASE keepers' = [keepers EXCEPT ![p] = Append(keepers[p], Head(queue[p]))] /\ avail' = avail
    BY <1>4, <1>5, <2>2 DEF Kept
  <2> QED
    BY <1>1, <2>1, <2>2
<1>10. Stock(p)' = Stock(p)
  <2>1. CASE Kept(p)' = Kept(p) /\ avail'[p] = avail[p] + 1
    BY <1>2, <1>8, <2>1 DEF Stock
  <2>2. CASE Kept(p)' = Kept(p) + 1 /\ avail'[p] = avail[p]
    BY <1>2, <1>8, <2>2 DEF Stock
  <2> QED
    BY <1>9, <2>1, <2>2
<1>11. Queued(p)' + Kept(p)' <= Target
  BY <1>2, <1>8, <1>9
<1> QED
  BY <1>1, <1>6, <1>7, <1>10, <1>11, TaskKeeps

LEMMA TaskKeepKeeps ==
    ASSUME Base, Balanced, NEW p \in Gens, TaskKeep(p)
    PROVE  Base' /\ Balanced'
<1>1. /\ UNCHANGED <<scene, pools, caps, registered, admin, forgets, semOf, aborted, callerVars,
                     notified, task>>
      /\ task[p] = "refilling" /\ keepers[p] # <<>>
      /\ keepers' = [keepers EXCEPT ![p] = Tail(keepers[p])] /\ Push(p, Head(keepers[p]))
  BY DEF TaskKeep, adminVars
<1>2. /\ semOf[p] = p /\ avail[p] \in Nat /\ Queued(p) \in Nat /\ Kept(p) \in Nat /\ Target \in Nat
      /\ Queued(p) + Kept(p) <= Target /\ keepers[p] \in Seq(Kinds)
  BY <1>1, Running
<1>3. /\ Tail(keepers[p]) \in Seq(Kinds) /\ Len(Tail(keepers[p])) = Len(keepers[p]) - 1
      /\ Head(keepers[p]) \in Kinds
  BY <1>1, <1>2
<1>4. /\ Pushed(p) /\ queue' \in [Gens -> Seq(Kinds)] /\ avail' \in [Gens -> Nat]
      /\ \A g \in Gens \ {p} : avail'[g] = avail[g] /\ queue'[g] = queue[g]
  BY <1>1, <1>2, <1>3, PushMoves
<1>5. keepers \in [Gens -> Seq(Kinds)]
  BY DEF Base, Typed
<1>6. TaskFrame(p)
  BY <1>1, <1>4, <1>5 DEF TaskFrame
<1>7. TaskTypes'
  <2>1. keepers' \in [Gens -> Seq(Kinds)]
    BY <1>1, <1>3, <1>5
  <2> QED
    BY <1>1, <1>4, <2>1 DEF TaskTypes, Base, Typed
<1>8. Kept(p)' = Kept(p) - 1 /\ Dialling(p)' = Dialling(p) /\ Dialling(p) = 0
  BY <1>1, <1>3, <1>5 DEF Kept, Dialling
<1>9. Stock(p)' = Stock(p)
  <2>1. CASE Queued(p)' = Queued(p) + 1 /\ avail'[p] = avail[p]
    BY <1>2, <1>8, <2>1 DEF Stock
  <2>2. CASE Queued(p)' = Queued(p) /\ avail'[p] = avail[p] + 1
    BY <1>2, <1>8, <2>2 DEF Stock
  <2> QED
    BY <1>4, <2>1, <2>2 DEF Pushed
<1>10. Queued(p)' + Kept(p)' <= Target
  BY <1>2, <1>4, <1>8 DEF Pushed
<1> QED
  BY <1>1, <1>6, <1>7, <1>9, <1>10, TaskKeeps

\* Cancellation: the dial's permit goes back, and with the last Arc the spares'.
LEMMA TaskAbortKeeps ==
    ASSUME Base, Balanced, NEW p \in Gens, TaskAbort(p)
    PROVE  Base' /\ Balanced'
<1>1. /\ UNCHANGED <<scene, pools, caps, registered, admin, forgets, semOf, aborted, callerVars,
                     notified, keepers>>
      /\ task[p] \in {"parked", "connecting", "waiting"} /\ task' = [task EXCEPT ![p] = "dead"]
  BY DEF TaskAbort, adminVars
<1>2. /\ semOf[p] = p /\ avail[p] \in Nat /\ Queued(p) \in Nat /\ Kept(p) = 0 /\ Target \in Nat
      /\ Queued(p) + Kept(p) <= Target /\ keepers[p] = <<>>
  BY <1>1, Running
<1>3. Dialling(p) \in Nat /\ Dialling(p) = IF task[p] = "connecting" THEN 1 ELSE 0
  BY DEF Dialling
<1>4. PICK n \in Nat : n = Dialling(p)
  BY <1>3
<1>5. Released(p, n) \/ Dropped(p, n)
  <2>1. ReleaseAndDrop(p, n, TRUE) \/ ReleaseAndDrop(p, n, FALSE)
    BY <1>3, <1>4 DEF TaskAbort, ReleaseAndDrop
  <2> QED
    BY <1>2, <2>1, DropOrNot DEF Base
<1>6. Settled(p, n)
  BY <1>5, DropSettles DEF Base
<1>7. task \in [Gens -> TaskStates]
  BY DEF Base, Typed
<1>8. TaskFrame(p)
  BY <1>1, <1>6, <1>7 DEF TaskFrame, Settled
<1>9. TaskTypes'
  <2>1. task' \in [Gens -> TaskStates]
    BY <1>1, <1>7 DEF TaskStates
  <2> QED
    BY <1>1, <1>6, <2>1 DEF TaskTypes, Base, Typed, Settled
<1>10. Kept(p)' = 0 /\ Dialling(p)' = 0 /\ task'[p] = "dead"
  BY <1>1, <1>2, <1>7 DEF Kept, Dialling
<1>11. /\ avail'[p] \in Nat /\ Queued(p)' \in Nat /\ Queued(p)' <= Queued(p)
       /\ avail'[p] + Queued(p)' = avail[p] + Queued(p) + n
  BY <1>6, <1>9 DEF Settled, TaskTypes
<1>12. Stock(p)' = Stock(p)
  BY <1>2, <1>4, <1>10, <1>11 DEF Stock
<1>13. Queued(p)' + Kept(p)' <= Target
  BY <1>2, <1>10, <1>11
<1> QED
  BY <1>1, <1>2, <1>8, <1>9, <1>10, <1>12, <1>13, TaskKeeps

\* A spare goes bad where it lies.
LEMMA SpareSpoilsKeeps ==
    ASSUME Base, Balanced, NEW p \in Gens, NEW i, SpareSpoils(p, i)
    PROVE  Base' /\ Balanced'
<1>1. /\ UNCHANGED <<scene, pools, caps, registered, admin, forgets, semOf, aborted, callerVars,
                     avail, notified, task, keepers>>
      /\ i \in 1 .. Len(queue[p])
      /\ \E k \in Kinds : queue' = [queue EXCEPT ![p] = [queue[p] EXCEPT ![i] = k]]
  BY DEF SpareSpoils, adminVars, taskVars, Kinds
<1>2. PICK k \in Kinds : queue' = [queue EXCEPT ![p] = [queue[p] EXCEPT ![i] = k]]
  BY <1>1
<1>3. queue \in [Gens -> Seq(Kinds)] /\ queue[p] \in Seq(Kinds)
  BY DEF Base, Typed
<1>4. queue'[p] \in Seq(Kinds) /\ Len(queue'[p]) = Len(queue[p])
  BY <1>1, <1>2, <1>3
<1>5. TaskFrame(p)
  BY <1>1, <1>2, <1>3 DEF TaskFrame
<1>6. TaskTypes'
  BY <1>1, <1>2, <1>3, <1>4 DEF TaskTypes, Base, Typed
<1>7. Queued(p)' = Queued(p) /\ Kept(p)' = Kept(p) /\ Dialling(p)' = Dialling(p)
  BY <1>1, <1>4 DEF Queued, Kept, Dialling
<1>8. Stock(p)' = Stock(p) /\ Queued(p)' + Kept(p)' <= Target
  BY <1>1, <1>7 DEF Stock, Base, Typed
<1>9. task[p] # "none"
  BY <1>1, <1>3 DEF Base, Stocked
<1>10. task[p] = "waiting" /\ ~notified[p] => Len(queue'[p]) = Target \/ AboutToNotify(p)
  BY <1>4 DEF Base, NoLostWakeup
<1>11. task[p] \notin {"draining", "refilling"} => keepers[p] = <<>>
  BY DEF Base, Stocked
<1> QED
  BY <1>1, <1>5, <1>6, <1>8, <1>9, <1>10, <1>11, TaskKeeps

-----------------------------------------------------------------------------
(* The inductive invariant and what follows from it. *)

LEMMA StepKeeps == Base /\ Balanced /\ Next => Base' /\ Balanced'
<1> SUFFICES ASSUME Base, Balanced, Next PROVE Base' /\ Balanced'
  OBVIOUS
<1>1. ASSUME NEW c \in Callers, CallStart(c) \/ CallStep(c) \/ DialDone(c) \/ Close(c)
      PROVE  Base' /\ Balanced'
  BY <1>1, CallerSteps
<1>2. CASE SpawnPublish \/ SpawnRegister \/ ForgetPools \/ ForgetCaps \/ AbortTasks \/ DropMaps
  BY <1>2, SpawnPublishKeeps, SpawnRegisterKeeps, ForgetKeeps, AbortTasksKeeps, DropMapsKeeps
<1>3. ASSUME NEW p \in Gens, TaskStep(p) \/ TaskAbort(p) PROVE Base' /\ Balanced'
  BY <1>3, TaskMoveKeeps, TaskDialKeeps, TaskConnectedKeeps, TaskDrainKeeps, TaskKeepKeeps,
     TaskAbortKeeps DEF TaskStep
<1>4. ASSUME NEW p \in Gens, NEW i \in 1 .. Target, SpareSpoils(p, i) PROVE Base' /\ Balanced'
  BY <1>4, SpareSpoilsKeeps
<1> QED
  BY <1>1, <1>2, <1>3, <1>4 DEF Next

LEMMA StutterKeeps == Base /\ Balanced /\ UNCHANGED vars => Base' /\ Balanced'
<1> SUFFICES ASSUME Base, Balanced, UNCHANGED vars PROVE Base' /\ Balanced'
  OBVIOUS
<1> USE DEF Base, vars, adminVars, sharedVars, taskVars, callerVars
<1>1. Target' = Target /\ Gen' = Gen /\ \A g \in Gens : AboutToNotify(g)' = AboutToNotify(g)
  BY DEF Target, Gen, AboutToNotify
<1>2. Typed'
  BY <1>1, AdminTyped DEF Typed
<1>3. Generations' /\ Stocked'
  BY <1>1 DEF Generations, Stocked
<1>4. InHand' /\ Registered'
  BY <1>1 DEF InHand, InHandOf, Registered, OneLiveRefill
<1>5. NoLostWakeup'
  BY <1>1 DEF NoLostWakeup
<1>6. Balanced'
  BY StillBalanced DEF Dialling
<1> QED
  BY <1>2, <1>3, <1>4, <1>5, <1>6

LEMMA BaseGives == Base /\ Balanced => IInv
<1> SUFFICES ASSUME Base, Balanced PROVE IInv
  OBVIOUS
<1>1. TypeOK
  BY TypedOK DEF Base, Balanced
<1>2. PermitsConserved
  BY Conserved DEF Base, Balanced, Generations
<1> QED
  BY <1>1, <1>2 DEF Base, IInv

\* The invariant holds in every reachable state of the pool.
THEOREM Inductive == Spec => []IInv
<1>1. Init => Base /\ Balanced
  BY BaseInit DEF Balanced
<1>2. Base /\ Balanced /\ [Next]_vars => Base' /\ Balanced'
  BY StepKeeps, StutterKeeps
<1> QED
  BY <1>1, <1>2, BaseGives, PTL DEF Spec

\* Every variable keeps its type: in particular a semaphore never has more free
\* permits than the cap, and the spares queued or being recycled never outgrow
\* the ArrayQueue that `spawn_refill_for` sized.
THEOREM TypeCorrect == Spec => []TypeOK
  BY Inductive, PTL DEF IInv

\* Whatever drops a permit (a failed dial, a discarded spare, the recycler, an
\* abort, the last Arc of a forgotten queue), it comes back exactly once.
THEOREM NoPermitLost == Spec => []PermitsConserved
  BY Inductive, PTL DEF IInv

\* `notify_one` by every popper is enough: the refill task never waits for a
\* wake-up nobody owes while its queue has room.
THEOREM WakeupKept == Spec => []NoLostWakeup
  BY Inductive, PTL DEF IInv

\* `forget` and `Drop` can reach every refill task that is not already being
\* cancelled, so an endpoint never has two that run on.
THEOREM OneRefill == Spec => []OneLiveRefill
<1>1. IInv => OneLiveRefill
  BY DEF IInv, Registered
<1> QED
  BY <1>1, Inductive, PTL

\* A published queue is charged to the published semaphore, across any number of
\* forgets and respawns interleaved with `upstream_semaphore`.
THEOREM SameBudget == Spec => []QueueOnPublishedCap
<1>1. IInv => QueueOnPublishedCap
  BY DEF IInv, Generations, QueueOnPublishedCap
<1> QED
  BY <1>1, Inductive, PTL

\* The cap of the module's documentation: within a generation, connections,
\* spares and refill dials never exceed it, and a counted socket has a permit.
THEOREM CapKept == Spec => []WithinCap
<1>1. ASSUME IInv PROVE WithinCap
  <2> USE <1>1 DEF IInv
  <2> DEFINE counted == {c \in Callers : Socket(c) /\ ~(op[c] = "unguarded" /\ pc[c] = "live")}
  <2>1. ASSUME NEW c \in counted PROVE permit[c] # None /\ permit[c] \in Gens
    <3>1. InHandOf(c) /\ permit[c] \in GenOrNone
      BY DEF InHand, TypeOK
    <3> QED
      BY <3>1 DEF InHandOf, Socket, GenOrNone
  <2>2. ASSUME forgets = 0 PROVE Cardinality(counted) + SparePermits(1) <= Cap
    <3>1. 1 \in Gens /\ Gen = 1
      BY <2>2, Sizes DEF Gen
    <3>2. counted \subseteq Holders(1)
      <4> SUFFICES ASSUME NEW c \in counted PROVE permit[c] = 1
        BY DEF Holders
      <4>1. permit[c] <= Gen
        BY DEF InHand, InHandOf
      <4> QED
        BY <2>1, <3>1, <4>1, Sizes
    <3>3. IsFiniteSet(counted) /\ Cardinality(counted) \in Nat /\ Cardinality(counted) <= Held(1)
      BY <3>1, <3>2, HeldIsNat, FS_Subset, FS_CardinalityType DEF Held
    <3>4. Typed /\ Total(1) = Cap
      BY <3>1, TypedFromOK, Conserved DEF Generations
    <3>5. SparePermits(1) = Queued(1) + Kept(1) + Dialling(1)
      BY DEF SparePermits, Queued, Kept, Dialling
    <3>6. /\ avail[1] \in Nat /\ Held(1) \in Nat /\ Queued(1) \in Nat /\ Kept(1) \in Nat
          /\ Dialling(1) \in Nat
      BY <3>1, <3>4, NatParts
    <3> HIDE DEF counted
    <3> QED
      BY <3>3, <3>4, <3>5, <3>6 DEF Total
  <2> QED
    BY <2>1, <2>2 DEF WithinCap
<1> QED
  BY <1>1, Inductive, PTL
=============================================================================
