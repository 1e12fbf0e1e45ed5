---------------------------- MODULE HedgedProofs ----------------------------
(***************************************************************************)
(* Proofs about Hedged, for any number of candidates and with or without   *)
(* hedging: the race never opens two tunnels, its verdict is right, it is  *)
(* sequential without hedging, and it implements the contract OneTunnel.   *)
(*                                                                         *)
(* The properties are not inductive by themselves.  The argument rests on  *)
(* the handshake slot: exactly its holder is past the admission point, and *)
(* `won` is published while the slot is held, so whoever is admitted later *)
(* sees every tunnel that exists.                                          *)
(***************************************************************************)
EXTENDS Hedged, FiniteSetTheorems, TLAPS

(* The parts of the inductive invariant. *)

\* The slot's holder is the one attempt past the admission point.
SlotHeld == \A i \in Candidates :
                att[i] \in {"admitted", "handshake", "publish"} <=> slot = i

\* An attempt has a result exactly when it is done, and has started exactly
\* when it was launched; only finished attempts are joined.
Lifecycle == /\ \A i \in Candidates : att[i] = "done" <=> result[i] # "none"
             /\ \A i \in Candidates : att[i] = "new" <=> i > launched
             /\ \A i \in joined : att[i] = "done"

\* `won` tells the truth about tunnels, and nobody handshakes under it.
WinPublished == /\ won <=> \E i \in Candidates : att[i] = "publish" \/ result[i] = "ok"
                /\ \A i \in Candidates : att[i] = "handshake" => ~won
                /\ \A i \in Candidates : result[i] = "lost" => won
                /\ \A i, j \in Tunnelled : i = j

\* What the coordinator has taken out of the JoinSet fits its phase.
CoordKnows == /\ phase = "run" => \A i \in joined : result[i] # "ok"
              /\ phase = "won" => \E i \in joined : result[i] = "ok"
              /\ phase = "failed" => launched = N /\ Running = {} /\ ~won

NoLateSuccess == \A k \in 1 .. Len(reports) : reports[k].outcome # "LateSuccess"

IInv == TypeOK /\ SlotHeld /\ Lifecycle /\ WinPublished /\ CoordKnows /\ NoLateSuccess

-----------------------------------------------------------------------------
\* Type correctness of the initial state and of every step.
LEMMA TypeInit == Init => TypeOK
<1> SUFFICES ASSUME Init PROVE TypeOK
  OBVIOUS
<1> USE NAssumption DEF Init
<1>1. att \in [Candidates -> AttStates]
  BY DEF AttStates
<1>2. result \in [Candidates -> Results]
  BY DEF Results
<1>3. won \in BOOLEAN /\ slot \in Candidates \cup {Nobody}
  OBVIOUS
<1>4. launched \in 0 .. N /\ joined \subseteq 1 .. launched
  OBVIOUS
<1>5. phase \in {"run", "won", "failed", "cancelled"} /\ reports \in Seq(Reportable)
  OBVIOUS
<1> QED
  BY <1>1, <1>2, <1>3, <1>4, <1>5 DEF TypeOK

\* A report keeps the callback's log well-formed.
LEMMA ReportType ==
    ASSUME NEW i \in Candidates, NEW o \in {"Won", "Failed", "Lost", "LateSuccess"},
           NEW w \in BOOLEAN, reports \in Seq(Reportable), Report(i, o, w)
    PROVE  reports' \in Seq(Reportable)
<1>1. [index |-> i, outcome |-> o, after_win |-> w] \in Reportable
  BY DEF Reportable
<1> QED
  BY <1>1 DEF Report

LEMMA TypeStep == TypeOK /\ Lifecycle /\ [Next]_vars => TypeOK'
<1> SUFFICES ASSUME TypeOK, Lifecycle, [Next]_vars PROVE TypeOK'
  OBVIOUS
<1> USE NAssumption DEF TypeOK, Candidates, Nobody, AttStates, Results
<1>1. ASSUME NEW i \in Candidates, AttemptStep(i) \/ Vanish(i) PROVE TypeOK'
  BY <1>1 DEF AttemptStep, Vanish, Dialled, FirstCheck, TakeSlot, SecondCheck, HandshakeOk,
              HandshakeFailed, FreeSlot, At, Goto, Finish, CoordUnchanged
<1>2. CASE LaunchNext \/ Tick
  <2>1. /\ launched \in 0 .. (N - 1) /\ launched' = launched + 1
        /\ att' = [att EXCEPT ![launched + 1] = "dial"]
        /\ UNCHANGED <<hedging, result, won, slot, joined, phase, reports>>
    BY <1>2 DEF LaunchNext, Tick, Launch, Pending
  <2>2. att' \in [Candidates -> AttStates]
    BY <2>1
  <2>3. launched' \in 0 .. N /\ joined' \subseteq 1 .. launched'
    BY <2>1
  <2> QED
    BY <2>1, <2>2, <2>3
<1>3. CASE GiveUp \/ Cancel
  BY <1>3 DEF GiveUp, Cancel, attVars
<1>4. ASSUME NEW i \in Candidates,
             JoinWinner(i) \/ JoinFailed(i) \/ JoinLost(i) \/ JoinError(i) \/ DrainOne(i)
      PROVE  TypeOK'
  <2>1. i \in 1 .. launched
    BY <1>4 DEF JoinWinner, JoinFailed, JoinLost, JoinError, DrainOne, Ready, Running
  <2>2. /\ UNCHANGED <<att, result, slot, hedging, launched>> /\ joined' = joined \cup {i}
        /\ won' \in BOOLEAN /\ phase' \in {phase, "won"}
    BY <1>4 DEF JoinWinner, JoinFailed, JoinLost, JoinError, DrainOne, attVars
  <2>3. reports' \in Seq(Reportable)
    <3>1. CASE JoinWinner(i) \/ JoinFailed(i) \/ JoinLost(i)
      BY <3>1, ReportType DEF JoinWinner, JoinFailed, JoinLost
    <3>2. CASE JoinError(i)
      BY <3>2 DEF JoinError
    <3>3. CASE DrainOne(i)
      <4>1. result[i] \in {"ok", "lost", "failed"}
        BY <3>3 DEF DrainOne, Ready, Lifecycle
      <4>2. \E o \in {"LateSuccess", "Lost", "Failed"} : Report(i, o, TRUE)
        BY <3>3, <4>1 DEF DrainOne
      <4> QED
        BY <4>2, ReportType
    <3> QED
      BY <1>4, <3>1, <3>2, <3>3
  <2> QED
    BY <2>1, <2>2, <2>3
<1>5. CASE UNCHANGED vars
  BY <1>5 DEF vars, attVars
<1> QED
  BY <1>1, <1>2, <1>3, <1>4, <1>5 DEF Next, CoordStep
-----------------------------------------------------------------------------
\* The steps of one attempt, and of a task that vanishes.
LEMMA AttemptKeeps ==
    ASSUME IInv, NEW i \in Candidates, AttemptStep(i) \/ Vanish(i)
    PROVE  (SlotHeld /\ Lifecycle /\ WinPublished /\ CoordKnows /\ NoLateSuccess)'
<1> USE NAssumption DEF IInv, TypeOK, Candidates, Nobody, AttStates, Results
<1> USE DEF At, Goto, Finish, CoordUnchanged
<1> USE DEF AttemptStep, Vanish, Dialled, FirstCheck, TakeSlot, SecondCheck, HandshakeOk,
            HandshakeFailed, FreeSlot
<1>1. SlotHeld'
  BY DEF SlotHeld
<1>j. joined \subseteq Candidates /\ i \notin joined /\ i <= launched
  BY DEF Lifecycle
<1>2. Lifecycle'
  <2>1. (\A j \in Candidates : att[j] = "done" <=> result[j] # "none")'
    BY DEF Lifecycle
  <2>2. (\A j \in Candidates : att[j] = "new" <=> j > launched)'
    BY DEF Lifecycle
  <2>3. (\A j \in joined : att[j] = "done")'
    BY <1>j DEF Lifecycle
  <2> QED
    BY <2>1, <2>2, <2>3 DEF Lifecycle
<1>3. WinPublished'
  BY SMTT(30) DEF SlotHeld, Lifecycle, WinPublished, Tunnelled
<1>4. CoordKnows'
  <2>1. \A j \in joined : result'[j] = result[j]
    BY <1>j
  <2>2. phase # "failed"
    BY <1>j DEF Lifecycle, CoordKnows, Running
  <2> QED
    BY <2>1, <2>2 DEF CoordKnows
<1>5. NoLateSuccess'
  BY DEF NoLateSuccess
<1> QED
  BY <1>1, <1>2, <1>3, <1>4, <1>5
\* Launching the next candidate.
LEMMA LaunchKeeps ==
    ASSUME IInv, LaunchNext \/ Tick
    PROVE  (SlotHeld /\ Lifecycle /\ WinPublished /\ CoordKnows /\ NoLateSuccess)'
<1> USE NAssumption DEF IInv, TypeOK, Candidates, Nobody, AttStates, Results
<1> DEFINE n == launched + 1
<1>1. /\ phase = "run" /\ launched \in 0 .. (N - 1) /\ launched' = n /\ n \in Candidates
      /\ att' = [att EXCEPT ![n] = "dial"]
      /\ UNCHANGED <<result, won, slot, joined, phase, reports>>
  BY DEF LaunchNext, Tick, Launch, Pending
<1>2. att[n] = "new" /\ result[n] = "none" /\ n \notin joined /\ joined \subseteq Candidates
  BY <1>1 DEF Lifecycle
<1>3. SlotHeld'
  BY <1>1, <1>2 DEF SlotHeld
<1>4. Lifecycle'
  <2>1. \A j \in Candidates : (att[j] = "done" <=> result[j] # "none")'
    BY <1>1, <1>2 DEF Lifecycle
  <2>2. \A j \in Candidates : (att[j] = "new" <=> j > launched)'
    BY <1>1, <1>2 DEF Lifecycle
  <2>3. \A j \in joined' : att'[j] = "done"
    BY <1>1, <1>2 DEF Lifecycle
  <2> QED
    BY <2>1, <2>2, <2>3 DEF Lifecycle
<1>5. WinPublished'
  BY <1>1, <1>2 DEF WinPublished, Tunnelled
<1>6. CoordKnows' /\ NoLateSuccess'
  BY <1>1 DEF CoordKnows, NoLateSuccess
<1> QED
  BY <1>3, <1>4, <1>5, <1>6

\* Taking a finished attempt out of the JoinSet, before or after the win.
LEMMA JoinKeeps ==
    ASSUME IInv, NEW i \in Candidates,
           JoinWinner(i) \/ JoinFailed(i) \/ JoinLost(i) \/ JoinError(i) \/ DrainOne(i)
    PROVE  (SlotHeld /\ Lifecycle /\ WinPublished /\ CoordKnows /\ NoLateSuccess)'
<1> USE NAssumption DEF IInv, TypeOK, Candidates, Nobody, AttStates, Results
<1>1. /\ UNCHANGED <<att, result, slot, launched>> /\ joined' = joined \cup {i}
      /\ i \in 1 .. launched /\ i \notin joined /\ att[i] = "done"
  BY DEF JoinWinner, JoinFailed, JoinLost, JoinError, DrainOne, attVars, Ready, Running
<1>2. won' = won
  BY DEF JoinWinner, JoinFailed, JoinLost, JoinError, DrainOne, attVars, WinPublished
<1>3. SlotHeld' /\ Lifecycle'
  BY <1>1 DEF SlotHeld, Lifecycle
<1>4. WinPublished'
  BY <1>1, <1>2 DEF WinPublished, Tunnelled
<1>5. CoordKnows'
  BY <1>1 DEF JoinWinner, JoinFailed, JoinLost, JoinError, DrainOne, attVars, CoordKnows
<1>6. NoLateSuccess'
  <2>1. ASSUME NEW o \in {"Won", "Failed", "Lost"}, NEW w \in BOOLEAN, Report(i, o, w)
        PROVE  NoLateSuccess'
    BY <2>1 DEF Report, NoLateSuccess
  <2>2. CASE JoinWinner(i) \/ JoinFailed(i) \/ JoinLost(i)
    BY <2>1, <2>2 DEF JoinWinner, JoinFailed, JoinLost
  <2>3. CASE JoinError(i)
    BY <2>3 DEF JoinError, NoLateSuccess
  <2>4. CASE DrainOne(i)
    \* The winner was joined before, and there is no second tunnel.
    <3>1. PICK w \in joined : result[w] = "ok"
      BY <2>4 DEF DrainOne, CoordKnows
    <3>2. result[i] # "ok"
      BY <1>1, <3>1 DEF WinPublished, Tunnelled
    <3>3. result[i] \in {"lost", "failed"}
      BY <2>4, <3>2, <1>1 DEF DrainOne, Lifecycle
    <3>4. \E o \in {"Lost", "Failed"} : Report(i, o, TRUE)
      BY <2>4, <3>3 DEF DrainOne
    <3> QED
      BY <3>4, <2>1
  <2> QED
    BY <2>2, <2>3, <2>4
<1> QED
  BY <1>3, <1>4, <1>5, <1>6

\* The call ends with an error, or its future is dropped.
LEMMA EndKeeps ==
    ASSUME IInv, GiveUp \/ Cancel
    PROVE  (SlotHeld /\ Lifecycle /\ WinPublished /\ CoordKnows /\ NoLateSuccess)'
<1> USE NAssumption DEF IInv, TypeOK, Candidates, Nobody, AttStates, Results
<1>1. phase = "run" /\ UNCHANGED <<attVars, hedging, launched, joined, reports>>
  BY DEF GiveUp, Cancel
<1>2. SlotHeld' /\ Lifecycle' /\ WinPublished' /\ NoLateSuccess'
  BY <1>1 DEF attVars, SlotHeld, Lifecycle, WinPublished, Tunnelled, NoLateSuccess
<1>3. CASE Cancel
  BY <1>2, <1>3 DEF Cancel, CoordKnows
<1>4. CASE GiveUp
  <2>1. launched = N /\ Running = {} /\ phase' = "failed"
    BY <1>4 DEF GiveUp, Pending
  \* A tunnel would belong to a launched attempt that is still running.
  <2>2. ~won
    BY <1>1, <2>1 DEF WinPublished, CoordKnows, Lifecycle, Running
  <2>3. launched' = N /\ Running' = {} /\ ~won'
    BY <1>1, <2>1, <2>2 DEF Running, attVars
  <2> QED
    BY <1>2, <2>1, <2>3 DEF CoordKnows
<1> QED
  BY <1>3, <1>4

-----------------------------------------------------------------------------
LEMMA InvInit == Init => IInv
<1> SUFFICES ASSUME Init PROVE IInv
  OBVIOUS
<1> USE NAssumption DEF Init, Candidates, Nobody
<1>1. SlotHeld /\ Lifecycle /\ CoordKnows /\ NoLateSuccess
  BY DEF SlotHeld, Lifecycle, CoordKnows, NoLateSuccess
<1>2. WinPublished
  BY DEF WinPublished, Tunnelled
<1> QED
  BY <1>1, <1>2, TypeInit DEF IInv

LEMMA InvStep == IInv /\ [Next]_vars => IInv'
<1> SUFFICES ASSUME IInv, [Next]_vars PROVE IInv'
  OBVIOUS
<1>1. TypeOK'
  BY TypeStep DEF IInv
<1>2. CASE UNCHANGED vars
  BY <1>2 DEF vars, attVars, IInv, TypeOK, SlotHeld, Lifecycle, WinPublished, Tunnelled,
              CoordKnows, Running, NoLateSuccess
<1>3. CASE Next
  BY <1>1, <1>3, AttemptKeeps, LaunchKeeps, JoinKeeps, EndKeeps DEF Next, CoordStep, IInv
<1> QED
  BY <1>2, <1>3

\* The inductive invariant holds throughout.
THEOREM Invariant == Spec => []IInv
  BY InvInit, InvStep, PTL DEF Spec

\* Every variable of connect_hedged's race keeps its type.
THEOREM TypeCorrect == Spec => []TypeOK
<1>1. IInv => TypeOK
  BY DEF IInv
<1> QED
  BY <1>1, Invariant, PTL

\* At most one attempt talks to its upstream at a time, and none once an
\* attempt has its tunnel: the target never sees duplicate CONNECTs.
THEOREM ExclusiveHandshakeHolds == Spec => []ExclusiveHandshake
<1>1. IInv => ExclusiveHandshake
  BY DEF IInv, SlotHeld, WinPublished, ExclusiveHandshake, Talking, Tunnelled
<1> QED
  BY <1>1, Invariant, PTL

\* At most one tunnel is ever opened and LateSuccess is never reported.
THEOREM OneTunnelOnlyHolds == Spec => []OneTunnelOnly
<1>1. IInv => OneTunnelOnly
  BY DEF IInv, WinPublished, NoLateSuccess, OneTunnelOnly
<1> QED
  BY <1>1, Invariant, PTL

\* HedgeError is returned only when every candidate was launched and none of
\* them opened a tunnel; a returned winner opened one.
THEOREM VerdictIsRightHolds == Spec => []VerdictIsRight
<1>1. IInv => VerdictIsRight
  BY DEF IInv, WinPublished, CoordKnows, VerdictIsRight, Tunnelled
<1> QED
  BY <1>1, Invariant, PTL
-----------------------------------------------------------------------------
(* Sequential operation *)

OneRunning == ~hedging => \A i, j \in Running : i = j

LEMMA OneRunningStep == IInv /\ OneRunning /\ [Next]_vars => OneRunning'
<1>0. [Next]_vars => hedging' = hedging
  BY DEF Next, vars, CoordStep, AttemptStep, Vanish, Dialled, FirstCheck, TakeSlot, SecondCheck,
         HandshakeOk, HandshakeFailed, FreeSlot, CoordUnchanged, LaunchNext, Tick, Launch, GiveUp,
         Cancel, JoinWinner, JoinFailed, JoinLost, JoinError, DrainOne
<1> SUFFICES ASSUME IInv, OneRunning, [Next]_vars, ~hedging
             PROVE  \A i, j \in Running' : i = j
  BY <1>0 DEF OneRunning
<1> USE NAssumption DEF IInv, TypeOK, Candidates
<1>1. CASE LaunchNext
  \* It starts the next candidate because nothing runs.
  <2>1. Running = {} /\ launched' = launched + 1 /\ joined' = joined
    BY <1>1 DEF LaunchNext, Launch
  <2> QED
    BY <2>1 DEF Running
<1>2. CASE launched' = launched /\ joined \subseteq joined'
  BY <1>2 DEF OneRunning, Running
<1>3. CASE Tick
  BY <1>3 DEF Tick
<1>4. ASSUME NEW i \in Candidates, AttemptStep(i) \/ Vanish(i)
      PROVE  launched' = launched /\ joined' = joined
  BY <1>4 DEF AttemptStep, Vanish, Dialled, FirstCheck, TakeSlot, SecondCheck, HandshakeOk,
              HandshakeFailed, FreeSlot, CoordUnchanged
<1>5. ASSUME NEW i \in Candidates,
             JoinWinner(i) \/ JoinFailed(i) \/ JoinLost(i) \/ JoinError(i) \/ DrainOne(i)
      PROVE  launched' = launched /\ joined \subseteq joined'
  BY <1>5 DEF JoinWinner, JoinFailed, JoinLost, JoinError, DrainOne
<1>6. ASSUME GiveUp \/ Cancel \/ UNCHANGED vars PROVE launched' = launched /\ joined' = joined
  BY <1>6 DEF GiveUp, Cancel, vars
<1> QED
  BY <1>1, <1>2, <1>3, <1>4, <1>5, <1>6 DEF Next, CoordStep

\* Without a hedge delay connect_hedged runs one attempt at a time.
THEOREM SequentialHolds == Spec => []SequentialWithoutHedging
<1>1. Init => OneRunning
  BY NAssumption DEF Init, OneRunning, Running
<1>2. IInv /\ OneRunning => SequentialWithoutHedging
  <2> SUFFICES ASSUME IInv, OneRunning, ~hedging PROVE Cardinality(Running) <= 1
    BY DEF SequentialWithoutHedging
  <2>1. CASE Running = {}
    BY <2>1, FS_EmptySet
  <2>2. CASE Running # {}
    <3>1. PICK x : x \in Running
      BY <2>2
    <3>2. Running = {x}
      BY <3>1 DEF OneRunning
    <3> QED
      BY <3>2, FS_Singleton
  <2> QED
    BY <2>1, <2>2
<1> QED
  BY <1>1, <1>2, OneRunningStep, Invariant, PTL DEF Spec

-----------------------------------------------------------------------------
(* The reports *)

WonBefore(k) == \E m \in 1 .. (k - 1) : reports[m].outcome = "Won"

\* The log is a list of the joined attempts that left a result, each once, and
\* `after_win` says what the log itself says of the winner.
Logged ==
    /\ \A k \in 1 .. Len(reports) : reports[k].index \in joined /\ result[reports[k].index] # "panic"
    /\ \A i \in joined : result[i] # "panic" => \E k \in 1 .. Len(reports) : reports[k].index = i
    /\ \A k, m \in 1 .. Len(reports) : reports[k].index = reports[m].index => k = m
    /\ phase = "run" => \A k \in 1 .. Len(reports) : reports[k].outcome # "Won"
    /\ phase = "won" => \E k \in 1 .. Len(reports) : reports[k].outcome = "Won"
    /\ \A k \in 1 .. Len(reports) :
          reports[k].after_win = (WonBefore(k) \/ reports[k].outcome = "Lost")

\* A report about a freshly joined attempt extends the log properly.
LEMMA ReportLogged ==
    ASSUME IInv, Logged, NEW i \in Candidates, NEW o \in {"Won", "Failed", "Lost", "LateSuccess"},
           NEW w \in BOOLEAN, Report(i, o, w), i \notin joined, joined' = joined \cup {i},
           result' = result, result[i] # "panic", phase \in {"run", "won"},
           w = (phase = "won" \/ o = "Lost"),
           \/ phase' = phase /\ o # "Won"
           \/ phase = "run" /\ phase' = "won" /\ o = "Won"
    PROVE  Logged'
<1> DEFINE r == [index |-> i, outcome |-> o, after_win |-> w]
<1>0. reports \in Seq(Reportable) /\ r \in Reportable
  BY DEF IInv, TypeOK, Reportable
<1>1. PICK n \in Nat : n = Len(reports)
  BY <1>0
<1>2. /\ reports' = Append(reports, r) /\ Len(reports') = n + 1 /\ reports'[n + 1] = r
      /\ \A k \in 1 .. n : reports'[k] = reports[k]
  BY <1>0, <1>1 DEF Report
<1>3. r.index = i /\ r.outcome = o /\ r.after_win = w
  OBVIOUS
<1> HIDE DEF r
<1>4. \A k \in 1 .. Len(reports') : k = n + 1 \/ k \in 1 .. n
  BY <1>1, <1>2
<1>5. \A k \in 1 .. Len(reports') : reports'[k].index \in joined' /\ result'[reports'[k].index] # "panic"
  BY <1>1, <1>2, <1>3, <1>4 DEF Logged
<1>6. ASSUME NEW j \in joined', result'[j] # "panic"
      PROVE  \E k \in 1 .. Len(reports') : reports'[k].index = j
  <2>1. CASE j = i
    <3>1. n + 1 \in 1 .. Len(reports')
      BY <1>1, <1>2
    <3> QED
      BY <1>2, <1>3, <2>1, <3>1
  <2>2. CASE j \in joined
    <3>1. PICK k \in 1 .. n : reports[k].index = j
      BY <1>1, <1>6, <2>2 DEF Logged
    <3>2. k \in 1 .. Len(reports')
      BY <1>1, <1>2
    <3> QED
      BY <1>2, <3>1, <3>2
  <2> QED
    BY <2>1, <2>2
<1>7. \A k, m \in 1 .. Len(reports') : reports'[k].index = reports'[m].index => k = m
  BY <1>1, <1>2, <1>3, <1>4 DEF Logged
<1>8. ASSUME NEW k \in 1 .. n PROVE WonBefore(k)' <=> WonBefore(k)
  <2>1. \A m \in 1 .. (k - 1) : m \in 1 .. n
    BY <1>1
  <2> QED
    BY <1>2, <2>1 DEF WonBefore
<1>9. WonBefore(n + 1)' <=> phase = "won"
  <2>1. WonBefore(n + 1)' <=> \E m \in 1 .. n : reports[m].outcome = "Won"
    <3>1. 1 .. ((n + 1) - 1) = 1 .. n
      BY <1>1
    <3>2. WonBefore(n + 1)' <=> \E m \in 1 .. n : reports'[m].outcome = "Won"
      BY <3>1 DEF WonBefore
    <3> QED
      BY <1>2, <3>2
  <2> QED
    BY <1>1, <2>1 DEF Logged
<1>10. ASSUME NEW k \in 1 .. Len(reports')
       PROVE  reports'[k].after_win = (WonBefore(k)' \/ reports'[k].outcome = "Lost")
  <2>1. CASE k = n + 1
    <3>1. w = (WonBefore(n + 1)' \/ o = "Lost")
      BY <1>9
    <3> QED
      BY <1>2, <1>3, <2>1, <3>1
  <2>2. CASE k \in 1 .. n
    <3>1. reports[k].after_win = (WonBefore(k) \/ reports[k].outcome = "Lost")
      BY <1>1, <2>2 DEF Logged
    <3> QED
      BY <1>2, <1>8, <2>2, <3>1
  <2> QED
    BY <1>4, <2>1, <2>2
<1>11. phase' = "run" => \A k \in 1 .. Len(reports') : reports'[k].outcome # "Won"
  BY <1>1, <1>2, <1>3, <1>4 DEF Logged
<1>12. phase' = "won" => \E k \in 1 .. Len(reports') : reports'[k].outcome = "Won"
  <2>1. n + 1 \in 1 .. Len(reports') /\ 1 .. n \subseteq 1 .. Len(reports')
    BY <1>1, <1>2
  <2>2. CASE o = "Won"
    BY <1>2, <1>3, <2>1, <2>2
  <2>3. CASE o # "Won" /\ phase' = "won"
    <3>1. PICK k \in 1 .. n : reports[k].outcome = "Won"
      BY <1>1, <2>3 DEF Logged
    <3> QED
      BY <1>2, <2>1, <3>1
  <2> QED
    BY <2>2, <2>3
<1> QED
  BY <1>5, <1>6, <1>7, <1>10, <1>11, <1>12 DEF Logged

LEMMA LoggedStep == IInv /\ Logged /\ [Next]_vars => Logged'
<1> SUFFICES ASSUME IInv, Logged, [Next]_vars PROVE Logged'
  OBVIOUS
<1>1. ASSUME NEW i \in Candidates, AttemptStep(i) \/ Vanish(i) PROVE Logged'
  <2>1. i \notin joined /\ CoordUnchanged /\ \A j \in Candidates \ {i} : result'[j] = result[j]
    BY <1>1 DEF IInv, TypeOK, Lifecycle, AttemptStep, Vanish, Dialled, FirstCheck, TakeSlot,
                SecondCheck, HandshakeOk, HandshakeFailed, FreeSlot, At, Goto, Finish
  <2>2. \A j \in joined : result'[j] = result[j]
    BY <2>1, NAssumption DEF IInv, TypeOK, Candidates
  <2> QED
    BY <2>1, <2>2 DEF CoordUnchanged, Logged, WonBefore
<1>2. CASE LaunchNext \/ Tick \/ UNCHANGED vars
  BY <1>2, SMTT(30) DEF LaunchNext, Tick, vars, attVars, Logged, WonBefore
<1>3. CASE GiveUp \/ Cancel
  BY <1>3 DEF GiveUp, Cancel, attVars, Logged, WonBefore
<1>4. ASSUME NEW i \in Candidates, JoinError(i) PROVE Logged'
  BY <1>4 DEF JoinError, attVars, Logged, WonBefore
<1>5. ASSUME NEW i \in Candidates, JoinWinner(i) \/ JoinFailed(i) \/ JoinLost(i) \/ DrainOne(i)
      PROVE  Logged'
  <2>1. i \notin joined /\ joined' = joined \cup {i} /\ result' = result /\ result[i] # "panic"
    BY <1>5 DEF JoinWinner, JoinFailed, JoinLost, DrainOne, Ready, Running, attVars
  <2>2. CASE JoinWinner(i)
    BY <2>1, <2>2, ReportLogged DEF JoinWinner
  <2>3. CASE JoinFailed(i)
    BY <2>1, <2>3, ReportLogged DEF JoinFailed
  <2>4. CASE JoinLost(i)
    <3>1. won = TRUE
      BY <2>4 DEF JoinLost, IInv, TypeOK, WinPublished
    <3> QED
      BY <2>1, <2>4, <3>1, ReportLogged DEF JoinLost
  <2>5. CASE DrainOne(i)
    <3>1. result[i] \in {"ok", "lost", "failed"}
      BY <2>5 DEF DrainOne, Ready, IInv, TypeOK, Results, Lifecycle
    <3>2. PICK o \in {"LateSuccess", "Lost", "Failed"} : Report(i, o, TRUE)
      BY <2>5, <3>1 DEF DrainOne
    <3> QED
      BY <2>1, <2>5, <3>2, ReportLogged DEF DrainOne
  <2> QED
    BY <1>5, <2>2, <2>3, <2>4, <2>5
<1> QED
  BY <1>1, <1>2, <1>3, <1>4, <1>5 DEF Next, CoordStep

\* The callback hears of every joined attempt that left a result exactly once,
\* of a vanished one never, and `after_win` agrees with the order of the calls.
THEOREM ReportedOnceHolds == Spec => []ReportedOnce
<1>1. Init => Logged
  BY DEF Init, Logged
<1>2. ASSUME IInv, Logged PROVE ReportedOnce
  <2>1. ASSUME NEW i \in Candidates
        PROVE  Cardinality({k \in 1 .. Len(reports) : reports[k].index = i})
                  = IF i \in joined /\ result[i] # "panic" THEN 1 ELSE 0
    <3> DEFINE K == {k \in 1 .. Len(reports) : reports[k].index = i}
    <3>1. CASE i \in joined /\ result[i] # "panic"
      <4>1. PICK k \in 1 .. Len(reports) : reports[k].index = i
        BY <1>2, <3>1 DEF Logged
      <4>2. K = {k}
        BY <1>2, <4>1 DEF Logged
      <4> QED
        BY <3>1, <4>2, FS_Singleton
    <3>2. CASE ~(i \in joined /\ result[i] # "panic")
      <4>1. K = {}
        BY <1>2, <3>2 DEF Logged
      <4> QED
        BY <3>2, <4>1, FS_EmptySet
    <3> QED
      BY <3>1, <3>2
  <2> QED
    BY <1>2, <2>1 DEF ReportedOnce, Logged, WonBefore
<1> QED
  BY <1>1, <1>2, LoggedStep, Invariant, PTL DEF Spec

-----------------------------------------------------------------------------
(* Refinement *)

LEMMA ContractInit == Init => Contract!Init
  BY DEF Init, Contract!Init, Fate, Verdict

\* A tunnel of the contract is a tunnel of the race, and `won` tells of it.
LEMMA ContractTunnels == IInv => (won <=> Contract!Tunnels # {})
  BY DEF IInv, WinPublished, Contract!Tunnels, Fate

\* A step that changes the fate of one candidate only settles it.
LEMMA ContractSettles ==
    ASSUME NEW i \in Candidates, NEW f, Fate(i) = "open", Fate(i)' = f,
           \A j \in Candidates \ {i} : Fate(j)' = Fate(j), Verdict' = Verdict
    PROVE  Contract!Settle(i, f)
<1>1. [j \in Candidates |-> Fate(j)'] = [[j \in Candidates |-> Fate(j)] EXCEPT ![i] = f]
  OBVIOUS
<1> QED
  BY <1>1 DEF Contract!Settle

\* Every step of an attempt settles its candidate or is invisible.
LEMMA ContractAttempt ==
    ASSUME IInv, NEW i \in Candidates, AttemptStep(i) \/ Vanish(i)
    PROVE  [Contract!Next]_Contract!vars
<1> USE DEF At, Goto, Finish, CoordUnchanged
<1> USE DEF IInv, TypeOK, Candidates
<1>1. /\ \A j \in Candidates \ {i} : att'[j] = att[j] /\ result'[j] = result[j]
      /\ phase' = phase
  BY DEF AttemptStep, Vanish, Dialled, FirstCheck, TakeSlot, SecondCheck, HandshakeOk,
         HandshakeFailed, FreeSlot
<1>2. (\A j \in Candidates \ {i} : Fate(j)' = Fate(j)) /\ Verdict' = Verdict
  BY <1>1 DEF Fate, Verdict
<1>3. CASE Fate(i)' = Fate(i)
  <2>1. [j \in Candidates |-> Fate(j)'] = [j \in Candidates |-> Fate(j)]
    BY <1>2, <1>3
  <2> QED
    BY <1>2, <2>1 DEF Contract!vars
<1>4. CASE HandshakeOk(i)
  <2>1. Fate(i) = "open" /\ Fate(i)' = "tunnel" /\ ~won
    BY <1>4 DEF HandshakeOk, Lifecycle, WinPublished, Fate
  <2> QED
    BY <2>1, <1>2, ContractTunnels, ContractSettles DEF Contract!Next, Contract!Succeed
<1>5. CASE att'[i] = "done" /\ att[i] \notin {"done", "publish"}
  <2>1. Fate(i) = "open"
    BY <1>5 DEF Lifecycle, Fate
  <2>2. \/ Fate(i)' = "failed"
        \/ Fate(i)' = "lost" /\ won
    BY <1>5 DEF Fate, AttemptStep, Vanish, Dialled, FirstCheck, TakeSlot, SecondCheck,
                HandshakeOk, HandshakeFailed, FreeSlot
  <2> QED
    BY <2>1, <2>2, <1>2, ContractTunnels, ContractSettles
       DEF Contract!Next, Contract!Fail, Contract!Lose
<1>6. \/ Fate(i)' = Fate(i) \/ HandshakeOk(i)
      \/ att'[i] = "done" /\ att[i] \notin {"done", "publish"}
  BY DEF Fate, AttemptStep, Vanish, Dialled, FirstCheck, TakeSlot, SecondCheck, HandshakeOk,
         HandshakeFailed, FreeSlot
<1> QED
  BY <1>3, <1>4, <1>5, <1>6

LEMMA ContractStep == IInv /\ [Next]_vars => [Contract!Next]_Contract!vars
<1> SUFFICES ASSUME IInv, [Next]_vars PROVE [Contract!Next]_Contract!vars
  OBVIOUS
<1> USE NAssumption DEF IInv, TypeOK, Candidates
<1>1. ASSUME NEW i \in Candidates, AttemptStep(i) \/ Vanish(i)
      PROVE  [Contract!Next]_Contract!vars
  BY <1>1, ContractAttempt
\* No other step changes a fate.
<1>2. ASSUME UNCHANGED result, \A j \in Candidates : att'[j] = "publish" <=> att[j] = "publish"
      PROVE  [j \in Candidates |-> Fate(j)'] = [j \in Candidates |-> Fate(j)]
  BY <1>2 DEF Fate
<1>3. CASE LaunchNext \/ Tick
  <2>1. /\ UNCHANGED <<result, phase>>
        /\ \A j \in Candidates : att'[j] = "publish" <=> att[j] = "publish"
    BY <1>3 DEF LaunchNext, Tick, Launch, Pending, Lifecycle
  <2> QED
    BY <2>1, <1>2 DEF Contract!vars, Verdict
<1>4. ASSUME NEW i \in Candidates, JoinWinner(i)
      PROVE  Contract!ReturnTunnel
  <2>1. UNCHANGED <<att, result>> /\ phase = "run" /\ phase' = "won" /\ result[i] = "ok"
    BY <1>4 DEF JoinWinner
  <2>2. Contract!Tunnels # {}
    BY <2>1, ContractTunnels DEF WinPublished
  <2> QED
    BY <2>1, <2>2, <1>2 DEF Contract!ReturnTunnel, Verdict
<1>5. CASE GiveUp
  <2>1. UNCHANGED <<att, result>> /\ phase = "run" /\ phase' = "failed" /\ launched = N
    BY <1>5 DEF GiveUp, attVars, Pending
  <2>2. ASSUME NEW j \in Candidates PROVE Fate(j) = "failed"
    <3>1. j \in joined /\ att[j] = "done" /\ result[j] # "none" /\ ~won
      BY <1>5, <2>1, EndKeeps DEF GiveUp, Running, Lifecycle, CoordKnows, attVars
    <3> QED
      BY <3>1 DEF WinPublished, Fate, Results
  <2> QED
    BY <2>1, <2>2, <1>2 DEF Contract!Next, Contract!ReturnError, Verdict
<1>6. CASE Cancel
  <2>1. UNCHANGED <<att, result>> /\ phase = "run" /\ phase' = "cancelled"
    BY <1>6 DEF Cancel, attVars
  <2> QED
    BY <2>1, <1>2 DEF Contract!Next, Contract!Cancel, Verdict
<1>7. ASSUME \/ UNCHANGED vars
             \/ \E i \in Candidates : JoinFailed(i) \/ JoinLost(i) \/ JoinError(i) \/ DrainOne(i)
      PROVE  [Contract!Next]_Contract!vars
  <2>1. UNCHANGED <<att, result, phase>>
    BY <1>7 DEF JoinFailed, JoinLost, JoinError, DrainOne, vars, attVars
  <2> QED
    BY <2>1, <1>2 DEF Contract!vars, Verdict
<1> QED
  BY <1>1, <1>3, <1>4, <1>5, <1>6, <1>7 DEF Next, CoordStep, Contract!Next

\* connect_hedged implements its contract: at most one candidate ever gets a
\* tunnel, none is given up without a try unless another one has it, and the
\* call fails only after every candidate did.
THEOREM Implements == Spec => ImplementsOneTunnel
<1>1. Init => Contract!Init
  BY ContractInit
<1> QED
  BY <1>1, ContractStep, Invariant, PTL DEF Spec, ImplementsOneTunnel, Contract!Spec
=============================================================================
