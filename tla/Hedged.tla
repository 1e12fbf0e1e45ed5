------------------------------- MODULE Hedged -------------------------------
(***************************************************************************)
(* connect_hedged: a coordinator launches connection attempts in candidate *)
(* order, a further one on every hedge tick that finds no handshake        *)
(* active, and returns the first tunnel.  Attempts are tasks: each dials   *)
(* its upstream, waits for the handshake slot, re-checks that nobody has   *)
(* won, and handshakes while it holds the slot.  After a win the remaining *)
(* attempts are reported by a detached drain.                              *)
(***************************************************************************)
EXTENDS Integers, Sequences, FiniteSets

CONSTANT N   \* number of candidates

ASSUME NAssumption == N \in Nat

Candidates == 1 .. N
Nobody == 0

VARIABLES
    hedging,   \* the call's hedge_delay is non-zero and the clock can represent it
    att,       \* where each attempt is
    result,    \* how it finished: "none", "ok", "failed", "lost", "panic"
    won,       \* race.won
    slot,      \* holder of race.handshake_slot, or Nobody
    launched,  \* candidates launched so far; the others are pending
    joined,    \* attempts whose result was taken out of the JoinSet
    phase,     \* the call: "run", "won", "failed", "cancelled"
    reports    \* the callback's reports, in order

attVars == <<att, result, won, slot>>
vars == <<attVars, hedging, launched, joined, phase, reports>>

Running == (1 .. launched) \ joined
Pending == launched < N

Init == /\ att = [i \in Candidates |-> "new"]
        /\ result = [i \in Candidates |-> "none"]
        /\ won = FALSE /\ slot = Nobody
        /\ launched = 0 /\ joined = {}
        /\ phase = "run" /\ reports = <<>> /\ hedging \in BOOLEAN

-----------------------------------------------------------------------------
(* One attempt *)

At(i, label) == i \in 1 .. launched /\ att[i] = label
Goto(i, label) == att' = [att EXCEPT ![i] = label]
Finish(i, r) == /\ Goto(i, "done")
                /\ result' = [result EXCEPT ![i] = r]
CoordUnchanged == UNCHANGED <<hedging, launched, joined, phase, reports>>

\* pool.acquire returned a stream or an error.
Dialled(i) ==
    /\ At(i, "dial")
    /\ \/ Goto(i, "ready") /\ result' = result
       \/ Finish(i, "failed")
    /\ UNCHANGED <<won, slot>> /\ CoordUnchanged

\* First look at race.won: the TCP-ready attempt gives up or joins the queue.
FirstCheck(i) ==
    /\ At(i, "ready")
    /\ IF won THEN Finish(i, "lost") ELSE Goto(i, "queued") /\ result' = result
    /\ UNCHANGED <<won, slot>> /\ CoordUnchanged

TakeSlot(i) ==
    /\ At(i, "queued") /\ slot = Nobody
    /\ slot' = i
    /\ Goto(i, "admitted")
    /\ UNCHANGED <<result, won>> /\ CoordUnchanged

\* Second look, under the slot: nobody handshakes after a win.
SecondCheck(i) ==
    /\ At(i, "admitted")
    /\ IF won THEN Finish(i, "lost") /\ slot' = Nobody
              ELSE Goto(i, "handshake") /\ UNCHANGED <<result, slot>>
    /\ won' = won /\ CoordUnchanged

HandshakeOkUnpublished(i) ==                            \* mutant
    /\ At(i, "handshake")
    /\ Goto(i, "publish")
    /\ UNCHANGED <<result, won, slot>> /\ CoordUnchanged
\* The win is published while the slot is still held.
HandshakeOk(i) ==
    /\ At(i, "handshake")
    /\ won' = TRUE
    /\ Goto(i, "publish")
    /\ UNCHANGED <<result, slot>> /\ CoordUnchanged

HandshakeFailedKeepsSlot(i) ==                          \* mutant
    /\ At(i, "handshake")
    /\ Finish(i, "failed")
    /\ UNCHANGED <<won, slot>> /\ CoordUnchanged
HandshakeFailed(i) ==
    /\ At(i, "handshake")
    /\ slot' = Nobody
    /\ Finish(i, "failed")
    /\ won' = won /\ CoordUnchanged

FreeSlot(i) ==
    /\ At(i, "publish")
    /\ slot' = Nobody
    /\ Finish(i, "ok")
    /\ won' = won /\ CoordUnchanged

\* The task panics or, once the call was dropped, is aborted at an await:
\* its slot guard is dropped and it leaves no result.
Vanish(i) ==
    /\ i \in 1 .. launched /\ att[i] \in {"dial", "queued", "handshake"}
    /\ slot' = IF slot = i THEN Nobody ELSE slot
    /\ Finish(i, "panic")
    /\ won' = won /\ CoordUnchanged

-----------------------------------------------------------------------------
(* The coordinator *)

Report(i, outcome, afterWin) ==
    reports' = Append(reports, [index |-> i, outcome |-> outcome, after_win |-> afterWin])

Launch == /\ launched' = launched + 1 /\ hedging' = hedging
          /\ att' = [att EXCEPT ![launched + 1] = "dial"]

\* Nothing is running: the next candidate starts at once.
LaunchNext ==
    /\ phase = "run" /\ Running = {} /\ Pending
    /\ Launch
    /\ UNCHANGED <<result, won, slot, joined, phase, reports>>

\* The hedge timer fires; `try_lock` finds no handshake in progress.
Tick ==
    /\ phase = "run" /\ Running # {} /\ hedging /\ Pending
    /\ slot = Nobody
    /\ Launch
    /\ UNCHANGED <<result, won, slot, joined, phase, reports>>

\* Nothing is running and nothing is pending: HedgeError.
GiveUp ==
    /\ phase = "run" /\ Running = {} /\ ~Pending
    /\ phase' = "failed"
    /\ UNCHANGED <<attVars, hedging, launched, joined, reports>>

Ready(i) == i \in Running /\ att[i] = "done"

\* join_next returned the winner.  The rest goes to the drain.
JoinWinner(i) ==
    /\ phase = "run" /\ Ready(i) /\ result[i] = "ok"
    /\ won' = TRUE
    /\ joined' = joined \cup {i}
    /\ Report(i, "Won", FALSE)
    /\ phase' = "won"
    /\ UNCHANGED <<att, result, slot, hedging, launched>>

JoinFailed(i) ==
    /\ phase = "run" /\ Ready(i) /\ result[i] = "failed"
    /\ joined' = joined \cup {i}
    /\ Report(i, "Failed", FALSE)
    /\ UNCHANGED <<attVars, hedging, launched, phase>>

JoinLostSilently(i) ==                                  \* mutant
    /\ phase = "run" /\ Ready(i) /\ result[i] = "lost"
    /\ joined' = joined \cup {i}
    /\ UNCHANGED <<attVars, hedging, launched, phase, reports>>
JoinLost(i) ==
    /\ phase = "run" /\ Ready(i) /\ result[i] = "lost"
    /\ joined' = joined \cup {i}
    /\ Report(i, "Lost", won)
    /\ UNCHANGED <<attVars, hedging, launched, phase>>

\* A join error: `continue` without a report, here or in the drain.
JoinError(i) ==
    /\ phase \in {"run", "won"} /\ Ready(i) /\ result[i] = "panic"
    /\ joined' = joined \cup {i}
    /\ UNCHANGED <<attVars, hedging, launched, phase, reports>>

\* The detached drain reports what finishes after the winner was returned.
DrainOne(i) ==
    /\ phase = "won" /\ Ready(i) /\ result[i] # "panic"
    /\ joined' = joined \cup {i}
    /\ Report(i, CASE result[i] = "ok"     -> "LateSuccess"
                   [] result[i] = "lost"   -> "Lost"
                   [] result[i] = "failed" -> "Failed", TRUE)
    /\ UNCHANGED <<attVars, hedging, launched, phase>>

\* The caller drops the future before a winner was joined.
Cancel ==
    /\ phase = "run"
    /\ phase' = "cancelled"
    /\ UNCHANGED <<attVars, hedging, launched, joined, reports>>

-----------------------------------------------------------------------------
AttemptStep(i) == \/ Dialled(i) \/ FirstCheck(i) \/ TakeSlot(i) \/ SecondCheck(i)
                  \/ HandshakeOk(i) \/ HandshakeFailed(i) \/ FreeSlot(i)

CoordStep == \/ LaunchNext \/ GiveUp
             \/ \E i \in Candidates : JoinWinner(i) \/ JoinFailed(i) \/ JoinLost(i)
                                      \/ JoinError(i) \/ DrainOne(i)

Next == \/ \E i \in Candidates : AttemptStep(i) \/ Vanish(i)
        \/ CoordStep \/ Tick \/ Cancel

Spec == Init /\ [][Next]_vars

\* The runtime polls ready tasks, every dial and handshake is bounded by a
\* timeout and the slot's mutex is fair.  Ticks and cancellation are not
\* assumed to happen.
Fairness == WF_vars(CoordStep) /\ \A i \in Candidates : WF_vars(AttemptStep(i))

FairSpec == Spec /\ Fairness

-----------------------------------------------------------------------------
(* Properties *)

AttStates == {"new", "dial", "ready", "queued", "admitted", "handshake", "publish", "done"}
Results   == {"none", "ok", "failed", "lost", "panic"}
Reportable == [index : Candidates, outcome : {"Won", "Failed", "Lost", "LateSuccess"},
               after_win : BOOLEAN]

\* Every variable has its type.
TypeOK == /\ att \in [Candidates -> AttStates]
          /\ result \in [Candidates -> Results]
          /\ hedging \in BOOLEAN /\ won \in BOOLEAN /\ slot \in Candidates \cup {Nobody}
          /\ launched \in 0 .. N /\ joined \subseteq 1 .. launched
          /\ phase \in {"run", "won", "failed", "cancelled"}
          /\ reports \in Seq(Reportable)

Talking == {i \in Candidates : att[i] \in {"handshake", "publish"}}
Tunnelled == {i \in Candidates : att[i] = "publish" \/ result[i] = "ok"}

\* The target never sees duplicate CONNECTs: at most one attempt talks to its
\* upstream at a time, and none talks once an attempt has its tunnel.
ExclusiveHandshake ==
    /\ \A i, j \in Talking : i = j
    /\ \A i \in Talking, j \in Tunnelled : i = j

\* At most one tunnel is ever established, so the drain's LateSuccess (a
\* tunnel opened and thrown away) is never reported.
OneTunnelOnly ==
    /\ \A i, j \in Tunnelled : i = j
    /\ \A k \in 1 .. Len(reports) : reports[k].outcome # "LateSuccess"

\* Every attempt is reported at most once, and exactly once when it completed
\* normally and was joined; an attempt that vanished is never reported.  The
\* winner is reported with after_win FALSE, every report after it with TRUE,
\* failures seen before it with FALSE, and a Lost report always with TRUE.
ReportedOnce ==
    /\ \A i \in Candidates :
          Cardinality({k \in 1 .. Len(reports) : reports[k].index = i})
              = IF i \in joined /\ result[i] # "panic" THEN 1 ELSE 0
    /\ \A k \in 1 .. Len(reports) :
          LET winnerSeen == \E m \in 1 .. (k - 1) : reports[m].outcome = "Won"
          IN  reports[k].after_win = (winnerSeen \/ reports[k].outcome = "Lost")

\* The error is returned only when every candidate was launched and none of
\* them opened a tunnel, and a winner that was returned did open one.
VerdictIsRight ==
    /\ phase = "failed" => launched = N /\ Tunnelled = {} /\ \A i \in Candidates : result[i] # "lost"
    /\ phase = "won" => \E i \in joined : result[i] = "ok"

\* Sequential operation: without hedging at most one attempt is running.
SequentialWithoutHedging == ~hedging => Cardinality(Running) <= 1

\* The call returns, and after it has, every launched attempt is settled:
\* its socket is closed or handed out and its result taken.
CallSettles == /\ phase = "run" ~> phase # "run"
               /\ phase = "won" ~> Running = {}

\* The contract: see OneTunnel.  A vanished attempt counts as failed.
Fate(i) == IF att[i] = "publish" \/ result[i] = "ok" THEN "tunnel"
           ELSE CASE result[i] = "none" -> "open"
                  [] result[i] = "lost" -> "lost"
                  [] OTHER -> "failed"
Verdict == CASE phase = "run" -> "none" [] phase = "won" -> "tunnel"
             [] phase = "failed" -> "error" [] phase = "cancelled" -> "cancelled"
Contract == INSTANCE OneTunnel WITH fate <- [i \in Candidates |-> Fate(i)], verdict <- Verdict

\* connect_hedged implements the one-tunnel contract.
ImplementsOneTunnel == Contract!Spec
=============================================================================
