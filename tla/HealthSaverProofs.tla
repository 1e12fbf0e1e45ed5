------------------------- MODULE HealthSaverProofs -------------------------
(***************************************************************************)
(* Proofs about HealthSaver, for any set of processes, of pictures and of  *)
(* settings and any number of crashes: writers exclude one another, the    *)
(* health file is always whole, and what a round skips is on disk.         *)
(*                                                                         *)
(* The first two need that no write outlasts the lock of its process while *)
(* another process is there to take it: `NoSlowHandover`.  The run         *)
(* HealthSaver_handover shows what happens otherwise.                      *)
(*                                                                         *)
(* The last part is about Server, whose shutdown waits for the saver.      *)
(***************************************************************************)
EXTENDS HealthSaver, Server, Sequences, FiniteSetTheorems, TLAPS

\* Writes that may outlast FINISH_BUDGET are met only by a process alone.
NoSlowHandover == setting.slow => \A p, q \in setting.instances : p = q

(* The parts of the inductive invariant. *)

At(p, r) == writer[p][r].at

\* Where the saver task and its blocking writes can be, given the process: a
\* write is awaited by its task or outlives it, and the two never coexist.
Lifecycle == \A p \in Procs :
    /\ p \notin setting.instances => pc[p] = "off"
    /\ pc[p] \in {"off", "lock", "clean"} => loop[p] = "none"
    /\ pc[p] = "stopping" => loop[p] # "none"
    /\ pc[p] = "final" => loop[p] = "done"
    /\ pc[p] = "teardown" => loop[p] \in {"none", "done"}
    /\ stop[p] \/ loop[p] = "done" => pc[p] \in {"stopping", "final", "teardown"}
    /\ At(p, "round") \in Busy => \/ loop[p] = "saving"
                                  \/ loop[p] = "done" /\ pc[p] = "teardown"
    /\ At(p, "final") \in Busy => /\ pc[p] \in {"final", "teardown"}
                                  /\ loop[p] = "done" /\ At(p, "round") \notin Busy

\* A process keeps the lock from before its saver starts until `finish` ends.
LockKept == \A p \in Procs :
    (pc[p] \in {"clean", "stopping", "final"} \/ loop[p] \in {"wait", "saving"}) => lock = p

\* Without slow writes, none is left when `finish` gives the lock back.
DrainedAtTeardown == \A p \in Procs : ~setting.slow /\ pc[p] = "teardown" => ~Writing(p)

\* A write past the creation of its temp file has that very file at its path.
TempIsOurs == \A p \in Procs, r \in Roles :
    At(p, r) \in {"fill", "rename"} =>
        /\ tmp.by = p /\ tmp.role = r /\ tmp.picture = writer[p][r].picture
        /\ At(p, r) = "rename" => tmp.whole

\* What the cells can be after a start from a file with this picture.
MadeOf(v) == IF v = "none" THEN {"none"} ELSE {v} \cup Restores[v]

\* The baseline of a saver alone on its file is what the file holds or was
\* restored from it; a round that succeeded is on disk before it becomes the
\* baseline.
BaselineOnDisk == \A p \in Procs :
    setting.instances = {p} /\ ~setting.syncFails =>
        /\ pc[p] \in {"lock", "clean"} \/ loop[p] = "wait" => last[p] \in MadeOf(file.picture)
        /\ loop[p] = "saving" =>
               /\ At(p, "round") # "none"
               /\ At(p, "round") = "ok" => file.picture = writer[p]["round"].picture
               /\ At(p, "round") # "ok" => last[p] \in MadeOf(file.picture)

IInv == /\ TypeOK /\ Lifecycle /\ LockKept /\ DrainedAtTeardown
        /\ NoSlowHandover => TempIsOurs /\ FileIsWhole /\ BaselineOnDisk

WriteStates == [at : Busy \cup {"ok", "err"}, picture : Pictures]

-----------------------------------------------------------------------------
(* What the helpers of the actions do. *)

Writes == [Procs -> [Roles -> WriteStates \cup {NoWrite}]]
SetWrite(p, r, w) == writer' = [writer EXCEPT ![p][r] = w]
OnlyWrite(p, r, w) == /\ writer' \in Writes
                      /\ \A q \in Procs, s \in Roles :
                             writer'[q][s] = IF q = p /\ s = r THEN w ELSE writer[q][s]

\* Changing one write leaves the others alone.
LEMMA WriterUpdate ==
    ASSUME TypeOK, NEW p \in Procs, NEW r \in Roles, NEW w \in WriteStates \cup {NoWrite},
           SetWrite(p, r, w)
    PROVE  OnlyWrite(p, r, w)
  BY DEF TypeOK, WriteStates, Writes, SetWrite, OnlyWrite

\* A blocking write moves on: it keeps its picture.
LEMMA WriterMoves ==
    ASSUME TypeOK, NEW p \in Procs, NEW r \in Roles, NEW to \in Busy \cup {"ok", "err"},
           At(p, r) \in Busy, writer' = [writer EXCEPT ![p][r].at = to]
    PROVE  OnlyWrite(p, r, [at |-> to, picture |-> writer[p][r].picture])
<1> DEFINE w == [at |-> to, picture |-> writer[p][r].picture]
<1>1. writer[p][r] \in WriteStates
  BY DEF TypeOK, WriteStates, At, NoWrite, Busy
<1>2. [writer[p][r] EXCEPT !.at = to] = w
  BY <1>1 DEF WriteStates
<1>3. SetWrite(p, r, w)
  BY <1>2 DEF SetWrite
<1>4. w \in WriteStates \cup {NoWrite}
  BY <1>1 DEF WriteStates
<1> HIDE DEF w
<1>5. OnlyWrite(p, r, w)
  BY <1>3, <1>4, WriterUpdate
<1> QED
  BY <1>5 DEF w

\* The five steps of a blocking write: where it was, where it goes, what it does.
WriteEffect(p, r, to) ==
    \/ At(p, r) = "reclaim" /\ to = "create" /\ tmp' = NoFile /\ file' = file
    \/ /\ At(p, r) = "create" /\ to = "fill" /\ file' = file
       /\ tmp' = [by |-> p, role |-> r, picture |-> writer[p][r].picture, whole |-> FALSE]
    \/ /\ At(p, r) = "fill" /\ to = "rename"
       /\ tmp' = Filled(p, r, tmp) /\ file' = Filled(p, r, file)
    \/ /\ At(p, r) = "rename" /\ file' = tmp /\ tmp' = NoFile
       /\ to = "ok" \/ (to = "err" /\ setting.syncFails)
    \/ /\ to = "err" /\ file' = file
       /\ \/ At(p, r) \in {"reclaim", "create"} /\ tmp' = tmp
          \/ At(p, r) \in {"fill", "rename"} /\ tmp' = NoFile

LEMMA WriteMoves ==
    ASSUME TypeOK, NEW p \in Procs, NEW r \in Roles, WriteStep(p, r) \/ WriteFails(p, r)
    PROVE  /\ At(p, r) \in Busy /\ UNCHANGED <<lock, procVars, world>>
           /\ \E to \in Busy \cup {"ok", "err"} :
                /\ OnlyWrite(p, r, [at |-> to, picture |-> writer[p][r].picture])
                /\ WriteEffect(p, r, to)
<1>1. At(p, r) \in Busy /\ UNCHANGED <<lock, procVars, world>>
  BY DEF WriteStep, Reclaim, Create, Fill, Commit, WriteFails, WriterGoto, At, Busy
<1>2. \E to \in Busy \cup {"ok", "err"} :
        writer' = [writer EXCEPT ![p][r].at = to] /\ WriteEffect(p, r, to)
  BY DEF WriteStep, Reclaim, Create, Fill, Commit, WriteFails, WriterGoto, At, Busy, WriteEffect
<1> QED
  BY <1>1, <1>2, WriterMoves

\* A process that is gone has no writes.
LEMMA GoneWrites ==
    ASSUME TypeOK, NEW p \in Procs, writer' = [writer EXCEPT ![p] = [r \in Roles |-> NoWrite]]
    PROVE  /\ writer' \in Writes
           /\ \A q \in Procs, s \in Roles :
                  writer'[q][s] = IF q = p THEN NoWrite ELSE writer[q][s]
  BY DEF TypeOK, WriteStates, Writes

-----------------------------------------------------------------------------
\* Type correctness of the initial state and of every step.
LEMMA TypeInit == Init => TypeOK
  BY HealthAssumption DEF Init, TypeOK, Inodes, OldFiles, NoFile, NoWrite, Roles

LEMMA TypeStep == TypeOK /\ [Next]_vars => TypeOK'
<1> SUFFICES ASSUME TypeOK, [Next]_vars PROVE TypeOK'
  OBVIOUS
<1> USE HealthAssumption, HealthNamesAssumption
<1>w. writer \in [Procs -> [Roles -> WriteStates \cup {NoWrite}]]
  BY DEF TypeOK, WriteStates
<1>r. "round" \in Roles /\ "final" \in Roles /\ NoWrite \in WriteStates \cup {NoWrite}
  BY DEF Roles
<1>i. file \in Inodes /\ tmp \in Inodes /\ NoFile \in Inodes
  BY DEF TypeOK, Inodes, OldFiles
<1>s. Writes = [Procs -> [Roles -> [at : Busy \cup {"ok", "err"}, picture : Pictures]
                                      \cup {NoWrite}]]
  BY DEF Writes, WriteStates
<1>1. ASSUME NEW p \in Procs, Resume(p) PROVE TypeOK'
  <2>1. Readable => file.picture \in Pictures
    BY <1>i DEF Readable, Inodes, OldFiles, NoFile
  <2>2. PICK v \in IF Readable THEN Restores[file.picture] ELSE {Fresh} :
            /\ picture' = [picture EXCEPT ![p] = v]
            /\ last' = [last EXCEPT ![p] = IF Readable THEN v ELSE "none"]
    BY <1>1 DEF Resume
  <2>3. v \in Pictures
    BY <2>1, <2>2, RestoresAssumption
  <2> QED
    BY <1>1, <2>2, <2>3 DEF Resume, TypeOK, Goto, diskVars, world
<1>2. ASSUME NEW p \in Procs, StartStep(p) \/ Change(p) \/ LoopStops(p) \/ Finish(p) PROVE TypeOK'
  <2>1. CASE StartStep(p)
    <3>1. CASE Lock(p)
      BY <3>1 DEF Lock, TypeOK, Goto, diskVars, world
    <3>2. CASE LockFails(p)
      BY <3>2 DEF LockFails, TypeOK, Goto, diskVars, world
    <3>3. CASE SpawnSaver(p)
      BY <3>3, <1>i DEF SpawnSaver, TypeOK, Goto, diskVars, world
    <3> QED
      BY <2>1, <3>1, <3>2, <3>3 DEF StartStep
  <2>2. CASE Change(p)
    BY <2>2 DEF Change, TypeOK, diskVars, world
  <2>3. CASE LoopStops(p)
    BY <2>3 DEF LoopStops, TypeOK, diskVars, world
  <2>4. CASE Finish(p)
    BY <2>4 DEF Finish, TypeOK, Goto, diskVars, world
  <2> QED
    BY <1>2, <2>1, <2>2, <2>3, <2>4
<1>3. ASSUME NEW p \in Procs, Round(p) \/ SaveFinal(p) PROVE TypeOK'
  <2>1. \E r \in Roles : StartWrite(p, r)
    BY <1>3, <1>r DEF Round, SaveFinal
  <2>2. [at |-> "reclaim", picture |-> picture[p]] \in WriteStates
    BY DEF TypeOK, WriteStates, Busy
  <2>3. writer' \in Writes
    BY <2>1, <2>2, WriterUpdate DEF StartWrite, SetWrite, OnlyWrite
  <2>4. CASE Round(p)
    BY <2>3, <2>4, <1>s DEF Round, TypeOK, Goto, diskVars, world
  <2>5. CASE SaveFinal(p)
    BY <2>3, <2>5, <1>s DEF SaveFinal, TypeOK, Goto, diskVars, world
  <2> QED
    BY <1>3, <2>4, <2>5
<1>4. ASSUME NEW p \in Procs, RoundDone(p) PROVE TypeOK'
  <2>1. writer' \in Writes
    BY <1>4, <1>r, WriterUpdate DEF RoundDone, SetWrite, OnlyWrite
  <2>2. writer[p]["round"].at \in {"ok", "err"} => writer[p]["round"].picture \in Pictures
    BY <1>w, <1>r DEF WriteStates, NoWrite
  <2>3. last' \in [Procs -> Pictures \cup {"none"}]
    BY <1>4, <2>2 DEF RoundDone, TypeOK
  <2> QED
    BY <1>4, <2>1, <2>3, <1>s DEF RoundDone, TypeOK, diskVars, world
<1>5. ASSUME NEW p \in Procs, NEW r \in Roles, WriteStep(p, r) \/ WriteFails(p, r) PROVE TypeOK'
  <2>1. writer' \in Writes
    BY <1>5, WriteMoves DEF OnlyWrite
  <2>2. writer[p][r].picture \in Pictures
    <3>1. At(p, r) \in Busy
      BY <1>5, WriteMoves
    <3> QED
      BY <3>1, <1>w DEF At, WriteStates, NoWrite, Busy
  <2>3. [by |-> p, role |-> r, picture |-> writer[p][r].picture, whole |-> FALSE] \in Inodes
    BY <2>2 DEF Inodes
  <2>4. \A i \in Inodes : Filled(p, r, i) \in Inodes
    <3> SUFFICES ASSUME NEW i \in Inodes, i.by = p PROVE [i EXCEPT !.whole = TRUE] \in Inodes
      BY DEF Filled
    <3>1. i \in [by : Procs, role : Roles, picture : Pictures, whole : BOOLEAN]
      BY DEF Inodes, OldFiles, NoFile
    <3> QED
      BY <3>1 DEF Inodes
  <2>5. tmp' \in Inodes /\ file' \in Inodes
    BY <1>5, <1>i, <2>3, <2>4, WriteMoves DEF WriteEffect
  <2> QED
    BY <1>5, <2>1, <2>5, <1>s, WriteMoves DEF TypeOK, procVars, world
<1>6. ASSUME NEW p \in Procs, StopTimesOut(p) \/ FinalEnds(p) PROVE TypeOK'
  BY <1>6 DEF StopTimesOut, FinalEnds, Unlock, Goto, TypeOK, world
<1>7. ASSUME NEW p \in Procs, Exit(p) \/ Crash(p) PROVE TypeOK'
  <2>1. Gone(p) /\ setting' = setting /\ crashes' \in 0 .. MaxCrashes
    BY <1>7 DEF Exit, Crash, world, TypeOK
  <2>2. writer' \in Writes
    BY <2>1, GoneWrites DEF Gone
  <2> QED
    BY <2>1, <2>2, <1>s DEF Gone, Unlock, Goto, TypeOK
<1>8. CASE UNCHANGED vars
  BY <1>8 DEF vars, diskVars, procVars, world, TypeOK
<1> QED
  BY <1>1, <1>2, <1>3, <1>4, <1>5, <1>6, <1>7, <1>8 DEF Next, LoopStep, FinishStep
-----------------------------------------------------------------------------
Control == Lifecycle /\ LockKept /\ DrainedAtTeardown

\* The control invariant talks about one process at a time.
LEMMA ControlInit == Init => Control
  BY HealthNamesAssumption
     DEF Init, Control, Lifecycle, LockKept, DrainedAtTeardown, Writing, At, Roles, NoWrite, Busy

\* Start-up, the health cells, and a saver round's begin and end.
LEMMA LoopKeepsControl ==
    ASSUME TypeOK, Control, NEW p \in Procs,
           Resume(p) \/ StartStep(p) \/ Change(p) \/ LoopStep(p) \/ Finish(p)
    PROVE  Control'
<1> USE HealthAssumption, HealthNamesAssumption DEF Control
<1>1. CASE Resume(p) \/ Change(p) \/ LockFails(p) \/ LoopStops(p) \/ Finish(p)
  <2>1. UNCHANGED <<writer, lock, setting>>
    BY <1>1 DEF Resume, Change, LockFails, LoopStops, Finish, diskVars, world
  <2>2. ASSUME NEW q \in Procs, q # p
        PROVE  pc'[q] = pc[q] /\ loop'[q] = loop[q] /\ stop'[q] = stop[q]
    BY <1>1, <2>2 DEF Resume, Change, LockFails, LoopStops, Finish, Goto, TypeOK
  <2>3. Lifecycle'
    <3>1. CASE Resume(p) \/ LockFails(p)
      BY <3>1, <2>1, <2>2 DEF Resume, LockFails, Goto, TypeOK, Lifecycle, At
    <3>2. CASE Change(p)
      BY <3>2, <2>1 DEF Change, Lifecycle, At
    <3>3. CASE LoopStops(p)
      BY <3>3, <2>1, <2>2 DEF LoopStops, TypeOK, Lifecycle, At
    <3>4. CASE Finish(p)
      BY <3>4, <2>1, <2>2 DEF Finish, Goto, TypeOK, Lifecycle, At
    <3> QED
      BY <1>1, <3>1, <3>2, <3>3, <3>4
  <2>4. LockKept'
    BY <1>1, <2>1, <2>2 DEF Resume, Change, LockFails, LoopStops, Finish, Goto, TypeOK, LockKept,
                            Lifecycle
  <2>5. DrainedAtTeardown'
    BY <1>1, <2>1, <2>2 DEF Resume, Change, LockFails, LoopStops, Finish, Goto, TypeOK,
                            DrainedAtTeardown, Lifecycle, Writing, At, Roles
  <2> QED
    BY <2>3, <2>4, <2>5
<1>2. CASE Lock(p) \/ SpawnSaver(p)
  <2>1. UNCHANGED <<writer, stop, setting>>
    BY <1>2 DEF Lock, SpawnSaver, world
  <2>2. ASSUME NEW q \in Procs, q # p PROVE pc'[q] = pc[q] /\ loop'[q] = loop[q]
    BY <1>2, <2>2 DEF Lock, SpawnSaver, Goto, TypeOK
  <2>3. Lifecycle'
    BY <1>2, <2>1, <2>2 DEF Lock, SpawnSaver, Goto, TypeOK, Lifecycle, At
  <2>4. LockKept'
    BY <1>2, <2>1, <2>2 DEF Lock, SpawnSaver, Goto, TypeOK, LockKept, Lifecycle
  <2>5. DrainedAtTeardown'
    BY <1>2, <2>1, <2>2 DEF Lock, SpawnSaver, Goto, TypeOK, DrainedAtTeardown, Writing
  <2> QED
    BY <2>3, <2>4, <2>5
<1>3. CASE Round(p) \/ RoundDone(p)
  <2>1. UNCHANGED <<pc, stop, lock, setting>>
    BY <1>3 DEF Round, RoundDone, diskVars, world
  <2>2. /\ loop[p] \in {"wait", "saving"} /\ loop'[p] \in {"wait", "saving"}
        /\ \A q \in Procs \ {p} : loop'[q] = loop[q]
    BY <1>3 DEF Round, RoundDone, TypeOK
  <2>3. /\ loop'[p] = "wait" => At(p, "round")' \notin Busy
        /\ \A q \in Procs, r \in Roles : ~(q = p /\ r = "round") => writer'[q][r] = writer[q][r]
    <3>1. CASE Round(p)
      <4>1. [at |-> "reclaim", picture |-> picture[p]] \in WriteStates \cup {NoWrite}
        BY DEF TypeOK, WriteStates, Busy
      <4> QED
        BY <3>1, <4>1, WriterUpdate DEF Round, StartWrite, Roles, SetWrite, OnlyWrite, TypeOK
    <3>2. CASE RoundDone(p)
      BY <3>2, WriterUpdate DEF RoundDone, SetWrite, OnlyWrite, Roles, At, NoWrite, Busy
    <3> QED
      BY <1>3, <3>1, <3>2
  <2>4. Lifecycle'
    BY <2>1, <2>2, <2>3 DEF Lifecycle, At, Roles
  <2>5. LockKept'
    BY <2>1, <2>2 DEF LockKept
  <2>6. DrainedAtTeardown'
    <3>1. pc[p] # "teardown"
      BY <2>2 DEF Lifecycle
    <3> QED
      BY <2>1, <2>3, <3>1 DEF DrainedAtTeardown, Writing
  <2> QED
    BY <2>4, <2>5, <2>6
<1> QED
  BY <1>1, <1>2, <1>3 DEF StartStep, LoopStep
\* A blocking write that moves on stays what it was, or ends.
LEMMA WriteKeepsControl ==
    ASSUME TypeOK, Control, NEW p \in Procs, NEW r \in Roles, WriteStep(p, r) \/ WriteFails(p, r)
    PROVE  Control'
<1> USE DEF Control
<1>1. UNCHANGED <<pc, loop, stop, lock, setting>> /\ At(p, r) \in Busy
  BY WriteMoves DEF procVars, world
<1>2. \A q \in Procs, s \in Roles : At(q, s)' \in Busy => At(q, s) \in Busy
  <2>1. PICK to \in Busy \cup {"ok", "err"} :
          OnlyWrite(p, r, [at |-> to, picture |-> writer[p][r].picture])
    BY WriteMoves
  <2>2. \A q \in Procs, s \in Roles : ~(q = p /\ s = r) => writer'[q][s] = writer[q][s]
    BY <2>1 DEF OnlyWrite
  <2> QED
    BY <1>1, <2>2 DEF At
<1>3. Lifecycle'
  BY <1>1, <1>2 DEF Lifecycle, Roles
<1>4. LockKept'
  BY <1>1 DEF LockKept
<1>5. DrainedAtTeardown'
  BY <1>1, <1>2 DEF DrainedAtTeardown, Writing, At
<1> QED
  BY <1>3, <1>4, <1>5

\* The shutdown protocol, the exit and a crash.
LEMMA FinishKeepsControl ==
    ASSUME TypeOK, Control, NEW p \in Procs, FinishStep(p) \/ Crash(p)
    PROVE  Control'
<1> USE HealthAssumption, HealthNamesAssumption DEF Control
<1>1. CASE SaveFinal(p)
  <2>1. /\ UNCHANGED <<loop, stop, lock, setting>> /\ pc[p] = "stopping" /\ loop[p] = "done"
        /\ pc' = [pc EXCEPT ![p] = "final"]
    BY <1>1 DEF SaveFinal, Goto, diskVars, world
  <2>2. [at |-> "reclaim", picture |-> picture[p]] \in WriteStates \cup {NoWrite}
    BY DEF TypeOK, WriteStates, Busy
  <2>3. \A q \in Procs, r \in Roles : ~(q = p /\ r = "final") => writer'[q][r] = writer[q][r]
    BY <1>1, <2>2, WriterUpdate DEF SaveFinal, StartWrite, SetWrite, OnlyWrite, Roles
  <2>4. Lifecycle'
    BY <2>1, <2>3 DEF Lifecycle, At, Roles, TypeOK
  <2>5. LockKept'
    BY <2>1 DEF LockKept, TypeOK
  <2>6. DrainedAtTeardown'
    BY <2>1, <2>3 DEF DrainedAtTeardown, Writing, TypeOK
  <2> QED
    BY <2>4, <2>5, <2>6
<1>2. CASE StopTimesOut(p) \/ FinalEnds(p)
  <2>1. /\ UNCHANGED <<stop, writer, setting>> /\ pc' = [pc EXCEPT ![p] = "teardown"]
        /\ loop' = [loop EXCEPT ![p] = "done"] /\ lock' = IF lock = p THEN "nobody" ELSE lock
        /\ pc[p] \in {"stopping", "final"} /\ (setting.slow \/ ~Writing(p))
    BY <1>2 DEF StopTimesOut, FinalEnds, Unlock, Goto, world, Lifecycle, TypeOK
  <2>2. Lifecycle'
    BY <2>1 DEF Lifecycle, At, TypeOK
  <2>3. LockKept'
    BY <2>1 DEF LockKept, TypeOK
  <2>4. DrainedAtTeardown'
    BY <2>1 DEF DrainedAtTeardown, Writing, TypeOK
  <2> QED
    BY <2>2, <2>3, <2>4
<1>3. CASE Exit(p) \/ Crash(p)
  <2>1. Gone(p) /\ setting' = setting
    BY <1>3 DEF Exit, Crash, world
  <2>2. /\ pc' = [pc EXCEPT ![p] = "off"] /\ loop' = [loop EXCEPT ![p] = "none"]
        /\ stop' = [stop EXCEPT ![p] = FALSE] /\ lock' = IF lock = p THEN "nobody" ELSE lock
    BY <2>1 DEF Gone, Goto, Unlock
  <2>3. \A q \in Procs, s \in Roles : writer'[q][s] = IF q = p THEN NoWrite ELSE writer[q][s]
    BY <2>1, GoneWrites DEF Gone
  <2>4. \A s \in Roles : At(p, s)' \notin Busy
    BY <2>3 DEF At, NoWrite, Busy
  <2>5. Lifecycle'
    BY <2>1, <2>2, <2>3, <2>4 DEF Lifecycle, At, Roles, TypeOK
  <2>6. LockKept'
    BY <2>1, <2>2 DEF LockKept, TypeOK
  <2>7. DrainedAtTeardown'
    BY <2>1, <2>2, <2>3 DEF DrainedAtTeardown, Writing, TypeOK
  <2> QED
    BY <2>5, <2>6, <2>7
<1> QED
  BY <1>1, <1>2, <1>3 DEF FinishStep
LEMMA ControlStep == TypeOK /\ Control /\ [Next]_vars => Control'
<1> SUFFICES ASSUME TypeOK, Control, [Next]_vars PROVE Control'
  OBVIOUS
<1>1. CASE UNCHANGED vars
  BY <1>1 DEF vars, diskVars, procVars, world, Control, Lifecycle, LockKept, DrainedAtTeardown,
              Writing, At
<1> QED
  BY <1>1, LoopKeepsControl, WriteKeepsControl, FinishKeepsControl DEF Next

-----------------------------------------------------------------------------
\* The heart of the argument: unless a slow write meets another process, at
\* most one write is in flight, in all processes together.
LEMMA OneWriter ==
    ASSUME TypeOK, Control, NoSlowHandover,
           NEW p \in Procs, NEW r \in Roles, At(p, r) \in Busy,
           NEW q \in Procs, NEW s \in Roles, At(q, s) \in Busy
    PROVE  p = q /\ r = s
<1> USE HealthAssumption DEF Control
<1>1. p \in setting.instances /\ q \in setting.instances
  <2>1. pc[p] # "off" /\ pc[q] # "off"
    BY DEF Lifecycle, Roles
  <2> QED
    BY <2>1 DEF Lifecycle
<1>2. ASSUME ~setting.slow, NEW u \in {p, q} PROVE lock = u
  <2>1. Writing(u)
    BY DEF Writing, At
  <2>2. pc[u] # "teardown"
    BY <1>2, <2>1 DEF DrainedAtTeardown
  <2>3. pc[u] = "final" \/ loop[u] = "saving"
    BY <2>2 DEF Lifecycle, Roles
  <2> QED
    BY <2>3 DEF LockKept
<1>3. p = q
  BY <1>1, <1>2 DEF NoSlowHandover
<1> QED
  BY <1>3 DEF Lifecycle, Roles

Disk == TempIsOurs /\ FileIsWhole /\ BaselineOnDisk

\* A write in flight is a started process's, and its temp file is a real one.
LEMMA BusyFacts ==
    ASSUME TypeOK, Control, NEW p \in Procs, NEW r \in Roles, At(p, r) \in Busy
    PROVE  /\ p \in setting.instances /\ pc[p] \notin {"off", "lock", "clean"}
           /\ loop[p] \in {"saving", "done"} /\ (r = "final" => loop[p] = "done")
           /\ writer[p][r] \in WriteStates
<1>1. pc[p] \notin {"off", "lock", "clean"} /\ loop[p] \in {"saving", "done"}
  BY DEF Control, Lifecycle, Roles
<1>2. p \in setting.instances /\ (r = "final" => loop[p] = "done")
  BY <1>1 DEF Control, Lifecycle
<1>3. writer[p][r] \in WriteStates
  BY DEF TypeOK, WriteStates, At, NoWrite, Busy
<1> QED
  BY <1>1, <1>2, <1>3

LEMMA DiskInit == Init => Disk
  BY DEF Init, Disk, TempIsOurs, FileIsWhole, BaselineOnDisk, At, Roles, NoWrite, NoFile, OldFiles

\* The steps of the one write in flight.
LEMMA WriteKeepsDisk ==
    ASSUME TypeOK, Control, Disk, NoSlowHandover, NEW p \in Procs, NEW r \in Roles,
           WriteStep(p, r) \/ WriteFails(p, r)
    PROVE  Disk'
<1> USE HealthAssumption, HealthNamesAssumption DEF Disk
<1>1. /\ UNCHANGED <<pc, loop, last, setting>> /\ At(p, r) \in Busy
      /\ tmp \in Inodes /\ file \in Inodes
  BY WriteMoves DEF procVars, world, TypeOK
<1>2. PICK to \in Busy \cup {"ok", "err"} :
        /\ OnlyWrite(p, r, [at |-> to, picture |-> writer[p][r].picture])
        /\ WriteEffect(p, r, to)
  BY WriteMoves
<1>3. \A q \in Procs, s \in Roles :
        writer'[q][s] = IF q = p /\ s = r THEN [at |-> to, picture |-> writer[p][r].picture]
                                          ELSE writer[q][s]
  BY <1>2 DEF OnlyWrite
<1>4. \A q \in Procs, s \in Roles : At(q, s) \in Busy => q = p /\ s = r
  BY <1>1, OneWriter
<1>5. At(p, r) \in {"fill", "rename"} =>
        /\ tmp.by = p /\ tmp.role = r /\ tmp.picture = writer[p][r].picture
        /\ At(p, r) = "rename" => tmp.whole
  BY DEF TempIsOurs
<1>f. \A i \in Inodes : /\ Filled(p, r, i).by = i.by /\ Filled(p, r, i).role = i.role
                        /\ Filled(p, r, i).picture = i.picture
                        /\ i.whole \/ (i.by = p /\ i.role = r) => Filled(p, r, i).whole
  <2> SUFFICES ASSUME NEW i \in Inodes, i.by = p
               PROVE  LET j == [i EXCEPT !.whole = TRUE] IN
                      j.by = i.by /\ j.role = i.role /\ j.picture = i.picture /\ j.whole
    BY DEF Filled
  <2>1. i \in [by : Procs, role : Roles, picture : Pictures, whole : BOOLEAN]
    BY DEF Inodes, OldFiles, NoFile
  <2> QED
    BY <2>1
<1>6. /\ file'.whole
      /\ At(p, r) = "rename" /\ to = "ok" => file'.picture = writer[p][r].picture
      /\ (At(p, r) = "rename" /\ to = "ok") \/ setting.syncFails \/ file'.picture = file.picture
  <2>1. Filled(p, r, file).whole /\ Filled(p, r, file).picture = file.picture
    BY <1>1, <1>f DEF FileIsWhole
  <2> QED
    BY <1>2, <1>5, <2>1 DEF FileIsWhole, WriteEffect
<1>7. TempIsOurs'
  <2> SUFFICES ASSUME NEW q \in Procs, NEW s \in Roles, At(q, s)' \in {"fill", "rename"}
               PROVE  /\ tmp'.by = q /\ tmp'.role = s /\ tmp'.picture = writer'[q][s].picture
                      /\ At(q, s)' = "rename" => tmp'.whole
    BY DEF TempIsOurs
  <2>1. q = p /\ s = r
    BY <1>3, <1>4 DEF At, Busy
  <2>2. At(q, s)' = to /\ writer'[q][s].picture = writer[p][r].picture
    BY <2>1, <1>3 DEF At
  <2>3. CASE to = "fill"
    BY <1>2, <2>1, <2>2, <2>3 DEF WriteEffect
  <2>4. CASE to = "rename"
    BY <1>1, <1>2, <1>5, <1>f, <2>1, <2>2, <2>4 DEF WriteEffect
  <2> QED
    BY <2>2, <2>3, <2>4
<1>8. BaselineOnDisk'
  <2> SUFFICES ASSUME NEW q \in Procs, setting.instances = {q}, ~setting.syncFails
               PROVE  /\ pc[q] \in {"lock", "clean"} \/ loop[q] = "wait" =>
                            last[q] \in MadeOf(file'.picture)
                      /\ loop[q] = "saving" =>
                            /\ At(q, "round")' # "none"
                            /\ At(q, "round")' = "ok" => file'.picture = writer'[q]["round"].picture
                            /\ At(q, "round")' # "ok" => last[q] \in MadeOf(file'.picture)
    BY <1>1 DEF BaselineOnDisk, MadeOf
  <2>1. /\ q = p /\ pc[p] \notin {"lock", "clean"} /\ loop[p] \in {"saving", "done"}
        /\ (loop[p] = "saving" => r = "round")
    BY <1>1, BusyFacts DEF Roles
  <2>2. ASSUME loop[p] = "saving"
        PROVE  /\ At(p, "round")' = to /\ writer'[p]["round"].picture = writer[p]["round"].picture
               /\ last[p] \in MadeOf(file.picture)
    BY <2>1, <2>2, <1>1, <1>3 DEF At, BaselineOnDisk, Roles, Busy
  <2>3. to # "none" /\ (to = "ok" => At(p, r) = "rename")
    BY <1>2 DEF Busy, WriteEffect
  <2> QED
    BY <2>1, <2>2, <2>3, <1>6
<1> QED
  BY <1>6, <1>7, <1>8 DEF FileIsWhole
\* Every other step of a saver leaves the disk alone, or removes a temp file
\* that no write in flight has created.
LEMMA LoopKeepsDisk ==
    ASSUME TypeOK, Control, Disk, NoSlowHandover, NEW p \in Procs,
           Resume(p) \/ StartStep(p) \/ Change(p) \/ LoopStep(p) \/ Finish(p)
    PROVE  Disk'
<1> USE HealthAssumption, HealthNamesAssumption DEF Disk
<1>1. CASE Resume(p)
  <2>1. UNCHANGED <<file, tmp, loop, writer, setting>>
    BY <1>1 DEF Resume, diskVars, world
  <2>2. last'[p] \in MadeOf(file.picture) /\ \A q \in Procs \ {p} : last'[q] = last[q] /\ pc'[q] = pc[q]
    <3>1. PICK v \in IF Readable THEN Restores[file.picture] ELSE {Fresh} :
              last' = [last EXCEPT ![p] = IF Readable THEN v ELSE "none"]
      BY <1>1 DEF Resume
    <3>2. Readable <=> file.picture # "none"
      BY DEF Readable, TypeOK, Inodes, OldFiles, NoFile, FileIsWhole
    <3>3. last'[p] = IF Readable THEN v ELSE "none"
      BY <3>1 DEF TypeOK
    <3> QED
      BY <1>1, <3>1, <3>2, <3>3 DEF Resume, Goto, TypeOK, MadeOf
  <2>3. loop[p] = "none"
    BY <1>1 DEF Resume, Control, Lifecycle
  <2>4. BaselineOnDisk'
    BY <2>1, <2>2, <2>3 DEF BaselineOnDisk, At
  <2> QED
    BY <2>1, <2>4 DEF TempIsOurs, FileIsWhole, At
<1>2. CASE Lock(p) \/ LockFails(p) \/ Change(p) \/ LoopStops(p) \/ Finish(p)
  <2>1. UNCHANGED <<file, tmp, last, writer, setting>>
    BY <1>2 DEF Lock, LockFails, Change, LoopStops, Finish, diskVars, world
  <2>2. \A q \in Procs : /\ pc'[q] \in {"lock", "clean"} => pc[q] \in {"lock", "clean"}
                         /\ loop'[q] = loop[q] \/ loop'[q] = "done"
    BY <1>2 DEF Lock, LockFails, Change, LoopStops, Finish, Goto, TypeOK
  <2>3. BaselineOnDisk'
    BY <2>1, <2>2 DEF BaselineOnDisk, At
  <2> QED
    BY <2>1, <2>3 DEF TempIsOurs, FileIsWhole, At
<1>3. CASE SpawnSaver(p)
  <2>1. /\ UNCHANGED <<file, lock, last, writer, setting>> /\ pc[p] = "clean"
        /\ pc' = [pc EXCEPT ![p] = "run"] /\ loop' = [loop EXCEPT ![p] = "wait"]
        /\ p \in setting.instances /\ lock = p
    BY <1>3 DEF SpawnSaver, world, Goto, Control, Lifecycle, LockKept
  <2>2. \A q \in Procs, r \in Roles : At(q, r) \notin Busy
    <3> SUFFICES ASSUME NEW q \in Procs, NEW r \in Roles, At(q, r) \in Busy PROVE FALSE
      OBVIOUS
    <3>1. q # p /\ q \in setting.instances
      BY <2>1, BusyFacts
    <3>2. ~setting.slow
      BY <2>1, <3>1 DEF NoSlowHandover
    <3>3. Writing(q)
      BY DEF Writing, At
    <3>4. pc[q] # "teardown"
      BY <3>2, <3>3 DEF Control, DrainedAtTeardown
    <3>5. pc[q] = "final" \/ loop[q] = "saving"
      BY <3>4 DEF Control, Lifecycle, Roles
    <3>6. lock = q
      BY <3>5 DEF Control, LockKept
    <3> QED
      BY <2>1, <3>1, <3>6
  <2>3. TempIsOurs'
    BY <2>1, <2>2 DEF TempIsOurs, At, Busy
  <2>4. BaselineOnDisk'
    BY <2>1 DEF BaselineOnDisk, At, TypeOK
  <2> QED
    BY <2>1, <2>3, <2>4 DEF FileIsWhole
<1>4. CASE Round(p)
  <2>1. /\ UNCHANGED <<file, tmp, last, pc, setting>> /\ loop[p] = "wait"
        /\ loop' = [loop EXCEPT ![p] = "saving"]
    BY <1>4 DEF Round, diskVars, world
  <2>2. [at |-> "reclaim", picture |-> picture[p]] \in WriteStates \cup {NoWrite}
    BY DEF TypeOK, WriteStates, Busy
  <2>3. /\ writer'[p]["round"].at = "reclaim"
        /\ \A q \in Procs, r \in Roles : ~(q = p /\ r = "round") => writer'[q][r] = writer[q][r]
    BY <1>4, <2>2, WriterUpdate DEF Round, StartWrite, Roles, SetWrite, OnlyWrite, TypeOK
  <2>4. TempIsOurs'
    BY <2>1, <2>3 DEF TempIsOurs, At
  <2>5. BaselineOnDisk'
    BY <2>1, <2>3 DEF BaselineOnDisk, At, Roles, TypeOK
  <2> QED
    BY <2>1, <2>4, <2>5 DEF FileIsWhole
<1>5. CASE RoundDone(p)
  <2>1. /\ UNCHANGED <<file, tmp, pc, setting>> /\ loop[p] = "saving"
        /\ loop' = [loop EXCEPT ![p] = "wait"]
        /\ At(p, "round") \in {"ok", "err"}
        /\ last' = IF At(p, "round") = "ok" THEN [last EXCEPT ![p] = writer[p]["round"].picture]
                                            ELSE last
    BY <1>5 DEF RoundDone, diskVars, world, At
  <2>2. /\ writer'[p]["round"] = NoWrite
        /\ \A q \in Procs, r \in Roles : ~(q = p /\ r = "round") => writer'[q][r] = writer[q][r]
    <3>1. SetWrite(p, "round", NoWrite) /\ "round" \in Roles
      BY <1>5 DEF RoundDone, SetWrite, Roles
    <3>2. OnlyWrite(p, "round", NoWrite)
      BY <3>1, WriterUpdate
    <3> QED
      BY <3>1, <3>2 DEF OnlyWrite
  <2>3. TempIsOurs'
    BY <2>1, <2>2 DEF TempIsOurs, At, NoWrite
  <2>4. BaselineOnDisk'
    <3> SUFFICES ASSUME NEW q \in Procs, setting.instances = {q}, ~setting.syncFails
                 PROVE  /\ pc[q] \in {"lock", "clean"} \/ loop'[q] = "wait" => last'[q] \in MadeOf(file.picture)
                        /\ loop'[q] # "saving"
      BY <2>1 DEF BaselineOnDisk
    <3>1. q = p /\ pc[p] \notin {"lock", "clean"} /\ loop'[p] = "wait"
      BY <2>1 DEF Control, Lifecycle, TypeOK
    <3>2. last'[p] \in MadeOf(file.picture)
      BY <2>1, <3>1 DEF BaselineOnDisk, TypeOK, MadeOf
    <3> QED
      BY <3>1, <3>2
  <2> QED
    BY <2>1, <2>3, <2>4 DEF FileIsWhole
<1> QED
  BY <1>1, <1>2, <1>3, <1>4, <1>5 DEF StartStep, LoopStep
\* The shutdown protocol touches no file.
LEMMA FinishKeepsDisk ==
    ASSUME TypeOK, Control, Disk, NoSlowHandover, NEW p \in Procs, FinishStep(p) \/ Crash(p)
    PROVE  Disk'
<1> USE HealthAssumption, HealthNamesAssumption DEF Disk
<1>1. UNCHANGED <<file, tmp, last, setting>>
  BY DEF FinishStep, SaveFinal, StopTimesOut, FinalEnds, Exit, Crash, Gone, diskVars, world
<1>2. \A q \in Procs : /\ pc'[q] \in {"lock", "clean"} => pc[q] \in {"lock", "clean"}
                       /\ loop'[q] = loop[q] \/ loop'[q] \in {"none", "done"}
  BY DEF FinishStep, SaveFinal, StopTimesOut, FinalEnds, Exit, Crash, Gone, Goto, TypeOK
<1>3. \A q \in Procs, r \in Roles :
        \/ writer'[q][r] = writer[q][r]
        \/ At(q, r)' \notin {"fill", "rename"} /\ (loop'[q] = "none" \/ r = "final")
  <2>1. CASE SaveFinal(p)
    <3>1. [at |-> "reclaim", picture |-> picture[p]] \in WriteStates \cup {NoWrite}
      BY DEF TypeOK, WriteStates, Busy
    <3>2. OnlyWrite(p, "final", [at |-> "reclaim", picture |-> picture[p]])
      BY <2>1, <3>1, WriterUpdate DEF SaveFinal, StartWrite, SetWrite, Roles
    <3> QED
      BY <3>2 DEF OnlyWrite, At
  <2>2. CASE StopTimesOut(p) \/ FinalEnds(p)
    BY <2>2 DEF StopTimesOut, FinalEnds
  <2>3. CASE Exit(p) \/ Crash(p)
    <3>1. Gone(p)
      BY <2>3 DEF Exit, Crash
    <3>2. \A q \in Procs, r \in Roles : writer'[q][r] = IF q = p THEN NoWrite ELSE writer[q][r]
      BY <3>1, GoneWrites DEF Gone
    <3>3. loop'[p] = "none"
      BY <3>1 DEF Gone, TypeOK
    <3> QED
      BY <3>2, <3>3 DEF At, NoWrite
  <2> QED
    BY <2>1, <2>2, <2>3 DEF FinishStep
<1>4. TempIsOurs'
  BY <1>1, <1>3 DEF TempIsOurs, At
<1>5. BaselineOnDisk'
  <2> SUFFICES ASSUME NEW q \in Procs, setting.instances = {q}, ~setting.syncFails
               PROVE  /\ pc'[q] \in {"lock", "clean"} \/ loop'[q] = "wait" =>
                            last[q] \in MadeOf(file.picture)
                      /\ loop'[q] = "saving" =>
                            /\ At(q, "round")' # "none"
                            /\ At(q, "round")' = "ok" => file.picture = writer'[q]["round"].picture
                            /\ At(q, "round")' # "ok" => last[q] \in MadeOf(file.picture)
    BY <1>1 DEF BaselineOnDisk, MadeOf
  <2>1. loop'[q] = "saving" => writer'[q]["round"] = writer[q]["round"]
    BY <1>3 DEF Roles
  <2> QED
    BY <1>2, <2>1 DEF BaselineOnDisk, At
<1> QED
  BY <1>1, <1>4, <1>5 DEF FileIsWhole

-----------------------------------------------------------------------------
(* The theorems. *)

LEMMA IInvInit == Init => IInv
  BY TypeInit, ControlInit, DiskInit DEF IInv, Control, Disk

LEMMA IInvStep == IInv /\ [Next]_vars => IInv'
<1> SUFFICES ASSUME IInv, [Next]_vars PROVE IInv'
  OBVIOUS
<1>1. TypeOK /\ Control /\ (NoSlowHandover => Disk)
  BY DEF IInv, Control, Disk
<1>2. TypeOK' /\ Control'
  BY <1>1, TypeStep, ControlStep
<1>3. NoSlowHandover' => NoSlowHandover
  <2>1. setting' = setting
    <3>1. \A p \in Procs, r \in Roles :
            WriteStep(p, r) \/ WriteFails(p, r) => UNCHANGED world
      BY <1>1, WriteMoves
    <3> QED
      BY <3>1 DEF Next, Resume, StartStep, Lock, LockFails, SpawnSaver, Change, LoopStep, Round,
                  RoundDone, LoopStops, Finish, FinishStep, SaveFinal, StopTimesOut, FinalEnds,
                  Exit, Crash, vars, world
  <2> QED
    BY <2>1 DEF NoSlowHandover
<1>4. NoSlowHandover /\ Disk => Disk'
  <2>1. UNCHANGED vars => (Disk => Disk')
    BY DEF vars, diskVars, procVars, world, Disk, TempIsOurs, FileIsWhole, BaselineOnDisk, At
  <2> QED
    BY <1>1, <2>1, LoopKeepsDisk, WriteKeepsDisk, FinishKeepsDisk DEF Next
<1> QED
  BY <1>1, <1>2, <1>3, <1>4 DEF IInv, Control, Disk

LEMMA Inductive == Spec => []IInv
  BY IInvInit, IInvStep, PTL DEF Spec

\* Every variable keeps its type, whatever the processes and the disk do.
THEOREM TypeCorrect == Spec => []TypeOK
<1>1. IInv => TypeOK
  BY DEF IInv
<1> QED
  BY <1>1, Inductive, PTL

\* Where no write outlasts FINISH_BUDGET and the teardown, only the holder of
\* the cross-process lock has a write in flight: `finish` gives the lock back
\* after the last write, and a start waits for it.
THEOREM PromptWritersHoldLock == Spec => [](~setting.slow => WritersHoldLock)
<1>1. IInv => (~setting.slow => WritersHoldLock)
  <2> SUFFICES ASSUME IInv, ~setting.slow, NEW p \in Procs, Writing(p) PROVE lock = p
    BY DEF WritersHoldLock
  <2>1. PICK r \in Roles : At(p, r) \in Busy
    BY DEF Writing, At
  <2>2. pc[p] # "teardown"
    BY DEF IInv, DrainedAtTeardown
  <2>3. pc[p] = "final" \/ loop[p] = "saving"
    BY <2>1, <2>2 DEF IInv, Lifecycle, Roles
  <2> QED
    BY <2>3 DEF IInv, LockKept
<1> QED
  BY <1>1, Inductive, PTL

\* The health file is whole in every reachable state, through crashes, failed
\* and hanging writes and any number of restarts, unless a slow write can meet
\* a second process: rename_over never publishes a half-written temp file.
THEOREM FileAlwaysWhole == Spec => [](NoSlowHandover => FileIsWhole)
<1>1. IInv => (NoSlowHandover => FileIsWhole)
  BY DEF IInv
<1> QED
  BY <1>1, Inductive, PTL

\* A round that is skipped because the picture equals `last` is skipped
\* rightly, whatever `restore` makes of a saved picture: the file holds that
\* picture or the one a start turned into it.
THEOREM SkipsAreSafe == Spec => []SkipIsSafe
<1>1. IInv => SkipIsSafe
  <2> SUFFICES ASSUME IInv, NEW p \in Procs, setting.instances = {p}, ~setting.syncFails,
                      loop[p] = "wait", picture[p] = last[p]
               PROVE  OnDisk(picture[p])
    BY DEF SkipIsSafe
  <2>1. last[p] \in MadeOf(file.picture) /\ file.whole
    BY DEF IInv, BaselineOnDisk, NoSlowHandover, FileIsWhole
  <2>2. picture[p] # "none"
    BY HealthNamesAssumption DEF IInv, TypeOK
  <2>3. file.picture # "none"
    BY <2>1, <2>2 DEF MadeOf
  <2> QED
    BY <2>1, <2>3 DEF NoFile, OnDisk, Readable, MadeOf
<1> QED
  BY <1>1, Inductive, PTL

-----------------------------------------------------------------------------
(***************************************************************************)
(* Server: the process whose shutdown waits for the saver's `finish`.  The *)
(* theorems hold for finitely many clients and any cap and log capacity    *)
(* (Server's Sizes).  The argument is one of accounting: a line that is    *)
(* owed to a sink is in exactly one place on the way there, and a permit   *)
(* is free or with a running handler.                                      *)
(***************************************************************************)

\* The lines of the server in a queue, and in the hands of the log-drain task.
ServerLines(q) == {i \in 1 .. Len(q) : q[i].line = "server"}
InHand == IF drain.at \in {"file", "console"} THEN Counts(drain.line) ELSE 0

\* ... and in the hands of the blocking pool, for both streams together.
OnConsole == Counts(inflight["stdout"]) + Counts(inflight["stderr"])

Lines == {"server", "probe", "copy", "none"}
Entries == [line : {"server", "probe"}, to : Consoles]
Hands == [at : {"open", "recv", "file", "console", "done"}, line : Lines, to : Consoles \cup {"none"}]
\* A line is logged, for either stream.
Says(line) == \E stream \in Consoles : Send(line, stream)
LogType ==
    /\ owed \in Int /\ queue \in Seq(Entries)
    /\ drain \in Hands /\ (drain.at \in {"file", "console"} => drain.to \in Consoles)
    /\ inflight \in [Consoles -> Lines]
ConnType ==
    /\ conn \in [Clients -> {"away", "waiting", "filtered", "overload", "running", "finished", "panicked",
                             "joined", "reset", "cancelled"}]
    /\ permits \in Nat

\* Handlers run only between the first accept and the end of the drain.
HandlersLive == mainPc \notin {"reap", "select", "sleep", "drain"} => Running = {}
\* Every permit is free or with a running handler, until the drain is over.
SlotsKept ==
    mainPc \in {"boot", "reap", "select", "sleep", "drain"} => permits + Cardinality(Running) = MaxClients
\* What is owed to a sink is in the channel, in hand or handed to the console.
OwedIsKnown == owed = Cardinality(ServerLines(queue)) + InHand + OnConsole
\* A log-drain task that ended left nothing, and nobody can send any more.
DrainDone == drain.at = "done" => queue = <<>> /\ ~ChannelOpen
\* Once the log was joined on working sinks, the server's lines are through.
Joined == mainPc \in {"report", "teardown", "exited"} /\ ~Wedges => ServerLines(queue) = {} /\ InHand = 0

HandlersInv == ConnType /\ HandlersLive /\ SlotsKept
LogInv == LogType /\ OwedIsKnown /\ DrainDone /\ Joined
ServerInv == HandlersInv /\ LogInv

-----------------------------------------------------------------------------
(* Counting *)

LEMMA LinesFinite ==
    ASSUME NEW q \in Seq(Entries)
    PROVE  IsFiniteSet(ServerLines(q)) /\ Cardinality(ServerLines(q)) \in Nat
<1>1. IsFiniteSet(1 .. Len(q))
  BY FS_Interval
<1>2. IsFiniteSet(ServerLines(q))
  BY <1>1, FS_Subset DEF ServerLines
<1> QED
  BY <1>2, FS_CardinalityType

\* Numbers moved up by one are as many.
LEMMA ShiftCount ==
    ASSUME NEW X, IsFiniteSet(X), X \subseteq Nat
    PROVE  IsFiniteSet({i + 1 : i \in X}) /\ Cardinality({i + 1 : i \in X}) = Cardinality(X)
<1> DEFINE f == [i \in X |-> i + 1]
           Y == {i + 1 : i \in X}
<1>1. f \in [X -> Y] /\ \A a, b \in X : f[a] = f[b] => a = b
  OBVIOUS
<1>2. \A t \in Y : \E i \in X : f[i] = t
  OBVIOUS
<1> HIDE DEF f, Y
<1>3. f \in Bijection(X, Y)
  BY <1>1, <1>2 DEF Bijection, Injection, IsInjective, Surjection
<1>4. ExistsBijection(X, Y)
  BY <1>3 DEF ExistsBijection
<1>5. IsFiniteSet(Y) /\ Cardinality(Y) = Cardinality(X)
  BY <1>4, FS_Bijection
<1> QED
  BY <1>5 DEF Y

LEMMA CountsType == \A l \in Lines : Counts(l) \in {0, 1}
  BY DEF Counts

\* Taking the first line of the channel.
LEMMA TailCounts ==
    ASSUME NEW q \in Seq(Entries), q # <<>>
    PROVE  /\ Tail(q) \in Seq(Entries) /\ Head(q) \in Entries
           /\ Cardinality(ServerLines(q)) = Cardinality(ServerLines(Tail(q))) + Counts(Head(q).line)
<1> DEFINE t == Tail(q)
           up == {i + 1 : i \in ServerLines(t)}
<1>1. /\ t \in Seq(Entries) /\ Len(t) = Len(q) - 1 /\ Len(q) \in Nat /\ Len(q) > 0
      /\ \A i \in 1 .. Len(t) : t[i] = q[i + 1]
      /\ Head(q) = q[1] /\ Head(q) \in Entries
  OBVIOUS
<1>2. IsFiniteSet(ServerLines(t)) /\ Cardinality(ServerLines(t)) \in Nat
  BY <1>1, LinesFinite
<1>3. IsFiniteSet(up) /\ Cardinality(up) = Cardinality(ServerLines(t))
  <2>1. ServerLines(t) \subseteq Nat
    BY <1>1 DEF ServerLines
  <2> QED
    BY <1>2, <2>1, ShiftCount
<1> HIDE DEF t
<1>4. \A j \in 2 .. Len(q) : j - 1 \in 1 .. Len(t) /\ t[j - 1] = q[j] /\ (j - 1) + 1 = j
  BY <1>1
<1>5. ServerLines(q) \ {1} = up
  <2>1. \A j \in ServerLines(q) \ {1} : j \in 2 .. Len(q) /\ q[j].line = "server"
    BY <1>1 DEF ServerLines
  <2>2. ServerLines(q) \ {1} \subseteq up
    BY <1>4, <2>1 DEF ServerLines
  <2>3. \A i \in ServerLines(t) : i + 1 \in ServerLines(q) /\ i + 1 # 1
    BY <1>1 DEF ServerLines
  <2> QED
    BY <2>2, <2>3
<1>6. CASE Head(q).line = "server"
  <2>1. 1 \in ServerLines(q)
    BY <1>1, <1>6 DEF ServerLines
  <2>2. ServerLines(q) = up \cup {1} /\ 1 \notin up
    BY <1>5, <2>1
  <2> HIDE DEF up
  <2>3. Cardinality(up \cup {1}) = Cardinality(up) + 1
    BY <1>3, <2>2, FS_AddElement
  <2> QED
    BY <1>1, <1>3, <1>6, <2>2, <2>3 DEF Counts, t
<1>7. CASE Head(q).line # "server"
  <2>1. 1 \notin ServerLines(q)
    BY <1>1, <1>7 DEF ServerLines
  <2>2. ServerLines(q) = up
    BY <1>5, <2>1
  <2> QED
    BY <1>1, <1>2, <1>3, <1>7, <2>2 DEF Counts, t
<1> QED
  BY <1>6, <1>7

\* Logger::send: a line that enters the channel is owed; one that finds it full
\* is not.
LEMMA SendCounts ==
    ASSUME LogType, NEW line \in {"server", "probe"}, Says(line) \/ Silent
    PROVE  /\ queue' \in Seq(Entries) /\ owed' \in Int
           /\ owed' - Cardinality(ServerLines(queue')) = owed - Cardinality(ServerLines(queue))
           /\ (line = "probe" \/ Silent => ServerLines(queue') = ServerLines(queue))
<1>1. queue \in Seq(Entries) /\ owed \in Int
  BY DEF LogType
<1>2. IsFiniteSet(ServerLines(queue)) /\ Cardinality(ServerLines(queue)) \in Nat
  BY <1>1, LinesFinite
<1>3. CASE UNCHANGED <<queue, owed>>
  BY <1>1, <1>2, <1>3
<1>4. ASSUME NEW stream \in Consoles, queue' = Append(queue, [line |-> line, to |-> stream]),
             owed' = owed + Counts(line)
      PROVE  /\ queue' \in Seq(Entries) /\ owed' \in Int
             /\ owed' - Cardinality(ServerLines(queue')) = owed - Cardinality(ServerLines(queue))
             /\ (line = "probe" \/ Silent => ServerLines(queue') = ServerLines(queue))
  <2> DEFINE n == Len(queue) + 1
  <2>0. [line |-> line, to |-> stream] \in Entries
    BY DEF Entries
  <2>1. /\ queue' \in Seq(Entries) /\ Len(queue') = n /\ Len(queue) \in Nat
        /\ queue'[n].line = line /\ \A i \in 1 .. Len(queue) : queue'[i] = queue[i]
    BY <1>1, <1>4, <2>0
  <2>2. n \notin ServerLines(queue) /\ n \in 1 .. n /\ n \in Nat
    BY <2>1 DEF ServerLines
  <2>3. \A i \in 1 .. n : i = n \/ i \in 1 .. Len(queue)
    BY <2>1
  <2>4. \A i \in 1 .. Len(queue) : i \in 1 .. n /\ i # n
    BY <2>1
  <2> HIDE DEF n
  <2>5. ServerLines(queue') = IF line = "server" THEN ServerLines(queue) \cup {n} ELSE ServerLines(queue)
    BY <2>1, <2>2, <2>3, <2>4 DEF ServerLines
  <2>6. Cardinality(ServerLines(queue')) = Cardinality(ServerLines(queue)) + Counts(line)
    <3>1. CASE line = "server"
      <4>1. Cardinality(ServerLines(queue) \cup {n}) = Cardinality(ServerLines(queue)) + 1
        BY <1>2, <2>2, FS_AddElement
      <4> QED
        BY <2>5, <3>1, <4>1 DEF Counts
    <3>2. CASE line # "server"
      BY <1>2, <2>5, <3>2 DEF Counts
    <3> QED
      BY <3>1, <3>2
  <2>7. Counts(line) \in {0, 1}
    BY DEF Counts
  <2>8. owed' \in Int /\ owed' - Cardinality(ServerLines(queue')) = owed - Cardinality(ServerLines(queue))
    BY <1>1, <1>2, <1>4, <2>6, <2>7
  <2>9. Silent => ServerLines(queue') = ServerLines(queue)
    BY DEF Silent
  <2> QED
    BY <2>1, <2>5, <2>8, <2>9
<1> QED
  BY <1>3, <1>4 DEF Says, Send, Silent

-----------------------------------------------------------------------------
(* The log *)

\* A step that may log, while the channel is open.
LEMMA SendKeepsLog ==
    ASSUME LogInv, NEW line \in {"server", "probe"}, Says(line) \/ Silent,
           UNCHANGED <<setup, drain, inflight, wedged>>, ChannelOpen,
           mainPc' \in {"report", "teardown", "exited"} => mainPc' = mainPc /\ (line = "probe" \/ Silent)
    PROVE  LogInv'
<1>1. LogType /\ OwedIsKnown /\ DrainDone /\ Joined
  BY DEF LogInv
<1>2. /\ queue' \in Seq(Entries) /\ owed' \in Int
      /\ owed' - Cardinality(ServerLines(queue')) = owed - Cardinality(ServerLines(queue))
      /\ (line = "probe" \/ Silent => ServerLines(queue') = ServerLines(queue))
  BY <1>1, SendCounts
<1>3. LogType'
  BY <1>1, <1>2 DEF LogType
<1>4. InHand' = InHand /\ OnConsole' = OnConsole /\ (Wedges' <=> Wedges)
  BY DEF InHand, OnConsole, Counts, Wedges, None
<1>5. OwedIsKnown'
  <2>1. /\ Cardinality(ServerLines(queue)) \in Nat /\ Cardinality(ServerLines(queue')) \in Nat
        /\ InHand \in {0, 1} /\ OnConsole \in 0 .. 2
    BY <1>1, <1>2, LinesFinite DEF LogType, InHand, OnConsole, Counts
  <2>2. owed = Cardinality(ServerLines(queue)) + InHand + OnConsole /\ owed \in Int
    BY <1>1 DEF OwedIsKnown, LogType
  <2>3. \A a, b, x, y \in Int : \A h \in {0, 1}, c \in 0 .. 2 : b - y = a - x /\ a = x + h + c => b = y + h + c
    OBVIOUS
  <2>4. owed' = Cardinality(ServerLines(queue')) + InHand + OnConsole
    <3>1. PICK x \in Int, y \in Int, a \in Int, b \in Int :
             x = Cardinality(ServerLines(queue)) /\ y = Cardinality(ServerLines(queue')) /\ a = owed /\ b = owed'
      BY <1>2, <2>1, <2>2
    <3>2. PICK h \in {0, 1}, c \in 0 .. 2 : h = InHand /\ c = OnConsole
      BY <2>1
    <3>3. b - y = a - x /\ a = x + h + c
      BY <1>2, <2>2, <3>1, <3>2
    <3>4. b = y + h + c
      BY <2>3, <3>3
    <3> QED
      BY <3>1, <3>2, <3>4
  <2> QED
    BY <1>4, <2>4 DEF OwedIsKnown
<1>6. DrainDone'
  BY <1>1 DEF DrainDone
<1>7. Joined'
  BY <1>1, <1>2, <1>4 DEF Joined
<1> QED
  BY <1>3, <1>5, <1>6, <1>7 DEF LogInv

\* A step that does not log: nobody reopens the channel, and the log is joined
\* only when the server's lines are through.
LEMMA QuietKeepsLog ==
    ASSUME LogInv, UNCHANGED <<setup, queue, owed, drain, inflight>>,
           ChannelOpen' => ChannelOpen, Wedges => Wedges',
           mainPc' \in {"report", "teardown", "exited"} /\ ~Wedges => ServerLines(queue) = {} /\ InHand = 0
    PROVE  LogInv'
<1>1. LogType /\ OwedIsKnown /\ DrainDone /\ Joined
  BY DEF LogInv
<1>2. InHand' = InHand /\ OnConsole' = OnConsole /\ ServerLines(queue)' = ServerLines(queue)
  BY DEF InHand, OnConsole, Counts, ServerLines
<1>3. LogType'
  BY <1>1 DEF LogType
<1>4. OwedIsKnown'
  BY <1>1, <1>2 DEF OwedIsKnown
<1>5. DrainDone'
  BY <1>1 DEF DrainDone
<1>6. Joined'
  BY <1>1, <1>2 DEF Joined
<1> QED
  BY <1>3, <1>4, <1>5, <1>6 DEF LogInv

\* What the accept arm can do with a waiting client.
LEMMA AcceptCases ==
    ASSUME ConnType, Accept
    PROVE  \E c \in Clients :
              /\ conn[c] = "waiting"
              /\ \/ conn' = [conn EXCEPT ![c] = "filtered"] /\ Says("server") /\ permits' = permits
                 \/ /\ permits = 0 /\ permits' = permits
                    /\ conn' = [conn EXCEPT ![c] = "overload"] /\ Says("server")
                 \/ /\ permits > 0 /\ permits' = permits - 1
                    /\ conn' = [conn EXCEPT ![c] = "running"] /\ Silent
<1>1. PICK c \in Clients :
          /\ conn[c] = "waiting"
          /\ CASE ~Allowed(c) ->
                     conn' = [conn EXCEPT ![c] = "filtered"] /\ LogError /\ UNCHANGED permits
               [] Allowed(c) /\ permits = 0 ->
                     conn' = [conn EXCEPT ![c] = "overload"] /\ LogError /\ UNCHANGED permits
               [] Allowed(c) /\ permits > 0 ->
                     conn' = [conn EXCEPT ![c] = "running"] /\ permits' = permits - 1 /\ Silent
  BY DEF Accept
<1>s. LogError => Says("server")
  BY DEF LogError, Says, Consoles
<1>2. permits \in Nat
  BY DEF ConnType
<1>3. CASE ~Allowed(c)
  BY <1>1, <1>3, <1>s
<1>4. CASE Allowed(c) /\ permits = 0
  <2>1. ~(permits > 0)
    BY <1>4
  <2> QED
    BY <1>1, <1>4, <1>s, <2>1
<1>5. CASE Allowed(c) /\ permits # 0
  <2>1. permits > 0
    BY <1>2, <1>5
  <2> QED
    BY <1>1, <1>5, <2>1
<1> QED
  BY <1>3, <1>4, <1>5

\* The steps of the main task and of the handlers.
LEMMA MainKeepsLog ==
    ASSUME ServerInv,
           \/ MainSteps \/ Accept \/ AcceptFails \/ StopAccepting
           \/ HandlerEnds \/ Connects \/ Terminate \/ Interrupt \/ Wedge \/ ProbeEnds
    PROVE  LogInv'
<1>0. LogInv /\ LogType /\ Joined /\ DrainDone /\ HandlersLive
  BY DEF ServerInv, LogInv, HandlersInv
<1>s. (LogLifecycle => Says("server")) /\ (LogError => Says("server"))
  BY DEF LogLifecycle, LogError, Says, Consoles
<1> USE DEF SinksUnchanged, Silent
<1>1. CASE Boot
  <2>1. /\ mainPc = "boot" /\ mainPc' \in {"failed", "reap", "saver"} /\ (Says("server") \/ Silent)
        /\ UNCHANGED <<setup, drain, inflight, wedged>>
    BY <1>1, <1>s DEF Boot
  <2> QED
    BY <1>0, <2>1, SendKeepsLog DEF ChannelOpen
<1>2. CASE Join
  <2>1. mainPc \in {"reap", "drain"} /\ mainPc' = mainPc /\ UNCHANGED <<setup, drain, inflight, wedged>>
    BY <1>2 DEF Join
  <2>2. Says("server") \/ Silent
    BY <1>2, <1>s DEF Join, ReportFinishedTask
  <2> QED
    BY <1>0, <2>1, <2>2, SendKeepsLog DEF ChannelOpen
<1>3. CASE Accept
  <2>1. mainPc = "select" /\ mainPc' = "reap" /\ UNCHANGED <<setup, drain, inflight, wedged>>
    BY <1>3 DEF Accept
  <2>2. Says("server") \/ Silent
    BY <1>3, AcceptCases DEF ServerInv, HandlersInv
  <2> QED
    BY <1>0, <2>1, <2>2, SendKeepsLog DEF ChannelOpen
<1>4. CASE AcceptFails
  <2>1. /\ mainPc = "select" /\ mainPc' = "sleep" /\ Says("server")
        /\ UNCHANGED <<setup, drain, inflight, wedged>>
    BY <1>4, <1>s DEF AcceptFails
  <2> QED
    BY <1>0, <2>1, SendKeepsLog DEF ChannelOpen
<1>5. CASE StopAccepting
  <2>1. /\ mainPc = "select" /\ mainPc' = "drain" /\ Says("server")
        /\ UNCHANGED <<setup, drain, inflight, wedged>>
    BY <1>5, <1>s DEF StopAccepting
  <2> QED
    BY <1>0, <2>1, SendKeepsLog DEF ChannelOpen
<1>6. CASE Drained
  <2>1. /\ mainPc = "drain" /\ mainPc' = "saver" /\ Says("server")
        /\ UNCHANGED <<setup, drain, inflight, wedged>>
    BY <1>6, <1>s DEF Drained
  <2> QED
    BY <1>0, <2>1, SendKeepsLog DEF ChannelOpen
<1>7. CASE HandlerEnds
  <2>1. /\ Running # {} /\ mainPc' = mainPc /\ (Says("server") \/ Silent)
        /\ UNCHANGED <<setup, drain, inflight, wedged>>
    BY <1>7, <1>s DEF HandlerEnds
  <2>2. mainPc \in {"reap", "select", "sleep", "drain"}
    BY <1>0, <2>1 DEF HandlersLive
  <2> QED
    BY <1>0, <2>1, <2>2, SendKeepsLog DEF ChannelOpen
<1>8. CASE ProbeEnds
  <2>1. /\ probing /\ mainPc' = mainPc /\ Says("probe")
        /\ UNCHANGED <<setup, drain, inflight, wedged>>
    BY <1>8 DEF ProbeEnds, Says
  <2> QED
    BY <1>0, <2>1, SendKeepsLog DEF ChannelOpen
<1>9. CASE Reaped \/ SleepOver \/ SaverFinished \/ Connects \/ Terminate \/ Interrupt
  <2>1. /\ mainPc \in {"reap", "select", "sleep", "saver"} /\ mainPc' \in {"reap", "select", "sleep", "join"}
        /\ UNCHANGED <<setup, queue, owed, drain, inflight, wedged>>
    BY <1>9 DEF Reaped, SleepOver, SaverFinished, Connects, Terminate, Interrupt, Up,
                logVars, loopVars
  <2>2. ChannelOpen
    BY <2>1 DEF ChannelOpen
  <2>3. Wedges => Wedges'
    BY <2>1 DEF Wedges, None
  <2> QED
    BY <1>0, <2>1, <2>2, <2>3, QuietKeepsLog
<1>10. CASE JoinLog
  <2>1. /\ mainPc = "join" /\ mainPc' \in {"report", "teardown"}
        /\ UNCHANGED <<setup, conn, queue, owed, drain, inflight, wedged, probing>>
        /\ drain.at = "done" \/ Wedges \/ Idling
    BY <1>10 DEF JoinLog, logVars, loopVars
  <2>2. ChannelOpen' => ChannelOpen
    BY <2>1 DEF ChannelOpen, Running
  <2>3. Wedges => Wedges'
    BY <2>1 DEF Wedges, None
  <2>4. ~Wedges => queue = <<>> /\ drain.at \in {"done", "recv"}
    BY <1>0, <2>1 DEF Idling, DrainDone
  <2>5. ~Wedges => ServerLines(queue) = {} /\ InHand = 0
    BY <2>4 DEF ServerLines, InHand
  <2> QED
    BY <1>0, <2>1, <2>2, <2>3, <2>5, QuietKeepsLog
<1>11. CASE Diagnose \/ ProcessExits
  <2>1. /\ mainPc \in {"report", "teardown"} /\ mainPc' \in {"teardown", "exited"}
        /\ UNCHANGED <<setup, conn, queue, owed, drain, inflight, wedged, probing>>
    BY <1>11 DEF Diagnose, ProcessExits, logVars, loopVars
  <2>2. ChannelOpen' => ChannelOpen
    BY <2>1 DEF ChannelOpen, Running
  <2>3. Wedges => Wedges'
    BY <2>1 DEF Wedges, None
  <2>4. ~Wedges => ServerLines(queue) = {} /\ InHand = 0
    BY <1>0, <2>1 DEF Joined
  <2> QED
    BY <1>0, <2>1, <2>2, <2>3, <2>4, QuietKeepsLog
<1>12. CASE Wedge
  <2>1. /\ setup.wedge # None /\ wedged' = TRUE /\ mainPc' = mainPc
        /\ UNCHANGED <<setup, conn, queue, owed, drain, inflight, probing>>
    BY <1>12 DEF Wedge, LogUnchanged, loopVars
  <2>2. ChannelOpen' => ChannelOpen
    BY <2>1 DEF ChannelOpen, Running
  <2>3. Wedges => Wedges'
    BY <2>1 DEF Wedges, None
  <2>4. mainPc \in {"report", "teardown", "exited"} /\ ~Wedges => ServerLines(queue) = {} /\ InHand = 0
    BY <1>0 DEF Joined
  <2> QED
    BY <1>0, <2>1, <2>2, <2>3, <2>4, QuietKeepsLog
<1> QED
  BY <1>1, <1>2, <1>3, <1>4, <1>5, <1>6, <1>7, <1>8, <1>9, <1>10, <1>11, <1>12 DEF MainSteps

\* The steps of the log-drain task: a line goes from the channel to its hand,
\* from there to the file or to the blocking pool, and leaves what is owed when
\* a sink has it.
LEMMA TaskKeepsLog == ASSUME LogInv, LogSteps PROVE LogInv'
<1>0. LogType /\ OwedIsKnown /\ DrainDone /\ Joined
  BY DEF LogInv
<1>1. /\ owed \in Int /\ queue \in Seq(Entries) /\ inflight \in [Consoles -> Lines]
      /\ drain \in Hands /\ (drain.at \in {"file", "console"} => drain.to \in Consoles)
      /\ owed = Cardinality(ServerLines(queue)) + InHand + OnConsole
      /\ Cardinality(ServerLines(queue)) \in Nat /\ InHand \in {0, 1} /\ OnConsole \in 0 .. 2
  BY <1>0, LinesFinite DEF LogType, OwedIsKnown, InHand, OnConsole, Counts
<1>2. /\ UNCHANGED <<setup, mainPc, conn, wedged, probing>>
      /\ (Wedges' <=> Wedges) /\ (ChannelOpen' <=> ChannelOpen)
  <2>1. UNCHANGED <<setup, mainPc, conn, wedged, probing>>
    BY DEF LogSteps, DrainOpen, DrainRecv, DrainFile, DrainConsole, ConsoleWritten, DrainEnds,
           LogUnchanged, loopVars
  <2> QED
    BY <2>1 DEF Wedges, None, ChannelOpen, Running
<1>3. CASE DrainOpen
  <2>1. drain.at = "open" /\ drain' = HandsFree("recv") /\ UNCHANGED <<queue, owed, inflight>>
    BY <1>3 DEF DrainOpen
  <2>2. /\ drain' \in Hands
        /\ drain'.at = "recv" /\ InHand' = 0 /\ InHand = 0
    BY <2>1 DEF InHand, HandsFree, Hands, Lines, None
  <2>3. OnConsole' = OnConsole
    BY <2>1 DEF OnConsole, Counts
  <2> QED
    BY <1>0, <1>1, <1>2, <2>1, <2>2, <2>3 DEF LogInv, LogType, OwedIsKnown, DrainDone, Joined, ServerLines
<1>4. CASE DrainRecv
  <2>1. /\ drain.at = "recv" /\ queue # <<>> /\ queue' = Tail(queue) /\ UNCHANGED <<owed, inflight>>
        /\ drain'.at \in {"file", "console"} /\ drain'.line = Head(queue).line
        /\ drain' = [at |-> IF toFile THEN "file" ELSE "console", line |-> Head(queue).line,
                     to |-> Head(queue).to]
    BY <1>4 DEF DrainRecv
  <2>2. /\ queue' \in Seq(Entries) /\ Head(queue) \in Entries
        /\ Cardinality(ServerLines(queue)) = Cardinality(ServerLines(queue')) + Counts(Head(queue).line)
    BY <1>1, <2>1, TailCounts
  <2>3. InHand = 0 /\ InHand' = Counts(Head(queue).line) /\ Counts(Head(queue).line) \in {0, 1}
    BY <2>1, <2>2 DEF InHand, Counts
  <2>4. Cardinality(ServerLines(queue')) \in Nat
    BY <2>2, LinesFinite
  <2>5. owed = Cardinality(ServerLines(queue')) + InHand' + OnConsole
    BY <1>1, <2>2, <2>3, <2>4
  <2>6. LogType'
    BY <1>1, <2>1, <2>2 DEF LogType, Lines, Hands, Entries
  <2>7. OwedIsKnown'
    BY <2>1, <2>5 DEF OwedIsKnown, OnConsole, ServerLines, Counts
  <2>8. DrainDone'
    BY <2>1 DEF DrainDone
  <2>9. Joined'
    <3> SUFFICES ASSUME mainPc \in {"report", "teardown", "exited"}, ~Wedges
                 PROVE  ServerLines(queue') = {} /\ InHand' = 0
      BY <1>2 DEF Joined, ServerLines
    <3>1. ServerLines(queue) = {}
      BY <1>0 DEF Joined
    <3>2. Cardinality(ServerLines(queue)) = 0
      BY <3>1, FS_EmptySet
    <3>3. Cardinality(ServerLines(queue')) = 0 /\ Counts(Head(queue).line) = 0
      BY <2>2, <2>3, <2>4, <3>2
    <3>4. ServerLines(queue') = {}
      BY <2>2, <3>3, LinesFinite, FS_EmptySet
    <3> QED
      BY <2>3, <3>3, <3>4
  <2> QED
    BY <2>6, <2>7, <2>8, <2>9 DEF LogInv
<1>5. CASE DrainFile
  <2>1. PICK ok \in BOOLEAN :
            /\ owed' = IF ok THEN owed - Counts(drain.line) ELSE owed
            /\ drain' = IF ToConsole(ok) THEN ForConsole(ok) ELSE HandsFree("recv")
    BY <1>5 DEF DrainFile
  <2>2. drain.at = "file" /\ UNCHANGED <<queue, inflight>>
    BY <1>5 DEF DrainFile
  <2>3. /\ InHand = Counts(drain.line) /\ drain.line \in Lines /\ Counts(drain.line) \in {0, 1}
        /\ drain.to \in Consoles
    BY <1>1, <2>2, CountsType DEF InHand, Hands
  <2>4. /\ ForConsole(ok) \in Hands /\ ForConsole(ok).at = "console" /\ ForConsole(ok).to \in Consoles
        /\ ForConsole(ok).line = IF ok THEN "copy" ELSE drain.line
        /\ HandsFree("recv") \in Hands /\ HandsFree("recv").at = "recv"
    BY <2>3 DEF ForConsole, HandsFree, Hands, Lines, None
  <2>5. /\ drain' \in Hands /\ drain'.at \in {"console", "recv"}
        /\ (drain'.at = "console" => drain'.to \in Consoles)
    BY <2>1, <2>4
  <2>6. InHand' = IF ok THEN 0 ELSE Counts(drain.line)
    <3>1. CASE ok
      BY <2>1, <2>4, <3>1 DEF InHand, Counts
    <3>2. CASE ~ok
      <4>1. ToConsole(ok)
        BY <3>2 DEF ToConsole
      <4> QED
        BY <2>1, <2>4, <3>2, <4>1 DEF InHand, Counts
    <3> QED
      BY <3>1, <3>2
  <2>7. owed' \in Int /\ owed' = Cardinality(ServerLines(queue)) + InHand' + OnConsole
    BY <1>1, <2>1, <2>3, <2>6
  <2>8. LogType'
    BY <1>1, <2>2, <2>5, <2>7 DEF LogType
  <2>9. OwedIsKnown'
    BY <2>2, <2>7 DEF OwedIsKnown, OnConsole, ServerLines, Counts
  <2>10. DrainDone'
    BY <2>5 DEF DrainDone
  <2>11. Joined'
    BY <1>0, <1>2, <2>2, <2>3, <2>6 DEF Joined, ServerLines
  <2> QED
    BY <2>8, <2>9, <2>10, <2>11 DEF LogInv
<1>6. CASE DrainConsole
  <2>1. /\ drain.at = "console" /\ inflight[drain.to] = "none"
        /\ inflight' = [inflight EXCEPT ![drain.to] = drain.line]
        /\ drain' = HandsFree("recv") /\ UNCHANGED <<queue, owed>>
    BY <1>6 DEF DrainConsole, None
  <2>2. drain' \in Hands /\ drain'.at = "recv"
    BY <2>1 DEF HandsFree, Hands, Lines, None
  <2>3. /\ InHand' = 0 /\ InHand = Counts(drain.line)
        /\ drain.to \in {"stdout", "stderr"} /\ drain.line \in Lines
    BY <1>1, <2>1, <2>2 DEF InHand, Hands, Consoles
  <2>4. inflight' \in [Consoles -> Lines]
    BY <1>1, <2>1, <2>3
  \* The line moves from the task's hand to an empty place at its stream.
  <2>5. OnConsole' = OnConsole + Counts(drain.line)
    <3>1. Counts("none") = 0
      BY DEF Counts
    <3>2. /\ inflight'[drain.to] = drain.line
          /\ \A s \in Consoles : s # drain.to => inflight'[s] = inflight[s]
      BY <1>1, <2>1, <2>3
    <3>3. /\ Counts(inflight["stdout"]) \in Int /\ Counts(inflight["stderr"]) \in Int
          /\ Counts(drain.line) \in Int
      BY DEF Counts
    <3>4. CASE drain.to = "stdout"
      <4>1. inflight["stdout"] = "none" /\ inflight'["stdout"] = drain.line
            /\ inflight'["stderr"] = inflight["stderr"]
        BY <2>1, <3>2, <3>4 DEF Consoles
      <4>2. OnConsole = 0 + Counts(inflight["stderr"])
        BY <3>1, <4>1 DEF OnConsole
      <4>3. OnConsole' = Counts(drain.line) + Counts(inflight["stderr"])
        BY <4>1 DEF OnConsole, Counts
      <4> QED
        BY <3>3, <4>2, <4>3
    <3>5. CASE drain.to = "stderr"
      <4>1. inflight["stderr"] = "none" /\ inflight'["stderr"] = drain.line
            /\ inflight'["stdout"] = inflight["stdout"]
        BY <2>1, <3>2, <3>5 DEF Consoles
      <4>2. OnConsole = Counts(inflight["stdout"]) + 0
        BY <3>1, <4>1 DEF OnConsole
      <4>3. OnConsole' = Counts(inflight["stdout"]) + Counts(drain.line)
        BY <4>1 DEF OnConsole, Counts
      <4> QED
        BY <3>3, <4>2, <4>3
    <3> QED
      BY <2>3, <3>4, <3>5
  <2>6. owed = Cardinality(ServerLines(queue)) + 0 + OnConsole'
    <3>1. Counts(drain.line) \in Int
      BY DEF Counts
    <3> QED
      BY <1>1, <2>3, <2>5, <3>1
  <2>7. LogType'
    BY <1>1, <2>1, <2>2, <2>4 DEF LogType
  <2>8. OwedIsKnown'
    BY <2>1, <2>3, <2>6 DEF OwedIsKnown, ServerLines
  <2>9. DrainDone' /\ Joined'
    BY <1>0, <1>2, <2>1, <2>2, <2>3 DEF DrainDone, Joined, ServerLines
  <2> QED
    BY <2>7, <2>8, <2>9 DEF LogInv
<1>7. CASE ConsoleWritten
  <2>1. PICK s \in Consoles :
            inflight' = [inflight EXCEPT ![s] = "none"] /\ owed' = owed - Counts(inflight[s])
    BY <1>7 DEF ConsoleWritten, None
  <2>2. UNCHANGED <<queue, drain>>
    BY <1>7 DEF ConsoleWritten
  <2>3. InHand' = InHand /\ inflight' \in [Consoles -> Lines]
    BY <1>1, <2>1, <2>2 DEF InHand, Counts, Lines
  <2>4. OnConsole' = OnConsole - Counts(inflight[s])
    <3>1. Counts("none") = 0
      BY DEF Counts
    <3>2. Counts(inflight["stdout"]) \in Int /\ Counts(inflight["stderr"]) \in Int
      BY DEF Counts
    <3>3. CASE s = "stdout"
      <4>1. inflight'["stdout"] = "none" /\ inflight'["stderr"] = inflight["stderr"]
        BY <1>1, <2>1, <3>3 DEF Consoles
      <4>2. OnConsole' = 0 + Counts(inflight["stderr"])
        BY <4>1 DEF OnConsole, Counts
      <4> QED
        BY <3>2, <3>3, <4>2 DEF OnConsole
    <3>4. CASE s = "stderr"
      <4>1. inflight'["stderr"] = "none" /\ inflight'["stdout"] = inflight["stdout"]
        BY <1>1, <2>1, <3>4 DEF Consoles
      <4>2. OnConsole' = Counts(inflight["stdout"]) + 0
        BY <4>1 DEF OnConsole, Counts
      <4> QED
        BY <3>2, <3>4, <4>2 DEF OnConsole
    <3> QED
      BY <3>3, <3>4 DEF Consoles
  <2>5. owed' \in Int /\ owed' = Cardinality(ServerLines(queue)) + InHand + OnConsole'
    <3>1. Counts(inflight[s]) \in Int
      BY DEF Counts
    <3>2. owed' = owed - Counts(inflight[s])
      BY <2>1
    <3>3. Cardinality(ServerLines(queue)) \in Int /\ InHand \in Int /\ OnConsole \in Int
      BY <1>1 DEF InHand, OnConsole, Counts
    <3>4. owed \in Int /\ owed = Cardinality(ServerLines(queue)) + InHand + OnConsole
      BY <1>1
    <3> QED
      BY <2>4, <3>1, <3>2, <3>3, <3>4
  <2>6. LogType'
    BY <1>1, <2>2, <2>3, <2>5 DEF LogType
  <2>7. OwedIsKnown'
    BY <2>2, <2>3, <2>5 DEF OwedIsKnown, ServerLines
  <2>8. DrainDone' /\ Joined'
    BY <1>0, <1>2, <2>2, <2>3 DEF DrainDone, Joined, ServerLines
  <2> QED
    BY <2>6, <2>7, <2>8 DEF LogInv
<1>8. CASE DrainEnds
  <2>1. /\ drain.at = "recv" /\ queue = <<>> /\ ~ChannelOpen /\ drain' = HandsFree("done")
        /\ UNCHANGED <<queue, owed, inflight>>
    BY <1>8 DEF DrainEnds
  <2>2. /\ drain' \in Hands /\ drain'.at = "done"
        /\ InHand' = 0 /\ InHand = 0
    BY <2>1 DEF InHand, HandsFree, Hands, Lines, None
  <2>3. OnConsole' = OnConsole
    BY <2>1 DEF OnConsole, Counts
  <2>4. LogType'
    BY <1>1, <2>1, <2>2 DEF LogType
  <2>5. OwedIsKnown'
    BY <1>0, <2>1, <2>2, <2>3 DEF OwedIsKnown, ServerLines
  <2>6. DrainDone' /\ Joined'
    BY <1>0, <1>2, <2>1, <2>2 DEF DrainDone, Joined, ServerLines
  <2> QED
    BY <2>4, <2>5, <2>6 DEF LogInv
<1> QED
  BY <1>3, <1>4, <1>5, <1>6, <1>7, <1>8 DEF LogSteps

-----------------------------------------------------------------------------
(* The handlers *)

\* A step after which the same handlers run and the same permits are free.
LEMMA SameHandlers ==
    ASSUME HandlersInv, ConnType', Running' = Running, permits' = permits,
           mainPc' \in {"boot", "reap", "select", "sleep", "drain"} =>
               mainPc \in {"boot", "reap", "select", "sleep", "drain"},
           mainPc' \notin {"reap", "select", "sleep", "drain"} =>
               mainPc \notin {"reap", "select", "sleep", "drain"}
    PROVE  HandlersInv'
  BY DEF HandlersInv, HandlersLive, SlotsKept

LEMMA MainKeepsHandlers ==
    ASSUME Sizes, ServerInv,
           \/ MainSteps \/ Accept \/ AcceptFails \/ StopAccepting
           \/ HandlerEnds \/ Connects \/ Terminate \/ Interrupt \/ Wedge \/ ProbeEnds
           \/ LogSteps
    PROVE  HandlersInv'
<1>0. HandlersInv /\ ConnType /\ HandlersLive /\ SlotsKept
  BY DEF ServerInv, HandlersInv
<1>1. IsFiniteSet(Running) /\ Cardinality(Running) \in Nat
  <2>1. IsFiniteSet(Clients)
    BY DEF Sizes
  <2>2. Running \in SUBSET Clients
    BY DEF Running
  <2> QED
    BY <2>1, <2>2, FS_Subset, FS_CardinalityType
<1>2. CASE UNCHANGED <<mainPc, conn, permits>>
  <2>1. ConnType' /\ Running' = Running
    BY <1>0, <1>2 DEF ConnType, Running
  <2> QED
    BY <1>0, <1>2, <2>1, SameHandlers
<1>3. CASE Wedge \/ ProbeEnds \/ LogSteps \/ Terminate \/ Interrupt
  <2>1. UNCHANGED <<mainPc, conn, permits>>
    BY <1>3 DEF Wedge, ProbeEnds, LogSteps, Terminate, Interrupt, DrainOpen, DrainRecv, DrainFile,
                DrainConsole, ConsoleWritten, DrainEnds, LogUnchanged, loopVars
  <2> QED
    BY <1>2, <2>1
<1>4. CASE Boot
  <2>1. mainPc = "boot" /\ UNCHANGED <<conn, permits>>
    BY <1>4 DEF Boot, loopVars
  <2>2. Running = {} /\ Running' = Running /\ ConnType'
    BY <1>0, <2>1 DEF HandlersLive, Running, ConnType
  <2> QED
    BY <1>0, <2>1, <2>2 DEF HandlersInv, HandlersLive, SlotsKept
<1>5. CASE Reaped \/ SleepOver \/ AcceptFails
  <2>1. /\ mainPc \in {"reap", "sleep", "select"} /\ mainPc' \in {"reap", "sleep", "select"}
        /\ UNCHANGED <<conn, permits>>
    BY <1>5 DEF Reaped, SleepOver, AcceptFails, loopVars
  <2>2. Running' = Running /\ ConnType'
    BY <1>0, <2>1 DEF Running, ConnType
  <2> QED
    BY <1>0, <2>1, <2>2, SameHandlers
<1>6. CASE SaverFinished \/ JoinLog \/ Diagnose \/ ProcessExits
  <2>1. /\ mainPc \in {"saver", "join", "report", "teardown"} /\ mainPc' \in {"join", "report", "teardown", "exited"}
        /\ UNCHANGED <<conn, permits>>
    BY <1>6 DEF SaverFinished, JoinLog, Diagnose, ProcessExits, loopVars
  <2>2. Running' = Running /\ ConnType'
    BY <1>0, <2>1 DEF Running, ConnType
  <2> QED
    BY <1>0, <2>1, <2>2, SameHandlers
<1>7. CASE Join
  <2>1. PICK c \in Ended : conn' = [conn EXCEPT ![c] = "joined"]
    BY <1>7 DEF Join
  <2>2. c \in Clients /\ conn[c] # "running" /\ UNCHANGED <<mainPc, permits>>
    BY <1>7, <2>1 DEF Ended, Join
  <2>3. Running' = Running /\ ConnType'
    BY <1>0, <2>1, <2>2 DEF Running, ConnType
  <2> QED
    BY <1>0, <2>2, <2>3, SameHandlers
<1>8. CASE Connects
  <2>1. PICK c \in Clients : conn[c] = "away" /\ conn' = [conn EXCEPT ![c] = "waiting"]
    BY <1>8 DEF Connects
  <2>2. UNCHANGED <<mainPc, permits>>
    BY <1>8 DEF Connects
  <2>3. Running' = Running /\ ConnType'
    BY <1>0, <2>1, <2>2 DEF Running, ConnType
  <2> QED
    BY <1>0, <2>2, <2>3, SameHandlers
<1>9. CASE StopAccepting
  <2>1. /\ conn' = [c \in Clients |-> IF conn[c] = "waiting" THEN "reset" ELSE conn[c]]
        /\ mainPc = "select" /\ mainPc' = "drain" /\ permits' = permits
    BY <1>9 DEF StopAccepting
  <2>2. Running' = Running /\ ConnType'
    BY <1>0, <2>1 DEF Running, ConnType
  <2> QED
    BY <1>0, <2>1, <2>2, SameHandlers
<1>10. CASE Drained
  <2>1. /\ conn' = [c \in Clients |-> IF conn[c] = "running" THEN "cancelled" ELSE conn[c]]
        /\ mainPc' = "saver" /\ permits' = permits
    BY <1>10 DEF Drained
  <2>2. Running' = {} /\ ConnType'
    BY <1>0, <2>1 DEF Running, ConnType
  <2> QED
    BY <2>1, <2>2 DEF HandlersInv, HandlersLive, SlotsKept
<1>11. CASE Accept
  <2>1. mainPc = "select" /\ mainPc' = "reap"
    BY <1>11 DEF Accept
  <2>2. PICK c \in Clients :
              /\ conn[c] = "waiting"
              /\ \/ conn' = [conn EXCEPT ![c] = "filtered"] /\ permits' = permits
                 \/ conn' = [conn EXCEPT ![c] = "overload"] /\ permits' = permits
                 \/ permits > 0 /\ permits' = permits - 1 /\ conn' = [conn EXCEPT ![c] = "running"]
    BY <1>0, <1>11, AcceptCases
  <2>3. CASE permits' = permits /\ \E how \in {"filtered", "overload"} : conn' = [conn EXCEPT ![c] = how]
    <3>1. Running' = Running /\ ConnType'
      BY <1>0, <2>2, <2>3 DEF Running, ConnType
    <3> QED
      BY <1>0, <2>1, <2>3, <3>1, SameHandlers
  <2>4. CASE permits > 0 /\ permits' = permits - 1 /\ conn' = [conn EXCEPT ![c] = "running"]
    <3>1. Running' = Running \cup {c} /\ c \notin Running /\ ConnType'
      BY <1>0, <2>2, <2>4 DEF Running, ConnType
    <3>2. Cardinality(Running') = Cardinality(Running) + 1
      BY <1>1, <3>1, FS_AddElement
    <3>3. permits + Cardinality(Running) = MaxClients /\ permits \in Nat
      BY <1>0, <2>1 DEF SlotsKept, ConnType
    <3>4. permits' + Cardinality(Running') = MaxClients
      BY <1>1, <2>4, <3>2, <3>3
    <3> QED
      BY <2>1, <3>1, <3>4 DEF HandlersInv, HandlersLive, SlotsKept
  <2> QED
    BY <2>2, <2>3, <2>4
<1>12. CASE HandlerEnds
  <2>1. PICK c \in Running, how \in {"finished", "panicked"} : conn' = [conn EXCEPT ![c] = how]
    BY <1>12 DEF HandlerEnds
  <2>2. mainPc' = mainPc /\ permits' = permits + 1
    BY <1>12 DEF HandlerEnds
  <2>3. c \in Clients /\ conn[c] = "running" /\ mainPc \in {"reap", "select", "sleep", "drain"}
    BY <1>0, <2>1 DEF Running, HandlersLive
  <2>4. Running' = Running \ {c} /\ c \in Running /\ ConnType'
    BY <1>0, <2>1, <2>2, <2>3 DEF Running, ConnType
  <2>5. Cardinality(Running') = Cardinality(Running) - 1
    BY <1>1, <2>4, FS_RemoveElement
  <2>6. permits + Cardinality(Running) = MaxClients /\ permits \in Nat
    BY <1>0, <2>3 DEF SlotsKept, ConnType
  <2>7. permits' + Cardinality(Running') = MaxClients
    BY <1>1, <2>2, <2>5, <2>6
  <2> QED
    BY <2>2, <2>3, <2>4, <2>7 DEF HandlersInv, HandlersLive, SlotsKept
<1> QED
  BY <1>3, <1>4, <1>5, <1>6, <1>7, <1>8, <1>9, <1>10, <1>11, <1>12 DEF MainSteps

-----------------------------------------------------------------------------
(* The theorems *)

\* At boot nobody runs and nothing is logged.
LEMMA ServerStarts == Sizes /\ ServerInit => ServerInv
<1> SUFFICES ASSUME Sizes, ServerInit PROVE ServerInv
  OBVIOUS
<1>1. /\ mainPc = "boot" /\ conn = [c \in Clients |-> "away"] /\ permits = MaxClients /\ queue = <<>> /\ owed = 0
      /\ drain = [at |-> "open", line |-> "none", to |-> "none"]
      /\ inflight = [s \in Consoles |-> "none"]
  BY DEF ServerInit, HandsFree, None
<1>2. MaxClients \in Nat
  BY DEF Sizes
<1>3. Running = {}
  BY <1>1 DEF Running
<1>4. ConnType
  BY <1>1, <1>2 DEF ConnType
<1>5. HandlersInv
  BY <1>1, <1>2, <1>3, <1>4, FS_EmptySet DEF HandlersInv, HandlersLive, SlotsKept
<1>6. LogType
  <2>1. <<>> \in Seq(Entries)
    OBVIOUS
  <2> QED
    BY <1>1, <2>1 DEF LogType, Lines, Hands
<1>7. ServerLines(queue) = {} /\ InHand = 0 /\ OnConsole = 0
  BY <1>1 DEF ServerLines, InHand, OnConsole, Counts, Consoles
<1>8. OwedIsKnown
  <2>1. Cardinality(ServerLines(queue)) = 0
    BY <1>7, FS_EmptySet
  <2> QED
    BY <1>1, <1>7, <2>1 DEF OwedIsKnown
<1> QED
  BY <1>1, <1>5, <1>6, <1>7, <1>8 DEF ServerInv, LogInv, DrainDone, Joined

\* Every step keeps the invariant.
LEMMA ServerStep == ASSUME Sizes, ServerInv, [ServerNext]_serverVars PROVE ServerInv'
<1>1. CASE ServerNext
  BY <1>1, MainKeepsLog, TaskKeepsLog, MainKeepsHandlers DEF ServerNext, ServerInv
<1>2. CASE UNCHANGED serverVars
  <2>1. UNCHANGED <<setup, mainPc, conn, permits, queue, owed, drain, inflight, wedged, probing>>
    BY <1>2 DEF serverVars, loopVars, logVars
  <2>2. HandlersInv'
    BY <2>1 DEF ServerInv, HandlersInv, ConnType, HandlersLive, SlotsKept, Running
  <2>3. LogInv'
    BY <2>1 DEF ServerInv, LogInv, LogType, OwedIsKnown, DrainDone, Joined, InHand, OnConsole, ServerLines, Counts,
                ChannelOpen, Running, Wedges, None
  <2> QED
    BY <2>2, <2>3 DEF ServerInv
<1> QED
  BY <1>1, <1>2

\* No line of the server or of a handler that entered the log channel is lost on
\* the way out, but for the last line of each console stream, whose write the
\* runtime may drop (log_drain.rs: stdout and stderr are not flushed;
\* run_server.rs: shutdown_log_drain before the teardown).
THEOREM LogFlushedHolds == ServerSpec => []LogFlushed
<1>1. ServerInv => LogFlushed
  <2> SUFFICES ASSUME ServerInv, mainPc = "exited", ~Wedges PROVE owed = OnConsole
    BY DEF LogFlushed, OnConsole
  <2>1. ServerLines(queue) = {} /\ InHand = 0
    BY DEF ServerInv, LogInv, Joined
  <2>2. owed = Cardinality(ServerLines(queue)) + InHand + OnConsole
    BY DEF ServerInv, LogInv, OwedIsKnown
  <2>3. Cardinality(ServerLines(queue)) = 0
    BY <2>1, FS_EmptySet
  <2>4. OnConsole \in Nat
    BY DEF OnConsole, Counts
  <2> QED
    BY <2>1, <2>2, <2>3, <2>4
<1> QED
  BY ServerSizes, ServerStarts, ServerStep, <1>1, PTL DEF ServerSpec

\* The accept loop turns a client away as overloaded only when MaxClients
\* handlers run: a handler's permit comes back however the handler ends
\* (run_server.rs: the permit moves into the handler's future).
THEOREM OverloadIsFullHolds == ServerSpec => OverloadIsFull
<1>1. ASSUME ServerInv, [ServerNext]_serverVars
      PROVE  [\A c \in Clients : conn[c] = "waiting" /\ conn'[c] = "overload"
                                   => Cardinality(Running) = MaxClients]_serverVars
  <2> SUFFICES ASSUME ServerNext, NEW c \in Clients, conn[c] = "waiting", conn'[c] = "overload"
               PROVE  Cardinality(Running) = MaxClients
    BY <1>1
  <2>1. ConnType /\ SlotsKept
    BY <1>1 DEF ServerInv, HandlersInv
  <2>2. Accept
    <3>1. \/ UNCHANGED conn
          \/ Accept
          \/ \E d \in Clients, how \in {"finished", "panicked", "joined", "waiting"} : conn' = [conn EXCEPT ![d] = how]
          \/ \E old, new \in {"waiting", "reset", "running", "cancelled"} :
                 conn' = [d \in Clients |-> IF conn[d] = old THEN new ELSE conn[d]]
      BY DEF ServerNext, MainSteps, Boot, Join, Reaped, SleepOver, Drained, SaverFinished, JoinLog,
             Diagnose, ProcessExits, AcceptFails, StopAccepting, HandlerEnds, Connects, Terminate, Interrupt,
             LogSteps, DrainOpen, DrainRecv, DrainFile, DrainConsole, ConsoleWritten, DrainEnds,
             Wedge, ProbeEnds, LogUnchanged, loopVars, Ended, Running
    <3> QED
      BY <2>1, <3>1 DEF ConnType
  <2>3. mainPc = "select"
    BY <2>2 DEF Accept
  <2>4. permits = 0
    <3>1. PICK d \in Clients :
              \/ conn' = [conn EXCEPT ![d] = "filtered"]
              \/ permits = 0
              \/ conn' = [conn EXCEPT ![d] = "running"]
      BY <2>1, <2>2, AcceptCases
    <3> QED
      BY <2>1, <3>1 DEF ConnType
  <2>5. permits + Cardinality(Running) = MaxClients
    BY <2>1, <2>3 DEF SlotsKept
  <2>6. Cardinality(Running) \in Nat
    <3>1. IsFiniteSet(Clients)
      BY ServerSizes DEF Sizes
    <3>2. Running \in SUBSET Clients
      BY DEF Running
    <3> QED
      BY <3>1, <3>2, FS_Subset, FS_CardinalityType
  <2> QED
    BY <2>4, <2>5, <2>6
<1> QED
  BY ServerSizes, ServerStarts, ServerStep, <1>1, PTL DEF ServerSpec, OverloadIsFull

=============================================================================
