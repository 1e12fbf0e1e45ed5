---------------------------- MODULE HealthSaver ----------------------------
(***************************************************************************)
(* The writer of the health file: start-up (restore, cross-process lock,   *)
(* stale temp), the periodic saver, its blocking writes and the shutdown   *)
(* protocol `finish`, for processes that share one directory.              *)
(*                                                                         *)
(* A saved picture is what `signature` tells apart.  A file on disk is an  *)
(* inode: the writer that created it, the picture it is to hold, and       *)
(* whether all of it has been written.  Blocking writes cannot be          *)
(* cancelled: they go on after the task that awaits them is gone, until    *)
(* the process exits.                                                      *)
(***************************************************************************)
EXTENDS Integers, FiniteSets

CONSTANTS
    Procs,       \* the instances; one that exited may be started again
    Pictures,    \* what a picture can be
    Fresh,       \* the picture of a process that restored nothing
    Restores,    \* what a start can make of a saved picture, see `restore`
    Settings,    \* the circumstances considered, see `setting`
    MaxCrashes   \* bound: crashes

ASSUME HealthAssumption ==
    /\ IsFiniteSet(Procs) /\ Fresh \in Pictures /\ MaxCrashes \in Nat
    /\ Settings \subseteq [instances : SUBSET Procs, pictures : SUBSET Pictures,
                           slow : BOOLEAN, syncFails : BOOLEAN]
\* `restore` turns a quarantine that ran out while the process was down into
\* probation, fills up trips and failures, and skips whatever is not dead, not
\* readable or no longer listed: the cells need not equal the file.
ASSUME RestoresAssumption ==
    Restores \in [Pictures -> SUBSET Pictures] /\ \A v \in Pictures : Restores[v] # {}
ASSUME HealthNamesAssumption == "nobody" \notin Procs /\ "none" \notin Pictures

VARIABLES
    file, tmp,   \* the health file and "<file>.tmp": an inode or NoFile
    lock,        \* holder of the cross-process lock, or "nobody"
    pc,          \* each process
    picture,     \* its health cells now
    last,        \* run_saver's `last`: the picture it believes is on disk
    loop,        \* its saver task: "none", "wait", "saving", "done"
    stop,        \* a stop was notified
    writer,      \* its blocking writes: the round's and the final one
    crashes,
    setting      \* fixed: who is ever started, the pictures that occur, whether
                 \* a write may outlast FINISH_BUDGET and the teardown, and a
                 \* directory sync may fail

diskVars == <<file, tmp, lock>>
procVars == <<pc, picture, last, loop, stop>>
world == <<crashes, setting>>
vars == <<diskVars, procVars, writer, world>>

Roles == {"round", "final"}
NoFile == [by |-> "nobody", role |-> "none", picture |-> "none", whole |-> TRUE]
NoWrite == [at |-> "none", picture |-> "none"]

\* The steps of a write that still has something to do, and how it ends.
Busy == {"reclaim", "create", "fill", "rename"}
Writing(p) == \E r \in Roles : writer[p][r].at \in Busy

\* The file an earlier run left, if any.
OldFiles(ps) == {NoFile} \cup
    {[by |-> "nobody", role |-> "none", picture |-> v, whole |-> TRUE] : v \in ps}

Init ==
    /\ setting \in Settings /\ file \in OldFiles(setting.pictures) /\ tmp = NoFile /\ lock = "nobody"
    /\ pc = [p \in Procs |-> "off"] /\ picture = [p \in Procs |-> Fresh]
    /\ last = [p \in Procs |-> "none"] /\ loop = [p \in Procs |-> "none"]
    /\ stop = [p \in Procs |-> FALSE]
    /\ writer = [p \in Procs |-> [r \in Roles |-> NoWrite]]
    /\ crashes = 0

Goto(p, label) == pc' = [pc EXCEPT ![p] = label]

-----------------------------------------------------------------------------
(* start *)

\* A picture that can be read back: there is a file and it is complete.
Readable == file # NoFile /\ file.whole

\* `resume`: the saved picture, if any, is put back into the cells, and the
\* baseline of the saver is a snapshot of those cells, not the file.
Resume(p) ==
    /\ pc[p] = "off" /\ p \in setting.instances
    /\ \E v \in IF Readable THEN Restores[file.picture] ELSE {Fresh} :
        /\ picture' = [picture EXCEPT ![p] = v]
        /\ last' = [last EXCEPT ![p] = IF Readable THEN v ELSE "none"]
    /\ Goto(p, "lock")
    /\ UNCHANGED <<diskVars, loop, stop, writer, world>>

Lock(p) ==
    /\ pc[p] = "lock" /\ lock = "nobody"
    /\ lock' = p
    /\ Goto(p, "clean")
    /\ UNCHANGED <<file, tmp, picture, last, loop, stop, writer, world>>

\* Busy for LOCK_BUDGET, or not to be opened: this run does not persist.
LockFails(p) ==
    /\ pc[p] = "lock"
    /\ Goto(p, "run")
    /\ UNCHANGED <<diskVars, picture, last, loop, stop, writer, world>>

\* remove_stale_temp (its failure is only reported); the saver is spawned.
SpawnSaver(p) ==
    /\ pc[p] = "clean"
    /\ tmp' \in {tmp, NoFile}
    /\ loop' = [loop EXCEPT ![p] = "wait"]
    /\ Goto(p, "run")
    /\ UNCHANGED <<file, lock, picture, last, stop, writer, world>>

\* Client traffic and probes move the health cells.
Change(p) ==
    /\ pc[p] = "run"
    /\ \E v \in setting.pictures \ {picture[p]} : picture' = [picture EXCEPT ![p] = v]
    /\ UNCHANGED <<diskVars, pc, last, loop, stop, writer, world>>

-----------------------------------------------------------------------------
(* run_saver *)

\* save_offloaded of a snapshot taken now.
StartWrite(p, r) ==
    writer' = [writer EXCEPT ![p][r] = [at |-> "reclaim", picture |-> picture[p]]]

\* A tick, with no stop pending (the select is biased), finds a new picture.
Round(p) ==
    /\ loop[p] = "wait" /\ ~stop[p] /\ picture[p] # last[p]
    /\ StartWrite(p, "round")
    /\ loop' = [loop EXCEPT ![p] = "saving"]
    /\ UNCHANGED <<diskVars, pc, picture, last, stop, world>>

RoundDoneAnyway(p) ==                                            \* mutant
    LET w == writer[p]["round"] IN
    /\ loop[p] = "saving" /\ w.at \in {"ok", "err"}
    /\ last' = [last EXCEPT ![p] = w.picture]
    /\ loop' = [loop EXCEPT ![p] = "wait"]
    /\ writer' = [writer EXCEPT ![p]["round"] = NoWrite]
    /\ UNCHANGED <<diskVars, pc, picture, stop, world>>
\* The write returned; only a success moves the baseline.
RoundDone(p) ==
    LET w == writer[p]["round"] IN
    /\ loop[p] = "saving" /\ w.at \in {"ok", "err"}
    /\ last' = IF w.at = "ok" THEN [last EXCEPT ![p] = w.picture] ELSE last
    /\ loop' = [loop EXCEPT ![p] = "wait"]
    /\ writer' = [writer EXCEPT ![p]["round"] = NoWrite]
    /\ UNCHANGED <<diskVars, pc, picture, stop, world>>

LoopStops(p) ==
    /\ loop[p] = "wait" /\ stop[p]
    /\ loop' = [loop EXCEPT ![p] = "done"]
    /\ UNCHANGED <<diskVars, pc, picture, last, stop, writer, world>>

-----------------------------------------------------------------------------
(* save_offloaded and write_atomic, on a thread of the blocking pool *)

WriterGoto(p, r, from, to) ==
    /\ writer[p][r].at = from
    /\ writer' = [writer EXCEPT ![p][r].at = to]

ReclaimSkipped(p, r) ==                                          \* mutant
    WriterGoto(p, r, "reclaim", "create") /\ UNCHANGED <<diskVars, procVars, world>>
\* Whatever sits at the temp path is removed.
Reclaim(p, r) ==
    /\ WriterGoto(p, r, "reclaim", "create")
    /\ tmp' = NoFile
    /\ UNCHANGED <<file, lock, procVars, world>>

\* create_new: the temp must not exist.
Create(p, r) ==
    /\ WriterGoto(p, r, "create", "fill") /\ tmp = NoFile
    /\ tmp' = [by |-> p, role |-> r, picture |-> writer[p][r].picture, whole |-> FALSE]
    /\ UNCHANGED <<file, lock, procVars, world>>

\* The open handle writes to its inode, whatever name that has by now.
Filled(p, r, inode) ==
    IF inode.by = p /\ inode.role = r THEN [inode EXCEPT !.whole = TRUE] ELSE inode

FillSkipped(p, r) ==                                             \* mutant
    WriterGoto(p, r, "fill", "rename") /\ UNCHANGED <<diskVars, procVars, world>>
\* write_all and sync_all.
Fill(p, r) ==
    /\ WriterGoto(p, r, "fill", "rename")
    /\ tmp' = Filled(p, r, tmp) /\ file' = Filled(p, r, file)
    /\ UNCHANGED <<lock, procVars, world>>

\* The rename moves whatever the temp path names.
Commit(p, r) ==
    /\ tmp # NoFile
    /\ \/ WriterGoto(p, r, "rename", "ok")
       \/ WriterGoto(p, r, "rename", "err") /\ setting.syncFails
    /\ file' = tmp /\ tmp' = NoFile
    /\ UNCHANGED <<lock, procVars, world>>

\* An I/O error; write_atomic removes the temp path once it has created it.
\* (The picture could not be reclaimed, created, filled or renamed.)
WriteFails(p, r) ==
    /\ \/ writer[p][r].at \in {"reclaim", "create"} /\ tmp' = tmp
       \/ writer[p][r].at \in {"fill", "rename"} /\ tmp' = NoFile
    /\ writer' = [writer EXCEPT ![p][r].at = "err"]
    /\ UNCHANGED <<file, lock, procVars, world>>

-----------------------------------------------------------------------------
(* HealthSaver::finish, runtime teardown, crashes *)

\* The lock is dropped with the frame of `finish`, if p holds it.
Unlock(p) == lock' = IF lock = p THEN "nobody" ELSE lock

\* Without a saver task there is nothing to finish.
Finish(p) ==
    /\ pc[p] = "run"
    /\ IF loop[p] = "none" THEN Goto(p, "teardown") /\ stop' = stop
       ELSE Goto(p, "stopping") /\ stop' = [stop EXCEPT ![p] = TRUE]
    /\ UNCHANGED <<diskVars, picture, last, loop, writer, world>>

\* The loop ended in time: the final snapshot.
SaveFinal(p) ==
    /\ pc[p] = "stopping" /\ loop[p] = "done"
    /\ StartWrite(p, "final")
    /\ Goto(p, "final")
    /\ UNCHANGED <<diskVars, picture, last, loop, stop, world>>

\* It did not: the task is aborted (the write is not) and finish returns.
StopTimesOut(p) ==
    /\ setting.slow /\ pc[p] = "stopping" /\ loop[p] # "done"
    /\ loop' = [loop EXCEPT ![p] = "done"]
    /\ Unlock(p)
    /\ Goto(p, "teardown")
    /\ UNCHANGED <<file, tmp, picture, last, stop, writer, world>>

FinalUnbounded(p) ==                                             \* mutant
    /\ pc[p] = "final" /\ ~Writing(p)
    /\ Unlock(p) /\ Goto(p, "teardown")
    /\ UNCHANGED <<file, tmp, picture, last, loop, stop, writer, world>>
\* The final write ended, well or not, or took too long.
FinalEnds(p) ==
    /\ pc[p] = "final" /\ (setting.slow \/ ~Writing(p))
    /\ Unlock(p)
    /\ Goto(p, "teardown")
    /\ UNCHANGED <<file, tmp, picture, last, loop, stop, writer, world>>

\* The process is gone, and with it its tasks, its threads and its lock.
Gone(p) ==
    /\ Goto(p, "off") /\ Unlock(p)
    /\ loop' = [loop EXCEPT ![p] = "none"] /\ stop' = [stop EXCEPT ![p] = FALSE]
    /\ writer' = [writer EXCEPT ![p] = [r \in Roles |-> NoWrite]]
    /\ UNCHANGED <<file, tmp, picture, last>>

\* shutdown_timeout waits for blocking writes, but not for ever.
Exit(p) == /\ pc[p] = "teardown" /\ (setting.slow \/ ~Writing(p))
           /\ Gone(p) /\ UNCHANGED world

Crash(p) == /\ pc[p] # "off" /\ crashes < MaxCrashes
            /\ Gone(p) /\ crashes' = crashes + 1 /\ setting' = setting

-----------------------------------------------------------------------------
LoopStep(p) == Round(p) \/ RoundDone(p) \/ LoopStops(p)
WriteStep(p, r) == Reclaim(p, r) \/ Create(p, r) \/ Fill(p, r) \/ Commit(p, r)
FinishStep(p) == SaveFinal(p) \/ StopTimesOut(p) \/ FinalEnds(p) \/ Exit(p)
StartStep(p) == Lock(p) \/ LockFails(p) \/ SpawnSaver(p)

Next == \E p \in Procs :
            \/ Resume(p) \/ StartStep(p) \/ Change(p) \/ LoopStep(p)
            \/ Finish(p) \/ FinishStep(p) \/ Crash(p)
            \/ \E r \in Roles : WriteStep(p, r) \/ WriteFails(p, r)

Spec == Init /\ [][Next]_vars

\* Tasks are polled and timers fire, but the disk may hang.
Fairness == \A p \in Procs : WF_vars(LoopStep(p)) /\ WF_vars(FinishStep(p))
FairSpec == Spec /\ Fairness

\* The disk answers, and at some time stops failing.
DiskWorks == /\ \A p \in Procs, r \in Roles : WF_vars(WriteStep(p, r))
             /\ <>[][\A p \in Procs, r \in Roles : ~WriteFails(p, r)]_vars

-----------------------------------------------------------------------------
(* Properties *)

Inodes == [by : Procs, role : Roles, picture : Pictures, whole : BOOLEAN] \cup OldFiles(Pictures)

\* Every variable has its type.
TypeOK ==
    /\ file \in Inodes /\ tmp \in Inodes /\ lock \in Procs \cup {"nobody"}
    /\ pc \in [Procs -> {"off", "lock", "clean", "run", "stopping", "final", "teardown"}]
    /\ picture \in [Procs -> Pictures] /\ last \in [Procs -> Pictures \cup {"none"}]
    /\ loop \in [Procs -> {"none", "wait", "saving", "done"}] /\ stop \in [Procs -> BOOLEAN]
    /\ writer \in [Procs -> [Roles ->
           [at : Busy \cup {"ok", "err"}, picture : Pictures] \cup {NoWrite}]]
    /\ crashes \in 0 .. MaxCrashes /\ setting \in Settings

\* The holder of the lock is the only writer: no write is in flight in a process
\* that does not hold it, so two instances never race over the temp file, and
\* the lock is released only after the final write.
WritersHoldLock == \A p \in Procs : Writing(p) => lock = p

\* The health file is never seen incomplete, whatever crashes, fails or hangs:
\* a start can always read back what an earlier run saved.
FileIsWhole == file.whole

\* The file accounts for a picture: it holds it, or one that a start turns into it.
OnDisk(v) == Readable /\ v \in {file.picture} \cup Restores[file.picture]

\* What the saver does not write again is accounted for on disk: when a round is
\* skipped because the picture equals the baseline, the file holds that picture
\* or the one it was restored from.  (For a server alone on its file whose
\* directory syncs do not fail.)  The file need not equal the cells, although
\* `start` calls the baseline "the state as it is on disk": what the restore
\* changed is only written with the next change.
SkipIsSafe == \A p \in Procs :
    (setting.instances = {p} /\ ~setting.syncFails /\
     loop[p] = "wait" /\ lock = p /\ picture[p] = last[p]) => OnDisk(picture[p])

\* A picture that stays is accounted for on disk from some time on, if the disk
\* works: no failed write, leftover temp or earlier crash keeps the saver of a
\* running server from writing it.  (For a server alone on its file.)
EventuallySaved == DiskWorks =>
    \A p \in Procs, v \in Pictures :
        <>[](setting.instances = {p} /\ pc[p] = "run" /\ loop[p] # "none" /\ picture[p] = v)
            => <>[](OnDisk(v))

\* Shutdown is bounded: even with a write that hangs for ever, finish returns
\* and the process exits.
ShutdownEnds == \A p \in Procs : setting.slow /\ pc[p] = "stopping" ~> pc[p] = "off"
=============================================================================
