----------------------------- MODULE InitClaim -----------------------------
(***************************************************************************)
(* Password verification with init-on-first-login (AuthState::verify_async *)
(* and its phases), against the users file that `resocks5 user ...` edits  *)
(* from other processes.                                                   *)
(*                                                                         *)
(* A password hash is named by its password: Argon2 verifies a password    *)
(* against its own hash only.  The verify cache holds the last password    *)
(* that verified.  A call is a task of the runtime: it may be dropped at   *)
(* any await (the client hung up), while work inside `spawn_blocking` runs *)
(* to its end.  Each client makes one call per run of the server; clients  *)
(* with equal credentials stand for retries.                               *)
(***************************************************************************)
EXTENDS Integers, FiniteSets

CONSTANTS
    Clients, Accounts, Passwords,
    Logins,                  \* the credentials the clients may come with
    VerifySlots, ClaimSlots, \* sizes of the two semaphores
    MaxEdits, MaxCrashes     \* bounds: CLI commands, server crashes

ASSUME CredentialsAssumption == /\ IsFiniteSet(Clients)
                                /\ Logins \subseteq [Clients -> [account : Accounts,
                                                                 password : Passwords]]
ASSUME SlotsAssumption == /\ VerifySlots \in Nat \ {0} /\ ClaimSlots \in Nat \ {0}
                          /\ MaxEdits \in Nat /\ MaxCrashes \in Nat
\* "init" and "absent" are not password hashes, "none" stands for no cache
\* entry, and the processes that lock the file or a mutex are told apart.
ASSUME NamesAssumption == /\ Passwords \cap {"init", "absent", "none"} = {}
                          /\ Clients \cap {"nobody", "cli"} = {}

VARIABLES
    login,       \* each client's credentials
    users,       \* the hashes in AuthState.users
    cache,       \* the verify cache: a password or "none"
    file,        \* the users file, account by account
    exists,      \* the users file exists
    tmp,         \* the content of "<file>.tmp", or NoTmp
    fileLock,    \* holder of the OS lock: a client's call, "cli" or "nobody"
    claimLock,   \* holder of claim_lock
    gate,        \* holder of each account's claim gate
    vslots, cslots, \* free permits of verify_slots and claim_slots
    pc, stored,  \* each call: control point, committed hash to verify against
    snapshot,    \* the call built a fallback snapshot (file was missing)
    gone,        \* the client dropped the call
    answer,      \* what verify_async returned
    cli,         \* the CLI process: "idle" or where it is
    edit,        \* what it is about to write: account and new value
    edits, crashes, \* how often so far
    edited       \* history: the account was edited on disk since startup

memVars  == <<users, cache>>
diskVars == <<file, exists, tmp>>
lockVars == <<claimLock, gate, vslots, cslots>>
callVars == <<pc, stored, snapshot, gone, answer>>
cliVars  == <<cli, edit, edits, crashes, edited>>
vars == <<login, memVars, diskVars, fileLock, lockVars, callVars, cliVars>>

Values == Passwords \cup {"init", "absent"}
NoTmp == <<>>
AccountOf(c) == login[c].account
PasswordOf(c) == login[c].password

Init ==
    /\ login \in Logins
    /\ file \in [Accounts -> {"init"}]
    /\ users = file /\ cache = [a \in Accounts |-> "none"]
    /\ exists = TRUE /\ tmp = NoTmp /\ fileLock = "nobody"
    /\ claimLock = "nobody" /\ gate = [a \in Accounts |-> "nobody"]
    /\ vslots = VerifySlots /\ cslots = ClaimSlots
    /\ pc = [c \in Clients |-> "idle"] /\ stored = [c \in Clients |-> "init"]
    /\ snapshot = [c \in Clients |-> FALSE] /\ gone = [c \in Clients |-> FALSE]
    /\ answer = [c \in Clients |-> "none"]
    /\ cli = "idle" /\ edit \in [account : Accounts, value : {"absent"}]
    /\ edits = 0 /\ crashes = 0 /\ edited = [a \in Accounts |-> FALSE]

-----------------------------------------------------------------------------
Goto(c, label) == pc' = [pc EXCEPT ![c] = label]
Answer(c, ok) == /\ Goto(c, "done")
                 /\ answer' = [answer EXCEPT ![c] = IF gone[c] THEN "dropped"
                                                    ELSE IF ok THEN "yes" ELSE "no"]
\* The future was dropped while blocking work ran: nothing follows it.
Continue(c, label) == IF gone[c] THEN Answer(c, FALSE)
                      ELSE Goto(c, label) /\ answer' = answer

\* verify_against_committed: Argon2, and the cache on success.
VerifyAgainst(c, hash) ==
    LET ok == hash = PasswordOf(c) IN
    /\ Answer(c, ok)
    /\ cache' = IF ok THEN [cache EXCEPT ![AccountOf(c)] = PasswordOf(c)] ELSE cache

(* Phase 1 *)

\* Entry checks and the cache; a miss queues for a hashing permit.
Start(c) ==
    /\ pc[c] = "idle"
    /\ IF users[AccountOf(c)] = "absent" THEN Answer(c, FALSE)
       ELSE IF cache[AccountOf(c)] = PasswordOf(c) THEN Answer(c, TRUE)
       ELSE Goto(c, "want_hash") /\ answer' = answer
    /\ UNCHANGED <<memVars, diskVars, fileLock, lockVars, stored, snapshot, gone, cliVars>>

TakeHashSlot(c) ==
    /\ pc[c] \in {"want_hash", "want_verify"} /\ vslots > 0
    /\ vslots' = vslots - 1
    /\ Goto(c, IF pc[c] = "want_hash" THEN "prepare" ELSE "verify")
    /\ UNCHANGED <<memVars, diskVars, fileLock, claimLock, gate, cslots, stored, snapshot,
                   gone, answer, cliVars>>

\* verify_prepare: the cache again, a plain login, or an unclaimed account.
Prepare(c) ==
    LET a == AccountOf(c) IN
    /\ pc[c] = "prepare"
    /\ \/ /\ cache[a] = PasswordOf(c) \/ users[a] # "init"
          /\ vslots' = vslots + 1
          /\ IF cache[a] = PasswordOf(c) THEN Answer(c, TRUE) /\ cache' = cache
                                         ELSE VerifyAgainst(c, users[a])
       \/ /\ cache[a] # PasswordOf(c) /\ users[a] = "init"
          /\ Goto(c, "hash")
          /\ UNCHANGED <<vslots, answer, cache>>
    /\ UNCHANGED <<users, diskVars, fileLock, claimLock, gate, cslots, stored, snapshot, gone, cliVars>>

\* prepare_claim: the candidate is hashed; someone may have claimed meanwhile.
\* (Empty and over-long passwords are refused here and never get further.)
PrepareClaim(c) ==
    LET a == AccountOf(c) IN
    /\ pc[c] = "hash"
    /\ vslots' = vslots + 1
    /\ IF users[a] # "init" THEN VerifyAgainst(c, users[a])
                            ELSE Continue(c, "want_gate") /\ cache' = cache
    /\ UNCHANGED <<users, diskVars, fileLock, claimLock, gate, cslots, stored, snapshot, gone, cliVars>>

(* Phase 2 *)

\* The gate is ours; a claim that committed meanwhile makes this a login.
TakeGate(c) ==
    LET a == AccountOf(c) IN
    /\ pc[c] = "want_gate" /\ gate[a] = "nobody"
    /\ IF users[a] # "init"
       THEN /\ Goto(c, "want_verify") /\ stored' = [stored EXCEPT ![c] = users[a]]
            /\ gate' = gate
       ELSE /\ Goto(c, "want_slot") /\ stored' = stored
            /\ gate' = [gate EXCEPT ![a] = c]
    /\ UNCHANGED <<memVars, diskVars, fileLock, claimLock, vslots, cslots, snapshot, gone, answer, cliVars>>

\* The permit and the gate guard move into the blocking closure.
TakeClaimSlot(c) ==
    /\ pc[c] = "want_slot" /\ cslots > 0
    /\ cslots' = cslots - 1
    /\ Goto(c, "commit")
    /\ UNCHANGED <<memVars, diskVars, fileLock, claimLock, gate, vslots, stored, snapshot,
                   gone, answer, cliVars>>

\* claim_commit returns: the guards of the closure are dropped.
LeaveCommit(c) == /\ claimLock' = "nobody"
                  /\ gate' = [gate EXCEPT ![AccountOf(c)] = "nobody"]
                  /\ cslots' = cslots + 1

\* claim_lock is ours: re-check, and look whether the file exists.
TakeClaimLock(c) ==
    LET a == AccountOf(c) IN
    /\ pc[c] = "commit" /\ claimLock = "nobody"
    /\ IF users[a] # "init"
       THEN /\ LeaveCommit(c) /\ Continue(c, "want_verify")
            /\ stored' = [stored EXCEPT ![c] = users[a]] /\ snapshot' = snapshot
       ELSE /\ claimLock' = c /\ Goto(c, "want_file")
            /\ snapshot' = [snapshot EXCEPT ![c] = ~exists]
            /\ UNCHANGED <<stored, gate, cslots, answer>>
    /\ UNCHANGED <<memVars, diskVars, fileLock, vslots, gone, cliVars>>

\* ClaimPersist::Failed: the sentinel is restated and the login refused.
FailClaim(c) == /\ users' = [users EXCEPT ![AccountOf(c)] = "init"]
                /\ LeaveCommit(c)
                /\ Answer(c, FALSE)

LockFilePublishes(c) ==                                          \* mutant
    /\ pc[c] = "want_file" /\ fileLock = "nobody"
    /\ fileLock' = c /\ Goto(c, "read")
    /\ users' = [users EXCEPT ![AccountOf(c)] = PasswordOf(c)]
    /\ UNCHANGED <<cache, diskVars, lockVars, stored, snapshot, gone, answer, cliVars>>
\* The OS lock is taken; or it cannot be, in time or at all.
LockFile(c) ==
    /\ pc[c] = "want_file" /\ fileLock = "nobody"
    /\ fileLock' = c
    /\ Goto(c, "read")
    /\ UNCHANGED <<memVars, diskVars, lockVars, stored, snapshot, gone, answer, cliVars>>

LockNeverFails(c) == FALSE /\ UNCHANGED vars                     \* mutant
LockFails(c) ==
    /\ pc[c] = "want_file"
    /\ FailClaim(c)
    /\ UNCHANGED <<cache, diskVars, fileLock, vslots, stored, snapshot, gone, cliVars>>

\* Whether persist_claim has something to write: its own entry is still
\* "init" on disk, or the file is missing and a snapshot can recreate it.
Writable(c) == IF exists THEN file[AccountOf(c)] = "init" ELSE snapshot[c]

PersistRefusedLetsIn(c) ==                                       \* mutant
    /\ pc[c] = "read" /\ ~Writable(c)
    /\ fileLock' = "nobody"
    /\ users' = [users EXCEPT ![AccountOf(c)] = file[AccountOf(c)]]
    /\ LeaveCommit(c) /\ Answer(c, TRUE)
    /\ UNCHANGED <<cache, diskVars, vslots, stored, snapshot, gone, cliVars>>
\* persist_claim stops before writing: the file vanished or the account was
\* removed (Failed), or a real password is on disk (DiskHashChanged: adopt it).
PersistRefused(c) ==
    LET a == AccountOf(c) IN
    /\ pc[c] = "read" /\ ~Writable(c)
    /\ fileLock' = "nobody"
    /\ IF exists /\ file[a] \in Passwords
       THEN /\ users' = [users EXCEPT ![a] = file[a]]
            /\ stored' = [stored EXCEPT ![c] = file[a]]
            /\ LeaveCommit(c) /\ Continue(c, "want_verify")
       ELSE /\ FailClaim(c) /\ stored' = stored
    /\ UNCHANGED <<cache, diskVars, vslots, snapshot, gone, cliVars>>

ClaimedFromMemory(c) == [users EXCEPT ![AccountOf(c)] = PasswordOf(c)]    \* mutant
\* The claim merged into what the file holds now, or into the snapshot.
Claimed(c) == [(IF exists THEN file ELSE users) EXCEPT ![AccountOf(c)] = PasswordOf(c)]

\* write_atomic: the temp file is created exclusively, filled and flushed.
WriteTmp(c) ==
    /\ pc[c] = "read" /\ Writable(c) /\ tmp = NoTmp
    /\ tmp' = Claimed(c)
    /\ Goto(c, "rename")
    /\ UNCHANGED <<memVars, file, exists, fileLock, lockVars, stored, snapshot, gone, answer, cliVars>>

\* The file cannot be read, the temp file not created (a leftover one is kept)
\* or filled, or the rename fails; what this call created is removed.
WriteFails(c) ==
    /\ \/ pc[c] = "read" /\ Writable(c) /\ tmp' = tmp
       \/ pc[c] = "rename" /\ tmp' = NoTmp
    /\ fileLock' = "nobody"
    /\ FailClaim(c)
    /\ UNCHANGED <<cache, file, exists, vslots, stored, snapshot, gone, cliVars>>

\* The rename: the claim is on disk.  An error reported after it (directory
\* sync) leaves the claim there although write_atomic fails.
Commit(c) ==
    /\ pc[c] = "rename"
    /\ file' = tmp /\ exists' = TRUE /\ tmp' = NoTmp
    /\ fileLock' = "nobody"
    /\ \/ /\ Goto(c, "publish") /\ UNCHANGED <<users, claimLock, gate, cslots, answer>>
       \/ FailClaim(c)
    /\ UNCHANGED <<cache, vslots, stored, snapshot, gone, cliVars>>

\* ClaimPersist::Written: memory and cache follow the disk.
Publish(c) ==
    LET a == AccountOf(c) IN
    /\ pc[c] = "publish"
    /\ users' = [users EXCEPT ![a] = PasswordOf(c)]
    /\ cache' = [cache EXCEPT ![a] = PasswordOf(c)]
    /\ LeaveCommit(c)
    /\ Answer(c, TRUE)
    /\ UNCHANGED <<diskVars, fileLock, vslots, stored, snapshot, gone, cliVars>>

(* Phase 3 *)

Verify(c) ==
    /\ pc[c] = "verify"
    /\ vslots' = vslots + 1
    /\ VerifyAgainst(c, stored[c])
    /\ UNCHANGED <<users, diskVars, fileLock, claimLock, gate, cslots, stored, snapshot, gone, cliVars>>

-----------------------------------------------------------------------------
(* The client hangs up.  At an await of a permit or of the gate the frame   *)
(* is dropped with the gate guard it may hold; blocking work goes on.       *)
Awaiting == {"want_hash", "want_gate", "want_slot", "want_verify"}
Blocking == {"prepare", "hash", "commit", "want_file", "read", "rename", "publish", "verify"}

HangUp(c) ==
    /\ \/ /\ pc[c] \in Awaiting
          /\ Goto(c, "done") /\ answer' = [answer EXCEPT ![c] = "dropped"]
          /\ gate' = IF pc[c] = "want_slot" THEN [gate EXCEPT ![AccountOf(c)] = "nobody"] ELSE gate
          /\ gone' = gone
       \/ /\ pc[c] \in Blocking /\ ~gone[c]
          /\ gone' = [gone EXCEPT ![c] = TRUE]
          /\ UNCHANGED <<pc, answer, gate>>
    /\ UNCHANGED <<memVars, diskVars, fileLock, claimLock, vslots, cslots, stored, snapshot, cliVars>>

-----------------------------------------------------------------------------
(* The CLI in another process: commit_op_locked reads, edits and replaces   *)
(* the file under the same OS lock.                                         *)

\* add, add-init, set-password or remove; the command waits for the lock.
CliLock ==
    /\ cli = "idle" /\ edits < MaxEdits /\ fileLock = "nobody"
    /\ fileLock' = "cli" /\ cli' = "locked" /\ edits' = edits + 1
    /\ edit' \in [account : Accounts, value : Values]
    /\ UNCHANGED <<memVars, diskVars, lockVars, callVars, crashes, edited>>

\* apply_op validates against the file as it is now: add-init needs a new
\* name, remove an existing one; a password is added or replaced.
Applicable == /\ edit.value = "init" => file[edit.account] = "absent"
              /\ edit.value = "absent" => file[edit.account] # "absent"

CliWrite ==
    /\ cli = "locked" /\ exists /\ Applicable /\ tmp = NoTmp
    /\ cli' = "rename"
    /\ tmp' = [file EXCEPT ![edit.account] = edit.value]
    /\ UNCHANGED <<memVars, file, exists, fileLock, lockVars, callVars, edit, edits, crashes, edited>>

CliCommit ==
    /\ cli = "rename"
    /\ file' = tmp /\ exists' = TRUE /\ tmp' = NoTmp
    /\ edited' = [edited EXCEPT ![edit.account] = TRUE]
    /\ fileLock' = "nobody" /\ cli' = "idle"
    /\ UNCHANGED <<memVars, lockVars, callVars, edit, edits, crashes>>

\* The command fails, or its process dies between the two writes and leaves
\* the temp file behind; the OS frees the lock either way.
CliEnds ==
    /\ cli \in {"locked", "rename"}
    /\ tmp' \in {tmp} \cup (IF cli = "rename" THEN {NoTmp} ELSE {})
    /\ fileLock' = "nobody" /\ cli' = "idle"
    /\ UNCHANGED <<memVars, file, exists, lockVars, callVars, edit, edits, crashes, edited>>

\* Somebody removes the users file by hand.
FileRemoved ==
    /\ edits < MaxEdits /\ exists
    /\ exists' = FALSE /\ edits' = edits + 1
    /\ edited' = [a \in Accounts |-> TRUE]
    /\ UNCHANGED <<memVars, file, tmp, fileLock, lockVars, callVars, cli, edit, crashes>>

\* The server process dies anywhere and is started again from the file.
Crash ==
    /\ crashes < MaxCrashes /\ exists
    /\ crashes' = crashes + 1
    /\ users' = file /\ cache' = [a \in Accounts |-> "none"]
    /\ edited' = [a \in Accounts |-> FALSE]
    /\ claimLock' = "nobody" /\ gate' = [a \in Accounts |-> "nobody"]
    /\ vslots' = VerifySlots /\ cslots' = ClaimSlots
    /\ fileLock' = IF fileLock = "cli" THEN "cli" ELSE "nobody"
    /\ pc' = [c \in Clients |-> "idle"] /\ stored' = [c \in Clients |-> "init"]
    /\ snapshot' = [c \in Clients |-> FALSE] /\ gone' = [c \in Clients |-> FALSE]
    /\ answer' = [c \in Clients |-> "none"]
    /\ UNCHANGED <<diskVars, cli, edit, edits>>

-----------------------------------------------------------------------------
CallStep(c) ==
    /\ \/ TakeHashSlot(c) \/ Prepare(c) \/ PrepareClaim(c) \/ TakeGate(c)
       \/ TakeClaimSlot(c) \/ TakeClaimLock(c) \/ LockFile(c) \/ LockFails(c)
       \/ PersistRefused(c) \/ WriteTmp(c) \/ WriteFails(c) \/ Commit(c)
       \/ Publish(c) \/ Verify(c)
    /\ login' = login

ClientStep(c) == Start(c) \/ CallStep(c) \/ HangUp(c)
OtherProcess == CliLock \/ CliWrite \/ CliCommit \/ CliEnds \/ FileRemoved

Next == /\ \/ \E c \in Clients : ClientStep(c)
           \/ OtherProcess
           \/ Crash
        /\ login' = login

Spec == Init /\ [][Next]_vars

\* The runtime runs ready tasks and blocking closures, and its semaphores and
\* async mutexes are first-come first-served.  The CLI may hang with the lock:
\* a claim then ends by the lock's timeout.
Fairness == \A c \in Clients : WF_vars(CallStep(c))
FairSpec == Spec /\ Fairness

-----------------------------------------------------------------------------
(* Properties *)

PcStates == {"idle", "done"} \cup Awaiting \cup Blocking
Procs == Clients \cup {"nobody"}

\* Every variable has its type.
TypeOK ==
    /\ login \in Logins
    /\ users \in [Accounts -> Values] /\ cache \in [Accounts -> Passwords \cup {"none"}]
    /\ file \in [Accounts -> Values] /\ exists \in BOOLEAN
    /\ tmp \in [Accounts -> Values] \cup {NoTmp}
    /\ fileLock \in Procs \cup {"cli"} /\ claimLock \in Procs /\ gate \in [Accounts -> Procs]
    /\ vslots \in 0 .. VerifySlots /\ cslots \in 0 .. ClaimSlots
    /\ pc \in [Clients -> PcStates] /\ stored \in [Clients -> Values]
    /\ snapshot \in [Clients -> BOOLEAN] /\ gone \in [Clients -> BOOLEAN]
    /\ answer \in [Clients -> {"none", "yes", "no", "dropped"}]
    /\ cli \in {"idle", "locked", "rename"} /\ edit \in [account : Accounts, value : Values]
    /\ edits \in 0 .. MaxEdits /\ crashes \in 0 .. MaxCrashes
    /\ edited \in [Accounts -> BOOLEAN]

\* While the server runs, an account opens for one password only: whoever was
\* let in used the password that memory holds, so of two clients racing to
\* claim an account with different passwords at most one ever gets in.
OnePassword ==
    \A c \in Clients : answer[c] = "yes" => users[AccountOf(c)] = PasswordOf(c)

\* A committed hash in memory is on disk (unless the account was edited there
\* since startup): a password that was accepted survives a crash.
MemoryIsDurable ==
    \A a \in Accounts : (users[a] \in Passwords /\ ~edited[a]) => exists /\ file[a] = users[a]

\* What a running server writes to an existing users file is exactly one claim:
\* one entry goes from "init" to a password, and edits made by the CLI since
\* startup are kept.
WritesOnlyClaims ==
    [][exists /\ exists' /\ file' # file /\ cli' = cli =>
         \E a \in Accounts : /\ file[a] = "init" /\ file'[a] \in Passwords
                             /\ \A b \in Accounts \ {a} : file'[b] = file[b]]_vars

InCommit == {c \in Clients : pc[c] \in {"commit", "want_file", "read", "rename", "publish"}}

\* Admission: no permit is lost on any path out of a call, a server that waits
\* for the users file never sits on a hashing permit, and at most ClaimSlots
\* claims, at most one per account, occupy blocking threads, whether or not
\* their clients hung up.
PermitsAddUp ==
    /\ cslots >= 0 /\ \A c, d \in InCommit : AccountOf(c) = AccountOf(d) => c = d
    /\ vslots + Cardinality({c \in Clients : pc[c] \in {"prepare", "hash", "verify"}}) = VerifySlots
    /\ cslots + Cardinality(InCommit) = ClaimSlots

\* Every call ends, even when a CLI process holds the users-file lock forever.
CallsEnd == \A c \in Clients : pc[c] \notin {"idle", "done"} ~> pc[c] \in {"idle", "done"}
=============================================================================
