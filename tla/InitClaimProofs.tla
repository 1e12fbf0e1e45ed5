-------------------------- MODULE InitClaimProofs --------------------------
(***************************************************************************)
(* Proofs about InitClaim, for any clients, accounts, passwords and slot   *)
(* counts, and any number of CLI edits, file removals and crashes: an      *)
(* account opens for one password, what memory has committed is on disk,   *)
(* the server writes nothing but claims, and no admission permit is lost.  *)
(*                                                                         *)
(* The argument is about windows.  Between the check that an account is    *)
(* unclaimed and the moment memory says otherwise, a call holds claim_lock *)
(* (so memory still says "init"); between reading the users file and       *)
(* renaming over it, it holds the OS lock as well (so the file, if it is   *)
(* still there, is the one that was read).                                 *)
(***************************************************************************)
EXTENDS InitClaim, FiniteSetTheorems, TLAPS

(* The parts of the inductive invariant. *)

UnderFileLock  == {"read", "rename"}
UnderClaimLock == {"want_file", "read", "rename", "publish"}
UnderGate      == {"want_slot", "commit"} \cup UnderClaimLock

\* What call d holds, and what it may rely on while it holds it.
CallOf(d) ==
    /\ pc[d] \in UnderFileLock <=> fileLock = d
    /\ pc[d] \in UnderClaimLock <=> claimLock = d
    /\ pc[d] \in UnderGate <=> gate[AccountOf(d)] = d
    /\ pc[d] \in UnderClaimLock => users[AccountOf(d)] = "init"
    /\ pc[d] \in {"want_verify", "verify"} =>
          stored[d] = users[AccountOf(d)] /\ users[AccountOf(d)] # "init"
    /\ pc[d] = "rename" =>
          /\ tmp \in [Accounts -> Values] /\ tmp[AccountOf(d)] = PasswordOf(d)
          /\ exists => /\ file[AccountOf(d)] = "init"
                       /\ \A b \in Accounts \ {AccountOf(d)} : tmp[b] = file[b]
    /\ pc[d] = "publish" /\ ~edited[AccountOf(d)] =>
          exists /\ file[AccountOf(d)] = PasswordOf(d)
    /\ answer[d] = "yes" => users[AccountOf(d)] = PasswordOf(d)
Calls == \A d \in Clients : CallOf(d)

\* The CLI under the OS lock; the cache repeats memory; a missing file counts
\* as edited.
Shared ==
    /\ cli # "idle" <=> fileLock = "cli"
    /\ cli = "rename" => tmp = [file EXCEPT ![edit.account] = edit.value]
    /\ \A a \in Accounts : ~exists => edited[a]
    /\ \A a \in Accounts : cache[a] \in {"none", users[a]}

IInv == TypeOK /\ Calls /\ Shared /\ MemoryIsDurable /\ PermitsAddUp
-----------------------------------------------------------------------------
(* Types and the counting of permits. *)

Answers == {"none", "yes", "no", "dropped"}
HashingAt == {"prepare", "hash", "verify"}
CommitAt == {"commit", "want_file", "read", "rename", "publish"}
Hashing == {c \in Clients : pc[c] \in HashingAt}

\* TypeOK without the bounds on the free permits, which rest on the counting.
Typed ==
    /\ login \in Logins
    /\ users \in [Accounts -> Values] /\ cache \in [Accounts -> Passwords \cup {"none"}]
    /\ file \in [Accounts -> Values] /\ exists \in BOOLEAN
    /\ tmp \in [Accounts -> Values] \cup {NoTmp}
    /\ fileLock \in Procs \cup {"cli"} /\ claimLock \in Procs /\ gate \in [Accounts -> Procs]
    /\ vslots \in Nat /\ cslots \in Nat
    /\ pc \in [Clients -> PcStates] /\ stored \in [Clients -> Values]
    /\ snapshot \in [Clients -> BOOLEAN] /\ gone \in [Clients -> BOOLEAN]
    /\ answer \in [Clients -> Answers]
    /\ cli \in {"idle", "locked", "rename"} /\ edit \in [account : Accounts, value : Values]
    /\ edits \in 0 .. MaxEdits /\ crashes \in 0 .. MaxCrashes
    /\ edited \in [Accounts -> BOOLEAN]

Slots == /\ vslots + Cardinality(Hashing) = VerifySlots
         /\ cslots + Cardinality(InCommit) = ClaimSlots

Base == Typed /\ Calls /\ Shared /\ MemoryIsDurable

LEMMA Names ==
    ASSUME Typed, NEW c \in Clients
    PROVE  /\ AccountOf(c) \in Accounts /\ PasswordOf(c) \in Passwords
           /\ PasswordOf(c) \notin {"init", "absent", "none"} /\ c \notin {"nobody", "cli"}
<1>1. login[c] \in [account : Accounts, password : Passwords]
  BY CredentialsAssumption DEF Typed
<1> QED
  BY <1>1, NamesAssumption DEF AccountOf, PasswordOf

\* Credentials do not change.
LEMMA SameNames ==
    ASSUME login' = login
    PROVE  \A d \in Clients : AccountOf(d)' = AccountOf(d) /\ PasswordOf(d)' = PasswordOf(d)
  BY DEF AccountOf, PasswordOf

\* One client's control point moves: how many are in S changes accordingly.
LEMMA CountMoves ==
    ASSUME NEW S, NEW c \in Clients, NEW f, NEW h, f \in [Clients -> PcStates],
           h \in [Clients -> PcStates], \A d \in Clients \ {c} : h[d] = f[d]
    PROVE  /\ Cardinality({d \in Clients : f[d] \in S}) \in Nat
           /\ Cardinality({d \in Clients : h[d] \in S}) + (IF f[c] \in S THEN 1 ELSE 0)
                 = Cardinality({d \in Clients : f[d] \in S}) + (IF h[c] \in S THEN 1 ELSE 0)
<1> DEFINE F == {d \in Clients : f[d] \in S}
           H == {d \in Clients : h[d] \in S}
<1>0. IsFiniteSet(F) /\ IsFiniteSet(H) /\ Cardinality(F) \in Nat /\ Cardinality(H) \in Nat
  BY CredentialsAssumption, FS_Subset, FS_CardinalityType
<1>1. CASE f[c] \in S /\ h[c] \notin S
  <2>1. H = F \ {c} /\ c \in F
    BY <1>1
  <2>2. Cardinality(H) = Cardinality(F) - 1
    BY <1>0, <2>1, FS_RemoveElement, SMTT(30)
  <2> QED
    BY <1>0, <1>1, <2>2
<1>2. CASE f[c] \notin S /\ h[c] \in S
  <2>1. H = F \cup {c} /\ c \notin F
    BY <1>2
  <2>2. Cardinality(H) = Cardinality(F) + 1
    BY <1>0, <2>1, FS_AddElement
  <2> QED
    BY <1>0, <1>2, <2>2
<1>3. CASE f[c] \in S <=> h[c] \in S
  <2>1. H = F
    BY <1>3
  <2> QED
    BY <1>0, <1>3, <2>1
<1> QED
  BY <1>1, <1>2, <1>3

-----------------------------------------------------------------------------
(* What the steps of a call do, and what they leave alone. *)

Others(c) ==
    /\ \A d \in Clients \ {c} : pc'[d] = pc[d] /\ stored'[d] = stored[d] /\ answer'[d] = answer[d]
    /\ \A a \in Accounts \ {AccountOf(c)} :
          users'[a] = users[a] /\ cache'[a] = cache[a] /\ gate'[a] = gate[a]

\* A lock or gate changes hands only between nobody and c.
Handed(old, new, c) == new = old \/ (old \in {"nobody", c} /\ new \in {"nobody", c})
LocksHanded(c) == /\ Handed(fileLock, fileLock', c) /\ Handed(claimLock, claimLock', c)
                  /\ Handed(gate[AccountOf(c)], gate'[AccountOf(c)], c)

Quiet == UNCHANGED <<login, users, diskVars, cliVars>>

\* A step of c keeps the invariant if it is right for c itself, takes and frees
\* only its own locks, changes memory only under claim_lock where it said
\* "init", and changes the disk only under both locks.
LEMMA ClientKeeps ==
    ASSUME Base, NEW c \in Clients, login' = login, UNCHANGED cliVars, Typed', Others(c),
           LocksHanded(c), CallOf(c)', Shared', MemoryIsDurable',
           users'[AccountOf(c)] = users[AccountOf(c)]
               \/ (users[AccountOf(c)] = "init" /\ claimLock = c),
           UNCHANGED diskVars \/ (fileLock = c /\ claimLock = c)
    PROVE  Base'
<1> SUFFICES ASSUME NEW d \in Clients, d # c PROVE CallOf(d)'
  BY DEF Base, Calls
<1>1. /\ CallOf(d) /\ AccountOf(d)' = AccountOf(d) /\ PasswordOf(d)' = PasswordOf(d)
      /\ pc'[d] = pc[d] /\ stored'[d] = stored[d] /\ answer'[d] = answer[d] /\ edited' = edited
  BY SameNames DEF Base, Calls, Others, cliVars
<1>2. /\ AccountOf(d) \in Accounts /\ PasswordOf(d) \notin {"init", "absent", "none"}
      /\ d \notin {"nobody", "cli"} /\ AccountOf(c) \in Accounts
  BY Names DEF Base
<1>3. /\ fileLock' = d <=> fileLock = d
      /\ claimLock' = d <=> claimLock = d
      /\ gate'[AccountOf(d)] = d <=> gate[AccountOf(d)] = d
  <2>1. AccountOf(d) # AccountOf(c) => gate'[AccountOf(d)] = gate[AccountOf(d)]
    BY <1>2 DEF Others
  <2> QED
    BY <1>2, <2>1 DEF LocksHanded, Handed
<1>4. users'[AccountOf(d)] = users[AccountOf(d)]
      \/ (users[AccountOf(d)] = "init" /\ claimLock = c)
  BY <1>2 DEF Others
<1>5. pc[d] \in UnderClaimLock => claimLock = d /\ UNCHANGED diskVars
  BY <1>1 DEF CallOf
<1> QED
  BY <1>1, <1>2, <1>3, <1>4, <1>5 DEF CallOf, diskVars, UnderClaimLock

LEMMA QuietKeeps ==
    ASSUME Base, NEW c \in Clients, Quiet, Typed', Others(c), LocksHanded(c), CallOf(c)',
           cache'[AccountOf(c)] \in {cache[AccountOf(c)], users[AccountOf(c)]},
           fileLock' = "cli" <=> fileLock = "cli"
    PROVE  Base'
<1>1. Shared'
  <2>1. \A a \in Accounts : cache'[a] \in {"none", users[a]}
    BY DEF Others, Base, Shared
  <2> QED
    BY <2>1 DEF Base, Shared, Quiet, cliVars, diskVars
<1>2. MemoryIsDurable'
  BY DEF Base, MemoryIsDurable, Quiet, cliVars, diskVars
<1> QED
  BY <1>1, <1>2, ClientKeeps DEF Quiet

Weight(l, S) == IF l \in S THEN 1 ELSE 0

LEMMA ClientSlots ==
    ASSUME Typed, Typed', Slots, NEW c \in Clients, Others(c),
           vslots' + Weight(pc'[c], HashingAt) = vslots + Weight(pc[c], HashingAt),
           cslots' + Weight(pc'[c], CommitAt) = cslots + Weight(pc[c], CommitAt)
    PROVE  Slots'
<1>1. pc \in [Clients -> PcStates] /\ pc' \in [Clients -> PcStates]
      /\ \A d \in Clients \ {c} : pc'[d] = pc[d]
  BY DEF Typed, Others
<1>2. Hashing = {d \in Clients : pc[d] \in HashingAt} /\ Hashing' = {d \in Clients : pc'[d] \in HashingAt}
  BY DEF Hashing
<1>3. InCommit = {d \in Clients : pc[d] \in CommitAt} /\ InCommit' = {d \in Clients : pc'[d] \in CommitAt}
  BY DEF InCommit, CommitAt
<1>4. /\ Cardinality(Hashing) \in Nat
      /\ Cardinality(Hashing') + Weight(pc[c], HashingAt) = Cardinality(Hashing) + Weight(pc'[c], HashingAt)
  BY <1>1, <1>2, CountMoves DEF Weight
<1>5. /\ Cardinality(InCommit) \in Nat
      /\ Cardinality(InCommit') + Weight(pc[c], CommitAt) = Cardinality(InCommit) + Weight(pc'[c], CommitAt)
  BY <1>1, <1>3, CountMoves DEF Weight
<1>6. Cardinality(Hashing') \in Nat /\ Cardinality(InCommit') \in Nat
  BY <1>1, <1>2, <1>3, CountMoves
<1>7. vslots \in Nat /\ cslots \in Nat /\ vslots' \in Nat /\ cslots' \in Nat
  BY DEF Typed
<1>9. vslots' + Cardinality(Hashing') = vslots + Cardinality(Hashing)
  <2>1. Weight(pc[c], HashingAt) \in Nat /\ Weight(pc'[c], HashingAt) \in Nat
    BY DEF Weight
  <2> QED
    BY <1>4, <1>6, <1>7, <2>1
<1>10. cslots' + Cardinality(InCommit') = cslots + Cardinality(InCommit)
  <2>1. Weight(pc[c], CommitAt) \in Nat /\ Weight(pc'[c], CommitAt) \in Nat
    BY DEF Weight
  <2> QED
    BY <1>5, <1>6, <1>7, <2>1
<1> QED
  BY <1>9, <1>10 DEF Slots

\* Where a call goes and what it answers.
Moves(c, l, v) == pc' = [pc EXCEPT ![c] = l] /\ answer' = [answer EXCEPT ![c] = v]

LEMMA Moved ==
    ASSUME Typed, NEW c \in Clients, NEW l \in PcStates, NEW v \in Answers, Moves(c, l, v)
    PROVE  /\ pc' \in [Clients -> PcStates] /\ answer' \in [Clients -> Answers]
           /\ pc'[c] = l /\ answer'[c] = v
           /\ \A d \in Clients \ {c} : pc'[d] = pc[d] /\ answer'[d] = answer[d]
  BY DEF Moves, Typed

LEMMA Answered ==
    ASSUME Typed, NEW c \in Clients, NEW ok \in BOOLEAN, Answer(c, ok)
    PROVE  \E v \in Answers : Moves(c, "done", v) /\ v # "none" /\ (v = "yes" => ok)
  BY DEF Answer, Goto, Moves, Answers

LEMMA Continued ==
    ASSUME Typed, NEW c \in Clients, NEW l \in PcStates, Continue(c, l)
    PROVE  \E m \in {l, "done"}, v \in Answers : Moves(c, m, v) /\ (v = "yes" => v = answer[c])
<1>1. CASE gone[c]
  BY <1>1 DEF Continue, Answer, Goto, Moves, Answers
<1>2. CASE ~gone[c]
  <2>1. answer' = [answer EXCEPT ![c] = answer[c]] /\ answer[c] \in Answers
    BY <1>2 DEF Continue, Typed
  <2> QED
    BY <1>2, <2>1 DEF Continue, Goto, Moves
<1> QED
  BY <1>1, <1>2

LEMMA Went ==
    ASSUME Typed, NEW c \in Clients, NEW l, Goto(c, l), answer' = answer
    PROVE  Moves(c, l, answer[c]) /\ answer[c] \in Answers
  BY DEF Goto, Moves, Typed

-----------------------------------------------------------------------------
(* Steps that leave memory's hashes and the disk alone. *)

\* The types after a quiet step.
LEMMA QuietTyped ==
    ASSUME Typed, NEW c \in Clients, NEW l \in PcStates, NEW v \in Answers, Moves(c, l, v), Quiet,
           cache' \in [Accounts -> Passwords \cup {"none"}], stored' \in [Clients -> Values],
           fileLock' \in Procs \cup {"cli"}, claimLock' \in Procs, gate' \in [Accounts -> Procs],
           vslots' \in Nat, cslots' \in Nat,
           snapshot' \in [Clients -> BOOLEAN], gone' \in [Clients -> BOOLEAN]
    PROVE  Typed'
  BY Moved DEF Typed, Quiet, diskVars, cliVars

\* Phase 1 up to the hash, and phase 3: no lock or gate is involved.
LEMMA HashSteps ==
    ASSUME Base, Slots, NEW c \in Clients, login' = login,
           \/ Start(c) \/ TakeHashSlot(c) \/ Prepare(c) \/ PrepareClaim(c) \/ Verify(c)
    PROVE  Base' /\ Slots'
<1> DEFINE A == AccountOf(c)
           P == PasswordOf(c)
<1>n. /\ A \in Accounts /\ P \in Passwords /\ P \notin {"init", "absent", "none"}
      /\ c \notin {"nobody", "cli"}
  BY Names DEF Base
<1>t. Typed /\ CallOf(c) /\ cache[A] \in {"none", users[A]} /\ vslots \in Nat /\ cslots \in Nat
  BY <1>n DEF Base, Calls, Shared, Typed
<1>1. /\ Quiet /\ UNCHANGED <<fileLock, claimLock, gate, cslots, stored, snapshot, gone>>
  BY DEF Start, TakeHashSlot, Prepare, PrepareClaim, Verify, Quiet, memVars, diskVars, lockVars,
         VerifyAgainst
<1>v. ASSUME NEW hash, VerifyAgainst(c, hash)
      PROVE  \E v \in Answers : /\ Moves(c, "done", v) /\ (v = "yes" => hash = P)
                                /\ cache' = cache \/ (hash = P /\ cache' = [cache EXCEPT ![A] = hash])
  <2>1. Answer(c, hash = P)
    BY <1>v DEF VerifyAgainst
  <2>2. PICK v \in Answers : Moves(c, "done", v) /\ (v = "yes" => hash = P)
    BY <2>1, <1>t, Answered
  <2> QED
    BY <1>v, <2>2 DEF VerifyAgainst
<1>2. PICK l \in PcStates, v \in Answers :
        /\ Moves(c, l, v) /\ vslots' \in Nat
        /\ cache' = cache \/ (cache' = [cache EXCEPT ![A] = users[A]] /\ users[A] = P)
        /\ v = "yes" => v = answer[c] \/ users[A] = P
        /\ pc[c] \notin CommitAt \cup {"want_slot"} /\ l \notin CommitAt \cup {"want_slot"}
        /\ l \in {"want_verify", "verify"} => pc[c] \in {"want_verify", "verify"}
        /\ vslots' + Weight(l, HashingAt) = vslots + Weight(pc[c], HashingAt)
  <2> USE DEF Weight, HashingAt, CommitAt, PcStates, Awaiting, Blocking
  <2>1. CASE Start(c)
    <3>1. vslots' = vslots /\ cache' = cache /\ pc[c] = "idle"
      BY <2>1 DEF Start, memVars, lockVars
    <3>2. CASE Answer(c, FALSE)
      <4>1. PICK v \in Answers : Moves(c, "done", v) /\ (v = "yes" => FALSE)
        BY <1>t, <3>2, Answered
      <4> QED
        BY <1>t, <3>1, <4>1
    <3>3. CASE Answer(c, TRUE) /\ cache[A] = P
      <4>1. PICK v \in Answers : Moves(c, "done", v) /\ (v = "yes" => TRUE)
        BY <1>t, <3>3, Answered
      <4> QED
        BY <1>n, <1>t, <3>1, <3>3, <4>1
    <3>4. CASE Goto(c, "want_hash") /\ answer' = answer
      <4>1. Moves(c, "want_hash", answer[c]) /\ answer[c] \in Answers
        BY <1>t, <3>4, Went
      <4> QED
        BY <1>t, <3>1, <4>1
    <3> QED
      BY <2>1, <3>2, <3>3, <3>4 DEF Start
  <2>2. CASE TakeHashSlot(c)
    <3>1. /\ pc[c] \in {"want_hash", "want_verify"} /\ vslots > 0 /\ vslots' = vslots - 1
          /\ cache' = cache /\ answer' = answer
          /\ Goto(c, IF pc[c] = "want_hash" THEN "prepare" ELSE "verify")
      BY <2>2 DEF TakeHashSlot, memVars
    <3>2. PICK l \in {"prepare", "verify"} : l = IF pc[c] = "want_hash" THEN "prepare" ELSE "verify"
      OBVIOUS
    <3>3. Moves(c, l, answer[c]) /\ answer[c] \in Answers
      BY <1>t, <3>1, <3>2, Went
    <3>4. l \in PcStates /\ vslots' \in Nat
      BY <1>t, <3>1
    <3> QED
      BY <1>t, <3>1, <3>2, <3>3, <3>4
  <2>3. CASE Prepare(c) /\ cache[A] = P
    <3>1. pc[c] = "prepare" /\ vslots' = vslots + 1 /\ Answer(c, TRUE) /\ cache' = cache
      BY <2>3 DEF Prepare
    <3>2. PICK v \in Answers : Moves(c, "done", v) /\ (v = "yes" => TRUE)
      BY <1>t, <3>1, Answered
    <3> QED
      BY <1>n, <1>t, <2>3, <3>1, <3>2
  <2>4. CASE (Prepare(c) \/ PrepareClaim(c)) /\ VerifyAgainst(c, users[A]) /\ vslots' = vslots + 1
    <3>1. pc[c] \in {"prepare", "hash"}
      BY <2>4 DEF Prepare, PrepareClaim
    <3>2. PICK v \in Answers : /\ Moves(c, "done", v) /\ (v = "yes" => users[A] = P)
                               /\ cache' = cache \/ (users[A] = P /\ cache' = [cache EXCEPT ![A] = users[A]])
      BY <2>4, <1>v
    <3> QED
      BY <1>t, <2>4, <3>1, <3>2
  <2>5. CASE Prepare(c) /\ Goto(c, "hash") /\ UNCHANGED <<vslots, answer, cache>>
    <3>1. Moves(c, "hash", answer[c]) /\ answer[c] \in Answers /\ pc[c] = "prepare"
      BY <1>t, <2>5, Went DEF Prepare
    <3> QED
      BY <1>t, <2>5, <3>1
  <2>6. CASE PrepareClaim(c) /\ Continue(c, "want_gate") /\ cache' = cache
    <3>1. PICK m \in {"want_gate", "done"}, v \in Answers : Moves(c, m, v) /\ (v = "yes" => v = answer[c])
      BY <1>t, <2>6, Continued
    <3>2. pc[c] = "hash" /\ vslots' = vslots + 1
      BY <2>6 DEF PrepareClaim
    <3> QED
      BY <1>t, <2>6, <3>1, <3>2
  <2>7. CASE Verify(c)
    <3>1. pc[c] = "verify" /\ vslots' = vslots + 1 /\ VerifyAgainst(c, stored[c]) /\ stored[c] = users[A]
      BY <1>t, <2>7 DEF Verify, CallOf
    <3>2. PICK v \in Answers : /\ Moves(c, "done", v) /\ (v = "yes" => users[A] = P)
                               /\ cache' = cache \/ (users[A] = P /\ cache' = [cache EXCEPT ![A] = users[A]])
      BY <3>1, <1>v
    <3> QED
      BY <1>t, <3>1, <3>2
  <2>8. Prepare(c) => \/ cache[A] = P \/ (VerifyAgainst(c, users[A]) /\ vslots' = vslots + 1)
                      \/ (Goto(c, "hash") /\ UNCHANGED <<vslots, answer, cache>>)
    BY DEF Prepare
  <2>9. PrepareClaim(c) => \/ (VerifyAgainst(c, users[A]) /\ vslots' = vslots + 1)
                           \/ (Continue(c, "want_gate") /\ cache' = cache)
    BY DEF PrepareClaim
  <2> QED
    BY <2>1, <2>2, <2>3, <2>4, <2>5, <2>6, <2>7, <2>8, <2>9
<1>3. Typed'
  <2>1. cache' \in [Accounts -> Passwords \cup {"none"}]
    BY <1>n, <1>t, <1>2 DEF Typed
  <2> QED
    BY <1>t, <1>1, <1>2, <2>1, QuietTyped DEF Typed
<1>4. pc'[c] = l /\ answer'[c] = v
  BY <1>t, <1>2, Moved
<1>5. Others(c) /\ LocksHanded(c)
  BY <1>n, <1>t, <1>1, <1>2, Moved DEF Others, LocksHanded, Handed, Typed, Quiet
<1>6. CallOf(c)'
  <2>1. AccountOf(c)' = A /\ PasswordOf(c)' = P
    BY SameNames
  <2> QED
    BY <1>n, <1>t, <1>1, <1>2, <1>4, <2>1
       DEF CallOf, Quiet, diskVars, cliVars, CommitAt, UnderFileLock, UnderClaimLock, UnderGate
<1>7. cache'[A] \in {cache[A], users[A]}
  BY <1>n, <1>t, <1>2 DEF Typed
<1>8. Base'
  BY <1>1, <1>3, <1>5, <1>6, <1>7, QuietKeeps
<1>9. Slots'
  <2>1. Weight(pc[c], CommitAt) = Weight(l, CommitAt)
    BY <1>2 DEF Weight
  <2> QED
    BY <1>t, <1>1, <1>2, <1>3, <1>4, <1>5, <2>1, ClientSlots
<1> QED
  BY <1>8, <1>9

\* A quiet step that moves c to l and hands locks over as l requires.
GateStep(c, l, v) ==
    /\ Moves(c, l, v) /\ Quiet /\ UNCHANGED <<cache, vslots>>
    /\ v = "yes" => v = answer[c]
    /\ stored' \in [Clients -> Values] /\ \A d \in Clients \ {c} : stored'[d] = stored[d]
    /\ gate' \in [Accounts -> Procs] /\ \A a \in Accounts \ {AccountOf(c)} : gate'[a] = gate[a]
    /\ fileLock' \in Procs \cup {"cli"} /\ claimLock' \in Procs /\ LocksHanded(c)
    /\ fileLock' = "cli" <=> fileLock = "cli"
    /\ snapshot' \in [Clients -> BOOLEAN] /\ gone' \in [Clients -> BOOLEAN]
    /\ l \in UnderFileLock <=> fileLock' = c
    /\ l \in UnderClaimLock <=> claimLock' = c
    /\ l \in UnderGate <=> gate'[AccountOf(c)] = c
    /\ l \in UnderClaimLock => users[AccountOf(c)] = "init"
    /\ l \in {"want_verify", "verify"} =>
          stored'[c] = users[AccountOf(c)] /\ users[AccountOf(c)] # "init"
    /\ l \in {"rename", "publish"} => pc[c] = l
    /\ cslots' \in Nat /\ cslots' + Weight(l, CommitAt) = cslots + Weight(pc[c], CommitAt)
    /\ l \in HashingAt <=> pc[c] \in HashingAt

LEMMA GateStepKeeps ==
    ASSUME Base, Slots, NEW c \in Clients, NEW l \in PcStates, NEW v \in Answers, GateStep(c, l, v)
    PROVE  Base' /\ Slots'
<1>n. AccountOf(c) \in Accounts /\ PasswordOf(c) \notin {"init", "absent", "none"}
  BY Names DEF Base
<1>t. Typed /\ CallOf(c)
  BY DEF Base, Calls
<1>1. Typed'
  BY <1>t, QuietTyped DEF GateStep, Typed
<1>2. /\ pc'[c] = l /\ answer'[c] = v
      /\ \A d \in Clients \ {c} : pc'[d] = pc[d] /\ answer'[d] = answer[d]
  BY <1>t, Moved DEF GateStep
<1>3. Others(c)
  BY <1>2 DEF GateStep, Others, Quiet
<1>4. CallOf(c)'
  <2>1. AccountOf(c)' = AccountOf(c) /\ PasswordOf(c)' = PasswordOf(c)
    BY SameNames DEF GateStep, Quiet
  <2> QED
    BY <1>t, <1>2, <2>1 DEF GateStep, CallOf, Quiet, diskVars, cliVars
<1>5. Base'
  BY <1>1, <1>3, <1>4, QuietKeeps DEF GateStep
<1>6. Slots'
  <2>1. vslots' + Weight(pc'[c], HashingAt) = vslots + Weight(pc[c], HashingAt)
    BY <1>2 DEF GateStep, Weight
  <2>2. cslots' + Weight(pc'[c], CommitAt) = cslots + Weight(pc[c], CommitAt)
    BY <1>2 DEF GateStep
  <2> QED
    BY <1>t, <1>1, <1>3, <2>1, <2>2, ClientSlots
<1> QED
  BY <1>5, <1>6

\* Phase 2 up to the OS lock.
LEMMA GateSteps ==
    ASSUME Base, Slots, NEW c \in Clients, login' = login,
           TakeGate(c) \/ TakeClaimSlot(c) \/ TakeClaimLock(c) \/ LockFile(c)
    PROVE  Base' /\ Slots'
<1> DEFINE A == AccountOf(c)
<1>n. A \in Accounts /\ c \notin {"nobody", "cli"} /\ c \in Procs /\ "nobody" \in Procs
  BY Names DEF Base, Procs
<1>t. Typed /\ CallOf(c) /\ vslots \in Nat /\ cslots \in Nat /\ users[A] \in Values
  BY <1>n DEF Base, Calls, Typed
<1>g. gate \in [Accounts -> Procs] /\ stored \in [Clients -> Values] /\ snapshot \in [Clients -> BOOLEAN]
      /\ gone \in [Clients -> BOOLEAN] /\ fileLock \in Procs \cup {"cli"} /\ claimLock \in Procs
      /\ exists \in BOOLEAN
  BY <1>t DEF Typed
<1> USE DEF GateStep, LocksHanded, Handed, UnderFileLock, UnderClaimLock, UnderGate, CommitAt,
            HashingAt, Weight
<1>1. CASE TakeGate(c)
  <2>1. /\ pc[c] = "want_gate" /\ gate[A] = "nobody" /\ answer' = answer /\ Quiet
        /\ UNCHANGED <<cache, fileLock, claimLock, vslots, cslots, snapshot, gone>>
    BY <1>1 DEF TakeGate, Quiet, memVars, diskVars, cliVars
  <2>2. CASE users[A] # "init"
    <3>1. Goto(c, "want_verify") /\ stored' = [stored EXCEPT ![c] = users[A]] /\ gate' = gate
      BY <1>1, <2>2 DEF TakeGate
    <3>2. Moves(c, "want_verify", answer[c]) /\ answer[c] \in Answers
      BY <1>t, <2>1, <3>1, Went
    <3>3. GateStep(c, "want_verify", answer[c])
      BY <1>n, <1>t, <1>g, <2>1, <2>2, <3>1, <3>2 DEF CallOf
    <3> QED
      BY <3>2, <3>3, GateStepKeeps DEF PcStates, Awaiting
  <2>3. CASE users[A] = "init"
    <3>1. Goto(c, "want_slot") /\ stored' = stored /\ gate' = [gate EXCEPT ![A] = c]
      BY <1>1, <2>3 DEF TakeGate
    <3>2. Moves(c, "want_slot", answer[c]) /\ answer[c] \in Answers
      BY <1>t, <2>1, <3>1, Went
    <3>3. GateStep(c, "want_slot", answer[c])
      BY <1>n, <1>t, <1>g, <2>1, <2>3, <3>1, <3>2 DEF CallOf
    <3> QED
      BY <3>2, <3>3, GateStepKeeps DEF PcStates, Awaiting
  <2> QED
    BY <2>2, <2>3
<1>2. CASE TakeClaimSlot(c)
  <2>1. /\ pc[c] = "want_slot" /\ cslots > 0 /\ cslots' = cslots - 1 /\ answer' = answer /\ Quiet
        /\ UNCHANGED <<cache, fileLock, claimLock, gate, vslots, stored, snapshot, gone>>
        /\ Goto(c, "commit")
    BY <1>2 DEF TakeClaimSlot, Quiet, memVars, diskVars, cliVars
  <2>2. Moves(c, "commit", answer[c]) /\ answer[c] \in Answers
    BY <1>t, <2>1, Went
  <2>3. GateStep(c, "commit", answer[c])
    BY <1>n, <1>t, <1>g, <2>1, <2>2 DEF CallOf
  <2> QED
    BY <2>2, <2>3, GateStepKeeps DEF PcStates, Blocking
<1>3. CASE TakeClaimLock(c)
  <2>1. /\ pc[c] = "commit" /\ claimLock = "nobody" /\ Quiet
        /\ UNCHANGED <<cache, fileLock, vslots, gone>>
    BY <1>3 DEF TakeClaimLock, Quiet, memVars, diskVars, cliVars
  <2>2. CASE users[A] # "init"
    <3>1. /\ claimLock' = "nobody" /\ gate' = [gate EXCEPT ![A] = "nobody"] /\ cslots' = cslots + 1
          /\ Continue(c, "want_verify") /\ stored' = [stored EXCEPT ![c] = users[A]]
          /\ snapshot' = snapshot
      BY <1>3, <2>2 DEF TakeClaimLock, LeaveCommit
    <3>2. PICK m \in {"want_verify", "done"}, v \in Answers : Moves(c, m, v) /\ (v = "yes" => v = answer[c])
      BY <1>t, <3>1, Continued DEF PcStates, Awaiting
    <3>3. GateStep(c, m, v)
      BY <1>n, <1>t, <1>g, <2>1, <2>2, <3>1, <3>2 DEF CallOf
    <3> QED
      BY <3>2, <3>3, GateStepKeeps DEF PcStates, Awaiting
  <2>3. CASE users[A] = "init"
    <3>1. /\ claimLock' = c /\ Goto(c, "want_file") /\ snapshot' = [snapshot EXCEPT ![c] = ~exists]
          /\ UNCHANGED <<stored, gate, cslots, answer>>
      BY <1>3, <2>3 DEF TakeClaimLock
    <3>2. Moves(c, "want_file", answer[c]) /\ answer[c] \in Answers
      BY <1>t, <3>1, Went
    <3>3. GateStep(c, "want_file", answer[c])
      BY <1>n, <1>t, <1>g, <2>1, <2>3, <3>1, <3>2 DEF CallOf
    <3> QED
      BY <3>2, <3>3, GateStepKeeps DEF PcStates, Blocking
  <2> QED
    BY <2>2, <2>3
<1>4. CASE LockFile(c)
  <2>1. /\ pc[c] = "want_file" /\ fileLock = "nobody" /\ fileLock' = c /\ answer' = answer /\ Quiet
        /\ UNCHANGED <<cache, claimLock, gate, vslots, cslots, stored, snapshot, gone>>
        /\ Goto(c, "read")
    BY <1>4 DEF LockFile, Quiet, memVars, diskVars, cliVars, lockVars
  <2>2. Moves(c, "read", answer[c]) /\ answer[c] \in Answers
    BY <1>t, <2>1, Went
  <2>3. GateStep(c, "read", answer[c])
    BY <1>n, <1>t, <1>g, <2>1, <2>2 DEF CallOf
  <2> QED
    BY <2>2, <2>3, GateStepKeeps DEF PcStates, Blocking
<1> QED
  BY <1>1, <1>2, <1>3, <1>4

\* The client hangs up.
LEMMA HangUpKeeps ==
    ASSUME Base, Slots, NEW c \in Clients, login' = login, HangUp(c)
    PROVE  Base' /\ Slots'
<1> DEFINE A == AccountOf(c)
<1>n. A \in Accounts /\ c \notin {"nobody", "cli"} /\ c \in Procs /\ "nobody" \in Procs
  BY Names DEF Base, Procs
<1>t. Typed /\ CallOf(c) /\ vslots \in Nat /\ cslots \in Nat
  BY DEF Base, Calls, Typed
<1>g. gate \in [Accounts -> Procs] /\ stored \in [Clients -> Values] /\ snapshot \in [Clients -> BOOLEAN]
      /\ gone \in [Clients -> BOOLEAN] /\ fileLock \in Procs \cup {"cli"} /\ claimLock \in Procs
  BY <1>t DEF Typed
<1>1. Quiet /\ UNCHANGED <<cache, fileLock, claimLock, vslots, cslots, stored, snapshot>>
  BY DEF HangUp, Quiet, memVars, diskVars, cliVars
<1> USE DEF GateStep, LocksHanded, Handed, UnderFileLock, UnderClaimLock, UnderGate, CommitAt,
            HashingAt, Weight
<1>2. CASE pc[c] \in Awaiting /\ Goto(c, "done") /\ answer' = [answer EXCEPT ![c] = "dropped"]
           /\ gate' = (IF pc[c] = "want_slot" THEN [gate EXCEPT ![A] = "nobody"] ELSE gate) /\ gone' = gone
  <2>1. Moves(c, "done", "dropped") /\ gate' \in [Accounts -> Procs]
    BY <1>2, <1>n, <1>g DEF Moves, Goto
  <2>2. GateStep(c, "done", "dropped")
    BY <1>n, <1>t, <1>g, <1>1, <1>2, <2>1 DEF CallOf, Awaiting
  <2> QED
    BY <2>2, GateStepKeeps DEF PcStates, Answers
<1>3. CASE gone' = [gone EXCEPT ![c] = TRUE] /\ UNCHANGED <<pc, answer, gate>>
  <2>1. Moves(c, pc[c], answer[c]) /\ pc[c] \in PcStates /\ answer[c] \in Answers
    BY <1>3, <1>t DEF Moves, Typed
  <2>2. GateStep(c, pc[c], answer[c])
    BY <1>n, <1>t, <1>g, <1>1, <1>3, <2>1 DEF CallOf
  <2> QED
    BY <2>1, <2>2, GateStepKeeps
<1> QED
  BY <1>2, <1>3 DEF HangUp

-----------------------------------------------------------------------------
(* Steps under claim_lock: the disk, then memory. *)

\* What a call under claim_lock knows.
LEMMA InClaim ==
    ASSUME Base, NEW c \in Clients, pc[c] \in UnderClaimLock
    PROVE  /\ Typed /\ CallOf(c) /\ AccountOf(c) \in Accounts /\ PasswordOf(c) \in Passwords
           /\ PasswordOf(c) \in Values
           /\ PasswordOf(c) \notin {"init", "absent", "none"} /\ c \notin {"nobody", "cli"}
           /\ c \in Procs /\ "nobody" \in Procs
           /\ users[AccountOf(c)] = "init" /\ claimLock = c /\ gate[AccountOf(c)] = c
           /\ cache[AccountOf(c)] = "none"
           /\ pc[c] \in UnderFileLock => fileLock = c /\ cli = "idle"
<1>1. /\ AccountOf(c) \in Accounts /\ PasswordOf(c) \in Passwords
      /\ PasswordOf(c) \notin {"init", "absent", "none"} /\ c \notin {"nobody", "cli"}
  BY Names DEF Base
<1>2. Typed /\ CallOf(c) /\ Shared
  BY DEF Base, Calls
<1>3. users[AccountOf(c)] = "init" /\ claimLock = c /\ gate[AccountOf(c)] = c
  BY <1>2 DEF CallOf, UnderGate
<1>4. cache[AccountOf(c)] = "none"
  BY <1>1, <1>2, <1>3, NamesAssumption DEF Shared, Typed
<1>5. pc[c] \in UnderFileLock => fileLock = c /\ cli = "idle"
  BY <1>1, <1>2 DEF Shared, CallOf, Typed
<1> QED
  BY <1>1, <1>2, <1>3, <1>4, <1>5 DEF Procs, Values

Renamed(c) == pc[c] = "rename" /\ file' = tmp /\ exists' = TRUE

\* What memory has committed stays on disk: a rename replaces the entry of an
\* account that memory still calls unclaimed, and no other.
LEMMA DiskKeeps ==
    ASSUME Base, NEW c \in Clients, pc[c] \in UnderFileLock, UNCHANGED cliVars, users' = users,
           cache' = cache, fileLock' \in {"nobody", c},
           UNCHANGED <<file, exists>> \/ Renamed(c)
    PROVE  Shared' /\ MemoryIsDurable'
<1>1. pc[c] \in UnderClaimLock
  BY DEF UnderFileLock, UnderClaimLock
<1>2. /\ CallOf(c) /\ AccountOf(c) \in Accounts /\ c # "cli" /\ users[AccountOf(c)] = "init"
      /\ fileLock = c /\ cli = "idle"
  BY <1>1, InClaim
<1>3. Shared'
  <2>1. \A a \in Accounts : ~exists' => edited'[a]
    BY DEF Base, Shared, cliVars, Renamed
  <2> QED
    BY <1>2, <2>1 DEF Base, Shared, cliVars
<1>4. MemoryIsDurable'
  <2> SUFFICES ASSUME NEW a \in Accounts, users[a] \in Passwords, ~edited[a]
               PROVE  exists' /\ file'[a] = users[a]
    BY DEF MemoryIsDurable, cliVars
  <2>1. exists /\ file[a] = users[a]
    BY DEF Base, MemoryIsDurable
  <2>2. a # AccountOf(c)
    BY <1>2, NamesAssumption
  <2>3. Renamed(c) => tmp[a] = file[a]
    BY <1>2, <2>1, <2>2 DEF CallOf, Renamed
  <2> QED
    BY <2>1, <2>3 DEF Renamed
<1> QED
  BY <1>3, <1>4

\* The files after a step under the OS lock.
DiskStep(c) ==
    \/ UNCHANGED <<file, exists>> /\ tmp' \in [Accounts -> Values] \cup {NoTmp}
    \/ Renamed(c) /\ tmp' = NoTmp

\* Leaving claim_commit, to the end of the call or to verify another's hash.
LeaveStep(c, l, v, u) ==
    /\ Moves(c, l, v) /\ UNCHANGED <<login, cliVars, cache, vslots, snapshot, gone>>
    /\ claimLock' = "nobody" /\ cslots' = cslots + 1
    /\ gate' = [gate EXCEPT ![AccountOf(c)] = "nobody"]
    /\ users' = [users EXCEPT ![AccountOf(c)] = u]
    /\ l \in {"done", "want_verify"} /\ (v = "yes" => v = answer[c])
    /\ pc[c] # "publish" /\ fileLock' = (IF pc[c] = "want_file" THEN fileLock ELSE "nobody")
    /\ \/ u = "init" /\ l = "done" /\ stored' = stored
       \/ u \in Passwords /\ stored' = [stored EXCEPT ![c] = u]
    /\ UNCHANGED diskVars \/ (pc[c] \in UnderFileLock /\ u = "init" /\ DiskStep(c))
    /\ u \in Passwords => UNCHANGED diskVars /\ exists /\ file[AccountOf(c)] = u

LEMMA LeaveKeeps ==
    ASSUME Base, Slots, NEW c \in Clients, pc[c] \in UnderClaimLock,
           NEW l \in PcStates, NEW v \in Answers, NEW u \in Values, LeaveStep(c, l, v, u)
    PROVE  Base' /\ Slots'
<1> DEFINE A == AccountOf(c)
           P == PasswordOf(c)
<1>n. /\ Typed /\ CallOf(c) /\ A \in Accounts /\ P \notin {"init", "absent", "none"}
      /\ c \notin {"nobody", "cli"} /\ "nobody" \in Procs /\ users[A] = "init" /\ claimLock = c
      /\ gate[A] = c /\ cache[A] = "none" /\ (pc[c] \in UnderFileLock => fileLock = c /\ cli = "idle")
  BY InClaim
<1>m. /\ pc' \in [Clients -> PcStates] /\ answer' \in [Clients -> Answers] /\ pc'[c] = l /\ answer'[c] = v
      /\ \A d \in Clients \ {c} : pc'[d] = pc[d] /\ answer'[d] = answer[d]
  BY <1>n, Moved DEF LeaveStep
<1>u. users' \in [Accounts -> Values] /\ users'[A] = u /\ \A a \in Accounts \ {A} : users'[a] = users[a]
  BY <1>n DEF LeaveStep, Typed
<1>g. gate' \in [Accounts -> Procs] /\ gate'[A] = "nobody" /\ \A a \in Accounts \ {A} : gate'[a] = gate[a]
  BY <1>n DEF LeaveStep, Typed
<1>s. /\ stored' \in [Clients -> Values] /\ \A d \in Clients \ {c} : stored'[d] = stored[d]
      /\ u \in Passwords => stored'[c] = u
  BY <1>n, NamesAssumption DEF LeaveStep, Typed
<1>d. /\ file' \in [Accounts -> Values] /\ exists' \in BOOLEAN
      /\ tmp' \in [Accounts -> Values] \cup {NoTmp}
  BY <1>n DEF LeaveStep, DiskStep, Renamed, CallOf, Typed, diskVars
<1>1. Typed'
  <2>1. fileLock' \in Procs \cup {"cli"} /\ claimLock' \in Procs /\ cslots' \in Nat
    BY <1>n DEF LeaveStep, Typed
  <2> QED
    BY <1>n, <1>m, <1>u, <1>g, <1>s, <1>d, <2>1 DEF LeaveStep, Typed, cliVars
<1>2. Others(c)
  BY <1>m, <1>u, <1>g, <1>s DEF Others, LeaveStep
<1>3. LocksHanded(c)
  <2>1. pc[c] # "want_file" => fileLock = c \/ fileLock' = fileLock
    BY <1>n DEF UnderClaimLock, UnderFileLock, LeaveStep, CallOf
  <2> QED
    BY <1>n, <1>g, <2>1 DEF LocksHanded, Handed, LeaveStep
<1>4. CallOf(c)'
  <2>1. AccountOf(c)' = A /\ PasswordOf(c)' = P
    BY SameNames DEF LeaveStep
  <2>2. fileLock' # c
    BY <1>n DEF LeaveStep, CallOf, UnderFileLock
  <2>3. u \in Passwords => u # "init"
    BY NamesAssumption
  <2>4. answer'[c] # "yes"
    BY <1>n, <1>m DEF LeaveStep, CallOf
  <2> QED
    BY <1>n, <1>m, <1>u, <1>g, <1>s, <2>1, <2>2, <2>3, <2>4
       DEF CallOf, LeaveStep, UnderFileLock, UnderClaimLock, UnderGate
<1>5. Shared' /\ MemoryIsDurable'
  <2>1. CASE u = "init" /\ pc[c] \in UnderFileLock
    <3>1. users' = users
      BY <1>n, <2>1 DEF LeaveStep, Typed
    <3>2. fileLock' \in {"nobody", c} /\ UNCHANGED cliVars /\ cache' = cache
      BY <2>1 DEF LeaveStep, UnderFileLock
    <3>3. UNCHANGED <<file, exists>> \/ Renamed(c)
      BY DEF LeaveStep, DiskStep, diskVars
    <3> QED
      BY <2>1, <3>1, <3>2, <3>3, DiskKeeps
  <2>2. CASE UNCHANGED diskVars
    <3>1. fileLock' = "cli" <=> fileLock = "cli"
      BY <1>n, <1>3 DEF LocksHanded, Handed
    <3>2. \A a \in Accounts : cache'[a] \in {"none", users'[a]}
      BY <1>n, <1>u DEF Base, Shared, LeaveStep
    <3>3. Shared'
      BY <2>2, <3>1, <3>2 DEF Base, Shared, LeaveStep, diskVars, cliVars
    <3>4. ASSUME NEW a \in Accounts, users'[a] \in Passwords, ~edited[a]
          PROVE  exists /\ file[a] = users'[a]
      <4>1. CASE a = A
        <5>1. u \in Passwords
          BY <1>u, <3>4, <4>1
        <5> QED
          BY <1>u, <4>1, <5>1 DEF LeaveStep
      <4>2. CASE a # A
        BY <1>u, <3>4, <4>2 DEF Base, MemoryIsDurable
      <4> QED
        BY <4>1, <4>2
    <3>5. MemoryIsDurable'
      BY <2>2, <3>4 DEF MemoryIsDurable, LeaveStep, diskVars, cliVars
    <3> QED
      BY <3>3, <3>5
  <2> QED
    BY <2>1, <2>2 DEF LeaveStep
<1>6. Base'
  <2>1. UNCHANGED diskVars \/ (fileLock = c /\ claimLock = c)
    BY <1>n DEF LeaveStep
  <2>2. login' = login /\ UNCHANGED cliVars
    BY DEF LeaveStep
  <2> QED
    BY <1>n, <1>1, <1>2, <1>3, <1>4, <1>5, <2>1, <2>2, ClientKeeps
<1>7. Slots'
  <2>1. pc[c] \in CommitAt /\ pc[c] \notin HashingAt /\ l \notin CommitAt /\ l \notin HashingAt
    BY DEF LeaveStep, CommitAt, HashingAt, UnderClaimLock
  <2>2. cslots' = cslots + 1 /\ vslots' = vslots /\ cslots \in Nat
    BY <1>n DEF LeaveStep, Typed
  <2>3. /\ vslots' + Weight(pc'[c], HashingAt) = vslots + Weight(pc[c], HashingAt)
        /\ cslots' + Weight(pc'[c], CommitAt) = cslots + Weight(pc[c], CommitAt)
    BY <1>m, <2>1, <2>2 DEF Weight
  <2> QED
    BY <1>n, <1>1, <1>2, <2>3, ClientSlots
<1> QED
  BY <1>6, <1>7

\* A claim that is refused, fails, or finds a real password on disk.
LEMMA LeaveSteps ==
    ASSUME Base, Slots, NEW c \in Clients, login' = login,
           \/ LockFails(c) \/ PersistRefused(c) \/ WriteFails(c)
           \/ (Commit(c) /\ FailClaim(c))
    PROVE  Base' /\ Slots'
<1> DEFINE A == AccountOf(c)
<1>1. pc[c] \in {"want_file", "read", "rename"} /\ pc[c] \in UnderClaimLock
  BY DEF LockFails, PersistRefused, WriteFails, Commit, UnderClaimLock
<1>n. Typed /\ A \in Accounts /\ PcStates = {"idle", "done"} \cup Awaiting \cup Blocking
  BY <1>1, InClaim DEF PcStates
<1>2. CASE FailClaim(c) /\ stored' = stored
  <2>1. PICK v \in Answers : Moves(c, "done", v) /\ (v = "yes" => FALSE)
    BY <1>n, <1>2, Answered DEF FailClaim
  <2>2. /\ claimLock' = "nobody" /\ cslots' = cslots + 1
        /\ gate' = [gate EXCEPT ![A] = "nobody"] /\ users' = [users EXCEPT ![A] = "init"]
    BY <1>2 DEF FailClaim, LeaveCommit
  <2>3. /\ UNCHANGED <<cliVars, cache, vslots, snapshot, gone>>
        /\ fileLock' = (IF pc[c] = "want_file" THEN fileLock ELSE "nobody")
    BY DEF LockFails, PersistRefused, WriteFails, Commit
  <2>4. UNCHANGED diskVars \/ (pc[c] \in UnderFileLock /\ DiskStep(c))
    <3>1. CASE LockFails(c) \/ PersistRefused(c)
      BY <3>1 DEF LockFails, PersistRefused
    <3>2. CASE WriteFails(c)
      BY <1>n, <3>2 DEF WriteFails, UnderFileLock, DiskStep, Typed
    <3>3. CASE Commit(c)
      BY <3>3 DEF Commit, UnderFileLock, DiskStep, Renamed
    <3> QED
      BY <3>1, <3>2, <3>3
  <2>5. LeaveStep(c, "done", v, "init")
    BY <1>1, <1>2, <2>1, <2>2, <2>3, <2>4, NamesAssumption DEF LeaveStep
  <2> QED
    BY <1>1, <2>5, LeaveKeeps DEF PcStates, Values
<1>3. CASE PersistRefused(c) /\ exists /\ file[A] \in Passwords
  <2>1. PICK m \in {"want_verify", "done"}, v \in Answers : Moves(c, m, v) /\ (v = "yes" => v = answer[c])
    <3>1. Continue(c, "want_verify")
      BY <1>3 DEF PersistRefused
    <3> QED
      BY <1>n, <3>1, Continued DEF PcStates, Awaiting
  <2>2. /\ claimLock' = "nobody" /\ cslots' = cslots + 1
        /\ gate' = [gate EXCEPT ![A] = "nobody"] /\ users' = [users EXCEPT ![A] = file[A]]
        /\ stored' = [stored EXCEPT ![c] = file[A]]
    BY <1>3 DEF PersistRefused, LeaveCommit
  <2>3. /\ UNCHANGED <<cliVars, cache, vslots, snapshot, gone, diskVars>>
        /\ pc[c] = "read" /\ fileLock' = "nobody"
    BY <1>3 DEF PersistRefused
  <2>4. PICK u \in Values : u = file[A] /\ u \in Passwords
    BY <1>3 DEF Values
  <2>5. LeaveStep(c, m, v, u)
    BY <1>3, <2>1, <2>2, <2>3, <2>4 DEF LeaveStep
  <2>6. m \in PcStates
    BY DEF PcStates, Awaiting
  <2> QED
    BY <1>1, <2>5, <2>6, LeaveKeeps
<1>4. LockFails(c) \/ WriteFails(c) => FailClaim(c) /\ stored' = stored
  BY DEF LockFails, WriteFails
<1>5. Commit(c) => stored' = stored
  BY DEF Commit
<1>6. PersistRefused(c) /\ ~(exists /\ file[A] \in Passwords) => FailClaim(c) /\ stored' = stored
  BY DEF PersistRefused
<1> QED
  BY <1>2, <1>3, <1>4, <1>5, <1>6

\* The temp file is written from what the file holds under the OS lock.
LEMMA WriteTmpKeeps ==
    ASSUME Base, Slots, NEW c \in Clients, login' = login, WriteTmp(c)
    PROVE  Base' /\ Slots'
<1> DEFINE A == AccountOf(c)
           P == PasswordOf(c)
<1>0. /\ pc[c] = "read" /\ Writable(c) /\ tmp' = Claimed(c) /\ Goto(c, "rename")
      /\ UNCHANGED <<cliVars, users, cache, file, exists, fileLock, claimLock, gate, vslots, cslots,
                     stored, snapshot, gone, answer>>
  BY DEF WriteTmp, memVars, lockVars
<1>n. /\ Typed /\ CallOf(c) /\ A \in Accounts /\ P \in Values /\ fileLock = c /\ claimLock = c
  BY <1>0, InClaim DEF UnderClaimLock, UnderFileLock
<1>1. Moves(c, "rename", answer[c]) /\ answer[c] \in Answers
  BY <1>0, <1>n, Went
<1>m. /\ pc' \in [Clients -> PcStates] /\ answer' \in [Clients -> Answers] /\ pc'[c] = "rename"
      /\ answer'[c] = answer[c] /\ \A d \in Clients \ {c} : pc'[d] = pc[d] /\ answer'[d] = answer[d]
  BY <1>n, <1>1, Moved DEF PcStates, Blocking
<1>2. /\ tmp' \in [Accounts -> Values] /\ tmp'[A] = P
      /\ exists => file[A] = "init" /\ \A b \in Accounts \ {A} : tmp'[b] = file[b]
  BY <1>0, <1>n DEF Claimed, Writable, Typed
<1>3. Typed'
  BY <1>0, <1>n, <1>m, <1>2 DEF Typed, cliVars
<1>4. Others(c) /\ LocksHanded(c)
  BY <1>0, <1>m DEF Others, LocksHanded, Handed
<1>5. CallOf(c)'
  <2>1. AccountOf(c)' = A /\ PasswordOf(c)' = P
    BY SameNames
  <2> QED
    BY <1>0, <1>n, <1>m, <1>2, <2>1 DEF CallOf, UnderFileLock, UnderClaimLock, UnderGate, cliVars
<1>6. Shared' /\ MemoryIsDurable'
  <2>1. fileLock' \in {"nobody", c} /\ pc[c] \in UnderFileLock
    BY <1>0, <1>n DEF UnderFileLock
  <2> QED
    BY <1>0, <2>1, DiskKeeps
<1>7. Base'
  BY <1>0, <1>n, <1>3, <1>4, <1>5, <1>6, ClientKeeps
<1>8. Slots'
  <2>1. /\ vslots' + Weight(pc'[c], HashingAt) = vslots + Weight(pc[c], HashingAt)
        /\ cslots' + Weight(pc'[c], CommitAt) = cslots + Weight(pc[c], CommitAt)
    BY <1>0, <1>m DEF Weight, HashingAt, CommitAt
  <2> QED
    BY <1>n, <1>3, <1>4, <2>1, ClientSlots
<1> QED
  BY <1>7, <1>8

\* The rename, and nothing fails after it.
LEMMA CommitKeeps ==
    ASSUME Base, Slots, NEW c \in Clients, login' = login, Commit(c),
           Goto(c, "publish"), UNCHANGED <<users, claimLock, gate, cslots, answer>>
    PROVE  Base' /\ Slots'
<1> DEFINE A == AccountOf(c)
           P == PasswordOf(c)
<1>0. /\ pc[c] = "rename" /\ file' = tmp /\ exists' = TRUE /\ tmp' = NoTmp /\ fileLock' = "nobody"
      /\ UNCHANGED <<cliVars, cache, vslots, stored, snapshot, gone>>
  BY DEF Commit
<1>n. /\ Typed /\ CallOf(c) /\ A \in Accounts /\ P \in Values /\ fileLock = c /\ claimLock = c
      /\ c # "nobody"
  BY <1>0, InClaim DEF UnderClaimLock, UnderFileLock
<1>1. Moves(c, "publish", answer[c]) /\ answer[c] \in Answers
  BY <1>0, <1>n, Went
<1>m. /\ pc' \in [Clients -> PcStates] /\ answer' \in [Clients -> Answers] /\ pc'[c] = "publish"
      /\ answer'[c] = answer[c] /\ \A d \in Clients \ {c} : pc'[d] = pc[d] /\ answer'[d] = answer[d]
  BY <1>n, <1>1, Moved DEF PcStates, Blocking
<1>2. file' \in [Accounts -> Values] /\ file'[A] = P
  BY <1>0, <1>n DEF CallOf
<1>3. Typed'
  BY <1>0, <1>n, <1>m, <1>2 DEF Typed, cliVars, Procs
<1>4. Others(c) /\ LocksHanded(c)
  BY <1>0, <1>n, <1>m DEF Others, LocksHanded, Handed
<1>5. CallOf(c)'
  <2>1. AccountOf(c)' = A /\ PasswordOf(c)' = P
    BY SameNames
  <2> QED
    BY <1>0, <1>n, <1>m, <1>2, <2>1 DEF CallOf, UnderFileLock, UnderClaimLock, UnderGate
<1>6. Shared' /\ MemoryIsDurable'
  <2>1. fileLock' \in {"nobody", c} /\ pc[c] \in UnderFileLock /\ Renamed(c)
    BY <1>0, <1>n DEF UnderFileLock, Renamed
  <2> QED
    BY <1>0, <2>1, DiskKeeps
<1>7. Base'
  BY <1>0, <1>n, <1>3, <1>4, <1>5, <1>6, ClientKeeps
<1>8. Slots'
  <2>1. /\ vslots' + Weight(pc'[c], HashingAt) = vslots + Weight(pc[c], HashingAt)
        /\ cslots' + Weight(pc'[c], CommitAt) = cslots + Weight(pc[c], CommitAt)
    BY <1>0, <1>m DEF Weight, HashingAt, CommitAt
  <2> QED
    BY <1>n, <1>3, <1>4, <2>1, ClientSlots
<1> QED
  BY <1>7, <1>8

\* Memory and the cache follow the disk.
LEMMA PublishKeeps ==
    ASSUME Base, Slots, NEW c \in Clients, login' = login, Publish(c)
    PROVE  Base' /\ Slots'
<1> DEFINE A == AccountOf(c)
           P == PasswordOf(c)
<1>0. /\ pc[c] = "publish" /\ users' = [users EXCEPT ![A] = P] /\ cache' = [cache EXCEPT ![A] = P]
      /\ claimLock' = "nobody" /\ gate' = [gate EXCEPT ![A] = "nobody"] /\ cslots' = cslots + 1
      /\ Answer(c, TRUE)
      /\ UNCHANGED <<cliVars, diskVars, fileLock, vslots, stored, snapshot, gone>>
  BY DEF Publish, LeaveCommit
<1>n. /\ Typed /\ CallOf(c) /\ A \in Accounts /\ P \in Passwords /\ P \in Values /\ P # "init"
      /\ claimLock = c /\ gate[A] = c /\ users[A] = "init" /\ c # "nobody" /\ "nobody" \in Procs
  BY <1>0, InClaim DEF UnderClaimLock
<1>1. PICK v \in Answers : Moves(c, "done", v) /\ (v = "yes" => TRUE)
  BY <1>0, <1>n, Answered
<1>m. /\ pc' \in [Clients -> PcStates] /\ answer' \in [Clients -> Answers] /\ pc'[c] = "done"
      /\ answer'[c] = v /\ \A d \in Clients \ {c} : pc'[d] = pc[d] /\ answer'[d] = answer[d]
  BY <1>n, <1>1, Moved DEF PcStates
<1>2. /\ users' \in [Accounts -> Values] /\ cache' \in [Accounts -> Passwords \cup {"none"}]
      /\ gate' \in [Accounts -> Procs]
      /\ users'[A] = P /\ cache'[A] = P /\ gate'[A] = "nobody"
      /\ \A a \in Accounts \ {A} : users'[a] = users[a] /\ cache'[a] = cache[a] /\ gate'[a] = gate[a]
  BY <1>0, <1>n DEF Typed
<1>3. Typed'
  BY <1>0, <1>n, <1>m, <1>2 DEF Typed, cliVars, diskVars
<1>4. Others(c) /\ LocksHanded(c)
  BY <1>0, <1>n, <1>m, <1>2 DEF Others, LocksHanded, Handed
<1>5. CallOf(c)'
  <2>1. AccountOf(c)' = A /\ PasswordOf(c)' = P
    BY SameNames
  <2> QED
    BY <1>0, <1>n, <1>m, <1>2, <2>1 DEF CallOf, UnderFileLock, UnderClaimLock, UnderGate
<1>6. Shared'
  BY <1>0, <1>2 DEF Base, Shared, diskVars, cliVars
<1>7. MemoryIsDurable'
  <2> SUFFICES ASSUME NEW a \in Accounts, users'[a] \in Passwords, ~edited[a]
               PROVE  exists /\ file[a] = users'[a]
    BY <1>0 DEF MemoryIsDurable, diskVars, cliVars
  <2>1. CASE a = A
    BY <1>0, <1>n, <1>2, <2>1 DEF CallOf
  <2>2. CASE a # A
    BY <1>2, <2>2 DEF Base, MemoryIsDurable
  <2> QED
    BY <2>1, <2>2
<1>8. Base'
  BY <1>0, <1>n, <1>2, <1>3, <1>4, <1>5, <1>6, <1>7, ClientKeeps
<1>9. Slots'
  <2>1. cslots \in Nat
    BY <1>n DEF Typed
  <2>2. /\ vslots' + Weight(pc'[c], HashingAt) = vslots + Weight(pc[c], HashingAt)
        /\ cslots' + Weight(pc'[c], CommitAt) = cslots + Weight(pc[c], CommitAt)
    BY <1>0, <1>m, <2>1 DEF Weight, HashingAt, CommitAt
  <2> QED
    BY <1>n, <1>3, <1>4, <2>2, ClientSlots
<1> QED
  BY <1>8, <1>9

LEMMA ClientSteps ==
    ASSUME Base, Slots, NEW c \in Clients, login' = login, ClientStep(c)
    PROVE  Base' /\ Slots'
<1>1. CASE Commit(c)
  <2>1. FailClaim(c) \/ (Goto(c, "publish") /\ UNCHANGED <<users, claimLock, gate, cslots, answer>>)
    BY <1>1 DEF Commit
  <2> QED
    BY <1>1, <2>1, CommitKeeps, LeaveSteps
<1>2. CASE ~Commit(c)
  BY <1>2, HashSteps, GateSteps, HangUpKeeps, LeaveSteps, WriteTmpKeeps, PublishKeeps
     DEF ClientStep, CallStep
<1> QED
  BY <1>1, <1>2

-----------------------------------------------------------------------------
(* Other processes, and the crash of the server. *)

LEMMA SameSlots == ASSUME Slots, UNCHANGED <<vslots, cslots, pc>> PROVE Slots'
  BY DEF Slots, Hashing, InCommit

LEMMA CliKeeps ==
    ASSUME Base, Slots, login' = login, CliLock \/ CliWrite \/ CliCommit \/ CliEnds
    PROVE  Base' /\ Slots'
<1>0. /\ UNCHANGED <<users, cache, claimLock, gate, vslots, cslots, callVars, crashes>>
      /\ fileLock \in {"nobody", "cli"} /\ fileLock' \in {"nobody", "cli"}
      /\ cli' # "idle" <=> fileLock' = "cli"
      /\ edits' \in {edits, edits + 1} /\ (edits' = edits \/ edits < MaxEdits)
      /\ cli' \in {"idle", "locked", "rename"}
  BY DEF CliLock, CliWrite, CliCommit, CliEnds, memVars, lockVars, Base, Shared, Typed
<1>t. /\ Typed /\ edit \in [account : Accounts, value : Values]
      /\ edit' \in [account : Accounts, value : Values]
  BY DEF CliLock, CliWrite, CliCommit, CliEnds, Base, Typed
<1>e. edit.account \in Accounts /\ edit.value \in Values
  BY <1>t
<1>1. CASE CliCommit
  <2>0. /\ cli = "rename" /\ file' = tmp /\ exists' = TRUE /\ tmp' = NoTmp /\ cli' = "idle"
        /\ edited' = [edited EXCEPT ![edit.account] = TRUE] /\ edits' = edits
        /\ tmp = [file EXCEPT ![edit.account] = edit.value] /\ fileLock' = "nobody" /\ fileLock = "cli"
    BY <1>1 DEF CliCommit, Base, Shared
  <2>1. /\ file' \in [Accounts -> Values] /\ edited' \in [Accounts -> BOOLEAN]
        /\ edited'[edit.account]
        /\ \A a \in Accounts \ {edit.account} : file'[a] = file[a] /\ edited'[a] = edited[a]
    BY <1>t, <1>e, <2>0 DEF Typed
  <2>2. Typed'
    BY <1>0, <1>t, <2>0, <2>1 DEF Typed, callVars, Procs
  <2>3. ASSUME NEW d \in Clients PROVE CallOf(d)'
    <3>1. /\ CallOf(d) /\ AccountOf(d) \in Accounts /\ d \notin {"nobody", "cli"}
          /\ AccountOf(d)' = AccountOf(d) /\ PasswordOf(d)' = PasswordOf(d)
      BY <1>t, Names, SameNames DEF Base, Calls
    <3>2. pc[d] \notin UnderFileLock
      BY <2>0, <3>1 DEF CallOf
    <3> QED
      BY <1>0, <2>0, <2>1, <3>1, <3>2 DEF CallOf, callVars, UnderFileLock
  <2>4. Shared'
    BY <1>0, <2>0 DEF Base, Shared
  <2>5. MemoryIsDurable'
    BY <1>0, <2>0, <2>1 DEF Base, MemoryIsDurable
  <2> QED
    BY <1>0, <2>2, <2>3, <2>4, <2>5, SameSlots DEF Base, Calls, callVars
<1>2. CASE CliLock \/ CliWrite \/ CliEnds
  <2>0. /\ UNCHANGED <<file, exists, edited>>
        /\ \/ tmp' = tmp /\ cli' # "rename"
           \/ cli = "rename" /\ tmp' = NoTmp /\ cli' = "idle"
           \/ /\ cli = "locked" /\ cli' = "rename" /\ edit' = edit
              /\ tmp' = [file EXCEPT ![edit.account] = edit.value]
    BY <1>2 DEF CliLock, CliWrite, CliEnds, diskVars
  <2>1. tmp' \in [Accounts -> Values] \cup {NoTmp}
    BY <1>t, <1>e, <2>0 DEF Typed
  <2>2. Typed'
    <3>1. edits' \in 0 .. MaxEdits
      BY <1>0, <1>t, SlotsAssumption DEF Typed
    <3>2. fileLock' \in Procs \cup {"cli"}
      BY <1>0 DEF Procs
    <3> QED
      BY <1>0, <1>t, <2>0, <2>1, <3>1, <3>2 DEF Typed, callVars
  <2>3. ASSUME NEW d \in Clients PROVE CallOf(d)'
    <3>1. /\ CallOf(d) /\ d \notin {"nobody", "cli"}
          /\ AccountOf(d)' = AccountOf(d) /\ PasswordOf(d)' = PasswordOf(d)
      BY <1>t, Names, SameNames DEF Base, Calls
    <3>2. pc[d] \notin UnderFileLock
      BY <1>0, <3>1 DEF CallOf
    <3> QED
      BY <1>0, <2>0, <3>1, <3>2 DEF CallOf, callVars, UnderFileLock
  <2>4. Shared'
    BY <1>0, <2>0 DEF Base, Shared
  <2>5. MemoryIsDurable'
    BY <1>0, <2>0 DEF Base, MemoryIsDurable
  <2> QED
    BY <1>0, <2>2, <2>3, <2>4, <2>5, SameSlots DEF Base, Calls, callVars
<1> QED
  BY <1>1, <1>2

LEMMA FileRemovedKeeps ==
    ASSUME Base, Slots, login' = login, FileRemoved
    PROVE  Base' /\ Slots'
<1>0. /\ UNCHANGED <<users, cache, file, tmp, fileLock, claimLock, gate, vslots, cslots, callVars,
                     cli, edit, crashes>>
      /\ exists' = FALSE /\ edits < MaxEdits /\ edits' = edits + 1
      /\ edited' = [a \in Accounts |-> TRUE]
  BY DEF FileRemoved, memVars, lockVars
<1>1. Typed'
  <2>1. edits' \in 0 .. MaxEdits
    BY <1>0, SlotsAssumption DEF Base, Typed
  <2> QED
    BY <1>0, <2>1 DEF Base, Typed, callVars
<1>2. ASSUME NEW d \in Clients PROVE CallOf(d)'
  <2>1. CallOf(d) /\ AccountOf(d) \in Accounts /\ AccountOf(d)' = AccountOf(d) /\ PasswordOf(d)' = PasswordOf(d)
    BY Names, SameNames DEF Base, Calls
  <2> QED
    BY <1>0, <2>1 DEF CallOf, callVars
<1>3. Shared'
  BY <1>0 DEF Base, Shared
<1>4. MemoryIsDurable'
  BY <1>0 DEF MemoryIsDurable
<1> QED
  BY <1>0, <1>1, <1>2, <1>3, <1>4, SameSlots DEF Base, Calls, callVars

\* No call is anywhere, so every permit is free.
LEMMA AllFree ==
    ASSUME pc = [c \in Clients |-> "idle"], vslots = VerifySlots, cslots = ClaimSlots
    PROVE  Slots
<1>1. Hashing = {} /\ InCommit = {}
  BY DEF Hashing, HashingAt, InCommit
<1> QED
  BY <1>1, FS_EmptySet, SlotsAssumption DEF Slots

LEMMA CrashKeeps ==
    ASSUME Base, Slots, login' = login, Crash
    PROVE  Base' /\ Slots'
<1>0. /\ UNCHANGED <<file, exists, tmp, cli, edit, edits>> /\ exists /\ crashes < MaxCrashes
      /\ crashes' = crashes + 1
      /\ users' = file /\ cache' = [a \in Accounts |-> "none"] /\ edited' = [a \in Accounts |-> FALSE]
      /\ claimLock' = "nobody" /\ gate' = [a \in Accounts |-> "nobody"]
      /\ vslots' = VerifySlots /\ cslots' = ClaimSlots
      /\ fileLock' = (IF fileLock = "cli" THEN "cli" ELSE "nobody")
      /\ pc' = [c \in Clients |-> "idle"] /\ stored' = [c \in Clients |-> "init"]
      /\ snapshot' = [c \in Clients |-> FALSE] /\ gone' = [c \in Clients |-> FALSE]
      /\ answer' = [c \in Clients |-> "none"]
  BY DEF Crash, diskVars
<1>1. Typed'
  <2>1. crashes' \in 0 .. MaxCrashes /\ vslots' \in Nat /\ cslots' \in Nat
    BY <1>0, SlotsAssumption DEF Base, Typed
  <2>2. /\ users' \in [Accounts -> Values] /\ cache' \in [Accounts -> Passwords \cup {"none"}]
        /\ gate' \in [Accounts -> Procs] /\ claimLock' \in Procs /\ fileLock' \in Procs \cup {"cli"}
    BY <1>0 DEF Base, Typed, Procs
  <2>3. /\ pc' \in [Clients -> PcStates] /\ stored' \in [Clients -> Values]
        /\ answer' \in [Clients -> Answers]
    BY <1>0 DEF PcStates, Values, Answers
  <2> QED
    BY <1>0, <2>1, <2>2, <2>3 DEF Base, Typed
<1>2. ASSUME NEW d \in Clients PROVE CallOf(d)'
  <2>1. AccountOf(d) \in Accounts /\ AccountOf(d)' = AccountOf(d) /\ d \notin {"nobody", "cli"}
    BY Names, SameNames DEF Base
  <2> QED
    BY <1>0, <2>1 DEF CallOf, UnderFileLock, UnderClaimLock, UnderGate
<1>3. Shared'
  BY <1>0 DEF Base, Shared
<1>4. MemoryIsDurable'
  BY <1>0 DEF MemoryIsDurable
<1>5. Slots'
  <2>1. Hashing' = {} /\ InCommit' = {}
    BY <1>0 DEF Hashing, HashingAt, InCommit
  <2> QED
    BY <1>0, <2>1, FS_EmptySet, SlotsAssumption DEF Slots
<1> QED
  BY <1>1, <1>2, <1>3, <1>4, <1>5 DEF Base, Calls

LEMMA BaseInit == Init => Base /\ Slots
<1> SUFFICES ASSUME Init PROVE Base /\ Slots
  OBVIOUS
<1>1. Typed
  <2>1. file = [a \in Accounts |-> "init"]
    BY DEF Init
  <2> QED
    BY <2>1, SlotsAssumption DEF Init, Typed, Values, Procs, PcStates, Answers
<1>2. ASSUME NEW d \in Clients PROVE CallOf(d)
  <2>1. AccountOf(d) \in Accounts /\ d \notin {"nobody", "cli"}
    BY <1>1, Names
  <2> QED
    BY <2>1 DEF Init, CallOf, UnderFileLock, UnderClaimLock, UnderGate
<1>3. Shared
  BY DEF Init, Shared
<1>4. MemoryIsDurable
  BY DEF Init, MemoryIsDurable
<1>5. Slots
  BY AllFree DEF Init
<1> QED
  BY <1>1, <1>2, <1>3, <1>4, <1>5 DEF Base, Calls

LEMMA StepKeeps == Base /\ Slots /\ [Next]_vars => Base' /\ Slots'
<1> SUFFICES ASSUME Base, Slots, [Next]_vars PROVE Base' /\ Slots'
  OBVIOUS
<1>1. CASE Next
  BY <1>1, ClientSteps, CliKeeps, FileRemovedKeeps, CrashKeeps DEF Next, OtherProcess
<1>2. CASE UNCHANGED vars
  <2> USE <1>2 DEF vars, memVars, diskVars, lockVars, callVars, cliVars
  <2>1. Typed'
    BY DEF Base, Typed
  <2>2. Calls'
    BY SameNames DEF Base, Calls, CallOf
  <2>3. Shared' /\ MemoryIsDurable'
    BY DEF Base, Shared, MemoryIsDurable
  <2> QED
    BY <2>1, <2>2, <2>3, SameSlots DEF Base
<1> QED
  BY <1>1, <1>2

-----------------------------------------------------------------------------
(* The inductive invariant and what follows from it. *)

LEMMA BaseGives == Base /\ Slots => IInv
<1> SUFFICES ASSUME Base, Slots PROVE IInv
  OBVIOUS
<1>1. /\ IsFiniteSet(Hashing) /\ IsFiniteSet(InCommit)
      /\ Cardinality(Hashing) \in Nat /\ Cardinality(InCommit) \in Nat
  BY CredentialsAssumption, FS_Subset, FS_CardinalityType DEF Hashing, InCommit
<1>2. vslots \in 0 .. VerifySlots /\ cslots \in 0 .. ClaimSlots
  BY <1>1, SlotsAssumption DEF Base, Typed, Slots
<1>3. TypeOK
  BY <1>2 DEF Base, Typed, TypeOK, Answers
<1>4. ASSUME NEW c \in InCommit, NEW d \in InCommit, AccountOf(c) = AccountOf(d) PROVE c = d
  <2>1. c \in Clients /\ d \in Clients /\ pc[c] \in UnderGate /\ pc[d] \in UnderGate
    BY DEF InCommit, UnderGate, UnderClaimLock
  <2> QED
    BY <1>4, <2>1 DEF Base, Calls, CallOf
<1>5. Hashing = {c \in Clients : pc[c] \in {"prepare", "hash", "verify"}}
  BY DEF Hashing, HashingAt
<1>6. PermitsAddUp
  BY <1>2, <1>4, <1>5 DEF Slots, PermitsAddUp
<1> QED
  BY <1>3, <1>6 DEF Base, IInv

\* The invariant holds in every reachable state.
THEOREM Inductive == Spec => []IInv
  BY BaseInit, StepKeeps, BaseGives, PTL DEF Spec

\* Every variable keeps its type: neither semaphore ever has more permits than
\* it was made with.
THEOREM TypeCorrect == Spec => []TypeOK
  BY Inductive, PTL DEF IInv

\* `verify_async` lets in only the password memory holds: of clients racing to
\* claim an account with different passwords at most one gets in, whatever the
\* CLI, hang-ups, failed writes and crashes do in between.
THEOREM AccountOpensForOne == Spec => []OnePassword
<1>1. IInv => OnePassword
  BY DEF IInv, Calls, CallOf, OnePassword
<1> QED
  BY <1>1, Inductive, PTL

\* `claim_commit` publishes to memory only what is on disk, so an accepted
\* password survives a crash.
THEOREM ClaimSurvives == Spec => []MemoryIsDurable
  BY Inductive, PTL DEF IInv

\* No path out of a call loses a hashing or a claim permit, and at most one
\* claim per account occupies a blocking thread.
THEOREM AdmissionKept == Spec => []PermitsAddUp
  BY Inductive, PTL DEF IInv

\* What `persist_claim` renames over an existing users file differs from it in
\* one entry, which goes from "init" to a password: a concurrent `resocks5 user`
\* edit is never lost.
THEOREM OnlyClaimsWritten == Spec => WritesOnlyClaims
<1> DEFINE W == exists /\ exists' /\ file' # file /\ cli' = cli =>
                  \E a \in Accounts : /\ file[a] = "init" /\ file'[a] \in Passwords
                                      /\ \A b \in Accounts \ {a} : file'[b] = file[b]
<1>1. ASSUME IInv, [Next]_vars PROVE [W]_vars
  <2> SUFFICES ASSUME Next, exists, file' # file, cli' = cli
               PROVE  \E a \in Accounts : /\ file[a] = "init" /\ file'[a] \in Passwords
                                          /\ \A b \in Accounts \ {a} : file'[b] = file[b]
    BY <1>1
  <2>1. PICK c \in Clients : Commit(c)
    <3>1. ~OtherProcess /\ ~Crash
      BY DEF OtherProcess, CliLock, CliWrite, CliCommit, CliEnds, FileRemoved, Crash, diskVars
    <3>2. PICK c \in Clients : ClientStep(c)
      BY <3>1 DEF Next
    <3>3. ~Start(c) /\ ~HangUp(c)
      BY DEF Start, HangUp, diskVars
    <3> QED
      BY <3>2, <3>3 DEF ClientStep, CallStep, TakeHashSlot, Prepare, PrepareClaim, TakeGate,
         TakeClaimSlot, TakeClaimLock, LockFile, LockFails, PersistRefused, WriteTmp, WriteFails,
         Publish, Verify, diskVars
  <2>2. pc[c] = "rename" /\ file' = tmp
    BY <2>1 DEF Commit
  <2>3. CallOf(c) /\ AccountOf(c) \in Accounts /\ PasswordOf(c) \in Passwords
    <3>1. login[c] \in [account : Accounts, password : Passwords]
      BY <1>1, CredentialsAssumption DEF IInv, TypeOK
    <3> QED
      BY <1>1, <3>1 DEF IInv, Calls, AccountOf, PasswordOf
  <2>4. /\ file[AccountOf(c)] = "init" /\ file'[AccountOf(c)] \in Passwords
        /\ \A b \in Accounts \ {AccountOf(c)} : file'[b] = file[b]
    BY <2>2, <2>3 DEF CallOf
  <2> QED
    BY <2>3, <2>4
<1> QED
  BY <1>1, Inductive, PTL DEF Spec, WritesOnlyClaims
=============================================================================
