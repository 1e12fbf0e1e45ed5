--------------------------- MODULE SessionProofs ---------------------------
(***************************************************************************)
(* Proofs about Session and the Tunnel in it, for any streams, any limits  *)
(* and any sizes of buffers and fragments.  Of what the first bytes mean   *)
(* (module Payload) only the signature of a ClientHello is looked into.    *)
(* The last part is about Inbound, which hands the session its request.    *)
(***************************************************************************)
EXTENDS Session, Inbound, SequenceTheorems, WellFoundedInduction, TLAPS

-----------------------------------------------------------------------------
(* The inductive invariant *)

Typed == /\ setup \in Setups
         /\ taken \in Nat /\ uTaken \in Nat /\ wired \in Nat
         /\ held \in Seq(Nat) /\ up \in Seq(Nat) /\ back \in Seq(Nat) /\ down \in Seq(Nat)
         /\ phase \in {"off", "hold", "send", "flush", "pause", "copy", "ended"}
         /\ left \in Nat /\ age \in Nat /\ quiet \in Nat /\ fresh \in BOOLEAN

\* Every byte taken from a peer is on its way or has arrived, in order.  A
\* fragment being sent is in hand.
Streams == /\ up \o held = Span(0, taken)
           /\ down \o back = Span(0, uTaken)
           /\ wired <= Len(up)
           /\ phase = "send" => chunk \in 1 .. Len(held)

\* A direction is closed once all of it has been delivered, and stays so.
Ends == /\ closing \subseteq {"up", "down"}
        /\ "up" \in closing => taken = ClientSays /\ held = <<>> /\ wired = Len(up)
        /\ "down" \in closing => uTaken = setup.upstreamSays /\ back = <<>>
        /\ phase \notin {"copy", "ended"} => closing = {}
        /\ ended = "closed" => closing = {"up", "down"}
        /\ phase # "ended" => ended = "no"

\* The armed timer has run for as long as nothing has moved, unless progress
\* was confirmed meanwhile, or bytes of the upstream are being relayed while the
\* hello is held back; the copy loop's clock is never ahead of that time.
Clock == /\ phase \in {"off", "hold"} => up = <<>>
         /\ phase = "hold" => fresh = FALSE /\ (back # <<>> \/ quiet + left >= Idle)
         /\ phase \in {"send", "flush"} => fresh \/ quiet + left >= Idle
         /\ phase = "copy" => age <= quiet
         /\ IdleIsIdle

\* Where the handler is, and what it has told the client by then.
Waiting == {"grace", "dialling", "listening"}
Told == /\ pc \in {"start", "dial", "recover", "prefix", "redial", "tunnel", "done"} \cup Waiting
        /\ pc \notin {"tunnel", "done"} => phase = "off"
        /\ pc = "tunnel" => phase # "off"
        /\ phase = "off" => up = <<>> /\ back = <<>> /\ down = <<>> /\ uTaken = 0 /\ wired = 0
        /\ pc \in {"start"} \cup Waiting => held = <<>>
        /\ pc \in {"start", "dial", "recover"} => replies = <<>>
        /\ pc \in {"prefix", "redial", "tunnel"} \cup Waiting => replies = Success
        /\ early => pc = "done"
        /\ OneOutcome

\* The upstream in hand was dialled past the ban list.
Allowed == pc \in {"listening", "tunnel"} => ~Banned(dest)

IInv == Typed /\ Streams /\ Ends /\ Clock /\ Told /\ Allowed

-----------------------------------------------------------------------------
(* Streams of numbered bytes *)

LEMMA SpanFacts ==
    ASSUME NEW a \in Nat, NEW n \in Nat
    PROVE  /\ Span(a, n) \in Seq(Nat) /\ Len(Span(a, n)) = n
           /\ \A i \in 1 .. n : Span(a, n)[i] = a + i
           /\ n = 0 => Span(a, n) = <<>>
  BY DEF Span

LEMMA NatConcat ==
    ASSUME NEW s \in Seq(Nat), NEW t \in Seq(Nat)
    PROVE  /\ s \o t \in Seq(Nat) /\ Len(s \o t) = Len(s) + Len(t)
           /\ \A i \in 1 .. Len(s) + Len(t) :
                 (s \o t)[i] = IF i <= Len(s) THEN s[i] ELSE t[i - Len(s)]
  BY ConcatProperties, Zenon

LEMMA NatAssociative ==
    ASSUME NEW s \in Seq(Nat), NEW t \in Seq(Nat), NEW v \in Seq(Nat)
    PROVE  (s \o t) \o v = s \o (t \o v)
  BY SMTT(30)

\* Two runs of consecutive bytes make one.
LEMMA SpanChain ==
    ASSUME NEW c \in Nat, NEW a \in Nat, NEW n \in Nat
    PROVE  Span(c, a) \o Span(c + a, n) = Span(c, a + n)
<1> DEFINE p == Span(c, a)
           q == Span(c + a, n)
           s == p \o q
           t == Span(c, a + n)
<1>0. c + a \in Nat /\ a + n \in Nat /\ \A i \in Int : (c + a) + i = c + (a + i)
  OBVIOUS
<1>1. p \in Seq(Nat) /\ Len(p) = a /\ \A i \in 1 .. a : p[i] = c + i
  BY SpanFacts
<1>2. t \in Seq(Nat) /\ Len(t) = a + n /\ \A i \in 1 .. a + n : t[i] = c + i
  BY <1>0, SpanFacts
<1>3. q \in Seq(Nat) /\ Len(q) = n /\ \A i \in 1 .. n : q[i] = (c + a) + i
  BY <1>0, SpanFacts
<1> HIDE DEF p, q, t
<1>4. /\ s \in Seq(Nat) /\ Len(s) = Len(p) + Len(q)
      /\ \A i \in 1 .. Len(p) + Len(q) : s[i] = IF i <= Len(p) THEN p[i] ELSE q[i - Len(p)]
  BY <1>1, <1>3, NatConcat
<1> HIDE DEF s
<1>5. ASSUME NEW i \in 1 .. Len(s) PROVE s[i] = t[i]
  <2>0. i \in 1 .. a + n
    BY <1>1, <1>3, <1>4
  <2>1. CASE i <= a
    <3>1. i \in 1 .. a
      BY <2>0, <2>1
    <3>2. s[i] = p[i]
      BY <1>1, <1>3, <1>4, <2>0, <2>1
    <3> QED
      BY <1>1, <1>2, <2>0, <3>1, <3>2
  <2>2. CASE ~(i <= a)
    <3>1. i - a \in 1 .. n /\ a + (i - a) = i
      BY <2>0, <2>2
    <3>2. s[i] = q[i - a]
      BY <1>1, <1>3, <1>4, <2>0, <2>2
    <3>3. s[i] = c + i
      BY <1>0, <1>3, <3>1, <3>2
    <3> QED
      BY <1>2, <2>0, <3>3
  <2> QED
    BY <2>1, <2>2
<1>6. Len(s) = Len(t)
  BY <1>1, <1>2, <1>3, <1>4
<1>7. s = t
  BY <1>2, <1>4, <1>5, <1>6, SeqEqual
<1> QED
  BY <1>7 DEF s, t, p, q

\* The next n bytes of a stream.
LEMMA SpanJoin ==
    ASSUME NEW a \in Nat, NEW n \in Nat
    PROVE  Span(0, a) \o Span(a, n) = Span(0, a + n)
<1>1. Span(0, a) \o Span(0 + a, n) = Span(0, a + n)
  BY SpanChain
<1>2. 0 + a = a
  OBVIOUS
<1> QED
  BY <1>1, <1>2

\* Reading appends to what is in hand.
LEMMA StreamGrows ==
    ASSUME NEW s \in Seq(Nat), NEW h \in Seq(Nat), NEW a \in Nat, NEW n \in Nat, s \o h = Span(0, a)
    PROVE  h \o Span(a, n) \in Seq(Nat) /\ s \o (h \o Span(a, n)) = Span(0, a + n)
<1>1. Span(a, n) \in Seq(Nat)
  BY SpanFacts
<1>2. (s \o h) \o Span(a, n) = s \o (h \o Span(a, n))
  BY <1>1, NatAssociative
<1>3. h \o Span(a, n) \in Seq(Nat)
  BY <1>1, NatConcat
<1> QED
  BY <1>2, <1>3, SpanJoin

\* Writing moves bytes from the front of what is in hand to the other side.
LEMMA StreamMoves ==
    ASSUME NEW s \in Seq(Nat), NEW h \in Seq(Nat), NEW n \in 0 .. Len(h)
    PROVE  /\ SubSeq(h, 1, n) \in Seq(Nat) /\ Len(SubSeq(h, 1, n)) = n
           /\ SubSeq(h, n + 1, Len(h)) \in Seq(Nat) /\ Len(SubSeq(h, n + 1, Len(h))) = Len(h) - n
           /\ s \o SubSeq(h, 1, n) \in Seq(Nat) /\ Len(s \o SubSeq(h, 1, n)) = Len(s) + n
           /\ (s \o SubSeq(h, 1, n)) \o SubSeq(h, n + 1, Len(h)) = s \o h
<1>1. /\ Len(h) \in Nat /\ n \in Nat /\ n <= Len(h) /\ \A i \in 1 .. Len(h) : h[i] \in Nat
  OBVIOUS
<1>2. /\ SubSeq(h, 1, n) \in Seq(Nat) /\ Len(SubSeq(h, 1, n)) = n
      /\ SubSeq(h, n + 1, Len(h)) \in Seq(Nat) /\ Len(SubSeq(h, n + 1, Len(h))) = Len(h) - n
  BY <1>1
<1>3. SubSeq(h, 1, n) \o SubSeq(h, n + 1, Len(h)) = h
  <2>1. 1 \in 1 .. Len(h) + 1 /\ n \in 1 - 1 .. Len(h) /\ Len(h) \in n .. Len(h)
    BY <1>1
  <2>2. SubSeq(h, 1, n) \o SubSeq(h, n + 1, Len(h)) = SubSeq(h, 1, Len(h))
    BY <2>1, ConcatAdjacentSubSeq
  <2> QED
    BY <2>2, SubSeqFull
<1>4. s \o SubSeq(h, 1, n) \in Seq(Nat) /\ Len(s \o SubSeq(h, 1, n)) = Len(s) + n
  BY <1>2, NatConcat
<1>5. (s \o SubSeq(h, 1, n)) \o SubSeq(h, n + 1, Len(h)) = s \o (SubSeq(h, 1, n) \o SubSeq(h, n + 1, Len(h)))
  BY <1>2, NatAssociative
<1> QED
  BY <1>2, <1>3, <1>4, <1>5

-----------------------------------------------------------------------------
(* Steps of the tunnel *)

TInv == Typed /\ Streams /\ Ends /\ Clock

LEMMA SetupFacts ==
    ASSUME setup \in Setups
    PROVE  /\ Idle \in Nat /\ ClientSays \in Nat /\ setup.upstreamSays \in Nat
           /\ setup.pipeline \in Nat
  BY SetupsAssumption DEF Idle, ClientSays

\* A timer that was just armed leaves the whole idle time.
LEMMA JustArmed ==
    ASSUME NEW q \in Nat, NEW i \in Nat
    PROVE  q + i >= i
  OBVIOUS

\* The tunnel ends, with a reason that is true.
LEMMA EndKeeps ==
    ASSUME TInv, setup' = setup, NEW how, End(how), how = "closed" => closing = {"up", "down"},
           how = "idle" => quiet >= Idle,
           how = "stalled" => quiet >= Idle \/ (back # <<>> /\ up = <<>>)
    PROVE  TInv'
<1>1. /\ phase' = "ended" /\ ended' = how
      /\ UNCHANGED <<taken, held, up, wired, uTaken, back, down, left, fresh, age, closing, quiet>>
  BY DEF End, data, timers
<1>2. Typed'
  BY <1>1 DEF TInv, Typed
<1>3. Streams'
  BY <1>1 DEF TInv, Streams
<1>4. Ends'
  BY <1>1 DEF TInv, Ends, ClientSays
<1>5. Clock'
  BY <1>1 DEF TInv, Clock, IdleIsIdle, Idle
<1> QED
  BY <1>2, <1>3, <1>4, <1>5 DEF TInv

\* Where StartSend leads.
LEMMA StartSendFacts ==
    ASSUME Typed, NEW h \in Seq(Nat), StartSend(h)
    PROVE  /\ left' = Idle /\ fresh' = FALSE
           /\ \/ h = <<>> /\ phase' = "copy" /\ age' = 0
              \/ h # <<>> /\ phase' = "send" /\ age' = age /\ chunk' \in 1 .. Len(h)
<1>1. CASE h = <<>>
  BY <1>1 DEF StartSend, StartCopy
<1>2. CASE h # <<>>
  <2>1. Len(h) \in Nat /\ Len(h) >= 1 /\ FragSize \in Nat /\ FragSize >= 1
    BY <1>2, TunnelSizes
  <2>2. /\ phase' = "send" /\ left' = Idle /\ fresh' = FALSE /\ age' = age
        /\ chunk' = LesserOf(FragSize, Len(h)) \/ chunk' = Len(h)
    BY <1>2 DEF StartSend, Arm
  <2> QED
    BY <1>2, <2>1, <2>2 DEF LesserOf
<1> QED
  BY <1>1, <1>2

\* The bytes of h are in hand and the tunnel decides what to do with them.
LEMMA StartSendKeeps ==
    ASSUME Typed, NEW h \in Seq(Nat), StartSend(h), held' = h, Typed', UNCHANGED <<setup, ended>>,
           (up \o held)' = Span(0, taken)', (down \o back)' = Span(0, uTaken)', wired' <= Len(up'),
           closing' = {}, ended = "no"
    PROVE  TInv'
<1>1. /\ left' = Idle /\ fresh' = FALSE
      /\ \/ h = <<>> /\ phase' = "copy" /\ age' = 0
         \/ h # <<>> /\ phase' = "send" /\ chunk' \in 1 .. Len(h)
  BY StartSendFacts
<1>2. Idle \in Nat /\ quiet' \in Nat /\ Idle' = Idle
  <2>1. Idle \in Nat
    BY SetupFacts DEF Typed
  <2> QED
    BY <2>1 DEF Typed, Idle
<1>3. Streams'
  BY <1>1 DEF Streams
<1>4. Ends'
  BY <1>1 DEF Ends
<1>5. Clock'
  <2>1. quiet' + left' >= Idle'
    <3>1. left' = Idle
      BY <1>1
    <3>2. \A i, j \in Nat : i + j >= j
      OBVIOUS
    <3> QED
      BY <1>2, <3>1, <3>2
  <2>2. age' = 0 => age' <= quiet'
    BY <1>2
  <2> QED
    BY <1>1, <2>1, <2>2 DEF Clock, IdleIsIdle
<1> QED
  BY <1>3, <1>4, <1>5 DEF TInv

\* While the first bytes are held back.
LEMMA HoldKeeps ==
    ASSUME TInv, setup' = setup, HoldRead \/ HoldUpstream \/ HoldRelay
    PROVE  TInv' /\ phase' # "off"
<1>0. /\ Idle \in Nat /\ phase = "hold" /\ closing = {} /\ ended = "no" /\ fresh = FALSE
      /\ Typed /\ Idle' = Idle /\ up = <<>>
  <2>1. phase = "hold"
    BY DEF HoldRead, HoldUpstream, HoldRelay
  <2>2. up = <<>>
    BY <2>1 DEF TInv, Clock
  <2> QED
    BY <2>1, <2>2, SetupFacts DEF TInv, Typed, Ends, Clock, Idle
<1>1. CASE HoldRead
  <2>1. PICK n \in 0 .. HoldMax - Len(held) :
          LET h == held \o Span(taken, n)
          IN  /\ taken' = taken + n /\ held' = h
              /\ quiet' = IF n = 0 THEN quiet ELSE 0
              /\ StartSend(h) \/ (Arm /\ UNCHANGED <<phase, chunk, age>>)
    BY <1>1 DEF HoldRead
  <2>2. UNCHANGED <<up, wired, uTaken, back, down, ended, lifeLeft, closing>>
    BY <1>1 DEF HoldRead
  <2> DEFINE h == held \o Span(taken, n)
  <2>3. n \in Nat /\ taken \in Nat /\ held \in Seq(Nat) /\ up \in Seq(Nat)
    BY <1>0, TunnelSizes DEF Typed
  <2>4. h \in Seq(Nat) /\ up \o h = Span(0, taken + n)
    BY <2>3, StreamGrows DEF TInv, Streams
  <2>5. held' = h /\ taken' = taken + n /\ (StartSend(h) \/ (Arm /\ UNCHANGED <<phase, chunk, age>>))
    BY <2>1
  <2>6. taken' \in Nat /\ quiet' \in Nat
    BY <1>0, <2>1, <2>3 DEF Typed
  <2> HIDE DEF h
  <2>7. /\ (up \o held)' = Span(0, taken)' /\ (down \o back)' = Span(0, uTaken)'
        /\ wired' <= Len(up')
    BY <2>2, <2>4, <2>5 DEF TInv, Streams
  <2>8. CASE StartSend(h)
    <3>1. /\ left' = Idle /\ fresh' = FALSE /\ age' \in Nat /\ phase' \in {"copy", "send"}
      <4>1. left' = Idle /\ fresh' = FALSE /\ age' \in {0, age} /\ phase' \in {"copy", "send"}
        BY <1>0, <2>4, <2>8, StartSendFacts
      <4> QED
        BY <1>0, <4>1 DEF Typed
    <3>2. Typed'
      BY <1>0, <2>2, <2>4, <2>5, <2>6, <3>1 DEF Typed
    <3> QED
      BY <1>0, <2>2, <2>4, <2>5, <2>7, <2>8, <3>1, <3>2, StartSendKeeps
  <2>9. CASE Arm /\ UNCHANGED <<phase, chunk, age>>
    <3>1. left' = Idle /\ fresh' = FALSE /\ phase' = "hold" /\ age' = age
      BY <1>0, <2>9 DEF Arm
    <3>2. Typed'
      BY <1>0, <2>2, <2>4, <2>5, <2>6, <3>1 DEF Typed
    <3>3. Streams'
      BY <2>7, <3>1 DEF Streams
    <3>4. Ends'
      BY <1>0, <2>2, <3>1 DEF Ends
    <3>5. quiet' + left' >= Idle'
      BY <1>0, <2>6, <3>1, JustArmed
    <3>6. Clock'
      BY <1>0, <2>2, <3>1, <3>5 DEF Clock, IdleIsIdle
    <3> QED
      BY <3>1, <3>2, <3>3, <3>4, <3>6 DEF TInv
  <2> QED
    BY <2>5, <2>8, <2>9
<1>2. CASE HoldUpstream
  <2>1. UNCHANGED <<taken, held, up, wired, down, ended, lifeLeft, closing>> /\ back = <<>>
    BY <1>2 DEF HoldUpstream
  <2>2. CASE uTaken' = uTaken + 1 /\ back' = <<uTaken + 1>> /\ Moved /\ UNCHANGED <<phase, chunk, left, fresh, age>>
    <3>1. uTaken \in Nat /\ down \in Seq(Nat) /\ back \in Seq(Nat) /\ quiet' = 0
      BY <1>0, <2>2 DEF Typed, Moved
    <3>2. back' = back \o Span(uTaken, 1)
      <4>1. <<uTaken + 1>> = Span(uTaken, 1)
        BY <3>1 DEF Span
      <4>2. Span(uTaken, 1) \in Seq(Nat)
        BY <3>1, SpanFacts
      <4>3. <<>> \o Span(uTaken, 1) = Span(uTaken, 1)
        BY <4>2, ConcatEmptySeq
      <4> QED
        BY <2>1, <2>2, <4>1, <4>3
    <3>3. back' \in Seq(Nat) /\ down \o back' = Span(0, uTaken + 1) /\ uTaken + 1 \in Nat
      <4>1. down \o back = Span(0, uTaken) /\ 1 \in Nat /\ uTaken + 1 \in Nat
        BY <3>1 DEF TInv, Streams
      <4> QED
        BY <3>1, <3>2, <4>1, StreamGrows
    <3>4. Typed'
      BY <1>0, <2>1, <2>2, <3>1, <3>3 DEF Typed
    <3>5. Streams'
      BY <2>1, <2>2, <3>3, <1>0 DEF TInv, Streams
    <3>6. Ends'
      BY <1>0, <2>1, <2>2 DEF Ends
    <3>7. back' # <<>>
      BY <2>2
    <3>8. Clock'
      BY <1>0, <2>1, <2>2, <3>7 DEF Clock, IdleIsIdle
    <3> QED
      BY <1>0, <2>2, <3>4, <3>5, <3>6, <3>8 DEF TInv
  <2>3. CASE StartSend(held) /\ UNCHANGED <<uTaken, back, quiet>>
    <3>0. held \in Seq(Nat)
      BY <1>0 DEF Typed
    <3>1. /\ left' = Idle /\ fresh' = FALSE /\ age' \in Nat /\ phase' \in {"copy", "send"}
      <4>1. left' = Idle /\ fresh' = FALSE /\ age' \in {0, age} /\ phase' \in {"copy", "send"}
        BY <1>0, <2>3, <3>0, StartSendFacts
      <4> QED
        BY <1>0, <4>1 DEF Typed
    <3>2. Typed'
      BY <1>0, <2>1, <2>3, <3>1 DEF Typed
    <3>3. /\ (up \o held)' = Span(0, taken)' /\ (down \o back)' = Span(0, uTaken)'
          /\ wired' <= Len(up')
      BY <2>1, <2>3 DEF TInv, Streams
    <3> QED
      BY <1>0, <2>1, <2>3, <3>0, <3>1, <3>2, <3>3, StartSendKeeps
  <2> QED
    BY <1>2, <2>2, <2>3 DEF HoldUpstream
<1>3. CASE HoldRelay
  <2>1. /\ down' = down \o back /\ back' = <<>> /\ quiet' = 0 /\ left' = Idle /\ fresh' = FALSE
        /\ UNCHANGED <<taken, held, up, wired, uTaken, phase, ended, chunk, age, lifeLeft, closing>>
    BY <1>3 DEF HoldRelay, Moved, Arm
  <2>2. down \in Seq(Nat) /\ back \in Seq(Nat)
    BY <1>0 DEF Typed
  <2>3. down' \in Seq(Nat) /\ <<>> \in Seq(Nat)
    BY <2>1, <2>2, NatConcat
  <2>4. Typed'
    BY <1>0, <2>1, <2>3 DEF Typed
  <2>5. down' \o <<>> = down'
    BY <2>3, ConcatEmptySeq
  <2>6. Streams'
    BY <1>0, <2>1, <2>5 DEF TInv, Streams
  <2>7. Ends'
    BY <1>0, <2>1 DEF Ends
  <2>8. quiet' + left' >= Idle'
    BY <1>0, <2>1
  <2>9. Clock'
    BY <1>0, <2>1, <2>8 DEF Clock, IdleIsIdle
  <2> QED
    BY <1>0, <2>1, <2>4, <2>6, <2>7, <2>9 DEF TInv
<1> QED
  BY <1>1, <1>2, <1>3

\* What the upstream accepts leaves the hand.
LEMMA AcceptFacts ==
    ASSUME Typed, Streams, NEW n \in 1 .. Len(held), Accept(n)
    PROVE  /\ up' \in Seq(Nat) /\ held' \in Seq(Nat) /\ wired' \in Nat /\ wired' <= Len(up')
           /\ up' \o held' = Span(0, taken) /\ Len(held') = Len(held) - n
<1>1. up \in Seq(Nat) /\ held \in Seq(Nat) /\ wired \in Nat /\ Len(up) \in Nat /\ n \in 0 .. Len(held)
  BY DEF Typed
<1>2. up' = up \o SubSeq(held, 1, n) /\ held' = SubSeq(held, n + 1, Len(held))
  BY DEF Accept
<1>3. /\ up' \in Seq(Nat) /\ Len(up') = Len(up) + n /\ held' \in Seq(Nat) /\ Len(held') = Len(held) - n
      /\ up' \o held' = up \o held
  BY <1>1, <1>2, StreamMoves
<1>4. wired' = wired \/ wired' = wired + n
  BY DEF Accept
<1>5. wired <= Len(up)
  BY DEF Streams
<1>6. wired' \in Nat /\ wired' <= Len(up) + n
  BY <1>1, <1>4, <1>5
<1> QED
  BY <1>3, <1>6 DEF Streams

\* While the first bytes are sent.
LEMMA SendKeeps ==
    ASSUME TInv, setup' = setup, SendAccept \/ Flushed \/ PauseOver
    PROVE  TInv' /\ phase' # "off"
<1>0. /\ Idle \in Nat /\ closing = {} /\ ended = "no" /\ Typed /\ Streams /\ Idle' = Idle
      /\ phase \in {"send", "flush", "pause"} /\ quiet \in Nat
  <2>1. phase \in {"send", "flush", "pause"}
    BY DEF SendAccept, Flushed, PauseOver
  <2> QED
    BY <2>1, SetupFacts DEF TInv, Typed, Ends, Idle
<1>1. CASE SendAccept
  <2>1. /\ phase = "send" /\ Accept(1) /\ quiet' = 0 /\ left' = Idle /\ fresh' = FALSE
        /\ chunk' = chunk - 1 /\ phase' = IF chunk = 1 THEN "flush" ELSE "send"
        /\ UNCHANGED <<taken, uTaken, back, down, ended, age, lifeLeft, closing>>
    BY <1>1 DEF SendAccept, Moved, Arm
  <2>2. Len(held) \in Nat /\ chunk \in 1 .. Len(held) /\ 1 \in 1 .. Len(held)
    BY <1>0, <2>1, SMTT(30) DEF Typed, Streams
  <2>3. /\ up' \in Seq(Nat) /\ held' \in Seq(Nat) /\ wired' \in Nat /\ wired' <= Len(up')
        /\ up' \o held' = Span(0, taken) /\ Len(held') = Len(held) - 1
    BY <1>0, <2>1, <2>2, AcceptFacts
  <2>4. phase' \in {"send", "flush"} /\ (phase' = "send" => chunk' \in 1 .. Len(held'))
    BY <2>1, <2>2, <2>3
  <2>5. Typed'
    BY <1>0, <2>1, <2>3, <2>4 DEF Typed
  <2>6. Streams'
    BY <1>0, <2>1, <2>3, <2>4 DEF Streams
  <2>7. Ends'
    BY <1>0, <2>1, <2>4 DEF Ends
  <2>8. quiet' + left' >= Idle'
    BY <1>0, <2>1
  <2>9. Clock'
    BY <1>0, <2>1, <2>4, <2>8 DEF Clock, IdleIsIdle
  <2> QED
    BY <2>4, <2>5, <2>6, <2>7, <2>9 DEF TInv
\* The next fragment, the pause before it, or the copy loop.
<1>2. CASE Flushed \/ PauseOver
  <2>1. UNCHANGED <<taken, held, up, wired, uTaken, back, down, ended, lifeLeft, closing, quiet>>
    BY <1>2 DEF Flushed, PauseOver, data
  <2>2. \/ phase' = "pause" /\ left' = Delay /\ fresh' = FALSE /\ age' = age
        \/ /\ held # <<>> /\ phase' = "send" /\ chunk' = LesserOf(FragSize, Len(held))
           /\ left' = Idle /\ fresh' = FALSE /\ age' = age
        \/ phase' = "copy" /\ left' = Idle /\ fresh' = FALSE /\ age' = 0
    BY <1>2 DEF Flushed, PauseOver, NextFragment, StartCopy, Arm
  <2>3. phase' = "send" => chunk' \in 1 .. Len(held)
    <3>1. held # <<>> => Len(held) \in Nat /\ Len(held) >= 1
      BY <1>0 DEF Typed
    <3>2. FragSize \in Nat /\ FragSize >= 1
      BY TunnelSizes
    <3> QED
      BY <2>2, <3>1, <3>2 DEF LesserOf
  <2>4. left' \in Nat /\ age' \in Nat /\ fresh' = FALSE /\ phase' \in {"pause", "send", "copy"}
    BY <1>0, <2>2, TunnelSizes, SMTT(30) DEF Typed
  <2>5. Typed'
    BY <1>0, <2>1, <2>4 DEF Typed
  <2>6. Streams'
    BY <1>0, <2>1, <2>3 DEF Streams
  <2>7. Ends'
    BY <1>0, <2>1, <2>4 DEF Ends
  <2>8. (phase' = "send" => quiet' + left' >= Idle') /\ (phase' = "copy" => age' <= quiet')
    BY <1>0, <2>1, <2>2
  <2>9. Clock'
    BY <1>0, <2>1, <2>4, <2>8 DEF Clock, IdleIsIdle
  <2> QED
    BY <2>4, <2>5, <2>6, <2>7, <2>9 DEF TInv
<1> QED
  BY <1>1, <1>2

\* The transport of a TLS upstream makes progress.
LEMMA DrainKeeps ==
    ASSUME TInv, setup' = setup, Drain
    PROVE  TInv' /\ phase' # "off"
<1>1. /\ phase \in {"send", "flush", "copy"} /\ wired < Len(up) /\ wired' = wired + 1 /\ quiet' = 0
      /\ fresh' = (phase # "copy") /\ age' = IF phase = "copy" THEN 0 ELSE age
      /\ UNCHANGED <<taken, held, up, uTaken, back, down, phase, ended, chunk, left, lifeLeft, closing>>
  BY DEF Drain, Moved, Recorded
<1>2. Typed /\ wired \in Nat /\ Len(up) \in Nat
  BY DEF TInv, Typed
<1>3. wired' \in Nat /\ wired' <= Len(up)
  BY <1>1, <1>2
<1>4. Typed'
  <2>1. fresh' \in BOOLEAN /\ age' \in Nat
    BY <1>1, <1>2 DEF Typed
  <2> QED
    BY <1>1, <1>2, <1>3, <2>1 DEF Typed
<1>5. Streams'
  BY <1>1, <1>3 DEF TInv, Streams
<1>6. Ends'
  <2>1. "up" \notin closing
    BY <1>1, <1>2 DEF TInv, Ends
  <2> QED
    BY <1>1, <2>1 DEF TInv, Ends, ClientSays
<1>7. Clock'
  <2>1. ended' = "no"
    BY <1>1 DEF TInv, Ends
  <2>2. phase = "copy" => age' = 0 /\ quiet' = 0 /\ age' <= quiet'
    BY <1>1
  <2>3. phase # "copy" => fresh'
    BY <1>1
  <2> QED
    BY <1>1, <2>1, <2>2, <2>3 DEF Clock, IdleIsIdle
<1> QED
  BY <1>1, <1>4, <1>5, <1>6, <1>7 DEF TInv

\* The copy loop.
LEMMA CopyKeeps ==
    ASSUME TInv, setup' = setup, CopyRead \/ CopyWrite \/ CopyEof
    PROVE  TInv' /\ phase' # "off"
<1>0. /\ Typed /\ Streams /\ phase = "copy" /\ ended = "no" /\ ClientSays' = ClientSays
      /\ ClientSays \in Nat /\ setup.upstreamSays \in Nat /\ closing \subseteq {"up", "down"}
      /\ "up" \in closing => taken = ClientSays /\ held = <<>> /\ wired = Len(up)
      /\ "down" \in closing => uTaken = setup.upstreamSays /\ back = <<>>
  <2>1. phase = "copy"
    BY DEF CopyRead, CopyWrite, CopyEof
  <2> QED
    BY <2>1, SetupFacts DEF TInv, Typed, Ends, ClientSays
\* What a step that moves bytes changes: the bytes in hand, and the clocks.
<1>1. ASSUME phase' = "copy", quiet' = 0, age' = 0, UNCHANGED <<ended, left, fresh, closing>>,
             taken' \in Nat, uTaken' \in Nat, wired' \in Nat, held' \in Seq(Nat), up' \in Seq(Nat),
             back' \in Seq(Nat), down' \in Seq(Nat), Streams', Ends'
      PROVE  TInv' /\ phase' # "off"
  <2>1. Typed'
    BY <1>0, <1>1 DEF Typed
  <2>2. Clock'
    <3>1. age' <= quiet'
      BY <1>1
    <3> QED
      BY <1>0, <1>1, <3>1 DEF Clock, IdleIsIdle
  <2> QED
    BY <1>1, <2>1, <2>2 DEF TInv
<1>2. CASE CopyRead
  <2>1. /\ phase' = "copy" /\ quiet' = 0 /\ age' = 0 /\ UNCHANGED <<ended, left, fresh, closing, up, wired, down>>
        /\ \/ held = <<>> /\ UNCHANGED <<uTaken, back>>
              /\ \E n \in 1 .. CopyBuf : taken + n <= ClientSays /\ taken' = taken + n /\ held' = Span(taken, n)
           \/ back = <<>> /\ UNCHANGED <<taken, held>>
              /\ \E n \in 1 .. CopyBuf : uTaken + n <= setup.upstreamSays /\ uTaken' = uTaken + n
                                         /\ back' = Span(uTaken, n)
    BY <1>0, <1>2 DEF CopyRead, Moved, Recorded
  <2>2. ASSUME UNCHANGED <<uTaken, back>>, held = <<>>, NEW n \in 1 .. CopyBuf,
               taken + n <= ClientSays, taken' = taken + n, held' = Span(taken, n)
        PROVE  TInv' /\ phase' # "off"
    <3>1. taken \in Nat /\ n \in Nat /\ n >= 1 /\ up \in Seq(Nat) /\ taken' \in Nat
      BY <1>0, <2>2, TunnelSizes, SMTT(30) DEF Typed
    <3>2. held' \in Seq(Nat)
      BY <2>2, <3>1, SpanFacts
    <3>3. up \o held' = Span(0, taken')
      <4>1. up \o <<>> = up
        BY <3>1, ConcatEmptySeq
      <4>2. up = Span(0, taken)
        BY <1>0, <2>2, <4>1 DEF Streams
      <4> QED
        BY <2>2, <3>1, <4>2, SpanJoin
    <3>4. Streams'
      BY <1>0, <2>1, <2>2, <3>3 DEF Streams
    <3>5. "up" \notin closing
      BY <1>0, <2>2, <3>1
    <3>6. Ends'
      BY <1>0, <2>1, <2>2, <3>5 DEF Ends
    <3> QED
      BY <1>0, <1>1, <2>1, <2>2, <3>1, <3>2, <3>4, <3>6 DEF Typed
  <2>3. ASSUME UNCHANGED <<taken, held>>, back = <<>>, NEW n \in 1 .. CopyBuf,
               uTaken + n <= setup.upstreamSays, uTaken' = uTaken + n, back' = Span(uTaken, n)
        PROVE  TInv' /\ phase' # "off"
    <3>1. uTaken \in Nat /\ n \in Nat /\ n >= 1 /\ down \in Seq(Nat) /\ uTaken' \in Nat
      BY <1>0, <2>3, TunnelSizes DEF Typed
    <3>2. back' \in Seq(Nat)
      BY <2>3, <3>1, SpanFacts
    <3>3. down \o back' = Span(0, uTaken')
      <4>1. down \o <<>> = down
        BY <3>1, ConcatEmptySeq
      <4>2. down = Span(0, uTaken)
        BY <1>0, <2>3, <4>1 DEF Streams
      <4> QED
        BY <2>3, <3>1, <4>2, SpanJoin
    <3>4. Streams'
      BY <1>0, <2>1, <2>3, <3>3 DEF Streams
    <3>5. "down" \notin closing
      BY <1>0, <2>3, <3>1
    <3>6. Ends'
      BY <1>0, <2>1, <2>3, <3>5 DEF Ends
    <3> QED
      BY <1>0, <1>1, <2>1, <2>3, <3>1, <3>2, <3>4, <3>6 DEF Typed
  <2> QED
    BY <2>1, <2>2, <2>3
<1>3. CASE CopyWrite
  <2>1. /\ phase' = "copy" /\ quiet' = 0 /\ age' = 0 /\ UNCHANGED <<ended, left, fresh, closing, taken, uTaken>>
        /\ \/ \E n \in 1 .. Len(held) : Accept(n) /\ UNCHANGED <<back, down>>
           \/ \E n \in 1 .. Len(back) : /\ down' = down \o SubSeq(back, 1, n)
                                        /\ back' = SubSeq(back, n + 1, Len(back))
                                        /\ UNCHANGED <<held, up, wired>>
    BY <1>0, <1>3 DEF CopyWrite, Moved, Recorded
  <2>2. ASSUME NEW n \in 1 .. Len(held), Accept(n), UNCHANGED <<back, down>>
        PROVE  TInv' /\ phase' # "off"
    <3>1. /\ up' \in Seq(Nat) /\ held' \in Seq(Nat) /\ wired' \in Nat /\ wired' <= Len(up')
          /\ up' \o held' = Span(0, taken)
      BY <1>0, <2>2, AcceptFacts
    <3>2. Streams'
      BY <1>0, <2>1, <2>2, <3>1 DEF Streams
    <3>3. "up" \notin closing
      <4>1. held # <<>>
        BY <2>2
      <4> QED
        BY <1>0, <4>1
    <3>4. Ends'
      BY <1>0, <2>1, <2>2, <3>3 DEF Ends
    <3> QED
      BY <1>0, <1>1, <2>1, <2>2, <3>1, <3>2, <3>4 DEF Typed
  <2>3. ASSUME NEW n \in 1 .. Len(back), down' = down \o SubSeq(back, 1, n),
               back' = SubSeq(back, n + 1, Len(back)), UNCHANGED <<held, up, wired>>
        PROVE  TInv' /\ phase' # "off"
    <3>1. down \in Seq(Nat) /\ back \in Seq(Nat) /\ n \in 0 .. Len(back)
      BY <1>0 DEF Typed
    <3>2. down' \in Seq(Nat) /\ back' \in Seq(Nat) /\ down' \o back' = down \o back
      BY <2>3, <3>1, StreamMoves
    <3>3. Streams'
      BY <1>0, <2>1, <2>3, <3>2 DEF Streams
    <3>4. "down" \notin closing
      <4>1. back # <<>>
        BY <2>3
      <4> QED
        BY <1>0, <4>1
    <3>5. Ends'
      BY <1>0, <2>1, <2>3, <3>4 DEF Ends
    <3> QED
      BY <1>0, <1>1, <2>1, <2>3, <3>2, <3>3, <3>5 DEF Typed
  <2> QED
    BY <2>1, <2>2, <2>3
<1>4. CASE CopyEof
  <2>1. /\ UNCHANGED <<taken, held, up, wired, uTaken, back, down, phase, ended, chunk, left, fresh, age, quiet>>
        /\ \/ taken = ClientSays /\ held = <<>> /\ wired = Len(up) /\ closing' = closing \cup {"up"}
           \/ uTaken = setup.upstreamSays /\ back = <<>> /\ closing' = closing \cup {"down"}
    BY <1>4 DEF CopyEof, data, timers
  <2>2. Typed' /\ Streams'
    BY <1>0, <2>1 DEF Typed, Streams
  <2>3. Ends'
    BY <1>0, <2>1 DEF Ends
  <2>4. Clock'
    BY <1>0, <2>1 DEF TInv, Clock, IdleIsIdle
  <2> QED
    BY <1>0, <2>1, <2>2, <2>3, <2>4 DEF TInv
<1> QED
  BY <1>2, <1>3, <1>4

\* The timers, and the ends they bring.
LEMMA TimersKeep ==
    ASSUME TInv, setup' = setup, phase # "off",
           TransferOver \/ IdleFires \/ LifetimeOver \/ Tick \/ Breaks
    PROVE  TInv' /\ phase' # "off"
<1>0. /\ Typed /\ Streams /\ Ends /\ Clock /\ Idle \in Nat /\ Idle' = Idle /\ ClientSays' = ClientSays
      /\ left \in Nat /\ age \in Nat /\ quiet \in Nat
  BY SetupFacts DEF TInv, Typed, Idle, ClientSays
<1>1. ASSUME NEW how, End(how) PROVE phase' # "off"
  BY <1>1 DEF End
<1>2. CASE TransferOver
  BY <1>1, <1>2, EndKeeps DEF TransferOver
<1>3. CASE LifetimeOver
  BY <1>1, <1>3, EndKeeps DEF LifetimeOver
<1>4. CASE Breaks
  <2>1. PICK side \in {"client broke", "upstream broke"} : End(side)
    BY <1>4 DEF Breaks
  <2>2. side # "closed" /\ side \notin {"idle", "stalled"}
    OBVIOUS
  <2> QED
    BY <1>1, <2>1, <2>2, EndKeeps
<1>5. CASE IdleFires
  <2>1. phase \in {"hold", "send", "flush", "copy"} /\ left = 0
    BY <1>5 DEF IdleFires, IdleDue, Timed
  <2>2. CASE phase = "copy" /\ age >= Idle
    <3>0. ~(age < Idle)
      BY <1>0, <2>2
    <3>1. End("idle")
      BY <1>5, <2>2, <3>0 DEF IdleFires
    <3>2. quiet >= Idle
      BY <1>0, <2>2 DEF Clock
    <3> QED
      BY <1>1, <3>1, <3>2, EndKeeps
  <2>3. CASE phase = "copy" /\ ~(age >= Idle)
    <3>0. age < Idle
      BY <1>0, <2>3
    <3>1. left' = Rearm /\ UNCHANGED <<data, phase, ended, chunk, fresh, age, lifeLeft, closing, quiet>>
      BY <1>5, <2>3, <3>0 DEF IdleFires
    <3>2. left' \in Nat
      BY <1>0, <3>0, <3>1 DEF Rearm
    <3>3. Typed' /\ Streams'
      BY <1>0, <3>1, <3>2 DEF Typed, Streams, data
    <3>4. Ends'
      BY <1>0, <3>1 DEF Ends, data
    <3>5. Clock'
      BY <1>0, <2>3, <3>1 DEF Clock, IdleIsIdle, data
    <3> QED
      BY <2>3, <3>1, <3>3, <3>4, <3>5 DEF TInv
  <2>4. CASE phase \in {"send", "flush"} /\ fresh
    <3>1. /\ left' = Idle /\ fresh' = FALSE
          /\ UNCHANGED <<data, phase, ended, chunk, age, lifeLeft, closing, quiet>>
      BY <1>5, <2>4 DEF IdleFires, Arm
    <3>2. Typed' /\ Streams'
      BY <1>0, <3>1 DEF Typed, Streams, data
    <3>3. Ends'
      BY <1>0, <3>1 DEF Ends, data
    <3>4. quiet' + left' >= Idle'
      BY <1>0, <3>1, JustArmed
    <3>5. Clock'
      BY <1>0, <2>4, <3>1, <3>4 DEF Clock, IdleIsIdle, data
    <3> QED
      BY <2>4, <3>1, <3>2, <3>3, <3>5 DEF TInv
  <2>5. CASE phase = "hold" \/ (phase \in {"send", "flush"} /\ ~fresh)
    <3>1. End("stalled")
      BY <1>5, <2>5 DEF IdleFires
    <3>2. (back # <<>> /\ up = <<>>) \/ quiet + left >= Idle
      <4>1. CASE phase = "hold"
        BY <1>0, <4>1 DEF Clock
      <4>2. CASE phase \in {"send", "flush"} /\ ~fresh
        BY <1>0, <4>2 DEF Clock
      <4> QED
        BY <2>5, <4>1, <4>2
    <3>3. quiet >= Idle \/ (back # <<>> /\ up = <<>>)
      BY <1>0, <2>1, <3>2
    <3> QED
      BY <1>1, <3>1, <3>3, EndKeeps
  <2> QED
    BY <2>1, <2>2, <2>3, <2>4, <2>5
<1>6. CASE Tick
  <2>1. /\ phase \notin {"off", "ended"} /\ ~IdleDue
        /\ left' = (IF left > 0 THEN left - 1 ELSE 0)
        /\ age' = LesserOf(age + 1, Idle) /\ quiet' = LesserOf(quiet + 1, Idle)
        /\ UNCHANGED <<taken, held, up, wired, uTaken, back, down, phase, ended, chunk, fresh, closing>>
    BY <1>6 DEF Tick, data
  <2>2. left' \in Nat /\ age' \in Nat /\ quiet' \in Nat
    BY <1>0, <2>1 DEF LesserOf
  <2>3. age <= quiet => age' <= quiet'
    BY <1>0, <2>1 DEF LesserOf
  <2>4. ASSUME phase \in {"hold", "send", "flush"}, quiet + left >= Idle PROVE quiet' + left' >= Idle
    <3>1. CASE Idle = 0
      <4>1. \A i, j \in Nat : i + j >= 0
        OBVIOUS
      <4> QED
        BY <2>2, <3>1, <4>1
    <3>2. CASE Idle > 0
      <4>1. left > 0
        BY <1>0, <2>1, <2>4, <3>2 DEF IdleDue, Timed
      <4> QED
        BY <1>0, <2>1, <2>4, <4>1 DEF LesserOf
    <3> QED
      BY <1>0, <3>1, <3>2
  <2>5. Typed' /\ Streams'
    BY <1>0, <2>1, <2>2 DEF Typed, Streams
  <2>6. Ends'
    BY <1>0, <2>1 DEF Ends
  <2>7. ended' = "no"
    BY <1>0, <2>1 DEF Ends
  <2>8. Clock'
    BY <1>0, <2>1, <2>3, <2>4, <2>7 DEF Clock, IdleIsIdle
  <2> QED
    BY <2>1, <2>5, <2>6, <2>8 DEF TInv
<1> QED
  BY <1>2, <1>3, <1>4, <1>5, <1>6

\* Every step of an open tunnel keeps the tunnel's part of the invariant.
LEMMA TunnelKeeps ==
    ASSUME TInv, setup' = setup, phase # "off", TunnelNext
    PROVE  TInv' /\ phase' # "off"
  BY HoldKeeps, SendKeeps, DrainKeeps, CopyKeeps, TimersKeep DEF TunnelNext

-----------------------------------------------------------------------------
(* Steps of the handler *)

\* A step that leaves the tunnel alone.
LEMMA TunnelFrame ==
    ASSUME TInv, UNCHANGED <<setup, tunnelVars>>
    PROVE  TInv'
<1>1. UNCHANGED <<taken, held, up, wired, uTaken, back, down, phase, ended, chunk, left, fresh, age, closing, quiet>>
  BY DEF tunnelVars, data, timers
<1>2. Typed'
  BY <1>1 DEF TInv, Typed
<1>3. Streams'
  BY <1>1 DEF TInv, Streams
<1>4. Ends'
  BY <1>1 DEF TInv, Ends, ClientSays
<1>5. Clock'
  BY <1>1 DEF TInv, Clock, IdleIsIdle, Idle
<1> QED
  BY <1>2, <1>3, <1>4, <1>5 DEF TInv

\* Before the tunnel is entered, the handler may read more of the client's
\* bytes.
LEMMA EarlyRead ==
    ASSUME TInv, phase = "off", up = <<>>, wired = 0, NEW n \in Nat,
           taken' = taken + n, held' = held \o Span(taken, n),
           UNCHANGED <<setup, up, wired, uTaken, back, down, phase, ended, chunk, timers, closing, quiet>>
    PROVE  TInv'
<1>0. Typed /\ Streams /\ Ends /\ Clock /\ taken \in Nat /\ up \in Seq(Nat) /\ held \in Seq(Nat)
  BY DEF TInv, Typed
<1>1. UNCHANGED <<left, fresh, age>>
  BY DEF timers
<1>2. held' \in Seq(Nat) /\ up \o held' = Span(0, taken') /\ taken' \in Nat
  <2>1. up \o held = Span(0, taken) /\ taken + n \in Nat
    BY <1>0 DEF Streams
  <2>2. held \o Span(taken, n) \in Seq(Nat) /\ up \o (held \o Span(taken, n)) = Span(0, taken + n)
    BY <1>0, <2>1, StreamGrows, ZenonT(30)
  <2> QED
    BY <2>1, <2>2
<1>3. Typed'
  BY <1>0, <1>1, <1>2 DEF Typed
<1>4. Streams'
  BY <1>0, <1>2 DEF Streams
<1>5. Ends'
  BY <1>0 DEF Ends
<1>6. Clock'
  BY <1>0, <1>1 DEF Clock, IdleIsIdle, Idle
<1> QED
  BY <1>3, <1>4, <1>5, <1>6 DEF TInv

\* The tunnel is entered with the client bytes h in hand.
LEMMA ForwardKeeps ==
    ASSUME TInv, phase = "off", NEW h \in Seq(Nat), Forward(h), UNCHANGED <<setup, up, wired, back, taken, quiet>>,
           uTaken' \in Nat, down' \in Seq(Nat), up \o h = Span(0, taken), down' \o back = Span(0, uTaken')
    PROVE  TInv' /\ phase' # "off"
<1>0. /\ Typed /\ Idle \in Nat /\ Idle' = Idle /\ closing = {} /\ ended = "no" /\ quiet \in Nat
      /\ wired <= Len(up) /\ up = <<>>
  <2>1. up = <<>>
    BY DEF TInv, Clock
  <2> QED
    BY <2>1, SetupFacts DEF TInv, Typed, Streams, Ends, Idle
<1>1. held' = h /\ UNCHANGED <<ended, closing>>
  BY DEF Forward
<1>2. /\ (up \o held)' = Span(0, taken)' /\ (down \o back)' = Span(0, uTaken)'
      /\ wired' <= Len(up')
  BY <1>0, <1>1
<1>3. CASE StartSend(h)
  <2>1. left' = Idle /\ fresh' = FALSE /\ age' \in {0, age} /\ phase' \in {"copy", "send"}
    BY <1>0, <1>3, StartSendFacts
  <2>2. age' \in Nat
    BY <1>0, <2>1 DEF Typed
  <2>3. Typed'
    BY <1>0, <1>1, <2>1, <2>2 DEF Typed
  <2>4. TInv'
    BY <1>0, <1>1, <1>2, <1>3, <2>3, StartSendKeeps
  <2> QED
    BY <2>1, <2>4
<1>4. CASE phase' = "hold" /\ Arm /\ UNCHANGED <<age, chunk>>
  <2>1. phase' = "hold" /\ left' = Idle /\ fresh' = FALSE /\ age' = age
    BY <1>4 DEF Arm
  <2>2. Typed'
    BY <1>0, <1>1, <2>1 DEF Typed
  <2>3. Streams'
    BY <1>2, <2>1 DEF Streams
  <2>4. Ends'
    BY <1>0, <1>1, <2>1 DEF Ends
  <2>5. quiet' + left' >= Idle'
    BY <1>0, <2>1, JustArmed
  <2>6. Clock'
    BY <1>0, <1>1, <2>1, <2>5 DEF Clock, IdleIsIdle
  <2> QED
    BY <2>1, <2>2, <2>3, <2>4, <2>6 DEF TInv
<1> QED
  BY <1>3, <1>4 DEF Forward

\* The reply that announces success.
LEMMA Announced ==
    ASSUME replies = <<>>, replies' = Append(replies, Wire("Established"))
    PROVE  replies' = Success
<1>1. SocksReply["Established"] = 0 /\ HttpReply["Established"] = 200
  BY DEF SocksReply, HttpReply
<1>2. \A x : Append(<<>>, x) = <<x>>
  OBVIOUS
<1> QED
  BY <1>1, <1>2 DEF Wire, Success

LEMMA SuccessFacts == Success # <<>> /\ Len(Success) = 1 /\ Len(<<>>) = 0
  BY DEF Success

\* The session ends, with a reply where none was sent yet.
LEMMA FinishKeeps ==
    ASSUME IInv, NEW reply, Finish(reply),
           \/ reply = None /\ replies = Success
           \/ reply # None /\ replies = <<>> /\ pc \in {"start", "dial"}
    PROVE  IInv'
<1>1. /\ pc' = "done" /\ UNCHANGED <<setup, tunnelVars, early>>
      /\ replies' = IF reply = None THEN replies ELSE Append(replies, Wire(reply))
  BY DEF Finish, Go
<1>2. TInv'
  BY <1>1, TunnelFrame DEF IInv, TInv
<1>3. UNCHANGED <<held, up, wired, uTaken, back, down, phase>>
  BY <1>1 DEF tunnelVars, data
<1>4. Success' = Success
  BY <1>1 DEF Success
<1>5. replies' # <<>> /\ Len(replies') = 1 /\ (phase # "off" \/ down # <<>> => replies' = Success)
  <2>1. CASE reply = None /\ replies = Success
    BY <1>1, <2>1, SuccessFacts
  <2>2. CASE reply # None /\ replies = <<>> /\ pc \in {"start", "dial"}
    <3>1. \A x : Append(<<>>, x) # <<>> /\ Len(Append(<<>>, x)) = 1
      OBVIOUS
    <3>2. phase = "off" /\ down = <<>>
      BY <2>2 DEF IInv, Told
    <3> QED
      BY <1>1, <2>2, <3>1, <3>2
  <2> QED
    BY <2>1, <2>2
<1>6. ~early'
  <2>1. CASE reply = None /\ replies = Success
    <3>1. replies # <<>>
      BY <2>1, SuccessFacts
    <3>2. ~early
      BY <3>1 DEF IInv, Told, OneOutcome
    <3> QED
      BY <1>1, <3>2
  <2>2. CASE reply # None /\ replies = <<>> /\ pc \in {"start", "dial"}
    BY <1>1, <2>2 DEF IInv, Told
  <2> QED
    BY <2>1, <2>2
<1>7. OneOutcome'
  <2>1. Len(replies') <= 1
    BY <1>5
  <2>2. (down # <<>> \/ phase # "off" => replies = Success)'
    BY <1>3, <1>4, <1>5
  <2> QED
    BY <1>5, <1>6, <2>1, <2>2 DEF OneOutcome
<1>8. Told'
  BY <1>1, <1>3, <1>7, <1>6 DEF IInv, Told, Waiting
<1>9. Allowed'
  BY <1>1 DEF Allowed
<1> QED
  BY <1>2, <1>8, <1>9 DEF IInv, TInv

\* The handler moves on before the tunnel, its replies in order.
LEMMA MoveKeeps ==
    ASSUME IInv, TInv', UNCHANGED <<setup, up, wired, uTaken, back, down, phase, early>>, phase = "off", ~early,
           \/ pc' \in {"dial", "recover"} /\ replies' = <<>>
           \/ /\ pc' \in {"prefix", "redial"} \cup Waiting /\ replies' = Success
              /\ pc' \in Waiting => held' = <<>>
              /\ pc' = "listening" => ~Banned(dest')
    PROVE  IInv'
<1>1. Success' = Success
  BY DEF Success
<1>2. up = <<>> /\ back = <<>> /\ down = <<>> /\ uTaken = 0 /\ wired = 0
  BY DEF IInv, Told
<1>3. OneOutcome'
  <2>0. \/ Len(replies') = 0
        \/ Len(replies') = 1
    <3>1. replies' = <<>> \/ replies' = Success
      OBVIOUS
    <3> QED
      BY <3>1, SuccessFacts
  <2>1. Len(replies') <= 1
    <3>1. 0 <= 1 /\ 1 <= 1
      OBVIOUS
    <3> QED
      BY <2>0, <3>1
  <2>2. down' = <<>> /\ phase' = "off" /\ pc' # "done"
    BY <1>2 DEF Waiting
  <2> QED
    BY <2>1, <2>2 DEF OneOutcome
<1>4. Told'
  BY <1>1, <1>2, <1>3 DEF Told, Waiting
<1>5. Allowed'
  BY DEF Allowed, Banned, Waiting
<1> QED
  BY <1>4, <1>5 DEF IInv, TInv

\* The tunnel is entered, with the outcome announced.
LEMMA HandoverKeeps ==
    ASSUME IInv, phase = "off", ~early, NEW h \in Seq(Nat), NEW d, Handover(h, d), ~Banned(d), UNCHANGED <<taken, quiet>>,
           uTaken' \in Nat, down' \in Seq(Nat), up \o h = Span(0, taken), down' \o back = Span(0, uTaken'),
           replies' = Success
    PROVE  IInv'
<1>1. pc' = "tunnel" /\ dest' = d /\ Forward(h) /\ UNCHANGED <<setup, up, wired, back, early>>
  BY DEF Handover
<1>2. TInv' /\ phase' # "off"
  BY <1>1, ForwardKeeps DEF IInv, TInv
<1>3. Success' = Success
  BY <1>1 DEF Success
<1>4. OneOutcome'
  BY <1>1, <1>3, SuccessFacts DEF OneOutcome
<1>5. Told'
  BY <1>1, <1>2, <1>3, <1>4 DEF Told, Waiting
<1>6. Allowed'
  BY <1>1 DEF Allowed, Banned
<1> QED
  BY <1>2, <1>5, <1>6 DEF IInv, TInv

LEMMA AdmitKeeps == ASSUME IInv, Admit PROVE IInv'
<1>0. /\ TInv /\ pc = "start" /\ phase = "off" /\ replies = <<>> /\ held = <<>> /\ up = <<>> /\ wired = 0
      /\ down = <<>> /\ ~early
  BY DEF Admit, IInv, TInv, Told
<1>1. CASE OverCap
  <2>1. Finish("Overloaded") /\ "Overloaded" # None
    BY <1>1 DEF Admit, None
  <2> QED
    BY <1>0, <2>1, FinishKeeps
<1>2. CASE ~OverCap
  <2>1. /\ pc' \in {"dial", "recover"} /\ taken' = setup.pipeline /\ held' = Span(0, setup.pipeline)
        /\ UNCHANGED <<setup, up, wired, uTaken, back, down, phase, ended, chunk, timers, closing, quiet, replies, early>>
    BY <1>2 DEF Admit, TakePipeline
  <2>2. setup.pipeline \in Nat
    BY <1>0, SetupFacts DEF TInv, Typed
  <2>3. taken = 0
    <3>1. taken \in Nat /\ <<>> \in Seq(Nat) /\ Span(0, taken) = <<>> \o <<>>
      BY <1>0 DEF TInv, Typed, Streams
    <3>2. Len(Span(0, taken)) = taken
      BY <3>1, SpanFacts
    <3>3. <<>> \o <<>> = <<>> /\ Len(<<>>) = 0
      BY <3>1, ConcatEmptySeq
    <3> QED
      BY <3>1, <3>2, <3>3
  <2>4. taken' = taken + setup.pipeline /\ held' = held \o Span(taken, setup.pipeline)
    <3>1. Span(0, setup.pipeline) \in Seq(Nat)
      BY <2>2, SpanFacts
    <3>2. <<>> \o Span(0, setup.pipeline) = Span(0, setup.pipeline)
      BY <3>1, ConcatEmptySeq
    <3> QED
      BY <1>0, <2>1, <2>2, <2>3, <3>2
  <2>5. TInv'
    BY <1>0, <2>1, <2>2, <2>4, EarlyRead
  <2> QED
    BY <1>0, <2>1, <2>5, MoveKeeps
<1> QED
  BY <1>1, <1>2

LEMMA DialKeeps == ASSUME IInv, Dial PROVE IInv'
<1>0. /\ pc = "dial" /\ phase = "off" /\ replies = <<>> /\ held \in Seq(Nat) /\ uTaken \in Nat /\ down \in Seq(Nat)
      /\ up \o held = Span(0, taken) /\ down \o back = Span(0, uTaken) /\ ~early
  BY DEF Dial, IInv, Typed, Streams, Told
<1>1. CASE Finish(Refusal)
  <2>1. Refusal # None
    BY DEF Refusal, None
  <2> QED
    BY <1>0, <1>1, <2>1, FinishKeeps
<1>2. CASE /\ EstablishDirect \/ EstablishConnection
           /\ Handover(held, setup.target)
           /\ replies' = Append(replies, Wire("Established"))
           /\ UNCHANGED <<taken, uTaken, down, quiet>>
  <2>1. ~Banned(setup.target)
    BY <1>2 DEF EstablishDirect, EstablishConnection, Reachable
  <2>2. replies' = Success
    BY <1>0, <1>2, Announced
  <2> QED
    BY <1>0, <1>2, <2>1, <2>2, HandoverKeeps
<1> QED
  BY <1>1, <1>2 DEF Dial

LEMMA RecoverKeeps == ASSUME IInv, Recover PROVE IInv'
<1>0. /\ TInv /\ pc = "recover" /\ phase = "off" /\ replies = <<>> /\ down = <<>>
      /\ setup' = setup /\ UNCHANGED tunnelVars /\ early' = expired
  BY DEF Recover, Go, IInv, TInv, Told
<1>1. TInv'
  BY <1>0, TunnelFrame
<1>2. UNCHANGED <<held, up, wired, uTaken, back, down, phase>>
  BY <1>0 DEF tunnelVars, data
<1>3. Success' = Success
  BY <1>0 DEF Success
<1>4. CASE expired
  <2>1. pc' = "done" /\ early' /\ replies' = <<>>
    BY <1>0, <1>4 DEF Recover, Go
  <2>2. OneOutcome'
    <3>1. Len(replies') <= 1
      BY <2>1, SuccessFacts
    <3> QED
      BY <1>0, <1>2, <2>1, <3>1 DEF OneOutcome
  <2>3. Told'
    BY <1>0, <1>2, <2>1, <2>2 DEF IInv, Told, Waiting
  <2> QED
    BY <1>1, <2>1, <2>3 DEF IInv, TInv, Allowed
<1>5. CASE ~expired
  <2>1. /\ pc' = (IF held # <<>> THEN "prefix" ELSE "grace")
        /\ replies' = Append(replies, Wire("Established"))
    BY <1>5 DEF Recover, Go
  <2>2. replies' = Success
    BY <1>0, <2>1, Announced
  <2>3. OneOutcome'
    <3>1. Len(replies') <= 1
      BY <2>2, SuccessFacts
    <3> QED
      BY <1>0, <1>2, <1>5, <2>1, <3>1 DEF OneOutcome
  <2>4. Told'
    BY <1>0, <1>2, <1>3, <1>5, <2>1, <2>2, <2>3 DEF IInv, Told, Waiting
  <2>5. Allowed'
    BY <2>1 DEF Allowed
  <2> QED
    BY <1>1, <2>4, <2>5 DEF IInv, TInv
<1> QED
  BY <1>4, <1>5

\* The steps of the recovery after the early reply: success has been announced
\* and the tunnel is not entered.
LEMMA RecoveryState ==
    ASSUME IInv, pc \in {"prefix", "redial"} \cup Waiting
    PROVE  /\ TInv /\ phase = "off" /\ replies = Success /\ up = <<>> /\ wired = 0 /\ down = <<>> /\ back = <<>>
           /\ uTaken = 0 /\ (pc \in Waiting => held = <<>>)
           /\ taken \in Nat /\ held \in Seq(Nat) /\ up \o held = Span(0, taken)
           /\ down \o back = Span(0, uTaken) /\ down \in Seq(Nat) /\ ~early
  BY DEF IInv, TInv, Told, Typed, Streams, Waiting

LEMMA EndsKeep ==
    ASSUME IInv, RecoveryTimesOut \/ ClientBreaks \/ TunnelEnded
    PROVE  IInv'
<1>1. Finish(None) /\ replies = Success
  BY DEF RecoveryTimesOut, ClientBreaks, TunnelEnded, InRecovery, IInv, Told, Waiting
<1> QED
  BY <1>1, FinishKeeps

LEMMA SpeaksKeeps == ASSUME IInv, ClientSpeaks PROVE IInv'
<1>0. pc \in Waiting /\ Waiting \subseteq {"prefix", "redial"} \cup Waiting
  BY DEF ClientSpeaks, Waiting
<1>1. /\ TInv /\ phase = "off" /\ replies = Success /\ up = <<>> /\ wired = 0
      /\ taken \in Nat /\ held = <<>> /\ ~early
  BY <1>0, RecoveryState
<1>2. CASE Finish(None)
  BY <1>1, <1>2, FinishKeeps
<1>3. ASSUME NEW n \in 1 .. ReadMax, taken' = taken + n, held' = Span(taken, n), Go("prefix"),
             UNCHANGED <<up, wired, uTaken, back, down, phase, ended, chunk, timers, closing, quiet, replies, early>>
      PROVE  IInv'
  <2>1. pc' = "prefix" /\ setup' = setup
    BY <1>3 DEF Go
  <2>2. n \in Nat
    BY <1>3, SessionSizes
  <2>3. held' = held \o Span(taken, n)
    <3>1. Span(taken, n) \in Seq(Nat)
      BY <1>1, <2>2, SpanFacts
    <3> QED
      BY <1>1, <1>3, <3>1, ConcatEmptySeq
  <2>4. TInv'
    BY <1>1, <1>3, <2>1, <2>2, <2>3, EarlyRead
  <2>5. replies' = Success
    BY <1>1, <1>3
  <2>6. pc' \in {"prefix", "redial"} \cup Waiting /\ pc' \notin Waiting /\ pc' # "listening"
    BY <2>1 DEF Waiting
  <2> QED
    BY <1>1, <1>3, <2>1, <2>4, <2>5, <2>6, MoveKeeps
<1> QED
  BY <1>2, <1>3 DEF ClientSpeaks

LEMMA WaitsKeep ==
    ASSUME IInv, GraceElapses \/ DialledByIp
    PROVE  IInv'
<1>0. pc \in Waiting /\ pc \in {"prefix", "redial"} \cup Waiting
  BY DEF GraceElapses, DialledByIp, Waiting
<1>1. TInv /\ phase = "off" /\ replies = Success /\ held = <<>> /\ ~early
  BY <1>0, RecoveryState
<1>2. /\ UNCHANGED <<setup, tunnelVars, replies, early>> /\ pc' \in {"dialling", "listening", "prefix"}
      /\ pc' = "listening" => ~Banned(dest')
  BY DEF GraceElapses, DialledByIp, Go, Reachable
<1>3. TInv'
  BY <1>1, <1>2, TunnelFrame
<1>4. UNCHANGED <<held, up, wired, uTaken, back, down, phase>>
  BY <1>2 DEF tunnelVars, data
<1>5. pc' \in {"prefix", "redial"} \cup Waiting
  BY <1>2 DEF Waiting
<1> QED
  BY <1>1, <1>2, <1>3, <1>4, <1>5, MoveKeeps

LEMMA GreetsKeeps == ASSUME IInv, Greets PROVE IInv'
<1>0. pc = "listening" /\ pc \in Waiting /\ pc \in {"prefix", "redial"} \cup Waiting
  BY DEF Greets, Waiting
<1>1. /\ TInv /\ phase = "off" /\ replies = Success /\ up = <<>> /\ back = <<>> /\ held = <<>>
      /\ taken \in Nat /\ up \o held = Span(0, taken) /\ ~early
  BY <1>0, RecoveryState
<1>2. ASSUME NEW n \in 1 .. setup.upstreamSays, uTaken' = n, down' = Span(0, n), Handover(<<>>, dest),
             UNCHANGED <<taken, replies, quiet>>
      PROVE  IInv'
  <2>1. n \in Nat
    BY <1>1, <1>2, SetupFacts DEF TInv, Typed
  <2>2. Span(0, n) \in Seq(Nat) /\ <<>> \in Seq(Nat)
    BY <2>1, SpanFacts
  <2>3. Span(0, n) \o <<>> = Span(0, n)
    BY <2>2, ConcatEmptySeq
  <2>4. ~Banned(dest) /\ replies' = Success
    BY <1>0, <1>1, <1>2 DEF IInv, Allowed
  <2>5. uTaken' \in Nat /\ down' \in Seq(Nat) /\ down' \o back = Span(0, uTaken') /\ up \o <<>> = Span(0, taken)
    BY <1>1, <1>2, <2>1, <2>2, <2>3
  <2> QED
    BY <1>1, <1>2, <2>2, <2>4, <2>5, HandoverKeeps
<1>3. CASE Go("prefix") /\ UNCHANGED <<tunnelVars, replies, early>>
  <2>1. pc' = "prefix" /\ setup' = setup
    BY <1>3 DEF Go
  <2>2. TInv'
    BY <1>1, <1>3, <2>1, TunnelFrame
  <2>3. UNCHANGED <<up, wired, uTaken, back, down, phase>>
    BY <1>3 DEF tunnelVars, data
  <2>4. pc' \in {"prefix", "redial"} \cup Waiting /\ pc' \notin Waiting /\ pc' # "listening"
    BY <2>1 DEF Waiting
  <2> QED
    BY <1>1, <1>3, <2>1, <2>2, <2>3, <2>4, MoveKeeps
<1> QED
  BY <1>2, <1>3 DEF Greets

LEMMA PrefixKeeps == ASSUME IInv, ReadRecoveryPrefix PROVE IInv'
<1>0. pc = "prefix" /\ pc \in {"prefix", "redial"} \cup Waiting
  BY DEF ReadRecoveryPrefix
<1>1. /\ TInv /\ phase = "off" /\ replies = Success /\ up = <<>> /\ wired = 0
      /\ taken \in Nat /\ held \in Seq(Nat) /\ ~early
  BY <1>0, RecoveryState
<1>2. CASE Go("redial") /\ UNCHANGED <<tunnelVars, replies, early, dest>>
  <2>1. pc' = "redial" /\ setup' = setup
    BY <1>2 DEF Go
  <2>2. TInv'
    BY <1>1, <1>2, <2>1, TunnelFrame
  <2>3. UNCHANGED <<up, wired, uTaken, back, down, phase>>
    BY <1>2 DEF tunnelVars, data
  <2>4. pc' \in {"prefix", "redial"} \cup Waiting /\ pc' \notin Waiting /\ pc' # "listening"
    BY <2>1 DEF Waiting
  <2> QED
    BY <1>1, <1>2, <2>1, <2>2, <2>3, <2>4, MoveKeeps
<1>3. CASE Finish(None)
  BY <1>1, <1>3, FinishKeeps
<1>4. ASSUME NEW n \in 1 .. LesserOf(ReadMax, PeekMax - Len(held)),
             taken' = taken + n, held' = held \o Span(taken, n),
             UNCHANGED <<setup, up, wired, uTaken, back, down, phase, ended, chunk, timers, closing, quiet, sessionVars>>
      PROVE  IInv'
  <2>1. n \in Nat
    <3>1. Len(held) \in Nat
      BY <1>1
    <3>2. LesserOf(ReadMax, PeekMax - Len(held)) \in Int
      BY <3>1, SessionSizes DEF LesserOf
    <3> QED
      BY <1>4, <3>2
  <2>2. TInv'
    BY <1>1, <1>4, <2>1, EarlyRead
  <2>3. pc' = "prefix" /\ replies' = Success /\ early' = early
    BY <1>0, <1>1, <1>4 DEF sessionVars
  <2>4. pc' \in {"prefix", "redial"} \cup Waiting /\ pc' \notin Waiting /\ pc' # "listening"
    BY <2>3 DEF Waiting
  <2> QED
    BY <1>1, <1>4, <2>2, <2>3, <2>4, MoveKeeps
<1> QED
  BY <1>2, <1>3, <1>4 DEF ReadRecoveryPrefix

LEMMA RedialKeeps == ASSUME IInv, Redial PROVE IInv'
<1>0. pc \in {"prefix", "redial"} \cup Waiting
  BY DEF Redial
<1>1. /\ phase = "off" /\ replies = Success /\ held \in Seq(Nat) /\ up \o held = Span(0, taken)
      /\ down \o back = Span(0, uTaken) /\ down \in Seq(Nat) /\ uTaken = 0 /\ ~early
  BY <1>0, RecoveryState
<1>2. CASE Finish(None)
  BY <1>1, <1>2, FinishKeeps
<1>3. CASE /\ Reachable(EffectiveTarget)
           /\ Handover(held, EffectiveTarget)
           /\ UNCHANGED <<taken, uTaken, down, quiet, replies>>
  <2>1. ~Banned(EffectiveTarget) /\ replies' = Success
    BY <1>1, <1>3 DEF Reachable
  <2>2. uTaken' \in Nat /\ down' \in Seq(Nat) /\ down' \o back = Span(0, uTaken')
    BY <1>1, <1>3
  <2> QED
    BY <1>1, <1>3, <2>1, <2>2, HandoverKeeps
<1> QED
  BY <1>2, <1>3 DEF Redial

LEMMA InTunnelKeeps == ASSUME IInv, InTunnel PROVE IInv'
<1>1. /\ pc = "tunnel" /\ TunnelNext /\ setup' = setup
      /\ UNCHANGED <<pc, replies, early, dest>>
  BY DEF InTunnel, sessionVars
<1>2. TInv /\ phase # "off" /\ replies = Success /\ ~early
  BY <1>1 DEF IInv, TInv, Told
<1>3. TInv' /\ phase' # "off"
  BY <1>1, <1>2, TunnelKeeps
<1>4. Success' = Success
  BY <1>1 DEF Success
<1>5. OneOutcome'
  <2>1. Len(replies') <= 1
    BY <1>1, <1>2, SuccessFacts
  <2> QED
    BY <1>1, <1>2, <1>4, <2>1 DEF OneOutcome
<1>6. Told'
  BY <1>1, <1>2, <1>3, <1>4, <1>5 DEF Told, Waiting
<1>7. Allowed'
  BY <1>1 DEF IInv, Allowed, Banned
<1> QED
  BY <1>3, <1>6, <1>7 DEF IInv, TInv

\* The deadline passes, other sessions come and go, or nothing happens.
LEMMA OthersKeep ==
    ASSUME IInv, DeadlinePasses \/ OtherTakes \/ OtherReleases \/ UNCHANGED vars
    PROVE  IInv'
<1>1. UNCHANGED <<setup, tunnelVars, pc, replies, early, dest>>
  BY DEF DeadlinePasses, OtherTakes, OtherReleases, vars, sessionVars
<1>2. TInv'
  BY <1>1, TunnelFrame DEF IInv, TInv
<1>3. UNCHANGED <<held, up, wired, uTaken, back, down, phase>>
  BY <1>1 DEF tunnelVars, data
<1>4. Success' = Success
  BY <1>1 DEF Success
<1>5. Told'
  BY <1>1, <1>3, <1>4 DEF IInv, Told, OneOutcome
<1>6. Allowed'
  BY <1>1 DEF IInv, Allowed, Banned
<1> QED
  BY <1>2, <1>5, <1>6 DEF IInv, TInv

-----------------------------------------------------------------------------
(* The theorems *)

LEMMA InitHolds == Init => IInv
<1> SUFFICES ASSUME Init PROVE IInv
  OBVIOUS
<1>1. /\ setup \in Setups /\ taken = 0 /\ held = <<>> /\ up = <<>> /\ wired = 0 /\ uTaken = 0 /\ back = <<>>
      /\ down = <<>> /\ phase = "off" /\ ended = "no" /\ chunk = 0 /\ left = 0 /\ fresh = FALSE /\ age = 0
      /\ closing = {} /\ quiet = 0 /\ pc = "start" /\ replies = <<>> /\ early = FALSE
  BY DEF Init, TunnelInit
<1>2. Typed
  <2>1. 0 \in Nat /\ <<>> \in Seq(Nat) /\ FALSE \in BOOLEAN
    OBVIOUS
  <2> QED
    BY <1>1, <2>1, Zenon DEF Typed
<1>3. Streams
  <2>1. Span(0, 0) = <<>> /\ <<>> \o <<>> = <<>> /\ Len(<<>>) = 0 /\ 0 <= 0
    <3>1. <<>> \in Seq(Nat) /\ 0 \in Nat
      OBVIOUS
    <3> QED
      BY <3>1, SpanFacts, ConcatEmptySeq
  <2> QED
    BY <1>1, <2>1 DEF Streams
<1>4. Ends
  BY <1>1 DEF Ends
<1>5. Clock
  BY <1>1 DEF Clock, IdleIsIdle
<1>6. Told
  <2>1. Len(replies) <= 1
    BY <1>1
  <2> QED
    BY <1>1, <2>1 DEF Told, Waiting, OneOutcome
<1>7. Allowed
  BY <1>1 DEF Allowed
<1> QED
  BY <1>2, <1>3, <1>4, <1>5, <1>6, <1>7 DEF IInv

LEMMA NextKeeps == IInv /\ [Next]_vars => IInv'
  BY AdmitKeeps, DialKeeps, RecoverKeeps, EndsKeep, SpeaksKeeps, WaitsKeep, GreetsKeeps, PrefixKeeps,
     RedialKeeps, InTunnelKeeps, OthersKeep
     DEF Next

\* The invariant the theorems below rest on: every byte read by the handler, the
\* recovery or the tunnel is accounted for, timers never run ahead of silence,
\* and the handler's place says what the client has been told.
THEOREM Inductive == Spec => []IInv
  BY InitHolds, NextKeeps, PTL DEF Spec

\* The two byte streams of a session arrive whole and in order, across the
\* pipelined bytes, the recovered prefix, the held and fragmented ClientHello
\* and the copy loop, and a tunnel that closed normally has delivered both: for
\* any streams, any sizes of reads, fragments and buffers, and any timers.
THEOREM StreamsArriveWhole == Spec => []StreamsIntact
<1>1. IInv => StreamsIntact
  <2> SUFFICES ASSUME IInv PROVE StreamsIntact
    OBVIOUS
  <2>1. up \o held = Span(0, taken) /\ down \o back = Span(0, uTaken) /\ wired <= Len(up)
    BY DEF IInv, Streams
  <2>2. ASSUME ended = "closed"
        PROVE  Len(up) = ClientSays /\ wired = ClientSays /\ Len(down) = setup.upstreamSays
    <3>1. /\ taken = ClientSays /\ held = <<>> /\ wired = Len(up)
          /\ uTaken = setup.upstreamSays /\ back = <<>>
      BY <2>2 DEF IInv, Ends
    <3>2. up \in Seq(Nat) /\ down \in Seq(Nat) /\ taken \in Nat /\ uTaken \in Nat /\ 0 \in Nat
      BY DEF IInv, Typed
    <3>3. up = Span(0, taken) /\ down = Span(0, uTaken)
      BY <2>1, <3>1, <3>2, ConcatEmptySeq
    <3>4. Len(Span(0, taken)) = taken /\ Len(Span(0, uTaken)) = uTaken
      BY <3>2, SpanFacts
    <3> QED
      BY <3>1, <3>3, <3>4
  <2> QED
    BY <2>1, <2>2 DEF StreamsIntact
<1> QED
  BY <1>1, Inductive, PTL

\* The client is told one outcome, before any payload; it is told nothing where,
\* and only where, its deadline was over when a recovery began.
THEOREM ToldOnce == Spec => []OneOutcome
<1>1. IInv => OneOutcome
  BY DEF IInv, Told
<1> QED
  BY <1>1, Inductive, PTL

\* The idle timer ends a tunnel, in the copy loop and in the bounded sends before
\* it, only after the whole idle time without a byte read, accepted or drained on
\* either side.  Only the relay of an early answer, while a hello is held back,
\* may be cut sooner.
THEOREM OnlySilenceIsCut == Spec => []IdleIsIdle
<1>1. IInv => IdleIsIdle
  BY DEF IInv, Clock
<1> QED
  BY <1>1, Inductive, PTL

\* No session has a tunnel to a banned destination: on the plain path, after a
\* dial by address that the upstream answered, and after a dial by the host the
\* client's first bytes named.
THEOREM NeverBanned == Spec => [](pc = "tunnel" => ~Banned(dest))
<1>1. IInv => (pc = "tunnel" => ~Banned(dest))
  BY DEF IInv, Allowed
<1> QED
  BY <1>1, Inductive, PTL

-----------------------------------------------------------------------------
(* The ClientHello *)

\* Fragmentation is asked for and the client says hello.  Before the copy loop
\* the hello is held back, or what is being sent holds all of it, unless the
\* holding gave up.
Hello == setup.frag /\ Classify(setup.wire) = "ClientHello"
HelloInv == /\ taken <= ClientSays
            /\ phase \in {"off", "hold"} => up = <<>>
            /\ phase \in {"send", "flush", "pause"} /\ Hello => HelloAmong(taken) \/ HoldGaveUp
            /\ HelloGoesWhole

\* Every prefix of a hello is classified as one, or not yet.
LEMMA PrefixOfHello ==
    ASSUME NEW w \in Seq(Nat), NEW n \in 0 .. Len(w), Classify(w) = "ClientHello", ~Unfinished(Prefix(w, n))
    PROVE  ClientHelloIsComplete(Prefix(w, n))
<1>1. w # <<>> /\ w[1] = Handshake /\ ~(Len(w) <= RecordHeader) /\ w[RecordHeader + 1] = ClientHello
  BY DEF Classify
<1>2. n \in Nat /\ Len(w) \in Nat /\ n <= Len(w)
  OBVIOUS
<1> DEFINE d == Prefix(w, n)
<1>3. d \in Seq(Nat) /\ Len(d) = n /\ \A i \in 1 .. n : d[i] = w[i]
  BY <1>2 DEF Prefix
<1> HIDE DEF d
<1>4. Classify(d) # "Indeterminate" /\ (Classify(d) = "ClientHello" => ClientHelloIsComplete(d))
  BY DEF Unfinished, d
<1>5. n > 0
  <2>1. d # <<>>
    BY <1>4 DEF Classify
  <2> QED
    BY <1>2, <1>3, <2>1
<1>6. d # <<>> /\ d[1] = Handshake
  BY <1>1, <1>2, <1>3, <1>5
<1>7. ~(Len(d) <= RecordHeader)
  BY <1>4, <1>6 DEF Classify
<1>8. d[RecordHeader + 1] = ClientHello
  BY <1>1, <1>2, <1>3, <1>7 DEF RecordHeader
<1>9. Classify(d) = "ClientHello"
  BY <1>6, <1>7, <1>8 DEF Classify
<1> QED
  BY <1>4, <1>9 DEF d

\* Before the tunnel sends, what is in hand is what the client said so far.
LEMMA HeldIsPrefix ==
    ASSUME setup \in Setups, NEW n \in 0 .. ClientSays
    PROVE  HeldBytes(Span(0, n)) = Prefix(setup.wire, n) /\ Len(Span(0, n)) = n
<1>1. setup.wire \in Seq(Nat) /\ n \in Nat /\ n <= Len(setup.wire) /\ Len(setup.wire) \in Nat
  BY SetupsAssumption DEF ClientSays
<1>2. DOMAIN Span(0, n) = 1 .. n /\ \A i \in 1 .. n : Span(0, n)[i] = i
  BY <1>1 DEF Span
<1>3. HeldBytes(Span(0, n)) = [i \in 1 .. n |-> setup.wire[i]]
  BY <1>2 DEF HeldBytes
<1>4. Prefix(setup.wire, n) = [i \in 1 .. n |-> setup.wire[i]]
  BY <1>1 DEF Prefix
<1> QED
  BY <1>1, <1>3, <1>4, SpanFacts

LEMMA HeldIsTaken ==
    ASSUME IInv, up = <<>>
    PROVE  held = Span(0, taken) /\ taken \in Nat
<1>1. up \o held = Span(0, taken) /\ held \in Seq(Nat) /\ taken \in Nat
  BY DEF IInv, Streams, Typed
<1> QED
  BY <1>1

\* Once nothing is in hand, all that was read has been sent.
LEMMA AllSent == IInv /\ held = <<>> => Len(up) = taken
<1> SUFFICES ASSUME IInv, held = <<>> PROVE Len(up) = taken
  OBVIOUS
<1>1. up \o held = Span(0, taken) /\ up \in Seq(Nat) /\ taken \in Nat
  BY DEF IInv, Streams, Typed
<1>2. up \o <<>> = up
  BY <1>1
<1> QED
  BY <1>1, <1>2, SpanFacts

\* Bytes read later neither undo a hello nor the reason for giving up.
LEMMA HelloStays ==
    ASSUME setup' = setup, taken \in Nat, taken' \in Nat, taken <= taken', taken' <= ClientSays, ClientSays \in Nat,
           HoldMax \in Nat, uTaken = setup.upstreamSays => uTaken' = uTaken
    PROVE  /\ HoldGaveUp => HoldGaveUp'
           /\ Hello' = Hello
           /\ \A m, n \in Nat : m <= n /\ HelloAmong(m) => HelloAmong(n)'
<1>1. HoldGaveUp => HoldGaveUp'
  BY DEF HoldGaveUp, ClientSays
<1>2. Hello' = Hello
  BY DEF Hello
<1>3. ASSUME NEW m \in Nat, NEW n \in Nat, m <= n, HelloAmong(m) PROVE HelloAmong(n)'
  <2>1. PICK k \in 0 .. m : ClientHelloIsComplete(Prefix(setup.wire, k))
    BY <1>3 DEF HelloAmong
  <2>2. k \in 0 .. n
    BY <1>3, <2>1
  <2> QED
    BY <2>1, <2>2 DEF HelloAmong
<1> QED
  BY <1>1, <1>2, <1>3

\* A step that reads nothing: what is sent only grows.
LEMMA NoReadKeeps ==
    ASSUME IInv, HelloInv, IInv', UNCHANGED <<setup, taken, uTaken>>, phase' # "off",
           phase' = "hold" => phase = "hold" /\ up' = up,
           phase' \in {"send", "flush", "pause"} => phase \in {"send", "flush", "pause"},
           phase' = "copy" => \/ phase = "copy" /\ Len(up) <= Len(up')
                              \/ phase \in {"send", "flush", "pause"} /\ held' = <<>>
    PROVE  HelloInv'
<1>1. taken \in Nat /\ ClientSays \in Nat /\ HoldMax \in Nat /\ Len(up) \in Nat /\ Len(up') \in Nat /\ ClientSays' = ClientSays
  <2>1. taken \in Nat /\ up \in Seq(Nat) /\ up' \in Seq(Nat) /\ ClientSays \in Nat /\ ClientSays' = ClientSays
    BY SetupFacts DEF IInv, Typed, ClientSays
  <2>2. HoldMax \in Nat
    BY TunnelSizes
  <2>3. \A s \in Seq(Nat) : Len(s) \in Nat
    OBVIOUS
  <2> QED
    BY <2>1, <2>2, <2>3
<1>2. /\ HoldGaveUp => HoldGaveUp'
      /\ Hello' = Hello
      /\ \A m, n \in Nat : m <= n /\ HelloAmong(m) => HelloAmong(n)'
  BY <1>1, HelloStays DEF HelloInv
<1>3. taken' <= ClientSays' /\ (phase' \in {"off", "hold"} => up' = <<>>)
  BY <1>1 DEF HelloInv
<1>4. ASSUME phase' \in {"send", "flush", "pause"}, Hello' PROVE HelloAmong(taken)' \/ HoldGaveUp'
  <2>1. HelloAmong(taken) \/ HoldGaveUp
    BY <1>2, <1>4 DEF HelloInv
  <2>2. taken <= taken
    BY <1>1
  <2>3. HelloAmong(taken) => HelloAmong(taken)'
    BY DEF HelloAmong
  <2> QED
    BY <1>2, <2>1, <2>3
<1>5. ASSUME phase' = "copy", Hello' PROVE HelloAmong(Len(up))' \/ HoldGaveUp'
  <2>1. CASE phase = "copy" /\ Len(up) <= Len(up')
    <3>1. HelloAmong(Len(up)) \/ HoldGaveUp
      BY <1>2, <1>5, <2>1 DEF HelloInv, HelloGoesWhole, Hello
    <3>2. PICK n \in Nat : n = Len(up')
      BY <1>1
    <3>3. HelloAmong(Len(up)) => HelloAmong(n)'
      BY <1>1, <1>2, <2>1, <3>2
    <3>4. HelloAmong(n)' => HelloAmong(Len(up))'
      BY <3>2 DEF HelloAmong
    <3> QED
      BY <1>2, <3>1, <3>3, <3>4
  <2>2. CASE phase \in {"send", "flush", "pause"} /\ held' = <<>>
    <3>1. HelloAmong(taken) \/ HoldGaveUp
      BY <1>2, <1>5, <2>2 DEF HelloInv
    <3>2. Len(up') = taken
      <4>1. (IInv /\ held = <<>> => Len(up) = taken)'
        BY AllSent, PTL
      <4> QED
        BY <2>2, <4>1
    <3>3. HelloAmong(taken) => HelloAmong(Len(up))'
      BY <3>2 DEF HelloAmong
    <3> QED
      BY <1>2, <3>1, <3>3
  <2> QED
    BY <1>5, <2>1, <2>2
<1> QED
  BY <1>3, <1>4, <1>5 DEF HelloInv, HelloGoesWhole, Hello

\* Sending starts with all that was read: a whole hello, or the holding gave up.
LEMMA StartSendHello ==
    ASSUME setup \in Setups, setup' = setup, up' = <<>>, NEW n \in 0 .. ClientSays, taken' = n, StartSend(Span(0, n)),
           Hello => ClientHelloIsComplete(Prefix(setup.wire, n)) \/ HoldGaveUp'
    PROVE  HelloInv'
<1>1. n \in Nat /\ ClientSays \in Nat /\ ClientSays' = ClientSays /\ n <= ClientSays /\ Hello' = Hello
  BY SetupFacts DEF ClientSays, Hello
<1>2. Len(Span(0, n)) = n
  BY <1>1, SpanFacts
<1>3. phase' = "send" \/ (phase' = "copy" /\ n = 0)
  BY <1>1, <1>2 DEF StartSend, StartCopy
<1>4. n \in 0 .. n
  BY <1>1
<1>5. Hello' => HelloAmong(taken)' \/ HoldGaveUp'
  BY <1>1, <1>4 DEF HelloAmong
<1>6. phase' = "copy" => Len(up') = taken'
  BY <1>3
<1>7. Hello' /\ phase' = "copy" => HelloAmong(Len(up))' \/ HoldGaveUp'
  BY <1>5, <1>6 DEF HelloAmong
<1> QED
  BY <1>1, <1>3, <1>5, <1>7 DEF HelloInv, HelloGoesWhole, Hello

\* Bytes that are not unfinished any more are a whole hello.
LEMMA FinishedHello ==
    ASSUME setup \in Setups, NEW n \in 0 .. ClientSays, ~Unfinished(HeldBytes(Span(0, n))), Hello
    PROVE  ClientHelloIsComplete(Prefix(setup.wire, n))
<1>1. setup.wire \in Seq(Nat) /\ n \in 0 .. Len(setup.wire)
  BY SetupsAssumption DEF ClientSays
<1>2. HeldBytes(Span(0, n)) = Prefix(setup.wire, n)
  BY HeldIsPrefix
<1> QED
  BY <1>1, <1>2, PrefixOfHello DEF Hello

LEMMA HoldReadHello == ASSUME IInv, HelloInv, setup' = setup, HoldRead PROVE HelloInv'
<1>0. /\ setup \in Setups /\ taken \in Nat /\ ClientSays \in Nat /\ HoldMax \in Nat /\ taken <= ClientSays
      /\ phase = "hold" /\ up = <<>> /\ ClientSays' = ClientSays
  BY SetupFacts, TunnelSizes DEF IInv, Typed, HelloInv, HoldRead, ClientSays
<1>1. held = Span(0, taken) /\ Len(held) = taken
  BY <1>0, HeldIsTaken, SpanFacts
<1>2. PICK n \in 0 .. HoldMax - Len(held) :
         LET h == held \o Span(taken, n)
             exhausted == n = 0 \/ Len(h) = HoldMax
             decided == exhausted \/ ~Unfinished(HeldBytes(h))
         IN  /\ IF n = 0 THEN Len(held) = HoldMax \/ (taken = ClientSays /\ setup.clientEnds)
                ELSE taken + n <= ClientSays
             /\ taken' = taken + n /\ held' = h
             /\ IF decided THEN StartSend(h) ELSE Arm /\ UNCHANGED <<phase, chunk, age>>
  BY DEF HoldRead
<1>3. n \in Nat
  BY <1>0, <1>1
<1>4. held \o Span(taken, n) = Span(0, taken + n)
  BY <1>0, <1>1, <1>3, SpanJoin
<1>5. PICK m \in 0 .. ClientSays : m = taken + n /\ m \in Nat
  BY <1>0, <1>2, <1>3
<1>6. up' = <<>> /\ uTaken' = uTaken
  BY <1>0 DEF HoldRead
<1>7. Len(Span(0, m)) = m
  BY <1>5, SpanFacts
<1>8. /\ n = 0 => Len(held) = HoldMax \/ (taken = ClientSays /\ setup.clientEnds)
      /\ taken' = m
      /\ IF n = 0 \/ m = HoldMax \/ ~Unfinished(HeldBytes(Span(0, m))) THEN StartSend(Span(0, m)) ELSE UNCHANGED phase
  BY <1>2, <1>4, <1>5, <1>7
<1>9. CASE n = 0 \/ m = HoldMax \/ ~Unfinished(HeldBytes(Span(0, m)))
  <2>1. n = 0 => m = taken
    BY <1>0, <1>5
  <2>2. n = 0 \/ m = HoldMax => HoldGaveUp'
    BY <1>0, <1>1, <1>5, <1>8, <2>1 DEF HoldGaveUp
  <2>3. Hello => ClientHelloIsComplete(Prefix(setup.wire, m)) \/ HoldGaveUp'
    BY <1>0, <1>9, <2>2, FinishedHello
  <2> QED
    BY <1>0, <1>6, <1>8, <1>9, <2>3, StartSendHello
<1>10. CASE ~(n = 0 \/ m = HoldMax \/ ~Unfinished(HeldBytes(Span(0, m))))
  <2>1. phase' = "hold" /\ taken' = m /\ m <= ClientSays
    BY <1>0, <1>5, <1>8, <1>10
  <2> QED
    BY <1>0, <1>6, <2>1 DEF HelloInv, HelloGoesWhole
<1> QED
  BY <1>9, <1>10

LEMMA HoldUpstreamHello == ASSUME IInv, HelloInv, setup' = setup, HoldUpstream \/ HoldRelay PROVE HelloInv'
<1>0. /\ setup \in Setups /\ taken \in Nat /\ ClientSays \in Nat /\ taken <= ClientSays
      /\ phase = "hold" /\ up = <<>> /\ ClientSays' = ClientSays /\ up' = <<>> /\ taken' = taken
  BY SetupFacts DEF IInv, Typed, HelloInv, HoldUpstream, HoldRelay, ClientSays
<1>1. phase' = phase \/ (uTaken' = setup.upstreamSays /\ setup.upstreamEnds /\ StartSend(held))
  BY DEF HoldUpstream, HoldRelay
<1>2. CASE phase' = phase
  BY <1>0, <1>2 DEF HelloInv, HelloGoesWhole
<1>3. CASE uTaken' = setup.upstreamSays /\ setup.upstreamEnds /\ StartSend(held)
  <2>1. HoldGaveUp'
    BY <1>3 DEF HoldGaveUp
  <2>2. held = Span(0, taken) /\ taken \in 0 .. ClientSays
    BY <1>0, HeldIsTaken
  <2>3. PICK n \in 0 .. ClientSays : n = taken
    BY <2>2
  <2> QED
    BY <1>0, <1>3, <2>1, <2>2, <2>3, StartSendHello
<1> QED
  BY <1>1, <1>2, <1>3

LEMMA SendHello ==
    ASSUME IInv, IInv', HelloInv, setup' = setup, SendAccept \/ Drain \/ Flushed \/ PauseOver
    PROVE  HelloInv'
<1>1. /\ taken' = taken /\ uTaken' = uTaken /\ phase' # "off" /\ phase' # "hold"
      /\ phase' \in {"send", "flush", "pause"} => phase \in {"send", "flush", "pause"}
  BY DEF SendAccept, Drain, Flushed, PauseOver, NextFragment, StartCopy, data
<1>2. phase' = "copy" => \/ phase = "copy" /\ up' = up
                         \/ phase \in {"send", "flush", "pause"} /\ held' = <<>>
  BY DEF SendAccept, Drain, Flushed, PauseOver, NextFragment, StartCopy, data
<1>3. Len(up) <= Len(up)
  BY DEF IInv, Typed
<1> QED
  BY <1>1, <1>2, <1>3, NoReadKeeps

\* The copy loop reads on; what is sent only grows.
LEMMA CopyHello ==
    ASSUME IInv, IInv', HelloInv, setup' = setup, CopyRead \/ CopyWrite \/ CopyEof
    PROVE  HelloInv'
<1>0. /\ taken \in Nat /\ ClientSays \in Nat /\ HoldMax \in Nat /\ taken <= ClientSays /\ ClientSays' = ClientSays
      /\ phase = "copy" /\ phase' = "copy" /\ uTaken \in Nat /\ uTaken' \in Nat /\ taken' \in Nat
      /\ up \in Seq(Nat) /\ held \in Seq(Nat) /\ setup.upstreamSays \in Nat
  BY SetupFacts, TunnelSizes DEF IInv, Typed, HelloInv, CopyRead, CopyWrite, CopyEof, ClientSays
<1>1. /\ taken <= taken' /\ taken' <= ClientSays
      /\ uTaken = setup.upstreamSays => uTaken' = uTaken
  <2>1. \/ taken' = taken \/ \E n \in 1 .. CopyBuf : taken + n <= ClientSays /\ taken' = taken + n
    BY DEF CopyRead, CopyWrite, CopyEof, data
  <2>2. \/ uTaken' = uTaken \/ \E n \in 1 .. CopyBuf : uTaken + n <= setup.upstreamSays
    BY DEF CopyRead, CopyWrite, CopyEof, data
  <2>3. CopyBuf \in Nat
    BY TunnelSizes
  <2> QED
    BY <1>0, <2>1, <2>2, <2>3
<1>2. Len(up) <= Len(up')
  <2>1. up' = up \/ \E n \in 1 .. Len(held) : up' = up \o SubSeq(held, 1, n)
    BY DEF CopyRead, CopyWrite, CopyEof, data, Accept
  <2>2. CASE up' = up
    BY <1>0, <2>2
  <2>3. CASE \E n \in 1 .. Len(held) : up' = up \o SubSeq(held, 1, n)
    <3>1. PICK n \in 1 .. Len(held) : up' = up \o SubSeq(held, 1, n)
      BY <2>3
    <3>2. n \in 0 .. Len(held) /\ n \in Nat
      BY <1>0
    <3>3. Len(up \o SubSeq(held, 1, n)) = Len(up) + n
      BY <1>0, <3>2, StreamMoves
    <3> QED
      BY <1>0, <3>1, <3>2, <3>3
  <2> QED
    BY <2>1, <2>2, <2>3
<1>3. /\ HoldGaveUp => HoldGaveUp'
      /\ Hello' = Hello
      /\ \A m, n \in Nat : m <= n /\ HelloAmong(m) => HelloAmong(n)'
  BY <1>0, <1>1, HelloStays
<1>4. Hello' => HelloAmong(Len(up))' \/ HoldGaveUp'
  <2>1. Hello => HelloAmong(Len(up)) \/ HoldGaveUp
    BY <1>0 DEF HelloInv, HelloGoesWhole, Hello
  <2>2. PICK n \in Nat : n = Len(up')
    BY DEF IInv, Typed
  <2>3. HelloAmong(Len(up)) => HelloAmong(n)'
    BY <1>0, <1>2, <1>3, <2>2
  <2>4. HelloAmong(n)' => HelloAmong(Len(up))'
    BY <2>2 DEF HelloAmong
  <2> QED
    BY <1>3, <2>1, <2>3, <2>4
<1> QED
  BY <1>0, <1>1, <1>4 DEF HelloInv, HelloGoesWhole, Hello

LEMMA TimersHello ==
    ASSUME IInv, IInv', HelloInv, setup' = setup, TransferOver \/ IdleFires \/ LifetimeOver \/ Tick \/ Breaks
    PROVE  HelloInv'
<1>1. UNCHANGED <<taken, held, up, uTaken>> /\ phase' \in {phase, "ended"} /\ phase # "off"
  BY DEF TransferOver, IdleFires, LifetimeOver, LifeDue, Tick, Breaks, End, IdleDue, Timed, data
<1>2. Len(up) <= Len(up')
  BY <1>1 DEF IInv, Typed
<1> QED
  BY <1>1, <1>2, NoReadKeeps

LEMMA InTunnelHello == ASSUME IInv, IInv', HelloInv, InTunnel PROVE HelloInv'
  BY HoldReadHello, HoldUpstreamHello, SendHello, CopyHello, TimersHello DEF InTunnel, TunnelNext

\* The tunnel is entered with what the handler has read.
LEMMA ForwardHello ==
    ASSUME IInv, HelloInv, phase = "off", Forward(held), UNCHANGED <<setup, up, taken>>
    PROVE  HelloInv'
<1>0. /\ setup \in Setups /\ taken \in Nat /\ ClientSays \in Nat /\ taken <= ClientSays /\ up = <<>> /\ up' = <<>>
      /\ ClientSays' = ClientSays /\ taken \in 0 .. ClientSays
  BY SetupFacts DEF IInv, Typed, HelloInv, ClientSays
<1>1. PICK n \in 0 .. ClientSays : n = taken /\ held = Span(0, n)
  BY <1>0, HeldIsTaken
<1>2. CASE phase' = "hold"
  BY <1>0, <1>2 DEF HelloInv, HelloGoesWhole
<1>3. CASE ~(setup.frag /\ Unfinished(HeldBytes(held))) /\ StartSend(held)
  <2>1. Hello => ClientHelloIsComplete(Prefix(setup.wire, n))
    BY <1>0, <1>1, <1>3, FinishedHello DEF Hello
  <2> QED
    BY <1>0, <1>1, <1>3, <2>1, StartSendHello
<1> QED
  BY <1>2, <1>3 DEF Forward

\* Before the tunnel, the handler reads within what the client says.
LEMMA OffHello ==
    ASSUME HelloInv, phase = "off", UNCHANGED <<setup, up, phase>>, taken' <= ClientSays
    PROVE  HelloInv'
  BY DEF HelloInv, HelloGoesWhole, ClientSays

LEMMA StillHello ==
    ASSUME HelloInv, UNCHANGED <<setup, tunnelVars>>
    PROVE  HelloInv'
<1>1. UNCHANGED <<setup, taken, up, uTaken, phase>>
  BY DEF tunnelVars, data
<1> QED
  BY <1>1 DEF HelloInv, HelloGoesWhole, Hello, HelloAmong, HoldGaveUp, ClientSays

LEMMA HandlerHello ==
    ASSUME IInv, HelloInv, Admit \/ Dial \/ ClientSpeaks \/ Greets \/ ReadRecoveryPrefix \/ Redial
    PROVE  HelloInv'
<1>1. phase = "off" /\ (pc = "listening" => held = <<>>)
  BY DEF IInv, Told, Waiting, Admit, Dial, ClientSpeaks, Greets, ReadRecoveryPrefix, Redial
<1>2. \/ UNCHANGED <<setup, tunnelVars>>
      \/ UNCHANGED <<setup, up, phase>> /\ (taken' = setup.pipeline \/ taken' <= ClientSays)
      \/ Forward(held) /\ UNCHANGED <<setup, up, taken>>
  <2>1. CASE Admit
    BY <2>1 DEF Admit, Finish, Go, TakePipeline
  <2>2. CASE Dial
    BY <2>2 DEF Dial, Finish, Go, Handover
  <2>3. CASE ClientSpeaks
    BY <2>3 DEF ClientSpeaks, Finish, Go
  <2>4. CASE Greets
    BY <1>1, <2>4 DEF Greets, Go, Handover
  <2>5. CASE ReadRecoveryPrefix
    BY <2>5 DEF ReadRecoveryPrefix, Finish, Go
  <2>6. CASE Redial
    BY <2>6 DEF Redial, Finish, Go, Handover
  <2> QED
    BY <2>1, <2>2, <2>3, <2>4, <2>5, <2>6
<1>3. setup.pipeline <= ClientSays
  BY SetupsAssumption DEF IInv, Typed, ClientSays
<1> QED
  BY <1>1, <1>2, <1>3, StillHello, OffHello, ForwardHello

LEMMA NextHello == IInv /\ IInv' /\ HelloInv /\ [Next]_vars => HelloInv'
<1> SUFFICES ASSUME IInv, IInv', HelloInv, [Next]_vars PROVE HelloInv'
  OBVIOUS
<1>1. CASE Recover \/ RecoveryTimesOut \/ ClientBreaks \/ DeadlinePasses \/ GraceElapses \/ DialledByIp \/ TunnelEnded
           \/ OtherTakes \/ OtherReleases \/ UNCHANGED vars
  <2>1. UNCHANGED <<setup, tunnelVars>>
    BY <1>1 DEF Recover, RecoveryTimesOut, ClientBreaks, DeadlinePasses, GraceElapses, DialledByIp, TunnelEnded,
                OtherTakes, OtherReleases, vars, Finish, Go
  <2> QED
    BY <2>1, StillHello
<1> QED
  BY <1>1, HandlerHello, InTunnelHello DEF Next

LEMMA InitHello == Init => HelloInv
<1> SUFFICES ASSUME Init PROVE HelloInv
  OBVIOUS
<1>1. taken = 0 /\ up = <<>> /\ phase = "off" /\ ClientSays \in Nat
  BY SetupFacts DEF Init, TunnelInit
<1> QED
  BY <1>1 DEF HelloInv, HelloGoesWhole

\* With fragmentation on, the copy loop does not start before the upstream has
\* accepted the whole ClientHello from the sends before it, however it arrives
\* and whatever the sizes of reads, fragments and accumulator; only a full
\* accumulator or a closed side cuts that short.
THEOREM HelloGoesWholeHolds == Spec => []HelloGoesWhole
<1>1. HelloInv => HelloGoesWhole
  BY DEF HelloInv
<1> QED
  BY <1>1, Inductive, InitHello, NextHello, PTL DEF Spec

-----------------------------------------------------------------------------
(***************************************************************************)
(* The library server before the session: proofs about Inbound, for any    *)
(* options, any client script, any size of a read and any header limit.    *)
(*                                                                         *)
(* The invariant says what accept knows at each place: who the client is   *)
(* (nobody until its credentials are complete, then the one verified once  *)
(* or an anonymous one that was never asked), that no end of the head has  *)
(* been passed unseen, and how much of the wire is before the payload.     *)
(***************************************************************************)

\* What the client sends, and how far it has been read.
W == script.wire
WireChars == {"f", "r", "n", "x"}
ScriptOK ==
    /\ opt \in Option /\ script.proto \in {"socks", "http", "other"}
    /\ W \in Seq(WireChars) /\ DOMAIN script.headers \subseteq Nat
    /\ pos \in 0 .. Len(W) /\ headEnd \in Nat

\* Nothing is known of the client before its credentials are complete.
Early == {"new", "phase1", "first", "socks", "http", "methods", "auth", "head", "parse", "authorise"}
Verified == /\ opt.password /\ asked = <<Text(creds)>> /\ creds \in Supplied /\ Readable(creds)
            /\ creds.pw = "right" /\ creds.ip
Anonymous == creds = NoCredentials /\ opt.anonymous /\ asked = <<>>
\* Who the client is, place by place.
WhoIsIt ==
    /\ stage \notin {"new", "failed"} => opt.rule # "denies"
    /\ stage \in Early => creds = NoCredentials /\ asked = <<>>
    /\ stage \in Early \ {"auth"} => said = <<>>
    /\ stage \in {"socks", "methods", "auth", "request"} => script.proto = "socks"
    /\ stage \in {"http", "head", "parse", "authorise"} => script.proto = "http"
    /\ stage \in {"verify", "verifying", "accepted"} => script.proto # "other"
    /\ stage = "auth" => opt.password
    /\ stage \in {"verify", "verifying"} => opt.password /\ creds \in Supplied /\ Readable(creds)
    /\ stage = "verify" => asked = <<>>
    /\ stage = "verifying" => asked = <<Text(creds)>> /\ creds.ip
    /\ stage = "request" => Verified \/ (Anonymous /\ said = <<"m0">>)

\* Up to here no end of the head has been read; from here on its end is known.
HeadKnown == stage \in {"parse", "authorise"} \/ (stage \in {"verify", "verifying", "accepted"} /\ script.proto = "http")
WhereIsTheHead ==
    /\ stage \in {"http", "head"} => HeadEnds(W, 0, pos) = {}
    /\ stage \in Early \ {"parse", "authorise"} => headEnd = 0
    /\ HeadKnown => headEnd # 0 /\ headEnd <= pos

\* How far a SOCKS5 client has been read.
Agreed == opt.password /\ 2 \in script.methods
WhereIsThePayload ==
    /\ stage \in {"new", "phase1", "first"} => pos = 0
    /\ stage \in {"socks", "http", "methods"} => pos = 1
    /\ stage = "auth" => Agreed /\ pos = 2
    /\ stage \in {"verify", "verifying"} /\ script.proto = "socks" => Agreed /\ pos = 3
    /\ stage = "request" => pos = SocksFrames(opt, script.methods) - 1
    /\ stage # "accepted" => got = <<>>
    /\ stage = "accepted" => /\ got \in Seq(Nat)
                             /\ req \in [username : {NoCredentials, creds}, credentials : {NoCredentials, creds}, pipeline : Seq(Nat)]
                             /\ PayloadStart \in 0 .. pos

InboundInv == /\ ScriptOK /\ WhoIsIt /\ WhereIsTheHead /\ WhereIsThePayload
              /\ AcceptedIsAuthorised /\ HeadIsChunkIndependent /\ PayloadIntact

-----------------------------------------------------------------------------
(* Sequences and least elements *)

\* A non-empty set of numbers has a least element, and Least finds it.
LEMMA LeastIs ==
    ASSUME NEW X, X \subseteq Nat, X # {}
    PROVE  Least(X) \in X /\ \A k \in X : Least(X) <= k
<1> DEFINE R == OpToRel(<, Nat)
<1>1. IsWellFoundedOn(R, Nat)
  BY NatLessThanWellFounded
<1>2. \A x, y \in Nat : x < y => <<x, y>> \in R
  BY DEF OpToRel
<1> HIDE DEF R
<1>3. \E x \in X : \A y \in X : ~(<<y, x>> \in R)
  BY <1>1, WFMin
<1>4. PICK x \in X : \A y \in X : ~(<<y, x>> \in R)
  BY <1>3
<1>5. \A k \in X : ~(k < x)
  BY <1>2, <1>4, Zenon
<1>6. \A k \in X : x <= k
  BY <1>5
<1> QED
  BY <1>6 DEF Least

-----------------------------------------------------------------------------
(* The end of the head *)

\* Resuming three characters back misses nothing.
LEMMA ScanFinds ==
    ASSUME pos \in Nat, NEW n \in Nat, HeadEnds(W, 0, pos) = {}
    PROVE  HeadEnds(W, ScanFrom, pos + n) = HeadEnds(W, 0, pos + n)
<1>1. \A k \in 0 + 4 .. pos : SubSeq(W, k - 3, k) # Blank
  BY DEF HeadEnds
<1>2. \A k \in ScanFrom + 4 .. pos + n : k \in 0 + 4 .. pos + n
  BY DEF ScanFrom
<1>3. \A k \in 0 + 4 .. pos + n : k \in 0 + 4 .. pos \/ k \in ScanFrom + 4 .. pos + n
  BY DEF ScanFrom
<1> QED
  BY <1>1, <1>2, <1>3 DEF HeadEnds

\* The first end read is the first end there is.
LEMMA PrefixEnds ==
    ASSUME W \in Seq(WireChars), NEW p \in 0 .. Len(W)
    PROVE  /\ TrueEnds \subseteq Nat
           /\ \A k \in TrueEnds : k \in HeadEnds(W, 0, p) \/ k > p
           /\ HeadEnds(W, 0, p) # {} =>
                 /\ Least(HeadEnds(W, 0, p)) = Least(TrueEnds)
                 /\ Least(TrueEnds) \in 4 .. p
                 /\ \A k \in TrueEnds : Least(TrueEnds) <= k
<1> DEFINE E == HeadEnds(W, 0, p)
           T == TrueEnds
<1>1. E = {k \in 4 .. p : SubSeq(W, k - 3, k) = Blank} /\ T = {k \in 4 .. Len(W) : SubSeq(W, k - 3, k) = Blank}
  BY DEF HeadEnds, TrueEnds, W
<1>2. Len(W) \in Nat /\ p \in Nat /\ p <= Len(W)
  OBVIOUS
<1>3. E \subseteq 4 .. p /\ T \subseteq 4 .. Len(W) /\ E \subseteq T
  <2>1. \A k \in 4 .. p : k \in 4 .. Len(W)
    BY <1>2
  <2> HIDE DEF E, T
  <2> QED
    BY <1>1, <2>1, Zenon
<1>4. \A k \in T : k \in E \/ k > p
  <2>1. \A k \in 4 .. Len(W) : k \in 4 .. p \/ k > p
    BY <1>2
  <2> HIDE DEF E, T
  <2> QED
    BY <1>1, <2>1, Zenon
<1>5. E \subseteq Nat /\ T \subseteq Nat
  BY <1>2, <1>3
<1> HIDE DEF E, T
<1>6. ASSUME E # {} PROVE Least(E) = Least(T) /\ Least(T) \in 4 .. p /\ \A k \in T : Least(T) <= k
  <2>1. Least(E) \in E /\ \A k \in E : Least(E) <= k
    BY <1>5, <1>6, LeastIs
  <2>2. Least(T) \in T /\ \A k \in T : Least(T) <= k
    BY <1>3, <1>5, <1>6, LeastIs
  <2> DEFINE e == Least(E)
             t == Least(T)
  <2>3. e \in E /\ e \in 4 .. p /\ e \in T /\ t \in T /\ t \in Nat
    BY <1>3, <1>5, <2>1, <2>2
  <2>4. t <= e
    BY <2>2, <2>3
  <2> HIDE DEF e, t
  <2>5. t \in E
    BY <1>2, <1>4, <2>3, <2>4
  <2>6. e <= t
    BY <2>1, <2>5 DEF e
  <2>7. e = t
    BY <2>3, <2>4, <2>6
  <2> QED
    BY <2>2, <2>3, <2>7 DEF e, t
<1> QED
  BY <1>4, <1>5, <1>6 DEF E, T

-----------------------------------------------------------------------------
(* Steps of accept *)

\* What the client sent, and on which terms, never changes.
Fixed == opt' = opt /\ script' = script

\* So what the properties are measured against never changes either.
LEMMA FixedFrame ==
    ASSUME Fixed
    PROVE  /\ W' = W /\ (Supplied)' = Supplied /\ (AuthLines)' = AuthLines
           /\ (TrueEnds)' = TrueEnds /\ (PayloadStart)' = PayloadStart
           /\ Agreed' = Agreed
<1>1. W' = W /\ (AuthLines)' = AuthLines /\ Agreed' = Agreed
  BY DEF Fixed, W, AuthLines, Agreed
<1>2. (Supplied)' = Supplied
  BY <1>1 DEF Fixed, Supplied
<1>3. (TrueEnds)' = TrueEnds
  BY <1>1 DEF Fixed, TrueEnds
<1>4. (PayloadStart)' = PayloadStart
  BY <1>3 DEF Fixed, PayloadStart
<1> QED
  BY <1>1, <1>2, <1>3, <1>4

\* A step before the request is accepted, and one that finds no end of the head,
\* can only disturb the bookkeeping.
LEMMA Underway ==
    ASSUME InboundInv, Fixed, stage' # "accepted", pos' \in 0 .. Len(W), headEnd' = headEnd,
           err' = err \/ err' # "HeaderTooLarge", WhoIsIt', WhereIsTheHead', WhereIsThePayload'
    PROVE  InboundInv'
<1>1. ScriptOK'
  BY FixedFrame DEF InboundInv, ScriptOK, Fixed, W
<1>2. (HeadIsChunkIndependent)'
  BY FixedFrame DEF InboundInv, HeadIsChunkIndependent
<1>3. (AcceptedIsAuthorised)' /\ (PayloadIntact)'
  BY DEF AcceptedIsAuthorised, PayloadIntact
<1> QED
  BY <1>1, <1>2, <1>3 DEF InboundInv

\* accept may give up anywhere.
LEMMA FailKeeps ==
    ASSUME InboundInv, stage # "accepted", NEW e, e # "HeaderTooLarge", Fail(e), pos' \in 0 .. Len(W)
    PROVE  InboundInv'
<1>1. /\ Fixed /\ stage' = "failed" /\ err' = e /\ headEnd' = headEnd /\ got' = got
  BY DEF Fail, Fixed
<1>2. WhoIsIt' /\ WhereIsTheHead'
  BY <1>1 DEF WhoIsIt, WhereIsTheHead, HeadKnown, Early
<1>3. WhereIsThePayload'
  BY <1>1 DEF InboundInv, WhereIsThePayload
<1> QED
  BY <1>1, <1>2, <1>3, Underway

LEMMA CutKeeps ==
    ASSUME InboundInv, stage # "accepted", NEW e, e # "HeaderTooLarge", Cut(e)
    PROVE  InboundInv'
  BY FailKeeps DEF Cut, InboundInv, ScriptOK

LEMMA GlobalAllowedKeeps == ASSUME InboundInv, GlobalAllowed PROVE InboundInv'
<1>1. stage = "new" /\ pos \in 0 .. Len(W)
  BY DEF GlobalAllowed, InboundInv, ScriptOK
<1>2. CASE opt.rule = "denies"
  BY <1>1, <1>2, FailKeeps DEF GlobalAllowed
<1>3. CASE opt.rule # "denies"
  <2>1. /\ Fixed /\ stage' = "phase1" /\ pos' = pos /\ said' = said \o <<>>
        /\ err' = err /\ headEnd' = headEnd /\ creds' = creds /\ asked' = asked /\ got' = got
    BY <1>3 DEF GlobalAllowed, Goto, Fixed
  <2>2. said = <<>> /\ creds = NoCredentials /\ asked = <<>>
    BY <1>1 DEF InboundInv, WhoIsIt, Early
  <2>3. said' = <<>>
    BY <2>1, <2>2
  <2>4. WhoIsIt'
    BY <1>3, <2>1, <2>2, <2>3 DEF WhoIsIt, Early, Fixed, NoCredentials
  <2>5. WhereIsTheHead'
    BY <1>1, <2>1 DEF InboundInv, WhereIsTheHead, HeadKnown, Early
  <2>6. WhereIsThePayload'
    BY <1>1, <2>1 DEF InboundInv, WhereIsThePayload
  <2> QED
    BY <1>1, <2>1, <2>4, <2>5, <2>6, Underway
<1> QED
  BY <1>2, <1>3

LEMMA EnterPhaseKeeps == ASSUME InboundInv, EnterPhase PROVE InboundInv'
<1>1. stage \in {"phase1", "socks", "http"} /\ pos \in 0 .. Len(W)
  BY DEF EnterPhase, InboundInv, ScriptOK
<1>2. CASE late
  BY <1>1, <1>2, FailKeeps DEF EnterPhase
<1>3. CASE ~late
  <2>1. /\ Fixed /\ pos' = pos /\ said' = said \o <<>>
        /\ err' = err /\ headEnd' = headEnd /\ creds' = creds /\ asked' = asked /\ got' = got
        /\ \/ stage = "phase1" /\ stage' = "first"
           \/ stage = "socks" /\ stage' = "methods"
           \/ stage = "http" /\ stage' = "head"
    BY <1>1, <1>3 DEF EnterPhase, Goto, Fixed
  <2>2. said = <<>> /\ creds = NoCredentials /\ asked = <<>>
    BY <1>1 DEF InboundInv, WhoIsIt, Early
  <2>3. said' = <<>>
    BY <2>1, <2>2
  <2>4. WhoIsIt'
    BY <1>1, <2>1, <2>2, <2>3 DEF InboundInv, WhoIsIt, Early, Fixed, NoCredentials
  <2>5. WhereIsTheHead'
    BY <1>1, <2>1, FixedFrame DEF InboundInv, WhereIsTheHead, HeadKnown, Early, HeadEnds, Blank
  <2>6. WhereIsThePayload'
    BY <1>1, <2>1 DEF InboundInv, WhereIsThePayload
  <2> QED
    BY <1>1, <2>1, <2>4, <2>5, <2>6, Underway
<1> QED
  BY <1>2, <1>3

LEMMA PhaseTimesOutKeeps == ASSUME InboundInv, PhaseTimesOut PROVE InboundInv'
<1>1. stage # "accepted" /\ pos' = pos /\ Fail("Deadline") /\ pos \in 0 .. Len(W)
  BY DEF PhaseTimesOut, Polling, Done, InboundInv, ScriptOK
<1> QED
  BY <1>1, FailKeeps

\* The invariant does not look at the deadline.
LEMMA SameKeeps ==
    ASSUME InboundInv, UNCHANGED <<opt, script, stage, err, pos, headEnd, said, creds, asked, req, got>>
    PROVE  InboundInv'
<1>1. /\ Fixed /\ stage' = stage /\ err' = err /\ pos' = pos /\ headEnd' = headEnd /\ said' = said
      /\ creds' = creds /\ asked' = asked /\ req' = req /\ got' = got
  BY DEF Fixed
<1>2. ScriptOK' /\ (HeadIsChunkIndependent)' /\ (PayloadIntact)'
  BY <1>1, FixedFrame DEF InboundInv, ScriptOK, Fixed, W, HeadIsChunkIndependent, PayloadIntact
<1>3. WhoIsIt' /\ (AcceptedIsAuthorised)'
  BY <1>1, FixedFrame DEF InboundInv, WhoIsIt, Verified, Anonymous, Fixed, AcceptedIsAuthorised, Readable, Text, NoCredentials
<1>4. WhereIsTheHead' /\ WhereIsThePayload'
  BY <1>1, FixedFrame DEF InboundInv, WhereIsTheHead, HeadKnown, WhereIsThePayload, Fixed, HeadEnds, Blank, SocksFrames, NoCredentials
<1> QED
  BY <1>2, <1>3, <1>4 DEF InboundInv

LEMMA DetectKeeps == ASSUME InboundInv, Detect PROVE InboundInv'
<1>1. stage = "first" /\ pos = 0 /\ 0 \in 0 .. Len(W) /\ Len(W) \in Nat
  BY DEF Detect, InboundInv, ScriptOK, WhereIsThePayload
<1>2. CASE Cut("Closed")
  BY <1>1, <1>2, CutKeeps
<1>3. CASE ~AtEnd(pos) /\ script.proto = "other" /\ Fail("Protocol") /\ pos' = 1
  <2>1. 1 \in 0 .. Len(W)
    BY <1>1, <1>3 DEF AtEnd, W
  <2> QED
    BY <1>1, <1>3, <2>1, FailKeeps
<1>4. CASE ~AtEnd(pos) /\ script.proto # "other" /\ Goto(script.proto, 1, <<>>)
  <2>1. /\ Fixed /\ stage' = script.proto /\ pos' = 1 /\ said' = said \o <<>>
        /\ err' = err /\ headEnd' = headEnd /\ creds' = creds /\ asked' = asked /\ got' = got
    BY <1>4 DEF Goto, Fixed
  <2>2. 1 \in 0 .. Len(W) /\ script.proto \in {"socks", "http"}
    BY <1>1, <1>4 DEF AtEnd, W, InboundInv, ScriptOK
  <2>3. said = <<>> /\ creds = NoCredentials /\ asked = <<>> /\ headEnd = 0 /\ opt.rule # "denies" /\ got = <<>>
    BY <1>1 DEF InboundInv, WhoIsIt, WhereIsTheHead, WhereIsThePayload, Early
  <2>4. said' = <<>>
    BY <2>1, <2>3
  <2>5. WhoIsIt'
    BY <2>1, <2>2, <2>3, <2>4 DEF WhoIsIt, Early, Fixed, NoCredentials
  <2>6. (HeadEnds(W, 0, pos))' = {}
    BY <2>1 DEF HeadEnds
  <2>7. WhereIsTheHead'
    BY <2>1, <2>2, <2>3, <2>6 DEF WhereIsTheHead, HeadKnown, Early
  <2>8. WhereIsThePayload'
    BY <2>1, <2>2, <2>3 DEF WhereIsThePayload
  <2> QED
    BY <2>1, <2>2, <2>5, <2>7, <2>8, Underway
<1> QED
  BY <1>2, <1>3, <1>4 DEF Detect

LEMMA MethodsKeeps == ASSUME InboundInv, Methods PROVE InboundInv'
<1>1. /\ stage = "methods" /\ pos = 1 /\ 1 \in 0 .. Len(W) /\ Len(W) \in Nat /\ script.proto = "socks" /\ got = <<>>
      /\ said = <<>> /\ creds = NoCredentials /\ asked = <<>> /\ headEnd = 0 /\ opt.rule # "denies"
      /\ opt.password \in BOOLEAN /\ opt.anonymous \in BOOLEAN
  BY DEF Methods, InboundInv, ScriptOK, WhoIsIt, WhereIsTheHead, WhereIsThePayload, Early, Option
<1>2. CASE Cut("Io")
  BY <1>1, <1>2, CutKeeps
<1>3. CASE ~AtEnd(pos) /\ ~Cut("Io")
  <2>0. Len(W) # 1
    BY <1>1, <1>3 DEF AtEnd, W
  <2>1. 2 \in 0 .. Len(W) /\ pos + 1 = 2
    <3>1. \A l \in Nat : 1 \in 0 .. l /\ l # 1 => 2 \in 0 .. l
      OBVIOUS
    <3>2. 2 \in 0 .. Len(W)
      BY <1>1, <2>0, <3>1, Zenon
    <3>3. pos = 1
      BY <1>1
    <3> QED
      BY <3>2, <3>3
  <2>2. \/ Agreed /\ Goto("auth", pos + 1, <<"m2">>)
        \/ ~Agreed /\ opt.anonymous /\ Goto("request", pos + 1, <<"m0">>)
        \/ Fail("Authentication") /\ pos' = pos + 1
    BY <1>3 DEF Methods, Agreed, ReplyAndFail
  <2>3. CASE Fail("Authentication") /\ pos' = pos + 1
    BY <1>1, <2>1, <2>3, FailKeeps
  <2>4. CASE Agreed /\ Goto("auth", pos + 1, <<"m2">>)
    <3>1. /\ Fixed /\ stage' = "auth" /\ pos' = 2
          /\ err' = err /\ headEnd' = headEnd /\ creds' = creds /\ asked' = asked /\ got' = got
      BY <2>1, <2>4 DEF Goto, Fixed
    <3>2. opt.password /\ Agreed'
      BY <2>4, <3>1, FixedFrame DEF Agreed
    <3>3. WhoIsIt'
      BY <1>1, <3>1, <3>2 DEF WhoIsIt, Early, Fixed, NoCredentials
    <3>4. WhereIsTheHead' /\ WhereIsThePayload'
      BY <1>1, <3>1, <3>2 DEF WhereIsTheHead, HeadKnown, Early, WhereIsThePayload
    <3> QED
      BY <2>1, <3>1, <3>3, <3>4, Underway
  <2>5. CASE ~Agreed /\ opt.anonymous /\ Goto("request", pos + 1, <<"m0">>)
    <3>1. /\ Fixed /\ stage' = "request" /\ pos' = 2 /\ said' = said \o <<"m0">>
          /\ err' = err /\ headEnd' = headEnd /\ creds' = creds /\ asked' = asked /\ got' = got
      BY <2>1, <2>5 DEF Goto, Fixed
    <3>2. said' = <<"m0">>
      BY <1>1, <3>1
    <3>3. Anonymous'
      BY <1>1, <2>5, <3>1 DEF Anonymous, Fixed, NoCredentials
    <3>4. WhoIsIt'
      BY <1>1, <3>1, <3>2, <3>3 DEF WhoIsIt, Early, Fixed
    <3>5. SocksFrames(opt, script.methods)' = 3
      BY <2>5, <3>1 DEF SocksFrames, Agreed, Fixed
    <3>6. WhereIsTheHead' /\ WhereIsThePayload'
      BY <1>1, <3>1, <3>5 DEF WhereIsTheHead, HeadKnown, Early, WhereIsThePayload
    <3> QED
      BY <2>1, <3>1, <3>4, <3>6, Underway
  <2> QED
    BY <2>2, <2>3, <2>4, <2>5
<1> QED
  BY <1>2, <1>3 DEF Methods

\* A step to the closure, with credentials the client supplied.
LEMMA ToVerify ==
    ASSUME InboundInv, Fixed, stage \in {"auth", "authorise"}, stage' = "verify", opt.password, creds' \in Supplied,
           (Readable(creds))', err' = err, headEnd' = headEnd, asked' = asked, got' = got, pos' \in 0 .. Len(W),
           stage = "auth" => Agreed /\ pos' = 3, stage = "authorise" => pos' = pos
    PROVE  InboundInv'
<1>1. asked = <<>> /\ opt.rule # "denies" /\ (stage = "auth" => script.proto = "socks") /\ (stage = "authorise" => script.proto = "http")
  BY DEF InboundInv, WhoIsIt, Early
<1>2. WhoIsIt'
  BY <1>1, FixedFrame DEF WhoIsIt, Early, Fixed
<1>3. WhereIsTheHead'
  BY <1>1 DEF InboundInv, WhereIsTheHead, HeadKnown, Early, Fixed
<1>4. WhereIsThePayload'
  BY <1>1, FixedFrame DEF InboundInv, WhereIsThePayload, Fixed
<1> QED
  BY <1>2, <1>3, <1>4, Underway

LEMMA SubnegotiationKeeps == ASSUME InboundInv, Subnegotiation PROVE InboundInv'
<1>1. /\ stage = "auth" /\ pos = 2 /\ 2 \in 0 .. Len(W) /\ Len(W) \in Nat /\ script.proto = "socks"
      /\ Agreed /\ opt.password
  BY DEF Subnegotiation, InboundInv, ScriptOK, WhoIsIt, WhereIsThePayload
<1>2. CASE Cut("Io")
  BY <1>1, <1>2, CutKeeps
<1>3. CASE ~AtEnd(pos) /\ ~Cut("Io")
  <2>0. Len(W) # 2 /\ pos' = pos + 1
    BY <1>1, <1>3 DEF AtEnd, W, Subnegotiation
  <2>1. 3 \in 0 .. Len(W) /\ pos' = 3
    <3>1. \A l \in Nat : 2 \in 0 .. l /\ l # 2 => 3 \in 0 .. l
      OBVIOUS
    <3>2. 3 \in 0 .. Len(W)
      BY <1>1, <2>0, <3>1, Zenon
    <3>3. pos = 2 /\ pos' = pos + 1
      BY <1>1, <2>0
    <3> QED
      BY <3>2, <3>3
  <2>2. \/ Fail("Authentication")
        \/ /\ stage' = "verify" /\ creds' = script.creds /\ (script.creds.utf8 \/ opt.raw)
           /\ UNCHANGED <<opt, script, late, err, headEnd, said, asked, req, got>>
    BY <1>3 DEF Subnegotiation, AuthFail, ReplyAndFail
  <2>3. CASE Fail("Authentication")
    BY <1>1, <2>1, <2>3, FailKeeps
  <2>4. CASE /\ stage' = "verify" /\ creds' = script.creds /\ (script.creds.utf8 \/ opt.raw)
             /\ UNCHANGED <<opt, script, late, err, headEnd, said, asked, req, got>>
    <3>1. Fixed /\ creds' \in Supplied
      BY <1>1, <2>4 DEF Fixed, Supplied
    <3>2. (Readable(creds))'
      BY <1>1, <2>4 DEF Readable
    <3> QED
      BY <1>1, <2>1, <2>4, <3>1, <3>2, ToVerify
  <2> QED
    BY <2>2, <2>3, <2>4
<1> QED
  BY <1>2, <1>3 DEF Subnegotiation

\* The request is accepted: for the client as far as it is known, with what was
\* read past the request.
LEMMA AcceptedKeeps ==
    ASSUME InboundInv, stage # "accepted", NEW rest, Accepted(creds, rest), script.proto # "other",
           opt.rule # "denies", said' = said, pos' \in 0 .. Len(W),
           Verified \/ (Anonymous /\ (\A i \in DOMAIN said : said[i] # "m2") /\ (script.proto = "http" => Supplied = {})),
           script.proto = "http" => headEnd # 0 /\ headEnd <= pos' /\ pos' = pos,
           PayloadStart \in 0 .. pos', rest = Span(PayloadStart, pos' - PayloadStart)
    PROVE  InboundInv'
<1>1. /\ Fixed /\ stage' = "accepted" /\ err' = err /\ headEnd' = headEnd /\ creds' = creds /\ asked' = asked /\ got' = got
      /\ req' = [username |-> creds, credentials |-> IF opt.retain THEN creds ELSE NoCredentials, pipeline |-> rest]
  BY DEF Accepted, Fixed
<1>2. pos' \in Nat /\ PayloadStart \in Nat /\ pos' - PayloadStart \in Nat
  BY DEF InboundInv, ScriptOK
<1>3. rest \in Seq(Nat)
  BY <1>2, SpanFacts
<1>4. ScriptOK' /\ (HeadIsChunkIndependent)'
  BY <1>1, FixedFrame DEF InboundInv, ScriptOK, Fixed, W, HeadIsChunkIndependent
<1>5. WhoIsIt'
  BY <1>1 DEF WhoIsIt, Early, Fixed
<1>6. WhereIsTheHead'
  BY <1>1 DEF WhereIsTheHead, HeadKnown, Early, Fixed
<1>7. /\ req'.username = creds /\ req'.credentials \in {NoCredentials, creds} /\ req'.pipeline = rest
      /\ req' \in [username : {NoCredentials, creds}, credentials : {NoCredentials, creds}, pipeline : Seq(Nat)]
  BY <1>1, <1>3
<1>8. got = <<>>
  BY DEF InboundInv, WhereIsThePayload
<1>9. WhereIsThePayload'
  <2>1. (NoCredentials)' = NoCredentials
    BY DEF NoCredentials
  <2> QED
    BY <1>1, <1>7, <1>8, <2>1, FixedFrame DEF WhereIsThePayload
<1>10. (PayloadIntact)'
  <2>1. <<>> \o rest = rest
    BY <1>3
  <2> QED
    BY <1>1, <1>7, <1>8, <2>1, FixedFrame DEF PayloadIntact, Span
<1>11. (AcceptedIsAuthorised)'
  <2>1. CASE Verified
    <3>1. creds # NoCredentials
      BY <2>1 DEF Verified, NoCredentials
    <3>2. (creds # NoCredentials)' /\ (NoCredentials)' = NoCredentials
      BY <1>1, <3>1 DEF NoCredentials
    <3>3. opt'.password /\ asked' = <<Text(creds)>>' /\ creds' \in (Supplied)' /\ creds'.pw = "right" /\ creds'.ip
      BY <1>1, <2>1, FixedFrame DEF Verified, Fixed, Text
    <3>4. (Readable(creds))'
      BY <1>1, <2>1 DEF Verified, Fixed, Readable
    <3> QED
      BY <1>1, <1>7, <3>2, <3>3, <3>4 DEF AcceptedIsAuthorised, Fixed
  <2>2. CASE Anonymous /\ (\A i \in DOMAIN said : said[i] # "m2") /\ (script.proto = "http" => Supplied = {})
    <3>1. creds' = (NoCredentials)' /\ asked' = <<>>
      BY <1>1, <2>2 DEF Anonymous, NoCredentials
    <3> QED
      BY <1>1, <2>2, <3>1, FixedFrame DEF AcceptedIsAuthorised, Anonymous, Fixed
  <2> QED
    BY <2>1, <2>2
<1> QED
  BY <1>4, <1>5, <1>6, <1>9, <1>10, <1>11 DEF InboundInv

\* A client whose request is read is verified, or anonymous and never asked for
\* a password; the request is the last message before the payload.
LEMMA RequestKeeps == ASSUME InboundInv, Request PROVE InboundInv'
<1>1. /\ stage = "request" /\ pos = SocksFrames(opt, script.methods) - 1 /\ pos \in 0 .. Len(W) /\ Len(W) \in Nat
      /\ script.proto = "socks" /\ opt.rule # "denies" /\ (Verified \/ (Anonymous /\ said = <<"m0">>))
  BY DEF Request, InboundInv, ScriptOK, WhoIsIt, WhereIsThePayload
<1>2. CASE Cut("Io")
  BY <1>1, <1>2, CutKeeps
<1>3. CASE ~AtEnd(pos) /\ ~Cut("Io")
  <2>0. pos # Len(W) /\ pos' = pos + 1
    BY <1>1, <1>3 DEF AtEnd, W, Request
  <2>1. pos' \in 0 .. Len(W)
    BY <1>1, <2>0
  <2>2. Fail("Protocol") \/ (Accepted(creds, <<>>) /\ said' = said)
    BY <1>3 DEF Request, ReplyAndFail
  <2>3. CASE Fail("Protocol")
    BY <1>1, <2>1, <2>3, FailKeeps
  <2>4. CASE Accepted(creds, <<>>) /\ said' = said
    <3>1. SocksFrames(opt, script.methods) \in Nat /\ PayloadStart = SocksFrames(opt, script.methods)
      BY <1>1 DEF PayloadStart, SocksFrames
    <3>2. PayloadStart = pos' /\ pos' \in Nat
      BY <1>1, <2>0, <3>1
    <3>3. PayloadStart \in 0 .. pos' /\ pos' - PayloadStart = 0
      <4>1. \A k \in Nat : k \in 0 .. k /\ k - k = 0
        OBVIOUS
      <4> QED
        BY <3>2, <4>1, Zenon
    <3>4. <<>> = Span(PayloadStart, pos' - PayloadStart)
      BY <3>2, <3>3, SpanFacts
    <3>5. ASSUME said = <<"m0">> PROVE \A i \in DOMAIN said : said[i] # "m2"
      BY <3>5
    <3> QED
      BY <1>1, <2>1, <2>4, <3>3, <3>4, <3>5, AcceptedKeeps
  <2> QED
    BY <2>2, <2>3, <2>4
<1> QED
  BY <1>2, <1>3 DEF Request

\* The scan resumes where it cannot miss an end, so the end found is the first.
LEMMA ReadHeadKeeps == ASSUME InboundInv, Sizes, ReadHead PROVE InboundInv'
<1>1. /\ stage = "head" /\ pos \in 0 .. Len(W) /\ W \in Seq(WireChars) /\ Len(W) \in Nat /\ pos \in Nat
      /\ MaxHeader \in Nat /\ Chunk \in Nat
      /\ HeadEnds(W, 0, pos) = {} /\ headEnd = 0 /\ script.proto = "http" /\ opt.rule # "denies"
      /\ said = <<>> /\ creds = NoCredentials /\ asked = <<>> /\ got = <<>>
  BY DEF ReadHead, InboundInv, ScriptOK, WhoIsIt, WhereIsTheHead, WhereIsThePayload, Early, Sizes
<1>2. CASE Cut("Closed")
  BY <1>1, <1>2, CutKeeps
<1>3. CASE ~Cut("Closed")
  <2>1. PICK n \in 1 .. Chunk :
          LET ends == HeadEnds(W, ScanFrom, pos + n)
          IN  /\ pos + n <= Len(W)
              /\ pos' = pos + n
              /\ CASE ends # {} /\ Least(ends) <= MaxHeader ->
                        /\ stage' = "parse" /\ headEnd' = Least(ends)
                        /\ UNCHANGED <<opt, script, late, err, said, creds, asked, req, got>>
                   [] ends = {} /\ pos + n <= MaxHeader ->
                        UNCHANGED <<opt, script, late, stage, err, headEnd, said, creds, asked, req, got>>
                   [] OTHER -> HttpFail("431", "HeaderTooLarge")
    BY <1>3 DEF ReadHead, W
  <2>2. n \in Nat /\ pos + n \in 0 .. Len(W) /\ pos + n \in Nat
    BY <1>1, <2>1
  <2>3. HeadEnds(W, ScanFrom, pos + n) = HeadEnds(W, 0, pos + n)
    BY <1>1, <2>2, ScanFinds
  <2> DEFINE E == HeadEnds(W, 0, pos + n)
             T == TrueEnds
  <2>4. PICK p \in 0 .. Len(W) : p = pos + n /\ p \in Nat
    BY <2>2
  <2>5. /\ T \subseteq Nat /\ \A k \in T : k \in E \/ k > p
        /\ E # {} => /\ Least(E) = Least(T) /\ Least(T) \in 4 .. p
                     /\ \A k \in T : Least(T) <= k
    BY <1>1, <2>4, PrefixEnds
  <2>6. pos' = p /\ Fixed /\ got' = got /\ creds' = creds /\ asked' = asked
    BY <2>1, <2>4 DEF Fixed, HttpFail, ReplyAndFail, Fail
  <2>7. \/ E # {} /\ Least(E) <= MaxHeader /\ stage' = "parse" /\ headEnd' = Least(E) /\ err' = err /\ said' = said
        \/ E = {} /\ stage' = stage /\ err' = err /\ headEnd' = headEnd /\ said' = said
        \/ ~(E # {} /\ Least(E) <= MaxHeader) /\ ~(E = {} /\ p <= MaxHeader) /\ Fail("HeaderTooLarge")
    BY <2>1, <2>3, <2>4 DEF HttpFail, ReplyAndFail
  <2> HIDE DEF E, T
  <2>8. ScriptOK'
    <3>1. headEnd' \in Nat
      BY <1>1, <2>4, <2>5, <2>7 DEF Fail
    <3> QED
      BY <2>6, <3>1, FixedFrame DEF InboundInv, ScriptOK, Fixed, W
  <2>9. T' = T
    BY <2>6, FixedFrame DEF T
  <2>10. CASE E # {} /\ Least(E) <= MaxHeader /\ stage' = "parse" /\ headEnd' = Least(E) /\ err' = err /\ said' = said
    <3>1. headEnd' \in Nat /\ headEnd' # 0 /\ headEnd' <= p /\ headEnd' = Least(T)
      BY <2>4, <2>5, <2>10
    <3>2. WhoIsIt'
      BY <1>1, <2>6, <2>10 DEF WhoIsIt, Early, Fixed, NoCredentials
    <3>3. WhereIsTheHead'
      BY <2>6, <2>10, <3>1 DEF WhereIsTheHead, HeadKnown, Early
    <3>4. WhereIsThePayload'
      BY <1>1, <2>6, <2>10 DEF WhereIsThePayload
    <3>5. (HeadIsChunkIndependent)'
      BY <2>6, <2>9, <2>10, <3>1, FixedFrame DEF InboundInv, HeadIsChunkIndependent, T
    <3>6. (AcceptedIsAuthorised)' /\ (PayloadIntact)'
      BY <2>10 DEF AcceptedIsAuthorised, PayloadIntact
    <3> QED
      BY <2>8, <3>2, <3>3, <3>4, <3>5, <3>6 DEF InboundInv
  <2>11. CASE E = {} /\ stage' = stage /\ err' = err /\ headEnd' = headEnd /\ said' = said
    <3>1. (HeadEnds(W, 0, pos))' = {}
      <4>1. W' = W /\ pos' = pos + n
        BY <2>4, <2>6, FixedFrame
      <4> QED
        BY <2>11, <4>1 DEF E, HeadEnds, Blank
    <3>2. WhoIsIt'
      BY <1>1, <2>6, <2>11 DEF WhoIsIt, Early, Fixed, NoCredentials
    <3>3. WhereIsTheHead'
      BY <1>1, <2>6, <2>11, <3>1 DEF WhereIsTheHead, HeadKnown, Early
    <3>4. WhereIsThePayload'
      BY <1>1, <2>6, <2>11 DEF WhereIsThePayload
    <3> QED
      BY <1>1, <2>4, <2>6, <2>11, <3>2, <3>3, <3>4, Underway
  <2>12. CASE ~(E # {} /\ Least(E) <= MaxHeader) /\ ~(E = {} /\ p <= MaxHeader) /\ Fail("HeaderTooLarge")
    <3>1. stage' = "failed" /\ headEnd' = 0 /\ err' = "HeaderTooLarge"
      BY <1>1, <2>12 DEF Fail
    <3>2. \A k \in T : k > MaxHeader
      <4>1. CASE E = {}
        BY <1>1, <2>4, <2>5, <2>12, <4>1
      <4>2. CASE E # {}
        <5>1. Least(T) \in Nat /\ ~(Least(T) <= MaxHeader)
          BY <2>4, <2>5, <2>12, <4>2
        <5> QED
          BY <1>1, <2>5, <4>2, <5>1
      <4> QED
        BY <4>1, <4>2
    <3>3. WhoIsIt' /\ WhereIsTheHead'
      BY <3>1 DEF WhoIsIt, WhereIsTheHead, HeadKnown, Early
    <3>4. WhereIsThePayload'
      BY <1>1, <2>6, <3>1 DEF WhereIsThePayload
    <3>5. (HeadIsChunkIndependent)'
      BY <2>9, <3>1, <3>2 DEF HeadIsChunkIndependent, T
    <3>6. (AcceptedIsAuthorised)' /\ (PayloadIntact)'
      BY <3>1 DEF AcceptedIsAuthorised, PayloadIntact
    <3> QED
      BY <2>8, <3>3, <3>4, <3>5, <3>6 DEF InboundInv
  <2> QED
    BY <2>7, <2>10, <2>11, <2>12
<1> QED
  BY <1>2, <1>3

LEMMA ParseHeadKeeps == ASSUME InboundInv, ParseHead PROVE InboundInv'
<1>1. /\ stage = "parse" /\ pos' = pos /\ pos \in 0 .. Len(W) /\ script.proto = "http" /\ opt.rule # "denies" /\ got = <<>>
      /\ said = <<>> /\ creds = NoCredentials /\ asked = <<>> /\ headEnd # 0 /\ headEnd <= pos
  BY DEF ParseHead, InboundInv, ScriptOK, WhoIsIt, WhereIsTheHead, WhereIsThePayload, HeadKnown, Early
<1>2. Fail("Protocol") \/ Goto("authorise", pos, <<>>)
  BY DEF ParseHead, HttpFail, ReplyAndFail
<1>3. CASE Fail("Protocol")
  BY <1>1, <1>3, FailKeeps
<1>4. CASE Goto("authorise", pos, <<>>)
  <2>1. /\ Fixed /\ stage' = "authorise" /\ said' = said \o <<>>
        /\ err' = err /\ headEnd' = headEnd /\ creds' = creds /\ asked' = asked /\ got' = got
    BY <1>4 DEF Goto, Fixed
  <2>2. said' = <<>>
    BY <1>1, <2>1
  <2>3. WhoIsIt'
    BY <1>1, <2>1, <2>2 DEF WhoIsIt, Early, Fixed, NoCredentials
  <2>4. WhereIsTheHead' /\ WhereIsThePayload'
    BY <1>1, <2>1 DEF WhereIsTheHead, HeadKnown, Early, WhereIsThePayload
  <2> QED
    BY <1>1, <2>1, <2>3, <2>4, Underway
<1> QED
  BY <1>2, <1>3, <1>4

\* What was read past an HTTP head is the beginning of the payload.
LEMMA SplitIsPayload ==
    ASSUME InboundInv, script.proto = "http", headEnd # 0, headEnd <= pos
    PROVE  PayloadStart \in 0 .. pos /\ Split = Span(PayloadStart, pos - PayloadStart)
<1>1. headEnd \in Nat /\ pos \in Nat /\ headEnd = PayloadStart
  BY DEF InboundInv, ScriptOK, HeadIsChunkIndependent, PayloadStart
<1> QED
  BY <1>1 DEF Split, Span

LEMMA AuthoriseKeeps == ASSUME InboundInv, Authorise PROVE InboundInv'
<1>1. /\ stage = "authorise" /\ pos' = pos /\ pos \in 0 .. Len(W) /\ script.proto = "http" /\ opt.rule # "denies"
      /\ said = <<>> /\ creds = NoCredentials /\ asked = <<>> /\ headEnd # 0 /\ headEnd <= pos
      /\ DOMAIN script.headers \subseteq Nat
  BY DEF Authorise, InboundInv, ScriptOK, WhoIsIt, WhereIsTheHead, HeadKnown, Early
<1>2. \/ Fail("Authentication")
      \/ AuthLines = {} /\ opt.anonymous /\ Accepted(NoCredentials, Split) /\ said' = said
      \/ /\ AuthLines # {} /\ opt.password /\ stage' = "verify" /\ creds' = AuthLine.creds /\ AuthLine.creds.utf8
         /\ UNCHANGED <<opt, script, late, err, headEnd, said, asked, req, got>>
  BY DEF Authorise, UnusableAuth, HttpFail, ReplyAndFail
<1>3. CASE Fail("Authentication")
  BY <1>1, <1>3, FailKeeps
<1>4. CASE AuthLines = {} /\ opt.anonymous /\ Accepted(NoCredentials, Split) /\ said' = said
  <2>1. Supplied = {} /\ Anonymous
    BY <1>1, <1>4 DEF Supplied, Anonymous
  <2>2. PayloadStart \in 0 .. pos /\ Split = Span(PayloadStart, pos - PayloadStart)
    BY <1>1, SplitIsPayload
  <2>3. \A i \in DOMAIN said : said[i] # "m2"
    BY <1>1
  <2> QED
    BY <1>1, <1>4, <2>1, <2>2, <2>3, AcceptedKeeps
<1>5. CASE /\ AuthLines # {} /\ opt.password /\ stage' = "verify" /\ creds' = AuthLine.creds /\ AuthLine.creds.utf8
           /\ UNCHANGED <<opt, script, late, err, headEnd, said, asked, req, got>>
  <2>1. AuthLines \subseteq Nat
    BY <1>1 DEF AuthLines
  <2>2. Least(AuthLines) \in AuthLines
    BY <1>5, <2>1, LeastIs
  <2>3. creds' \in Supplied
    BY <1>1, <1>5, <2>2 DEF Supplied, AuthLine
  <2>4. Fixed
    BY <1>5 DEF Fixed
  <2>5. (Readable(creds))'
    BY <1>5 DEF Readable
  <2> QED
    BY <1>1, <1>5, <2>3, <2>4, <2>5, ToVerify
<1> QED
  BY <1>2, <1>3, <1>4, <1>5

\* A refusal says so and ends.
LEMMA RefusedKeeps ==
    ASSUME InboundInv, stage # "accepted", Refused, pos' = pos
    PROVE  InboundInv'
<1>1. Fail("Authentication")
  BY DEF Refused, AuthFail, HttpFail, ReplyAndFail
<1> QED
  BY <1>1, FailKeeps DEF InboundInv, ScriptOK

\* The password is looked at only for an address the user's own rule admits.
LEMMA ClientIpAllowedKeeps == ASSUME InboundInv, ClientIpAllowed PROVE InboundInv'
<1>1. /\ stage = "verify" /\ pos \in 0 .. Len(W) /\ script.proto # "other" /\ opt.rule # "denies"
      /\ opt.password /\ creds \in Supplied /\ Readable(creds) /\ asked = <<>>
  BY DEF ClientIpAllowed, InboundInv, ScriptOK, WhoIsIt, Early
<1>2. CASE ~creds.ip
  BY <1>1, <1>2, RefusedKeeps DEF ClientIpAllowed
<1>3. CASE creds.ip
  <2>1. /\ Fixed /\ stage' = "verifying" /\ asked' = Append(asked, Text(creds)) /\ err' = err /\ pos' = pos
        /\ headEnd' = headEnd /\ said' = said /\ creds' = creds /\ got' = got
    BY <1>3 DEF ClientIpAllowed, Fixed
  <2>2. asked' = <<Text(creds)>>'
    BY <1>1, <2>1 DEF Text
  <2>3. WhoIsIt'
    BY <1>1, <1>3, <2>1, <2>2, FixedFrame DEF WhoIsIt, Early, Fixed, Readable
  <2>4. WhereIsTheHead'
    BY <1>1, <2>1 DEF InboundInv, WhereIsTheHead, HeadKnown, Early, Fixed
  <2>5. WhereIsThePayload'
    BY <1>1, <2>1, FixedFrame DEF InboundInv, WhereIsThePayload, Fixed
  <2> QED
    BY <1>1, <2>1, <2>3, <2>4, <2>5, Underway
<1> QED
  BY <1>2, <1>3

LEMMA VerifyAnswersKeeps == ASSUME InboundInv, VerifyAnswers PROVE InboundInv'
<1>1. /\ stage = "verifying" /\ pos \in 0 .. Len(W) /\ script.proto \in {"socks", "http"} /\ opt.rule # "denies"
      /\ opt.password /\ creds \in Supplied /\ Readable(creds) /\ asked = <<Text(creds)>> /\ creds.ip
  BY DEF VerifyAnswers, InboundInv, ScriptOK, WhoIsIt, Early
<1>2. CASE creds.pw # "right"
  BY <1>1, <1>2, RefusedKeeps DEF VerifyAnswers
<1>3. CASE creds.pw = "right"
  <2>1. Verified
    BY <1>1, <1>3 DEF Verified
  <2>2. CASE script.proto = "socks"
    <3>1. /\ Fixed /\ stage' = "request" /\ pos' = pos
          /\ err' = err /\ headEnd' = headEnd /\ creds' = creds /\ asked' = asked /\ got' = got
      BY <1>3, <2>2 DEF VerifyAnswers, Granted, Goto, Fixed
    <3>2. Agreed /\ pos = 3 /\ got = <<>>
      BY <1>1, <2>2 DEF InboundInv, WhereIsThePayload
    <3>3. Verified'
      BY <2>1, <3>1, FixedFrame DEF Verified, Fixed, Readable, Text
    <3>4. WhoIsIt'
      BY <1>1, <2>2, <3>1, <3>3 DEF WhoIsIt, Early, Fixed
    <3>5. SocksFrames(opt, script.methods)' = 4
      BY <3>1, <3>2 DEF SocksFrames, Agreed, Fixed
    <3>6. WhereIsTheHead'
      BY <3>1 DEF WhereIsTheHead, HeadKnown, Early
    <3>7. WhereIsThePayload'
      BY <3>1, <3>2, <3>5 DEF WhereIsThePayload
    <3> QED
      BY <1>1, <3>1, <3>4, <3>6, <3>7, Underway
  <2>3. CASE script.proto = "http"
    <3>1. Accepted(creds, Split) /\ pos' = pos /\ said' = said
      BY <1>3, <2>3 DEF VerifyAnswers, Granted
    <3>2. headEnd # 0 /\ headEnd <= pos
      BY <1>1, <2>3 DEF InboundInv, WhereIsTheHead, HeadKnown
    <3>3. PayloadStart \in 0 .. pos /\ Split = Span(PayloadStart, pos - PayloadStart)
      BY <2>3, <3>2, SplitIsPayload
    <3> QED
      BY <1>1, <2>1, <2>3, <3>1, <3>2, <3>3, AcceptedKeeps
  <2> QED
    BY <1>1, <2>2, <2>3
<1> QED
  BY <1>2, <1>3

-----------------------------------------------------------------------------
(* Steps of the host *)

\* What the host does with an accepted request leaves everything else alone.
LEMMA HostKeeps ==
    ASSUME InboundInv, stage = "accepted", Fixed, pos' \in 0 .. Len(W), pos <= pos',
           UNCHANGED <<stage, err, headEnd, said, creds, asked>>, got' \in Seq(Nat),
           req' \in [username : {NoCredentials, creds}, credentials : {NoCredentials, creds}, pipeline : Seq(Nat)],
           got' \o req'.pipeline = Span(PayloadStart, pos' - PayloadStart)
    PROVE  InboundInv'
<1>1. ScriptOK' /\ (HeadIsChunkIndependent)'
  BY FixedFrame DEF InboundInv, ScriptOK, Fixed, W, HeadIsChunkIndependent
<1>2. WhoIsIt'
  BY DEF InboundInv, WhoIsIt, Early, Fixed
<1>3. WhereIsTheHead'
  <2>1. headEnd \in Nat /\ pos \in Nat /\ pos' \in Nat
    BY DEF InboundInv, ScriptOK
  <2>2. script.proto = "http" => headEnd # 0 /\ headEnd <= pos'
    BY <2>1 DEF InboundInv, WhereIsTheHead, HeadKnown
  <2> QED
    BY <2>2 DEF WhereIsTheHead, HeadKnown, Early, Fixed
<1>4. PayloadStart \in 0 .. pos'
  <2>1. pos \in Nat /\ pos' \in Nat /\ PayloadStart \in 0 .. pos
    BY DEF InboundInv, ScriptOK, WhereIsThePayload
  <2> QED
    BY <2>1
<1>5. WhereIsThePayload'
  <2>1. (NoCredentials)' = NoCredentials /\ creds' = creds /\ stage' = "accepted"
    BY DEF NoCredentials
  <2> QED
    BY <1>4, <2>1, FixedFrame DEF WhereIsThePayload
<1>6. (PayloadIntact)'
  BY FixedFrame DEF PayloadIntact, Span
<1>7. (AcceptedIsAuthorised)'
  <2>1. (NoCredentials)' = NoCredentials /\ (Text(creds))' = Text(creds)
    BY DEF NoCredentials, Text
  <2>2. req'.username \in {NoCredentials, creds} /\ req'.credentials \in {NoCredentials, creds}
    OBVIOUS
  <2> QED
    BY <2>1, <2>2, FixedFrame DEF InboundInv, AcceptedIsAuthorised, Readable, Fixed
<1> QED
  BY <1>1, <1>2, <1>3, <1>5, <1>6, <1>7 DEF InboundInv

\* What holds of an accepted request.
LEMMA AcceptedRequest ==
    ASSUME InboundInv, stage = "accepted"
    PROVE  /\ pos \in 0 .. Len(W) /\ Len(W) \in Nat /\ PayloadStart \in 0 .. pos /\ got \in Seq(Nat)
           /\ req \in [username : {NoCredentials, creds}, credentials : {NoCredentials, creds}, pipeline : Seq(Nat)]
           /\ got \o req.pipeline = Span(PayloadStart, pos - PayloadStart)
<1>1. Len(W) \in Nat
  BY DEF InboundInv, ScriptOK
<1> QED
  BY <1>1 DEF InboundInv, ScriptOK, WhereIsThePayload, PayloadIntact, Span

LEMMA TakeKeeps == ASSUME InboundInv, TakeUsername \/ TakeCredentials PROVE InboundInv'
<1>1. stage = "accepted" /\ Fixed /\ pos' = pos /\ got' = got /\ UNCHANGED <<stage, err, headEnd, said, creds, asked>>
  BY DEF TakeUsername, TakeCredentials, Host, Fixed
<1>2. /\ pos \in 0 .. Len(W) /\ got \in Seq(Nat)
      /\ req \in [username : {NoCredentials, creds}, credentials : {NoCredentials, creds}, pipeline : Seq(Nat)]
      /\ got \o req.pipeline = Span(PayloadStart, pos - PayloadStart)
  BY <1>1, AcceptedRequest
<1>3. req' = [req EXCEPT !.username = NoCredentials] \/ req' = [req EXCEPT !.credentials = NoCredentials]
  BY DEF TakeUsername, TakeCredentials, Host
<1>4. /\ req' \in [username : {NoCredentials, creds}, credentials : {NoCredentials, creds}, pipeline : Seq(Nat)]
      /\ req'.pipeline = req.pipeline
  BY <1>2, <1>3
<1>5. pos' \in 0 .. Len(W) /\ pos <= pos'
  BY <1>1, <1>2 DEF InboundInv, ScriptOK
<1>6. got' \in Seq(Nat) /\ got' \o req'.pipeline = Span(PayloadStart, pos' - PayloadStart)
  BY <1>1, <1>2, <1>4
<1> QED
  BY <1>1, <1>4, <1>5, <1>6, HostKeeps

\* First the bytes read past the request, then the stream.
LEMMA ReadPrefixedKeeps == ASSUME InboundInv, Sizes, ReadPrefixed PROVE InboundInv'
<1>1. stage = "accepted" /\ Fixed /\ UNCHANGED <<stage, err, headEnd, said, creds, asked>>
  BY DEF ReadPrefixed, Fixed
<1>2. /\ pos \in 0 .. Len(W) /\ Len(W) \in Nat /\ PayloadStart \in 0 .. pos /\ got \in Seq(Nat)
      /\ req \in [username : {NoCredentials, creds}, credentials : {NoCredentials, creds}, pipeline : Seq(Nat)]
      /\ got \o req.pipeline = Span(PayloadStart, pos - PayloadStart)
  BY <1>1, AcceptedRequest
<1>3. PICK n \in 1 .. Chunk :
        \/ /\ n <= Len(req.pipeline) /\ pos' = pos
           /\ got' = got \o SubSeq(req.pipeline, 1, n)
           /\ req' = [req EXCEPT !.pipeline = SubSeq(req.pipeline, n + 1, Len(req.pipeline))]
        \/ /\ req.pipeline = <<>> /\ pos + n <= Len(W) /\ req' = req /\ pos' = pos + n
           /\ got' = got \o Span(pos, n)
  BY DEF ReadPrefixed, W, Span
<1>4. n \in Nat /\ n >= 1 /\ pos \in Nat /\ PayloadStart \in Nat
  BY <1>2 DEF Sizes
<1>5. CASE /\ n <= Len(req.pipeline) /\ pos' = pos
           /\ got' = got \o SubSeq(req.pipeline, 1, n)
           /\ req' = [req EXCEPT !.pipeline = SubSeq(req.pipeline, n + 1, Len(req.pipeline))]
  <2>1. PICK p \in Seq(Nat) : p = req.pipeline
    BY <1>2
  <2>2. n \in 0 .. Len(p)
    BY <1>4, <1>5, <2>1
  <2>3. /\ SubSeq(p, n + 1, Len(p)) \in Seq(Nat) /\ got \o SubSeq(p, 1, n) \in Seq(Nat)
        /\ (got \o SubSeq(p, 1, n)) \o SubSeq(p, n + 1, Len(p)) = got \o p
    BY <1>2, <2>2, StreamMoves
  <2>4. PICK b \in Seq(Nat) : b = SubSeq(p, n + 1, Len(p))
    BY <2>3
  <2>5. req' = [req EXCEPT !.pipeline = b]
    BY <1>5, <2>1, <2>4
  <2>6. /\ req' \in [username : {NoCredentials, creds}, credentials : {NoCredentials, creds}, pipeline : Seq(Nat)]
        /\ req'.pipeline = b
    BY <1>2, <2>5
  <2>7. got' \in Seq(Nat) /\ got' \o req'.pipeline = Span(PayloadStart, pos' - PayloadStart)
    BY <1>2, <1>5, <2>1, <2>3, <2>4, <2>6
  <2>8. pos' \in 0 .. Len(W) /\ pos <= pos'
    BY <1>2, <1>4, <1>5
  <2> QED
    BY <1>1, <2>6, <2>7, <2>8, HostKeeps
<1>6. CASE /\ req.pipeline = <<>> /\ pos + n <= Len(W) /\ req' = req /\ pos' = pos + n
           /\ got' = got \o Span(pos, n)
  <2>1. PICK c \in Nat, a \in Nat : c = PayloadStart /\ c + a = pos
    <3>1. pos - PayloadStart \in Nat /\ PayloadStart + (pos - PayloadStart) = pos
      BY <1>2, <1>4
    <3> QED
      BY <1>4, <3>1
  <2>2. pos - PayloadStart = a /\ pos' - PayloadStart = a + n
    BY <1>4, <1>6, <2>1
  <2>3. got \o <<>> = got
    BY <1>2
  <2>4. got = Span(c, a)
    BY <1>2, <1>6, <2>1, <2>2, <2>3
  <2>5. got' = Span(c, a + n)
    <3>1. Span(c, a) \o Span(c + a, n) = Span(c, a + n)
      BY <1>4, SpanChain
    <3>2. got' = got \o Span(c + a, n)
      BY <1>6, <2>1
    <3> QED
      BY <2>4, <3>1, <3>2
  <2>6. got' \in Seq(Nat)
    BY <1>4, <2>1, <2>5, SpanFacts
  <2>7. got' \o <<>> = got'
    BY <2>6
  <2>8. got' \o req'.pipeline = Span(PayloadStart, pos' - PayloadStart)
    BY <1>6, <2>1, <2>2, <2>5, <2>7
  <2>9. pos' \in 0 .. Len(W) /\ pos <= pos'
    BY <1>2, <1>4, <1>6
  <2> QED
    BY <1>1, <1>2, <1>6, <2>6, <2>8, <2>9, HostKeeps
<1> QED
  BY <1>3, <1>5, <1>6

-----------------------------------------------------------------------------
(* The theorems about accept *)

LEMMA InboundStarts == ASSUME Sizes, InboundInit PROVE InboundInv
<1>1. PICK s \in Arrivals : opt = s.opt /\ script = s.script
  BY DEF InboundInit
<1>2. ScriptOK
  <2>1. /\ opt \in Option /\ script.proto \in {"socks", "http", "other"} /\ W \in Seq(WireChars)
        /\ script.headers \in Seq([name : STRING, shape : STRING, value : STRING, creds : Credentials])
    BY <1>1 DEF Sizes, W, WireChars
  <2>2. DOMAIN script.headers \subseteq Nat /\ Len(W) \in Nat
    BY <2>1
  <2> QED
    BY <2>1, <2>2 DEF ScriptOK, InboundInit
<1>3. WhoIsIt /\ WhereIsTheHead /\ WhereIsThePayload
  BY DEF InboundInit, WhoIsIt, WhereIsTheHead, HeadKnown, WhereIsThePayload, Early
<1>4. AcceptedIsAuthorised /\ HeadIsChunkIndependent /\ PayloadIntact
  BY DEF InboundInit, AcceptedIsAuthorised, HeadIsChunkIndependent, PayloadIntact
<1> QED
  BY <1>2, <1>3, <1>4 DEF InboundInv

LEMMA InboundSteps == ASSUME Sizes, InboundInv, [InboundNext]_inboundVars PROVE InboundInv'
<1>1. CASE UNCHANGED inboundVars
  BY <1>1, SameKeeps DEF inboundVars
<1>2. CASE AcceptDeadlinePasses
  BY <1>2, SameKeeps DEF AcceptDeadlinePasses
<1> QED
  BY <1>1, <1>2, GlobalAllowedKeeps, EnterPhaseKeeps, PhaseTimesOutKeeps, DetectKeeps, MethodsKeeps,
     SubnegotiationKeeps, RequestKeeps, ReadHeadKeeps, ParseHeadKeeps, AuthoriseKeeps, ClientIpAllowedKeeps,
     VerifyAnswersKeeps, TakeKeeps, ReadPrefixedKeeps DEF InboundNext

LEMMA InboundInvariant == InboundSpec => []InboundInv
  BY SizesAssumption, InboundStarts, InboundSteps, PTL DEF InboundSpec

\* accept lets a client through only on the terms of the options, for every
\* configuration and whatever the client sends: a named client was verified once,
\* by the name it sent, from an address of its own rule; an anonymous one never
\* offered credentials that were refused.
THEOREM AcceptedIsAuthorisedHolds == InboundSpec => []AcceptedIsAuthorised
<1>1. InboundInv => AcceptedIsAuthorised
  BY DEF InboundInv
<1> QED
  BY <1>1, InboundInvariant, PTL

\* The end of the HTTP head, and whether it is too large, depend on the bytes
\* and not on how the reads cut them, for any size of a read and any limit.
THEOREM HeadIsChunkIndependentHolds == InboundSpec => []HeadIsChunkIndependent
<1>1. InboundInv => HeadIsChunkIndependent
  BY DEF InboundInv
<1> QED
  BY <1>1, InboundInvariant, PTL

\* The host reads the payload whole, once and in order, however much of it was
\* read together with the head and however it reads it.
THEOREM PayloadIntactHolds == InboundSpec => []PayloadIntact
<1>1. InboundInv => PayloadIntact
  BY DEF InboundInv
<1> QED
  BY <1>1, InboundInvariant, PTL

=============================================================================
