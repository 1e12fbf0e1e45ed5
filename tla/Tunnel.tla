------------------------------- MODULE Tunnel -------------------------------
(***************************************************************************)
(* forward_tunnel: the client's first bytes are sent, in fragments when    *)
(* they are a ClientHello, then bytes are copied both ways until both      *)
(* sides have closed, nothing has moved for the idle time, the lifetime is *)
(* over or a side breaks.                                                  *)
(*                                                                         *)
(* The two byte streams are numbered; `wire` is what the client's say.     *)
(* A TLS upstream accepts bytes into a buffer and hands them to its        *)
(* transport later; only that transport's progress is confirmed.  Time is  *)
(* counted in ticks, relative to now: what is left of a timer, how long    *)
(* ago something happened.  A tick passes only when no timer is due.       *)
(***************************************************************************)
EXTENDS Payload

CONSTANTS
    HoldMax,    \* the accumulator for an unfinished ClientHello
    FragSize,   \* fragment_size
    Delay,      \* delay_ms, in ticks
    CopyBuf,    \* one read of the copy loop
    TlsBuf      \* what a TLS upstream accepts before its transport drains

ASSUME TunnelSizes == {HoldMax, FragSize, CopyBuf, TlsBuf} \subseteq Nat \ {0} /\ Delay \in Nat

VARIABLES
    setup,      \* wire, clientEnds, upstreamSays, upstreamEnds, tls, frag,
                \* idle and life (0: off)
    taken,      \* client bytes read
    held,       \* those not yet accepted by the upstream
    up,         \* client bytes the upstream accepted, in order
    wired,      \* how many of them its transport has
    uTaken, back, down,    \* the same for the other direction
    phase,      \* "off", "hold", "send", "flush", "pause", "copy" or "ended"
    ended,      \* how the tunnel ended
    chunk,      \* bytes left in the fragment being sent
    left,       \* until the armed idle timer, or the pause, is over
    fresh,      \* progress was confirmed in this window
    age,        \* since the last recorded activity
    lifeLeft,   \* until the lifetime is over
    closing,    \* the directions that have seen their end and shut the other side
    quiet       \* since a byte last moved anywhere (history)

data == <<taken, held, up, wired, uTaken, back, down>>
timers == <<left, fresh, age, lifeLeft>>
tunnelVars == <<data, phase, ended, chunk, timers, closing, quiet>>

Idle == setup.idle
ClientSays == Len(setup.wire)
Span(from, n) == [i \in 1 .. n |-> from + i]
\* The client bytes in hand; before the copy starts they begin with the first.
HeldBytes(h) == [i \in DOMAIN h |-> setup.wire[h[i]]]

TunnelInit ==
    /\ taken = 0 /\ held = <<>> /\ up = <<>> /\ wired = 0
    /\ uTaken = 0 /\ back = <<>> /\ down = <<>>
    /\ phase = "off" /\ ended = "no" /\ chunk = 0
    /\ left = 0 /\ fresh = FALSE /\ age = 0 /\ lifeLeft = 0
    /\ closing = {} /\ quiet = 0

End(how) ==
    /\ phase' = "ended" /\ ended' = how
    /\ UNCHANGED <<data, chunk, timers, closing, quiet>>

Arm == left' = Idle /\ fresh' = FALSE
Moved == quiet' = 0

----------------------------------------------------------------------------
(* prepare_payload                                                         *)

\* Mutant: the signature is enough to send.
UnfinishedSignature(bytes) == Classify(bytes) = "Indeterminate"
Unfinished(bytes) ==
    \/ Classify(bytes) = "Indeterminate"
    \/ Classify(bytes) = "ClientHello" /\ ~ClientHelloIsComplete(bytes)

\* The copy loop starts: its idle timer and its activity clock are new.
StartCopy == phase' = "copy" /\ left' = Idle /\ fresh' = FALSE /\ age' = 0 /\ UNCHANGED chunk

\* send_possibly_fragmented on the bytes h, or nothing to send.
StartSend(h) ==
    IF h = <<>> THEN StartCopy
    ELSE /\ phase' = "send" /\ Arm /\ UNCHANGED age
         /\ chunk' = IF setup.frag /\ Classify(HeldBytes(h)) = "ClientHello"
                     THEN LesserOf(FragSize, Len(h)) ELSE Len(h)

\* forward_tunnel is entered with the bytes h.
Forward(h) ==
    /\ held' = h
    /\ lifeLeft' = setup.life
    /\ IF setup.frag /\ Unfinished(HeldBytes(h))
       THEN phase' = "hold" /\ Arm /\ UNCHANGED <<age, chunk>>
       ELSE StartSend(h)
    /\ UNCHANGED <<ended, closing>>

\* A step of the accumulation: more of the client's bytes, or its end.
HoldRead ==
    /\ phase = "hold" /\ back = <<>>
    /\ \E n \in 0 .. HoldMax - Len(held) :
          LET h == held \o Span(taken, n)
              exhausted == n = 0 \/ Len(h) = HoldMax
              decided == exhausted \/ ~Unfinished(HeldBytes(h))
          IN  /\ IF n = 0 THEN Len(held) = HoldMax \/ (taken = ClientSays /\ setup.clientEnds)
                 ELSE taken + n <= ClientSays
              /\ taken' = taken + n /\ held' = h
              /\ quiet' = IF n = 0 THEN quiet ELSE 0
              /\ IF decided THEN StartSend(h) ELSE Arm /\ UNCHANGED <<phase, chunk, age>>
    /\ UNCHANGED <<up, wired, uTaken, back, down, ended, lifeLeft, closing>>

\* The upstream speaks meanwhile: its bytes are relayed within the same step,
\* so the timer runs on; its end settles the decision.
HoldUpstream ==
    /\ phase = "hold" /\ back = <<>>
    /\ \/ /\ uTaken < setup.upstreamSays
          /\ uTaken' = uTaken + 1 /\ back' = <<uTaken + 1>> /\ Moved
          /\ UNCHANGED <<phase, chunk, left, fresh, age>>
       \/ /\ uTaken = setup.upstreamSays /\ setup.upstreamEnds
          /\ StartSend(held)
          /\ UNCHANGED <<uTaken, back, quiet>>
    /\ UNCHANGED <<taken, held, up, wired, down, ended, lifeLeft, closing>>
HoldRelay ==
    /\ phase = "hold" /\ back # <<>>
    /\ down' = down \o back /\ back' = <<>> /\ Moved /\ Arm
    /\ UNCHANGED <<taken, held, up, wired, uTaken, phase, ended, chunk, age, lifeLeft, closing>>

----------------------------------------------------------------------------
(* write_progress_bounded: one write attempt after the other, then a       *)
(* flush.  A window renewed by confirmed progress never ends an attempt.   *)

Room == setup.tls => Len(up) - wired < TlsBuf
Accept(n) ==
    /\ up' = up \o SubSeq(held, 1, n)
    /\ held' = SubSeq(held, n + 1, Len(held))
    /\ wired' = IF setup.tls THEN wired ELSE wired + n

SendAccept ==
    /\ phase = "send" /\ Room
    /\ Accept(1) /\ Moved /\ Arm
    /\ chunk' = chunk - 1
    /\ phase' = IF chunk = 1 THEN "flush" ELSE "send"
    /\ UNCHANGED <<taken, uTaken, back, down, ended, age, lifeLeft, closing>>

\* The transport under a TLS upstream takes a byte; in the copy loop that is
\* activity, in a bounded write it renews the window.
Recorded == 0
\* Mutant: only what the TLS layer accepts counts as activity.
DrainUnseen ==
    /\ phase \in {"send", "flush", "copy"} /\ wired < Len(up)
    /\ wired' = wired + 1 /\ Moved
    /\ UNCHANGED <<taken, held, up, uTaken, back, down, phase, ended, chunk, timers, closing>>
Drain ==
    /\ phase \in {"send", "flush", "copy"} /\ wired < Len(up)
    /\ wired' = wired + 1 /\ Moved
    /\ fresh' = (phase # "copy")
    /\ age' = IF phase = "copy" THEN Recorded ELSE age
    /\ UNCHANGED <<taken, held, up, uTaken, back, down, phase, ended, chunk, left, lifeLeft, closing>>

\* A fragment is followed by the configured pause, the last one too.
NextFragment ==
    IF setup.frag /\ Delay > 0 /\ Classify(HeldBytes(up \o held)) = "ClientHello"
    THEN phase' = "pause" /\ left' = Delay /\ fresh' = FALSE /\ UNCHANGED <<chunk, age>>
    ELSE IF held # <<>> THEN phase' = "send" /\ chunk' = LesserOf(FragSize, Len(held)) /\ Arm /\ UNCHANGED age
    ELSE StartCopy
Flushed ==
    /\ phase = "flush" /\ wired = Len(up)
    /\ NextFragment
    /\ UNCHANGED <<data, ended, lifeLeft, closing, quiet>>
PauseOver ==
    /\ phase = "pause" /\ left = 0
    /\ IF held # <<>> THEN phase' = "send" /\ chunk' = LesserOf(FragSize, Len(held)) /\ Arm /\ UNCHANGED age
       ELSE StartCopy
    /\ UNCHANGED <<data, ended, lifeLeft, closing, quiet>>

----------------------------------------------------------------------------
(* tunnel_with_timeouts: the copy loop.                                    *)

CopyRead ==
    /\ phase = "copy" /\ Moved /\ age' = Recorded
    /\ \/ /\ held = <<>>
          /\ \E n \in 1 .. CopyBuf : /\ taken + n <= ClientSays
                                     /\ taken' = taken + n /\ held' = Span(taken, n)
          /\ UNCHANGED <<uTaken, back>>
       \/ /\ back = <<>>
          /\ \E n \in 1 .. CopyBuf : /\ uTaken + n <= setup.upstreamSays
                                     /\ uTaken' = uTaken + n /\ back' = Span(uTaken, n)
          /\ UNCHANGED <<taken, held>>
    /\ UNCHANGED <<up, wired, down, phase, ended, chunk, left, fresh, lifeLeft, closing>>

CopyWrite ==
    /\ phase = "copy" /\ Moved /\ age' = Recorded
    /\ \/ \E n \in 1 .. Len(held) : Room /\ Accept(n) /\ UNCHANGED <<back, down>>
       \/ \E n \in 1 .. Len(back) : /\ down' = down \o SubSeq(back, 1, n)
                                    /\ back' = SubSeq(back, n + 1, Len(back))
                                    /\ UNCHANGED <<held, up, wired>>
    /\ UNCHANGED <<taken, uTaken, phase, ended, chunk, left, fresh, lifeLeft, closing>>

\* A direction that reads its end shuts the other side down once everything
\* before it is written; the transfer is over when both have.
CopyEof ==
    /\ phase = "copy"
    /\ \/ /\ "up" \notin closing /\ taken = ClientSays /\ setup.clientEnds
          /\ held = <<>> /\ wired = Len(up)
          /\ closing' = closing \cup {"up"}
       \/ /\ "down" \notin closing /\ uTaken = setup.upstreamSays /\ setup.upstreamEnds
          /\ back = <<>>
          /\ closing' = closing \cup {"down"}
    /\ UNCHANGED <<data, phase, ended, chunk, timers, quiet>>
TransferOver == phase = "copy" /\ closing = {"up", "down"} /\ End("closed")

----------------------------------------------------------------------------
(* Timers.                                                                 *)

Timed == phase \in {"hold", "send", "flush", "copy"} /\ Idle > 0
IdleDue == Timed /\ left = 0
\* What is left until the idle deadline counted from the last activity.
Rearm == Idle - age
IdleFires ==
    /\ IdleDue
    /\ CASE phase = "copy" /\ age >= Idle -> End("idle")
         [] phase = "copy" /\ age < Idle ->
               left' = Rearm /\ UNCHANGED <<data, phase, ended, chunk, fresh, age, lifeLeft, closing, quiet>>
         [] phase \in {"send", "flush"} /\ fresh ->
               Arm /\ UNCHANGED <<data, phase, ended, chunk, age, lifeLeft, closing, quiet>>
         [] OTHER -> End("stalled")

LifeDue == phase \notin {"off", "ended"} /\ setup.life > 0 /\ lifeLeft = 0
LifetimeOver == LifeDue /\ End("lifetime")

Tick ==
    /\ phase \notin {"off", "ended"}
    /\ Timed \/ phase = "pause" \/ setup.life > 0
    /\ ~IdleDue /\ ~LifeDue /\ ~(phase = "pause" /\ left = 0)
    /\ left' = IF left > 0 THEN left - 1 ELSE 0
    /\ lifeLeft' = IF lifeLeft > 0 THEN lifeLeft - 1 ELSE 0
    /\ age' = LesserOf(age + 1, Idle) /\ quiet' = LesserOf(quiet + 1, Idle)
    /\ UNCHANGED <<data, phase, ended, chunk, fresh, closing>>

\* Either side's connection breaks.
Breaks == phase \in {"hold", "send", "flush", "copy"} /\ \E side \in {"client broke", "upstream broke"} : End(side)

TunnelNext ==
    \/ HoldRead \/ HoldUpstream \/ HoldRelay
    \/ SendAccept \/ Drain \/ Flushed \/ PauseOver
    \/ CopyRead \/ CopyWrite \/ CopyEof \/ TransferOver
    \/ IdleFires \/ LifetimeOver \/ Tick \/ Breaks

----------------------------------------------------------------------------
(* Properties of a tunnel                                                  *)

\* No tunnel is cut while bytes are moving: when the idle timer ends a transfer,
\* or a stalled send, then for the whole idle time nothing was read from either
\* side, accepted by either side or taken by the transport below a TLS layer.
\* One end is sooner: bytes of the upstream that the accumulation relays share
\* the window of the step that read them, so a client that does not take them is
\* cut although they arrived within it.
IdleIsIdle ==
    /\ ended = "idle" => quiet >= Idle
    /\ ended = "stalled" => quiet >= Idle \/ (back # <<>> /\ up = <<>>)

\* A ClientHello is never handed to the copy loop unfinished: with fragmentation
\* on, the loop starts only when the upstream has accepted the whole hello from
\* the bounded sends, unless a side closed or the accumulator was full.
HelloAmong(n) == \E k \in 0 .. n : ClientHelloIsComplete(Prefix(setup.wire, k))
HoldGaveUp ==
    \/ taken >= HoldMax
    \/ taken = ClientSays /\ setup.clientEnds
    \/ uTaken = setup.upstreamSays /\ setup.upstreamEnds
HelloGoesWhole ==
    phase = "copy" /\ setup.frag /\ Classify(setup.wire) = "ClientHello" => HelloAmong(Len(up)) \/ HoldGaveUp

\* Both streams arrive whole and in order, across the request, the recovered
\* prefix, the held hello and the copy: nothing is lost, repeated or reordered,
\* and a tunnel that closed normally has delivered everything.
StreamsIntact ==
    /\ phase # "off" => up \o held = Span(0, taken)
    /\ down \o back = Span(0, uTaken)
    /\ wired <= Len(up)
    /\ ended = "closed" => Len(up) = ClientSays /\ wired = ClientSays /\ Len(down) = setup.upstreamSays
=============================================================================
