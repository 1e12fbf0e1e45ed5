------------------------------ MODULE Payload ------------------------------
(***************************************************************************)
(* What the first bytes of a client say: whether they are a TLS            *)
(* ClientHello, whether it is complete, which host they name, and whether  *)
(* more bytes could still change the answer.  The functions are applied to *)
(* ever longer prefixes of a stream.                                       *)
(*                                                                         *)
(* The wire format is scaled down: a record header is a content type and a *)
(* length (5 bytes in the code), a handshake header a message type and a   *)
(* length (4 bytes), and ServerName is the last byte of a server_name      *)
(* extension.  The version bytes of the record header are left out, and    *)
(* with them the check of the major version; the content type alone says   *)
(* what a record is.  An HTTP stream is a sequence of the tokens below.    *)
(***************************************************************************)
EXTENDS Integers, Sequences, SequencesExt

\* Content and message types.
Handshake == 22
ClientHello == 1
ServerName == 9
RecordHeader == 2
MessageHeader == 2

\* Tokens of an HTTP stream: a request line with and without an HTTP/1
\* version, a Host and another header line, all without their line ends.
RequestLine == 101
OtherLine == 102
HostHeader == 103
OtherHeader == 104
Words == {RequestLine, OtherLine, HostHeader, OtherHeader}
CR == 113
LF == 110

None == "none"
Prefix(d, n) == SubSeq(d, 1, n)
Holds(d, s) == \E i \in 1 .. Len(d) - Len(s) + 1 : SubSeq(d, i, i + Len(s) - 1) = s
LesserOf(a, b) == IF a < b THEN a ELSE b

----------------------------------------------------------------------------
(* tls_records                                                             *)

\* walk_records: complete record headers, the last payload clipped.
Records(d) ==
    LET from[p \in 0 .. Len(d)] ==
            IF p + RecordHeader > Len(d) THEN <<>>
            ELSE LET last == LesserOf(p + RecordHeader + d[p + 2], Len(d))
                 IN  <<[type |-> d[p + 1], start |-> p + RecordHeader + 1, last |-> last]>> \o from[last]
    IN  from[0]

\* The leading run of handshake records and the bytes they carry.
HandshakeRun(d) ==
    LET rs == Records(d)
        run == {k \in 0 .. Len(rs) : \A j \in 1 .. k : rs[j].type = Handshake}
    IN  Prefix(rs, CHOOSE k \in run : \A j \in run : j <= k)
Carried(d) == FlattenSeq([i \in DOMAIN HandshakeRun(d) |->
                 SubSeq(d, HandshakeRun(d)[i].start, HandshakeRun(d)[i].last)])

IsHandshake(d) == HandshakeRun(d) # <<>>
Complete(d) == LET m == Carried(d)
               IN  Len(m) >= MessageHeader /\ Len(m) >= MessageHeader + m[2]
IsHello(d) == Carried(d) # <<>> /\ Carried(d)[1] = ClientHello
\* message_bytes: later messages in the same records are left out.
Message(d) == IF Complete(d) THEN Prefix(Carried(d), MessageHeader + Carried(d)[2]) ELSE Carried(d)
\* Whether a further record could carry on the message.
Extendable(d) ==
    LET run == HandshakeRun(d)
        next == run[Len(run)].last + 1
    IN  next <= Len(d) => d[next] = Handshake

ClientHelloIsComplete(d) == IsHandshake(d) /\ Complete(d) /\ IsHello(d)
\* Mutant: a hello is taken to fit one record.
ClientHelloInOneRecord(d) ==
    /\ d # <<>> => d[1] = Handshake
    /\ IF IsHandshake(d)
       THEN (Carried(d) = <<>> \/ IsHello(d)) /\ ~Complete(d) /\ Len(d) < RecordHeader + d[2]
       ELSE Len(d) < RecordHeader
ClientHelloMightContinue(d) ==
    /\ d # <<>> => d[1] = Handshake
    /\ IF IsHandshake(d)
       THEN (Carried(d) = <<>> \/ IsHello(d)) /\ ~Complete(d) /\ Extendable(d)
       ELSE Len(d) < RecordHeader

\* classify_client_hello: the signature spans the record header and one byte.
Classify(d) ==
    CASE d = <<>> -> "Indeterminate"
      [] d # <<>> /\ d[1] # Handshake -> "Other"
      [] d # <<>> /\ d[1] = Handshake /\ Len(d) <= RecordHeader -> "Indeterminate"
      [] OTHER -> IF d[RecordHeader + 1] = ClientHello THEN "ClientHello" ELSE "Other"

----------------------------------------------------------------------------
(* recover_host                                                            *)

ParseSni(d) ==
    IF /\ IsHandshake(d) /\ Len(Message(d)) >= MessageHeader
       /\ Message(d)[1] = ClientHello
       /\ ServerName \in Range(SubSeq(Message(d), MessageHeader + 1, Len(Message(d))))
    THEN "sni" ELSE None
SniMightStillAppear(d) == ClientHelloMightContinue(d)

\* crlf_line: the complete lines of d, each without its line end.
Lines(d) ==
    LET from[p \in 1 .. Len(d) + 1] ==
            LET ends == {k \in p .. Len(d) - 1 : d[k] = CR /\ d[k + 1] = LF}
            IN  IF ends = {} THEN <<>>
                ELSE LET k == CHOOSE k \in ends : \A j \in ends : k <= j
                     IN  <<SubSeq(d, p, k - 1)>> \o from[k + 2]
    IN  from[1]
IsHttp1RequestLine(line) == line # <<>> /\ Last(line) = RequestLine

\* A header's name is trimmed, of line ends that belong to no CRLF as well.
NamesHost(line) == \E k \in DOMAIN line : line[k] = HostHeader /\ \A j \in 1 .. k - 1 : line[j] \in {CR, LF}
\* The first Host line before the blank line; lines without one are skipped.
ParseHttpHost(d) ==
    LET ls == Lines(d)
        open == {k \in 2 .. Len(ls) : \A j \in 2 .. k : ls[j] # <<>>}
    IN  IF ls # <<>> /\ IsHttp1RequestLine(ls[1]) /\ \E k \in open : NamesHost(ls[k])
        THEN "host" ELSE None
HttpHostMightStillAppear(d) ==
    IF d = <<>> THEN TRUE
    ELSE LET feeds == {k \in DOMAIN d : d[k] = LF}
             first == CHOOSE k \in feeds : \A j \in feeds : k <= j
         IN  /\ d[1] \in Words
             /\ feeds # {} => /\ first > 1 /\ d[first - 1] = CR
                              /\ IsHttp1RequestLine(Prefix(d, first - 2))
             /\ ~Holds(d, <<CR, LF, CR, LF>>) /\ ~Holds(d, <<LF, LF>>)

Recovered(d) == IF ParseSni(d) # None THEN ParseSni(d) ELSE ParseHttpHost(d)
\* read_recovery_prefix stops reading.
Decided(d) ==
    \/ Recovered(d) # None
    \/ ~SniMightStillAppear(d) /\ ~HttpHostMightStillAppear(d)
=============================================================================
