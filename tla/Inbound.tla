------------------------------ MODULE Inbound ------------------------------
(***************************************************************************)
(* One client connection from the accepted socket to an authenticated      *)
(* request: handle_client's address rule, the library's accept (protocol   *)
(* detection, the SOCKS5 and the HTTP CONNECT front, authentication        *)
(* through the application's closure) and what the host then does with the *)
(* request's parts.  One absolute deadline covers all of it; an operation  *)
(* that is being polled when it passes may still win the last poll.        *)
(*                                                                         *)
(* What the client sends is a script: the fields of its messages, and the  *)
(* bytes they arrive as.  SOCKS5 is read field by field, so a message is   *)
(* one position of the wire; HTTP is read in chunks of any size up to      *)
(* Chunk, so its wire is a sequence of characters in which the end of the  *)
(* head has to be found.  Writes to the client do not fail.                *)
(***************************************************************************)
EXTENDS Integers, Sequences

CONSTANTS
    Arrivals,   \* pairs of server options and client script
    MaxHeader,  \* MAX_HEADER_BYTES
    Chunk       \* the size of one read of the HTTP head

Credentials == [user : STRING, utf8 : BOOLEAN, pw : STRING, ip : BOOLEAN]
Option == [anonymous : BOOLEAN, password : BOOLEAN, retain : BOOLEAN, raw : BOOLEAN, strict : BOOLEAN,
           rule : {"none", "admits", "denies"}]
\* A wire is SOCKS5 messages ("f"), or the characters of HTTP: CR, LF and others.
Sizes ==
    /\ MaxHeader \in Nat /\ Chunk \in Nat \ {0}
    /\ \A s \in Arrivals :
          /\ s.opt \in Option /\ s.script.proto \in {"socks", "http", "other"}
          /\ s.script.wire \in Seq({"f", "r", "n", "x"})
          /\ s.script.headers \in Seq([name : STRING, shape : STRING, value : STRING, creds : Credentials])
ASSUME SizesAssumption == Sizes

VARIABLES
    opt,        \* anonymous, password, retain, raw, strict; rule: whether the
                \* global allowed_clients admits this peer
    script,     \* what the client sends
    late,       \* the client deadline has passed
    stage, err, \* where accept is, and the ServerError it ended with
    pos,        \* positions of the wire consumed
    headEnd,    \* header_end once the head is complete
    said,       \* what was written to the client
    creds,      \* the credentials being verified
    asked,      \* what verify_async was asked, in order
    req,        \* the IncomingRequest
    got         \* payload positions the host has read, in order

inboundVars == <<opt, script, late, stage, err, pos, headEnd, said, creds, asked, req, got>>

NoCredentials == [user |-> "none", utf8 |-> TRUE, pw |-> "none", ip |-> TRUE]
NoRequest == [username |-> NoCredentials, credentials |-> NoCredentials, pipeline |-> <<>>]
Done == {"accepted", "failed"}

InboundInit ==
    /\ \E s \in Arrivals : opt = s.opt /\ script = s.script
    /\ late = FALSE
    /\ stage = "new" /\ err = "none"
    /\ pos = 0 /\ headEnd = 0
    /\ said = <<>>
    /\ creds = NoCredentials /\ asked = <<>>
    /\ req = NoRequest /\ got = <<>>

----------------------------------------------------------------------------
(* Ending: an error of accept, with or without a reply.                    *)

Fail(e) ==
    /\ stage' = "failed" /\ err' = e
    /\ UNCHANGED <<opt, script, late, headEnd, creds, asked, req, got>>
ReplyAndFail(r, e) == Fail(e) /\ said' = Append(said, r)
AuthFail == ReplyAndFail("a1", "Authentication")
HttpFail(status, e) == ReplyAndFail(status, e)

\* Step to another place of accept, having read up to p and written rs.
Goto(where, p, rs) ==
    /\ stage' = where /\ pos' = p /\ said' = said \o rs
    /\ UNCHANGED <<opt, script, late, err, headEnd, creds, asked, req, got>>

Accepted(who, pipeline) ==
    /\ stage' = "accepted"
    /\ req' = [username |-> who,
               credentials |-> IF opt.retain THEN who ELSE NoCredentials,
               pipeline |-> pipeline]
    /\ UNCHANGED <<opt, script, late, err, headEnd, creds, asked, got>>

\* A read at position p of a wire the client has finished sending.
AtEnd(p) == p = Len(script.wire)
Cut(e) == AtEnd(pos) /\ script.ends = "close" /\ Fail(e) /\ UNCHANGED <<pos, said>>

----------------------------------------------------------------------------
(* global_allowed, the deadline, and the first byte.                       *)

GlobalAllowed ==
    /\ stage = "new"
    /\ IF opt.rule = "denies" THEN Fail("Rejected") /\ UNCHANGED <<pos, said>>
       ELSE Goto("phase1", pos, <<>>)

\* phase: an expired deadline refuses to poll; a live one cancels what it polls.
EnterPhase ==
    /\ stage \in {"phase1", "socks", "http"}
    /\ IF late THEN Fail("Deadline") /\ UNCHANGED <<pos, said>>
       ELSE Goto(CASE stage = "phase1" -> "first"
                   [] stage = "socks" -> "methods"
                   [] OTHER -> "head", pos, <<>>)
\* Mutant: authentication runs outside the deadline.
PollingButVerifying == stage \notin Done \cup {"new", "phase1", "socks", "http", "verifying"}
Polling == stage \notin Done \cup {"new", "phase1", "socks", "http"}
PhaseTimesOut == Polling /\ late /\ Fail("Deadline") /\ UNCHANGED <<pos, said>>

AcceptDeadlinePasses ==
    /\ ~late /\ stage \notin Done
    /\ late' = TRUE
    /\ UNCHANGED <<opt, script, stage, err, pos, headEnd, said, creds, asked, req, got>>

Detect ==
    /\ stage = "first"
    /\ \/ Cut("Closed")
       \/ /\ ~AtEnd(pos)
          /\ IF script.proto = "other"
             THEN Fail("Protocol") /\ pos' = 1 /\ UNCHANGED said
             ELSE Goto(script.proto, 1, <<>>)

----------------------------------------------------------------------------
(* socks                                                                   *)

\* Password authentication is preferred when both methods are possible.
Methods ==
    /\ stage = "methods"
    /\ \/ Cut("Io")
       \/ /\ ~AtEnd(pos)
          /\ CASE opt.password /\ 2 \in script.methods -> Goto("auth", pos + 1, <<"m2">>)
               [] ~(opt.password /\ 2 \in script.methods) /\ opt.anonymous /\ 0 \in script.methods ->
                      Goto("request", pos + 1, <<"m0">>)
               [] OTHER -> ReplyAndFail("m255", "Authentication") /\ pos' = pos + 1

\* RFC 1929.  script.auth is its framing; a field that is not UTF-8 is refused
\* unless raw credentials are on.
Subnegotiation ==
    /\ stage = "auth"
    /\ \/ Cut("Io")
       \/ /\ ~AtEnd(pos)
          /\ pos' = pos + 1
          /\ CASE script.auth = "version" -> Fail("Authentication") /\ UNCHANGED said
               [] script.auth \in {"nouser", "nopassword"} -> AuthFail
               [] OTHER ->
                     IF ~script.creds.utf8 /\ ~opt.raw THEN AuthFail
                     ELSE /\ stage' = "verify" /\ creds' = script.creds
                          /\ UNCHANGED <<opt, script, late, err, headEnd, said, asked, req, got>>

\* The reply to a request that cannot be served; one that is not SOCKS5, or
\* whose name is not text, gets none.
RequestReply == [badcommand |-> "rep7", badname |-> "rep4", badtype |-> "rep8"]
Request ==
    /\ stage = "request"
    /\ \/ Cut("Io")
       \/ /\ ~AtEnd(pos)
          /\ pos' = pos + 1
          /\ CASE script.request \in DOMAIN RequestReply -> ReplyAndFail(RequestReply[script.request], "Protocol")
               [] script.request \in {"badversion", "binaryname"} -> Fail("Protocol") /\ UNCHANGED said
               [] OTHER -> Accepted(creds, <<>>) /\ UNCHANGED said

----------------------------------------------------------------------------
(* http                                                                    *)

Blank == <<"r", "n", "r", "n">>
\* The ends of a head in the first p characters, looking from character s on.
HeadEnds(w, s, p) == {k \in s + 4 .. p : SubSeq(w, k - 3, k) = Blank}
Least(S) == CHOOSE k \in S : \A j \in S : k <= j

\* Mutant: the scan resumes one character late.
ScanFromLate == IF pos < 2 THEN 0 ELSE pos - 2

\* Where the scan resumes, so that an end split over two reads is found.
ScanFrom == IF pos < 3 THEN 0 ELSE pos - 3

ReadHead ==
    /\ stage = "head"
    /\ \/ Cut("Closed")
       \/ \E n \in 1 .. Chunk :
          LET p == pos + n
              ends == HeadEnds(script.wire, ScanFrom, p)
          IN  /\ p <= Len(script.wire)
              /\ pos' = p
              /\ CASE ends # {} /\ Least(ends) <= MaxHeader ->
                        /\ stage' = "parse" /\ headEnd' = Least(ends)
                        /\ UNCHANGED <<opt, script, late, err, said, creds, asked, req, got>>
                   [] ends = {} /\ p <= MaxHeader ->
                        UNCHANGED <<opt, script, late, stage, err, headEnd, said, creds, asked, req, got>>
                   [] OTHER -> HttpFail("431", "HeaderTooLarge")

\* strict_http::validate: "none", or the status of the first violation.  A header
\* line is plain, spaced (blanks before the colon), folded, or has no colon.
Named(h, name) == h.name = name /\ h.shape # "nocolon"
Count(headers, name) == Len(SelectSeq(headers, LAMBDA h : Named(h, name)))
ValidLine(line) == line \notin {"binary", "extra", "noversion"}
ValidVersion(line) == line # "oddversion"
ValidAuthority(line) == line \notin {"blanktarget", "badtarget", "loosetarget"}
ValidHeaders(line, headers) ==
    /\ \A i \in DOMAIN headers : headers[i].shape = "plain"
    /\ Count(headers, "host") <= 1
    /\ line # "version10" => Count(headers, "host") = 1
    /\ \A i \in DOMAIN headers : headers[i].name = "host" => headers[i].value = "uri-host"
    /\ Count(headers, "proxy-authorization") <= 1
Validate(line, headers) ==
    IF ~ValidLine(line) \/ ~ValidVersion(line) THEN "400"
    ELSE IF line = "version2" THEN "505"
    ELSE IF ~ValidAuthority(line) \/ ~ValidHeaders(line, headers) THEN "400"
    ELSE "none"

\* The status the request line alone is refused with, or "none".
LineStatus(line) ==
    CASE line \in {"binary", "noversion"} -> "400"
      [] line = "get" -> "501"
      [] line \in {"blanktarget", "badtarget"} -> "400"
      [] OTHER -> "none"

\* The first Proxy-Authorization line decides; names are trimmed first.
AuthLines == {i \in DOMAIN script.headers : Named(script.headers[i], "proxy-authorization")}
AuthLine == script.headers[Least(AuthLines)]

ParseHead ==
    /\ stage = "parse"
    /\ UNCHANGED pos
    /\ LET line == script.line
           strict == IF opt.strict THEN Validate(line, script.headers) ELSE "none"
           status == IF line # "binary" /\ strict # "none" THEN strict ELSE LineStatus(line)
       IN  IF status # "none" THEN HttpFail(status, "Protocol")
           ELSE Goto("authorise", pos, <<>>)

\* Mutant: the head is split before its blank line.
SplitEarly == [i \in 1 .. pos - headEnd + 2 |-> headEnd - 2 + i]
\* The bytes read past the head.
Split == [i \in 1 .. pos - headEnd |-> headEnd + i]
\* Not Basic, not text whatever raw_credentials says, or nobody to compare with.
UnusableAuth == AuthLine.value # "basic" \/ ~AuthLine.creds.utf8 \/ ~opt.password
\* Mutant: credentials nobody can check are ignored where anonymous access is on.
AuthoriseLoosely ==
    /\ stage = "authorise"
    /\ UNCHANGED pos
    /\ IF AuthLines = {} \/ UnusableAuth
       THEN IF opt.anonymous THEN Accepted(NoCredentials, Split) /\ UNCHANGED said
            ELSE HttpFail("407", "Authentication")
       ELSE /\ stage' = "verify" /\ creds' = AuthLine.creds
            /\ UNCHANGED <<opt, script, late, err, headEnd, said, asked, req, got>>
Authorise ==
    /\ stage = "authorise"
    /\ UNCHANGED pos
    /\ IF AuthLines = {}
       THEN IF opt.anonymous THEN Accepted(NoCredentials, Split) /\ UNCHANGED said
            ELSE HttpFail("407", "Authentication")
       ELSE IF UnusableAuth THEN HttpFail("407", "Authentication")
       ELSE /\ stage' = "verify" /\ creds' = AuthLine.creds
            /\ UNCHANGED <<opt, script, late, err, headEnd, said, asked, req, got>>

----------------------------------------------------------------------------
(* The closure: the user's own address rule, then verify_async.            *)

Refused == IF script.proto = "socks" THEN AuthFail ELSE HttpFail("407", "Authentication")
Granted ==
    IF script.proto = "socks" THEN Goto("request", pos, <<"a0">>)
    ELSE Accepted(creds, Split) /\ UNCHANGED <<pos, said>>

\* Credentials as the closure sees them: the text, lossy when not UTF-8.
Text(c) == IF c.utf8 THEN c.user ELSE "lossy"

ClientIpAllowed ==
    /\ stage = "verify"
    /\ IF creds.ip
       THEN /\ stage' = "verifying" /\ asked' = Append(asked, Text(creds))
            /\ UNCHANGED <<opt, script, late, err, pos, headEnd, said, creds, req, got>>
       ELSE Refused /\ UNCHANGED pos

VerifyAnswers ==
    /\ stage = "verifying"
    /\ IF creds.pw = "right" THEN Granted ELSE Refused /\ UNCHANGED pos

----------------------------------------------------------------------------
(* The host: the parts of the request are taken at most once, and the      *)
(* payload is read through Prefixed.                                       *)

Host(r) ==
    /\ req' = r
    /\ UNCHANGED <<opt, script, late, stage, err, pos, headEnd, said, creds, asked, got>>
TakeUsername == stage = "accepted" /\ req.username # NoCredentials /\ Host([req EXCEPT !.username = NoCredentials])
TakeCredentials == stage = "accepted" /\ req.credentials # NoCredentials /\ Host([req EXCEPT !.credentials = NoCredentials])

\* A read returns prefix bytes only, or stream bytes only.
ReadPrefixed ==
    /\ stage = "accepted"
    /\ \E n \in 1 .. Chunk :
          IF req.pipeline # <<>>
          THEN /\ n <= Len(req.pipeline)
               /\ got' = got \o SubSeq(req.pipeline, 1, n)
               /\ req' = [req EXCEPT !.pipeline = SubSeq(@, n + 1, Len(@))]
               /\ UNCHANGED pos
          ELSE /\ pos + n <= Len(script.wire)
               /\ got' = got \o [i \in 1 .. n |-> pos + i]
               /\ pos' = pos + n
               /\ UNCHANGED req
    /\ UNCHANGED <<opt, script, late, stage, err, headEnd, said, creds, asked>>

InboundNext ==
    \/ GlobalAllowed \/ EnterPhase \/ PhaseTimesOut \/ AcceptDeadlinePasses
    \/ Detect \/ Methods \/ Subnegotiation \/ Request
    \/ ReadHead \/ ParseHead \/ Authorise \/ ClientIpAllowed \/ VerifyAnswers
    \/ TakeUsername \/ TakeCredentials \/ ReadPrefixed

\* Time passes, and tokio polls a task whose timer has fired or whose next
\* step needs no input; the client and the verification owe nothing.
InboundFairness ==
    /\ WF_inboundVars(GlobalAllowed) /\ WF_inboundVars(EnterPhase)
    /\ WF_inboundVars(AcceptDeadlinePasses) /\ WF_inboundVars(PhaseTimesOut)

InboundSpec == InboundInit /\ [][InboundNext]_inboundVars /\ InboundFairness

----------------------------------------------------------------------------
(* Properties                                                              *)

\* Every way of supplying credentials the client used.
Supplied == IF script.proto = "socks" THEN {script.creds}
            ELSE {script.headers[i].creds : i \in AuthLines}

\* accept lets a client through only on the terms of the options, whichever
\* protocol it speaks: a peer the global rule admits; a named client was
\* verified exactly once, by the name it sent, with the right password and from
\* an address of its own rule, and its credentials are text unless they came by
\* SOCKS5 and raw_credentials is on; an anonymous one only where anonymous access
\* is on, and never one that asked to be authenticated and failed.
Readable(c) == c.utf8 \/ (script.proto = "socks" /\ opt.raw)
AcceptedIsAuthorised ==
    stage = "accepted" =>
        /\ opt.rule # "denies"
        /\ IF creds = NoCredentials
           THEN opt.anonymous /\ asked = <<>> /\ (\A i \in DOMAIN said : said[i] # "m2")
                /\ (script.proto = "http" => Supplied = {})
           ELSE /\ opt.password /\ asked = <<Text(creds)>>
                /\ creds \in Supplied /\ Readable(creds) /\ creds.pw = "right" /\ creds.ip
                /\ req.username \in {NoCredentials, creds} /\ req.credentials \in {NoCredentials, creds}

\* The end of the head is found, and the 16 KiB limit applied, identically for
\* every way the bytes are cut into reads.
TrueEnds == HeadEnds(script.wire, 0, Len(script.wire))
HeadIsChunkIndependent ==
    /\ headEnd # 0 => headEnd = Least(TrueEnds)
    /\ err = "HeaderTooLarge" => \A k \in TrueEnds : k > MaxHeader
    /\ headEnd # 0 => headEnd <= MaxHeader

\* A SOCKS5 exchange is the first byte, the methods, the RFC 1929 message if
\* that method is agreed on, and the request.
SocksFrames(o, methods) == IF o.password /\ 2 \in methods THEN 4 ELSE 3
PayloadStart == IF script.proto = "http" THEN Least(TrueEnds) ELSE SocksFrames(opt, script.methods)

\* The host reads the client's payload whole, once and in order: what accept
\* read past the request comes first, then the rest of the stream.
PayloadIntact ==
    stage = "accepted" =>
        got \o req.pipeline = [i \in 1 .. pos - PayloadStart |-> PayloadStart + i]

\* accept returns: by the deadline at the latest, whatever the client sends or
\* withholds and however long the verification takes.
AcceptReturns == <>(stage \in Done)
=============================================================================
