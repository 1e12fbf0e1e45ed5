----------------------------- MODULE MCInbound -----------------------------
(* Scripts of one client.  The SOCKS5 scripts vary the messages, the first *)
(* HTTP scripts the head, the others the bytes around its end.             *)
EXTENDS Inbound

Opts == {[anonymous |-> a, password |-> p, retain |-> l, raw |-> l, strict |-> s, rule |-> r] :
            a, p, l, s \in BOOLEAN, r \in {"none", "admits", "denies"}}
Lenient == {o \in Opts : ~o.strict /\ o.rule = "none"}

Cred(u, utf8, pw, ip) == [user |-> u, utf8 |-> utf8, pw |-> pw, ip |-> ip]
Creds == {Cred("ann", TRUE, pw, ip) : pw \in {"right", "wrong"}, ip \in BOOLEAN}
         \cup {Cred("bytes", FALSE, "right", TRUE)}

Script(proto, wire, ends, methods, auth, c, request, line, headers) ==
    [proto |-> proto, wire |-> wire, ends |-> ends, methods |-> methods,
     auth |-> auth, creds |-> c, request |-> request, line |-> line, headers |-> headers]

SocksWire(n, m) == [i \in 1 .. n + m |-> "f"]
Socks(cut, ends, frames, ms, auth, c, request) ==
    Script("socks", SubSeq(SocksWire(frames, 2), 1, cut), ends, ms, auth, c, request, "none", <<>>)
SocksSetups ==
    {[opt |-> o, script |-> Socks(SocksFrames(o, ms) + 2, "open", SocksFrames(o, ms), ms, auth, c, r)] :
        o \in Lenient, ms \in SUBSET {0, 2}, auth \in {"ok", "version", "nouser", "nopassword"}, c \in Creds,
        r \in {"ip", "name", "badversion", "badcommand", "badname", "binaryname", "badtype"}}
    \cup {[opt |-> o, script |-> Socks(cut, e, SocksFrames(o, {0, 2}), {0, 2}, "ok", Cred("ann", TRUE, "right", TRUE), "ip")] :
        o \in Lenient, cut \in 0 .. 4, e \in {"close", "open"}}

Lines == {"version11", "version10", "version2", "oddversion", "binary", "extra", "noversion", "get",
          "blanktarget", "badtarget", "loosetarget"}
H(name, shape, value) == [name |-> name, shape |-> shape, value |-> value, creds |-> NoCredentials]
HostLine == H("host", "plain", "uri-host")
Basic(shape, c) == [H("proxy-authorization", shape, "basic") EXCEPT !.creds = c]
Unusable(shape) == H("proxy-authorization", shape, "unusable")
HeaderSets ==
    {<<>>, <<HostLine>>, <<HostLine, HostLine>>, <<H("host", "plain", "empty")>>, <<HostLine, H("other", "nocolon", "x")>>}
    \cup {<<HostLine, Basic(sh, c)>> : sh \in {"plain", "spaced", "folded", "nocolon"}, c \in Creds}
    \cup {<<HostLine, Unusable(sh)>> : sh \in {"plain", "spaced"}}
    \cup {<<HostLine, Basic("plain", c), Basic("plain", d)>> : c, d \in Creds}

X(n) == [i \in 1 .. n |-> "x"]
Http(wire, ends, line, hs) == Script("http", wire, ends, {}, "none", NoCredentials, "none", line, hs)
HttpSetups ==
    {[opt |-> o, script |-> Http(X(2) \o Blank, "open", l, hs)] :
        o \in {o \in Opts : o.rule = "none"}, l \in Lines, hs \in HeaderSets}
    \cup {[opt |-> o, script |-> Http(w, e, "version11", <<HostLine>>)] :
        o \in {o \in Lenient : ~o.raw}, e \in {"open", "close"},
        w \in {X(n) \o Blank \o X(m) : n \in 1 .. 6, m \in 0 .. 4}
              \cup {X(n) \o <<"r", "n">> \o X(k) \o Blank \o Blank \o X(1) : n \in 1 .. 2, k \in 0 .. 3}
              \cup {X(n) \o <<"r", "n", "r">> \o Blank : n \in 1 .. 3}
              \cup {X(n) : n \in {1, 4, 9}}}
Others == {[opt |-> o, script |-> Script("other", X(n), e, {}, "none", NoCredentials, "none", "none", <<>>)] :
              o \in Opts, n \in 0 .. 1, e \in {"open", "close"}}

MCArrivals == SocksSetups \cup HttpSetups \cup Others
=============================================================================
