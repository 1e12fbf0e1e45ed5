------------------------------ MODULE MCServer ------------------------------
(* Two clients and one slot: with two handlers and a stderr that can get   *)
(* stuck, with one handler and a log file that may fail, and without on a  *)
(* stdout or a file that can get stuck.  The lists of upstreams vary along *)
(* with these.                                                             *)
EXTENDS Server

CONSTANTS c1, c2

Entry(l, k, id) == [list |-> l, level |-> k, ok |-> TRUE, id |-> id]
One == <<Entry("v4", 0, 1)>>
GateOnly == <<Entry("v4", 1, 1)>>
Unparsed == <<[Entry("v6", 0, 1) EXCEPT !.ok = FALSE], Entry("v6", 2, 2)>>
TwoLevels == <<Entry("v4", 1, 1), Entry("v6", 2, 2), Entry("v4", 0, 3)>>
Mixed == <<Entry("v6", 0, 1), Entry("v4", 2, 2), Entry("v6", 1, 3), Entry("v6", 1, 4), Entry("v4", 0, 5)>>

Serving(l, blocked) ==
    [entries |-> l, direct |-> (l = <<>>), blocked |-> blocked, file |-> "off", alsoConsole |-> FALSE,
     wedge |-> None, probe |-> FALSE]
Log(s, f, a, w, p) == [s EXCEPT !.file = f, !.alsoConsole = a, !.wedge = w, !.probe = p]
MCSetups ==
    {Serving(GateOnly, {}), Serving(Unparsed, {}),
     Log(Serving(One, {}), "unopenable", FALSE, "stderr", FALSE),
     Log(Serving(TwoLevels, {c2}), "ok", FALSE, None, FALSE),
     Log(Serving(Mixed, {c1, c2}), "ok", TRUE, "stdout", FALSE),
     Log(Serving(<<>>, {c1, c2}), "ok", FALSE, "file", TRUE)}
=============================================================================
