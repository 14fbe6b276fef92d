---------------------------- MODULE MCDcapEngine ----------------------------
(* Two overlapping calls, a genuine quote of one platform and a quote of    *)
(* another platform that is not genuine.                                    *)
EXTENDS DcapEngine

CONSTANTS c1, c2, q1, q2, f1, f2, r1, r2

MCCallers   == {c1, c2}
MCQuotes    == {q1, q2}
MCPlatforms == {f1, f2}
MCPlatform  == [q \in MCQuotes |-> IF q = q1 THEN f1 ELSE f2]
MCGenuine   == {q1}
MCRequests  == {r1, r2}
=============================================================================
