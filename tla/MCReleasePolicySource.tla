----------------------- MODULE MCReleasePolicySource -----------------------
(* Small instances of ReleasePolicySource: two callers in one process, one in *)
(* another; a first policy, a revoking one with a fork, one that reverses the *)
(* revocation.                                                             *)
EXTENDS ReleasePolicySource

CONSTANTS c1, c2, c3, p, q, t

MCCallers   == {c1, c2, c3}
MCProcesses == {p, q}
MCProcess   == [c \in MCCallers |-> IF c = c3 THEN q ELSE p]
MCOne       == {p}
MCPair      == {c1, c2}
MCPairInOne == [c \in MCPair |-> p]
MCSigned == { [seq |-> 1, sha |-> 1, revoked |-> {t}],
              [seq |-> 2, sha |-> 1, revoked |-> {t}],
              [seq |-> 2, sha |-> 2, revoked |-> {}] }
MCCheckpoints == {[seq |-> r.seq, sha |-> r.sha] : r \in MCSigned}
=============================================================================
