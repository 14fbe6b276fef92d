------------------------- MODULE MCPolicyStateStore -------------------------
(* Small instances of PolicyStateStore: three sequences, one of them forked. *)
EXTENDS PolicyStateStore

CONSTANTS c1, c2, c3

MCCallers == {c1, c2, c3}
MCCheckpoints == { [seq |-> 1, sha |-> 1], [seq |-> 2, sha |-> 1],
                   [seq |-> 2, sha |-> 2], [seq |-> 3, sha |-> 1] }
=============================================================================
