------------------------ MODULE MCRetainedOperation ------------------------
(* Small instances of RetainedOperation.                                   *)
EXTENDS RetainedOperation

CONSTANTS k1, k2, p1, p2

MCPins     == {k1, k2}
MCPolicies == {p1, p2}
\* The refreshed policy accepts older evidence than the first one.
MCMaxAge   == [p \in MCPolicies |-> IF p = p1 THEN 1 ELSE 2]
\* Approved as pinned; approved only after a refresh; a broken chain; a quote
\* bound to another key; evidence that never was approved.
MCEvidences ==
    { [chain |-> TRUE,  spki |-> k1, approves |-> {p1}, issued |-> 1],
      [chain |-> TRUE,  spki |-> k1, approves |-> {p2}, issued |-> 0],
      [chain |-> FALSE, spki |-> k1, approves |-> {p1, p2}, issued |-> 1],
      [chain |-> TRUE,  spki |-> k2, approves |-> {p2}, issued |-> 0] }
MCExpiries == {NoExpiry, 2}
=============================================================================
