-------------------------- MODULE MCBoundOperation --------------------------
(* A small instance of BoundOperation.                                     *)
EXTENDS BoundOperation

CONSTANTS k1, p1, p2

MCPins     == {k1}
MCPolicies == {p1, p2}
MCMaxAge   == [p \in MCPolicies |-> 1]
\* A document that the second policy alone approves, so that a refresh is
\* needed half of the time, with a chain that holds or does not.
MCEvidences == {[chain |-> c, spki |-> k1, approves |-> {p2}, issued |-> 0] :
                   c \in BOOLEAN}
MCExpiries == {NoExpiry, 1}
=============================================================================
