--------------------------- MODULE MCClientCalls ---------------------------
(* A small instance of ClientCalls.                                         *)
EXTENDS ClientCalls, TLC

CONSTANTS m1, m2, k1, k2

MCDeployments ==
    {[split |-> TRUE,  bound |-> TRUE,  loopback |-> FALSE],
     [split |-> TRUE,  bound |-> FALSE, loopback |-> FALSE],
     [split |-> FALSE, bound |-> FALSE, loopback |-> FALSE],
     [split |-> FALSE, bound |-> FALSE, loopback |-> TRUE]}
MCProviders == {"near-ai", "other", "venice", "chutes"}
MCModels == {m1, m2}
MCKeys   == {k1, k2}
MCSymmetry == Permutations(MCModels) \cup Permutations(MCKeys)
=============================================================================
