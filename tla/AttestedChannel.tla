-------------------------- MODULE AttestedChannel --------------------------
(***************************************************************************)
(* What a retained gateway operation promises the code that uses it        *)
(* (RetainedGatewayOperation in gateway/retained-operation-node.ts): a     *)
(* channel that carries content only between its attestation and its end,  *)
(* never comes back, and carries at most one paid request.                 *)
(***************************************************************************)
CONSTANT Content       \* kinds of content request; one of them is "paid"

VARIABLES phase,       \* "unverified", "attested" or "ended"
          sent         \* the content requests carried: <<number, kind>>

vars == <<phase, sent>>

\* A caller may have given up before the operation starts.
Init == phase \in {"unverified", "ended"} /\ sent = {}

Attest == phase = "unverified" /\ phase' = "attested" /\ UNCHANGED sent

Send(m) ==
    /\ phase = "attested"
    /\ m[2] \in Content
    /\ \A s \in sent : s[1] # m[1]
    /\ m[2] = "paid" => \A s \in sent : s[2] # "paid"
    /\ sent' = sent \cup {m}
    /\ UNCHANGED phase

End == phase # "ended" /\ phase' = "ended" /\ UNCHANGED sent

Next == Attest \/ End \/ \E m \in sent' : Send(m)

Spec == Init /\ [][Next]_vars
=============================================================================
