---------------------------- MODULE ClientCalls ----------------------------
(***************************************************************************)
(* The calls of the confidential client (client.ts, media.ts, transport/): *)
(* chat, verify, verifyRoute and the media calls.  A call sends a few HTTP *)
(* requests one after the other to two origins: the control origin, which  *)
(* holds the account and mints tickets, and the inference origin, which    *)
(* serves evidence and takes content.  Every await of the code is a place  *)
(* where the caller's signal may fire and, in bound mode, the retained     *)
(* connection may end; an action runs from one await to the next.  The     *)
(* retained connection is AttestedChannel, which RetainedOperation         *)
(* implements.                                                             *)
(***************************************************************************)
EXTENDS Integers, Sequences

CONSTANTS
    Deployments,  \* configurations: [split, bound, loopback : BOOLEAN]
    Providers,    \* a subset of {"near-ai", "other", "venice", "chutes"}
    Models,       \* catalog and provider-native model names
    Keys,         \* enclave encryption keys
    MaxCalls      \* bound: calls of one client

ASSUME DeploymentsAssumption ==
    /\ Deployments \subseteq [split : BOOLEAN, bound : BOOLEAN, loopback : BOOLEAN]
    /\ \A d \in Deployments : d.bound => d.split     \* createClient refuses others
ASSUME MaxCallsAssumption == MaxCalls \in Nat

VARIABLES
    deploy,       \* the client's configuration
    call,         \* the call in progress, or the last one
    signal,       \* its AbortSignal: "live", "abort" or "timeout"
    phase, sent,  \* the retained connection of the call (AttestedChannel)
    wire,         \* history: the requests that left the client
    accepted      \* history: what the attestation the call went by says

vars == <<deploy, call, signal, phase, sent, wire, accepted>>

Channel == INSTANCE AttestedChannel WITH Content <- {"tee", "paid"}

None  == "none"
NoAtt == [nonces |-> {}, own |-> 0, key |-> None, fault |-> None,
          named |-> FALSE, route |-> FALSE, opaque |-> FALSE]

----------------------------------------------------------------------------
(* Requests                                                                *)

\* A request: the call, the endpoint, the origin, whether the API key is in its
\* headers, its ticket (the place in `wire` of the request that minted it), its
\* body and the key an encrypted body is sealed to.
ToControl(path, body) ==
    [call |-> call.n, path |-> path, to |-> "control", key |-> TRUE,
     ticket |-> 0, body |-> body, seal |-> None]

ToInference(path, ticket, body, seal) ==
    [call |-> call.n, path |-> path, to |-> "inference", key |-> FALSE,
     ticket |-> ticket, body |-> body, seal |-> seal]

\* The hop 1 evidence of an unbound client is public; the legacy evidence GET
\* is the one inference request that carries the key.
GatewayGet == ToInference("gateway", 0, "nonce", None)
KeyGet     == [ToInference("keyGet", 0, "nonce", None) EXCEPT !.key = TRUE]

Retained(r) == deploy.bound /\ r.to = "inference"

\* fetch with an aborted signal, and the retained fetch after the operation
\* ended, reject before anything is sent.
Reaches(r) == signal = "live" /\ (Retained(r) => phase = "attested")

\* Call fetch and wait for it; c is the call's new local state.
Request(c, r) ==
    /\ call' = [c EXCEPT !.pc = r.path]
    /\ \/ /\ Reaches(r)
          /\ wire' = Append(wire, r)
          /\ \/ /\ Retained(r)
                /\ Channel!Send(<<Len(wire'), IF r.path = "content" THEN "paid"
                                                                  ELSE "tee">>)
             \/ ~Retained(r) /\ UNCHANGED <<phase, sent>>
       \/ ~Reaches(r) /\ UNCHANGED <<wire, phase, sent>>
    /\ UNCHANGED <<deploy, signal>>

\* The awaited request left, so that it can be answered.
Latest   == wire[Len(wire)]
Answered == wire # <<>> /\ Latest.call = call.n /\ Latest.path = call.pc

Goto(c, pc) == /\ call' = [c EXCEPT !.pc = pc]
               /\ UNCHANGED <<deploy, signal, phase, sent, wire>>

----------------------------------------------------------------------------
(* The end of a call                                                       *)

\* finally { transport.dispose(session) } runs however the call ends.
Disposes(code) == TRUE

\* The call returns (code None) or throws.  withBoundOperation's finally closes
\* the connection.  resp is what became of the per-request response key.
Settle(c, code, resp) ==
    /\ call' = [c EXCEPT !.pc = "over", !.err = code, !.resp = resp,
                  !.session = IF @ = "live" /\ Disposes(code) THEN "disposed"
                                                               ELSE @]
    /\ phase' = IF deploy.bound THEN "ended" ELSE phase
    /\ UNCHANGED <<deploy, signal, sent, wire>>

Throw(code) == Settle(call, code, call.resp)

\* throwIfAborted, and the catch of a rejected fetch.
Cancelled     == signal # "live"
CatchAs(code) == Throw(IF Cancelled THEN "cancelled" ELSE code)

----------------------------------------------------------------------------
(* Starting                                                                *)

NewCall(n, kind, prov, model, gate, valid) ==
    [n |-> n, kind |-> kind, prov |-> prov, model |-> model, gate |-> gate,
     valid |-> valid, pc |-> "run", hop |-> "not-requested", ticket |-> 0,
     key |-> None, session |-> None, resp |-> None, trusted |-> FALSE,
     err |-> None]

IsMedia == call.kind = "media"
IsChat  == call.kind = "chat"
Verifies == call.kind \in {"verify", "verifyRoute"}

\* refusePerCallReplacement: required binding cannot be turned off per call.
ReplacesBinding(gate) == deploy.bound /\ gate = "off"

\* assertSplitOrigins: media needs two origins, except on a loopback host.
SplitOrigins == deploy.split \/ deploy.loopback

\* The caller calls chat, verify, verifyRoute or a media method.  The bound
\* client opens its connection before anything else.
Begin ==
    /\ call.pc \in {"idle", "over"} /\ call.n < MaxCalls
    /\ \E kind \in {"chat", "verify", "verifyRoute", "media"}, prov \in Providers,
          model \in Models, valid \in BOOLEAN, gate \in {"unset", "on", "off"} :
          LET c == NewCall(call.n + 1, kind, prov, model, gate, valid)
          IN  /\ kind = "media" => gate = "unset"
              /\ call' = IF \/ ReplacesBinding(gate)
                            \/ kind = "media" /\ ~SplitOrigins
                         THEN [c EXCEPT !.pc = "over", !.err = "unsupported_request"]
                         ELSE IF deploy.bound THEN [c EXCEPT !.pc = "open"] ELSE c
    /\ signal' = "live" /\ phase' = "unverified" /\ sent' = {}
    /\ accepted' = NoAtt
    /\ UNCHANGED <<deploy, wire>>

\* openBoundOperation returns an attested connection ...
Opened == /\ call.pc = "open" /\ signal = "live"
          /\ Channel!Attest
          /\ call' = [call EXCEPT !.pc = "run", !.hop = "ok"]
          /\ UNCHANGED <<deploy, signal, wire, accepted>>

\* What resolveGatewayPolicy throws.  A policy source, aborted or not, throws its
\* own GatewayPolicyError.
PolicyErrors == {"measurement_untrusted", "unsupported_request", "policy_error"}

\* ... or throws one of the codes of BoundOperation.
OpenThrows ==
    /\ call.pc = "open"
    /\ \/ Cancelled /\ Throw("cancelled")
       \/ \E code \in PolicyErrors \cup {"attestation_untrusted", "attestation_failed"} :
             Throw(code)
    /\ UNCHANGED accepted

\* verifyRoute turns a failed provider hop into an untrusted verdict.
Reported(code) == IF call.kind = "verifyRoute" /\ code # "cancelled" THEN None
                                                                     ELSE code
Refuse(code)   == Throw(Reported(code))
RefuseAs(code) == Refuse(IF Cancelled THEN "cancelled" ELSE code)

----------------------------------------------------------------------------
(* Hop 1 of an unbound client: gatewayHop                                  *)

\* Mutant: the key goes out without looking at the connection.
DispatchUnchecked == TRUE

\* assertDispatchAllowed of the retained operation.
DispatchAllowed == deploy.bound => phase = "attested"

\* POST /v1/inference/attestation-tickets, after attestRoute looked at the
\* caller's nonce.  A refusal of the guard is the retained operation's own error,
\* not a ConfidentialError.
MintAttestation(c) ==
    \/ ~c.valid /\ Settle(c, Reported("unsupported_request"), c.resp)
    \/ c.valid /\ DispatchAllowed /\ Request(c, ToControl("attTicket", "route"))
    \/ c.valid /\ ~DispatchAllowed /\ Settle(c, Reported("retained_error"), c.resp)

\* chat and verify start: local checks (provider, withheld route, messages,
\* output limit), then hop 1 if it was asked for and the connection does not
\* already answer for it.
Run ==
    /\ call.pc = "run" /\ ~IsMedia
    /\ \/ /\ IsChat /\ ~call.valid
          /\ \E code \in {"provider_unsupported", "unsupported_request"} : Throw(code)
       \/ /\ call.valid \/ Verifies
          /\ IF call.gate = "on" /\ ~deploy.bound THEN Goto(call, "policy")
                                                 ELSE MintAttestation(call)
    /\ UNCHANGED accepted

\* Mutant: chat goes on when hop 1 could not be established.
HopRequiredUnlessFailed(status) == IsChat /\ status = "failed"

\* chat refuses any status but "ok"; verify reports it and goes on.
HopRefused(status) == IsChat /\ status # "ok"

HopDone(status) ==
    LET c == [call EXCEPT !.hop = status]
    IN  IF HopRefused(status) THEN Settle(c, "attestation_untrusted", c.resp)
                              ELSE MintAttestation(c)

\* resolveGatewayPolicy: a policy, none for this origin, or a refusal.
HopPolicy ==
    /\ call.pc = "policy"
    /\ \/ Request(call, GatewayGet)
       \/ HopDone("unpinned")
       \/ \E code \in PolicyErrors : Throw(code)
    /\ UNCHANGED accepted

\* fetchGatewayEvidence: a document, "this deployment serves none", an error.
HopEvidence ==
    /\ call.pc = "gateway"
    /\ \/ Answered /\ Goto(call, "hopVerify")
       \/ Answered /\ HopDone("unavailable")
       \/ Answered /\ \E code \in {"attestation_failed", "evidence_invalid"} : Throw(code)
       \/ CatchAs("attestation_failed")
    /\ UNCHANGED accepted

\* verifyGatewayEvidence: a verdict, an approval that expired meanwhile, or
\* evidence of a release the policy does not know yet, judged once more under a
\* refreshed policy.
HopVerify ==
    /\ call.pc \in {"hopVerify", "hopRefresh"}
    /\ \/ \E status \in {"ok", "failed"} : HopDone(status)
       \/ \E code \in PolicyErrors : Throw(code)
       \/ call.pc = "hopVerify" /\ Goto(call, "hopRefresh")
    /\ UNCHANGED accepted

----------------------------------------------------------------------------
(* Evidence                                                                *)

\* What the relay may answer.  Echoes are absent or name some route; a verdict
\* is absent or was made for some nonce; the evidence was made for some nonce.
\* A fault is what a check of the client would find wrong: with the quote itself,
\* what it measures, the identity it binds, the encryption key, the GPU evidence.
Nonces  == 0..MaxCalls
Verdicts  == [fault : {None, "absent", "status", "modality", "opaque", "level"},
              nonce : Nonces, key : Keys]
Faults == {None, "quote", "measurement", "binding", "key", "gpu"}
Evidences == [fault : Faults,
              nonce : Nonces, model : Models, key : Keys]

HonestEcho == [prov |-> call.prov, model |-> call.model, class |-> "e2ee",
               protocol |-> "right", upstream |-> None]
HonestEvidence(k) == [fault |-> None, nonce |-> call.n, model |-> call.model, key |-> k]
HonestVerdict(k)  == [fault |-> None, nonce |-> call.n, key |-> k]

\* Bound: one field of the echo, or the verdict, or the evidence is not the
\* honest one.
Echoes ==      {[HonestEcho EXCEPT !.prov = p]     : p \in Providers \cup {None}}
          \cup {[HonestEcho EXCEPT !.model = m]    : m \in Models \cup {None}}
          \cup {[HonestEcho EXCEPT !.class = c]    : c \in {None, "tee"}}
          \cup {[HonestEcho EXCEPT !.protocol = c] : c \in {None, "wrong"}}
          \cup {[HonestEcho EXCEPT !.upstream = m] : m \in Models}
Replies(e, v, d) == [echo : e, verdict : v, evidence : d]
Attestations == UNION
    {     Replies(Echoes, {HonestVerdict(k)}, {HonestEvidence(k)})
     \cup Replies({HonestEcho}, Verdicts, {HonestEvidence(k)})
     \cup Replies({HonestEcho}, {HonestVerdict(k)}, Evidences) : k \in Keys}

Upstream(att) == IF att.echo.upstream = None THEN call.model ELSE att.echo.upstream

\* History: for which nonces the verdict and the evidence were made, the key of
\* the evidence, what is wrong with it, whether it is for the model the relay names
\* upstream, and whether the echo fits the route and its encryption.
Facts(att) == [nonces |-> {att.verdict.nonce, att.evidence.nonce},
               own    |-> att.evidence.nonce,
               key    |-> att.evidence.key,
               fault  |-> att.evidence.fault,
               named  |-> att.evidence.model = Upstream(att),
               route  |-> /\ att.echo.prov \in {None, call.prov}
                          /\ att.echo.model \in {None, call.model},
               opaque |-> att.echo.class # "tee" /\ att.echo.protocol # "wrong"]

\* Present and different; absent is tolerated.
Differs(value, wanted) == value \notin {None, wanted}

\* The relay's echo names the requested provider and model.
RouteEchoed(att) == /\ ~Differs(att.echo.prov, call.prov)
                    /\ ~Differs(att.echo.model, call.model)

\* Mutant: the verdict is not tied to this request's nonce.
GateAnyNonce(att) == att.verdict.fault = None

\* gateGatewayVerdict.
GateGatewayVerdict(att) == /\ att.verdict.fault = None
                           /\ att.verdict.nonce = call.n

\* The faults that fail a required check of a provider's verifier (verify/near.ts,
\* venice.ts, chutes.ts): Venice pins no measurements, and on near-ai the encryption
\* key is taken from the document, not from what the quote binds.
VerifierFaults(prov) == {"quote", "binding", "gpu"}
    \cup (IF prov = "venice"  THEN {} ELSE {"measurement"})
    \cup (IF prov = "near-ai" THEN {} ELSE {"key"})

\* The model binding is a required check where the evidence names a model; Chutes
\* evidence names none and the check is advisory.
NamesModel(prov) == prov # "chutes"

\* What createSession of each transport refuses: it always looks at the key it will
\* encrypt to, but Chutes looks neither at the GPU evidence and the certificate
\* that signs it nor at the gateway's key.
OwnFaults(prov) == (VerifierFaults(prov) \cup {"key"})
                       \ (IF prov = "chutes" THEN {"gpu"} ELSE {})

CreateSession(att) ==
    /\ att.evidence.fault \notin OwnFaults(call.prov)
    /\ att.evidence.nonce = call.n
    /\ NamesModel(call.prov) => att.evidence.model = Upstream(att)
    /\ call.prov # "chutes" => att.verdict.key = att.evidence.key

\* A ticket arrives (or a reply without one).  The evidence request carries the
\* ticket and nothing else.
AttestationTicket ==
    /\ call.pc = "attTicket" /\ Answered
    /\ LET r == ToInference("attestation", Len(wire), "nonce", None)
       IN  IF IsChat /\ Cancelled THEN Throw("cancelled")
           ELSE Request([call EXCEPT !.ticket = Len(wire)], r)
    /\ UNCHANGED accepted

\* Mutant: any client falls back to the key.
MayFallBackAlways == TRUE

\* The key may follow only where the inference origin is the control origin.
MayFallBack == ~deploy.split

\* fetchAttestationEvidence without a usable ticket: the key-authenticated GET
\* on a single origin, a refusal on two.
NoTicket(code) == IF MayFallBack THEN Request(call, KeyGet) ELSE Refuse(code)

\* The mint fails: it is unreachable or refuses ("cancelled" or its code), its
\* reply is no JSON (the parser's own error), or holds no ticket.
AttestationTicketFails ==
    /\ call.pc = "attTicket"
    /\ \/ IsChat /\ \/ CatchAs("attestation_ticket_failed")
                    \/ Answered /\ Throw("json_error")
                    \/ Answered /\ Throw("attestation_ticket_failed")
       \/ Verifies /\ \/ Cancelled /\ Refuse("cancelled")
                      \/ ~Cancelled /\ NoTicket("attestation_ticket_failed")
                      \/ Answered /\ \E code \in {"json_error",
                                                 "attestation_ticket_failed"} :
                            NoTicket(code)
    /\ UNCHANGED accepted

\* The relay is unreachable, refuses, or answers something unreadable.
AttestationFails ==
    /\ call.pc \in {"attestation", "keyGet"}
    /\ \/ RefuseAs("attestation_failed")
       \/ Answered /\ Refuse("attestation_failed")
       \/ Answered /\ Refuse("evidence_invalid")
    /\ UNCHANGED accepted

\* verify: the relay rejects the ticket with 401 or 404.
TicketRejected ==
    /\ call.pc = "attestation" /\ Verifies /\ Answered
    /\ NoTicket("attestation_failed")
    /\ UNCHANGED accepted

\* verifyRawEvidence, the client's own verdict over the raw evidence: every required
\* check of the provider's verifier.
VerifyRawEvidence(att) ==
    /\ att.evidence.fault \notin VerifierFaults(call.prov)
    /\ att.evidence.nonce = call.n
    /\ NamesModel(call.prov) => att.evidence.model = Upstream(att)

\* Mutant: verifyRoute forgets to cross-bind the route.
RouteTrustedUnbound(att) == call.hop \in {"ok", "not-requested"} /\ VerifyRawEvidence(att)

\* verify and verifyRoute: every requested hop holds and the route is the one
\* that was asked for.
RouteTrusted(att) == /\ call.hop \in {"ok", "not-requested"}
                     /\ VerifyRawEvidence(att)
                     /\ RouteEchoed(att)

\* attestRoute has its evidence; verify throws on a different route.
VerifyReply ==
    /\ call.pc \in {"attestation", "keyGet"} /\ Verifies /\ Answered
    /\ \E att \in Attestations :
          /\ IF call.kind = "verify" /\ ~RouteEchoed(att)
             THEN Throw("attestation_untrusted")
             ELSE Settle([call EXCEPT !.trusted = RouteTrusted(att)], None, None)
          /\ accepted' = Facts(att)

----------------------------------------------------------------------------
(* chat: gates, session, paid ticket, encrypted request                    *)

\* POST /v1/inference/tickets, the paid one.
MintInference(c) ==
    \/ DispatchAllowed /\ Request(c, ToControl("ticket", "route"))
    \/ ~DispatchAllowed /\ Settle(c, "retained_error", c.resp)

\* A transport that does not stream reserves the model's whole output ceiling,
\* which it looks up first.
Reserve(c) == IF c.prov = "chutes" THEN Request(c, ToControl("models", "none"))
                                   ELSE MintInference(c)

\* What chat throws for a reply it does not accept: the checks come in this
\* order, and createSession has a code for each of its own.
ChatRefusals(att) ==
    IF ~RouteEchoed(att) THEN {"attestation_untrusted"}
    ELSE IF att.echo.class = "tee" THEN {"provider_unsupported"}
    ELSE IF att.echo.protocol = "wrong" THEN {"attestation_untrusted"}
    ELSE IF ~GateGatewayVerdict(att)
         THEN {IF att.verdict.fault = None THEN "nonce_mismatch"
                                           ELSE "attestation_untrusted"}
    ELSE {"evidence_invalid", "attestation_untrusted", "nonce_mismatch",
          "model_mismatch", "measurement_untrusted", "key_binding_failed"}

\* The attestation response: echo, gateway verdict, own evidence checks, keys.
ChatReply ==
    /\ call.pc = "attestation" /\ IsChat /\ Answered
    /\ \E att \in Attestations :
         LET c == [call EXCEPT !.session = "live", !.key = att.evidence.key]
             pass == /\ RouteEchoed(att) /\ att.echo.class # "tee"
                     /\ att.echo.protocol # "wrong"
                     /\ GateGatewayVerdict(att) /\ CreateSession(att)
         IN  \/ /\ ~Cancelled /\ pass
                /\ Reserve(c)
                /\ accepted' = Facts(att)
             \/ /\ Cancelled \/ ~pass
                /\ \E code \in ChatRefusals(att) : CatchAs(code)
                /\ UNCHANGED accepted

\* resolveOutputCeiling.
CeilingReply ==
    /\ call.pc = "models"
    /\ \/ Answered /\ MintInference(call)
       \/ Answered /\ Throw("unsupported_request")
       \/ Answered /\ Throw("json_error")
       \/ CatchAs("unsupported_request")
    /\ UNCHANGED accepted

CipherRequest(c) == ToInference("content", c.ticket, "cipher", c.key)

\* Mutant: the attestation ticket is presented again.
PaidTicketReused == call.ticket

\* The ticket in the reply.
PaidTicket == Len(wire)

\* The paid ticket arrives.  Near and Venice encrypt and send at once; Chutes
\* makes the key of the response, encapsulates (which throws on a key that is
\* no ML-KEM key) and awaits gzip.
InferenceTicket ==
    /\ call.pc = "ticket" /\ IsChat /\ Answered
    /\ LET c == [call EXCEPT !.ticket = PaidTicket]
       IN  \/ Cancelled /\ Throw("cancelled")
           \/ ~Cancelled /\ call.prov = "chutes"
                /\ \/ Goto([c EXCEPT !.resp = "live"], "gzip")
                   \/ Settle(c, "encrypt_error", "live")
           \/ ~Cancelled /\ call.prov # "chutes"
                /\ (Request(c, CipherRequest(c)) \/ Throw("encrypt_failed"))
    /\ UNCHANGED accepted

InferenceTicketFails ==
    /\ call.pc = "ticket" /\ IsChat
    /\ \/ CatchAs("inference_ticket_failed")
       \/ Answered /\ Throw("inference_ticket_failed")
       \/ Answered /\ Throw("json_error")
    /\ UNCHANGED accepted

\* Chutes: the body is compressed; encrypt and send it.
Gzipped ==
    /\ call.pc = "gzip"
    /\ \/ Request(call, CipherRequest(call))
       \/ Settle(call, "encrypt_failed", "zeroized")
    /\ UNCHANGED accepted

\* zeroize(responseKeys.secretKey) where there is one.
Zeroized == IF call.resp = "live" THEN "zeroized" ELSE call.resp

\* The relay accepts the encrypted request, or refuses it.  Chutes looks at the
\* announced length.
RelayReply ==
    /\ call.pc = "content" /\ IsChat
    /\ \/ Answered /\ Goto(call, "body")
       \/ Answered /\ Settle(call, "transport_failed", Zeroized)
       \/ /\ Answered /\ call.prov = "chutes"
          /\ Settle(call, "response_too_large", Zeroized)
       \/ Settle(call, IF Cancelled THEN "cancelled" ELSE "transport_failed", Zeroized)
    /\ UNCHANGED accepted

\* Near and Venice decrypt the frames of a stream; the signal is looked at
\* before every read, and a read that fails throws its own error.
StreamBody ==
    /\ call.pc = "body" /\ IsChat /\ call.prov # "chutes"
    /\ \/ Cancelled /\ Throw("cancelled")
       \/ \E code \in {None, "transport_failed", "decrypt_failed", "response_invalid",
                       "response_too_large", "callback_error", "body_error"} : Throw(code)
    /\ UNCHANGED accepted

\* Chutes reads and decrypts one body.  The response key is zeroized after the
\* decryption and when the body is too large, and nowhere else: the read, the
\* decryption and the decompression may throw with the key still there.
WholeBody ==
    /\ call.pc = "body" /\ IsChat /\ call.prov = "chutes"
    /\ \/ \E code \in {None, "response_too_large", "callback_error"} :
             Settle(call, code, Zeroized)
       \/ \E code \in {"decrypt_failed", "response_invalid", "response_too_large",
                       "body_error"} : Throw(code)
    /\ UNCHANGED accepted

----------------------------------------------------------------------------
(* Media: images.generate and audio.speech.create                          *)

\* abortKind.  fetch rejects with the signal's reason; the retained fetch and
\* guard reject with their own error, so that only the signal itself is left to
\* look at.
AbortKind(code, retained) ==
    IF signal = "live" THEN code
    ELSE IF signal = "timeout" /\ ~retained THEN "timeout" ELSE "cancelled"

\* Normalise, check the connection, mint: the key and the shape of the work.
MediaRun ==
    /\ call.pc = "run" /\ IsMedia
    /\ \/ ~call.valid /\ Throw("unsupported_request")
       \/ call.valid /\ DispatchAllowed /\ Request(call, ToControl("ticket", "shape"))
       \/ call.valid /\ ~DispatchAllowed /\ Throw(AbortKind("media_ticket_failed", TRUE))
    /\ UNCHANGED accepted

\* assertTicketBinding: a fact the ticket echoes must be the one asked for.
TicketBinding(binds) == binds # "other"

\* The mint answers: unusable, bound to something else, or spent on the one post.
MediaTicket ==
    /\ call.pc = "ticket" /\ IsMedia
    /\ \/ Throw(AbortKind("media_ticket_failed", FALSE))
       \/ Answered /\ Throw("media_ticket_failed")
       \/ /\ Answered
          /\ \E binds \in {"same", "absent", "other"} :
               IF TicketBinding(binds)
               THEN Request(call, ToInference("content", Len(wire), "plain", None))
               ELSE Throw("ticket_binding_mismatch")
    /\ UNCHANGED accepted

\* Mutant: a lost POST is reported like a lost mint.
PostFailedEarly == "media_ticket_failed"

\* A POST that fails may have reached the provider: no clean refusal.
PostFailed == "transport_failed"

\* postContent: one POST, reported and never repeated.
MediaReply ==
    /\ call.pc = "content" /\ IsMedia
    /\ \/ Throw(AbortKind(PostFailed, deploy.bound))
       \/ Answered /\ \E code \in {"ticket_rejected", "relay_refused",
                                   "provider_failed"} : Throw(code)
       \/ Answered /\ Goto(call, "body")
    /\ UNCHANGED accepted

\* The body is media, or it is not.
MediaBody == /\ call.pc = "body" /\ IsMedia
             /\ \E code \in {None, "response_invalid"} : Throw(code)
             /\ UNCHANGED accepted

----------------------------------------------------------------------------
(* The environment and the specification                                   *)

\* The caller's signal fires: an abort(), or the deadline of a timeout signal.
\* The retained operation listens to it and closes.
Abort == /\ call.pc \notin {"idle", "over"} /\ signal = "live"
         /\ signal' \in {"abort", "timeout"}
         /\ phase' = IF deploy.bound THEN "ended" ELSE phase
         /\ UNCHANGED <<deploy, call, sent, wire, accepted>>

\* The retained connection is lost, or its approval, evidence or preparation
\* deadline expires.
ConnectionEnds == /\ deploy.bound /\ phase = "attested"
                  /\ Channel!End
                  /\ UNCHANGED <<deploy, call, signal, wire, accepted>>

Init == /\ deploy \in Deployments
        /\ call = [NewCall(0, None, None, None, "unset", TRUE) EXCEPT !.pc = "idle"]
        /\ signal = "live" /\ phase = "unverified" /\ sent = {}
        /\ wire = <<>>
        /\ accepted = NoAtt

Hop   == HopPolicy \/ HopEvidence \/ HopVerify
Prove == \/ AttestationTicket \/ AttestationTicketFails \/ AttestationFails
         \/ TicketRejected \/ VerifyReply
Chat  == \/ ChatReply \/ CeilingReply \/ InferenceTicket
         \/ InferenceTicketFails \/ Gzipped \/ RelayReply \/ StreamBody \/ WholeBody
Media == MediaRun \/ MediaTicket \/ MediaReply \/ MediaBody

Step == Opened \/ OpenThrows \/ Run \/ Hop \/ Prove \/ Chat \/ Media

Next == Begin \/ Step \/ Abort \/ ConnectionEnds

Spec == Init /\ [][Next]_vars

----------------------------------------------------------------------------
(* Properties                                                              *)

Sent(i) == wire[i]
Index   == 1..Len(wire)

Codes == {None, "cancelled", "timeout", "unsupported_request",
          "provider_unsupported", "measurement_untrusted",
          "attestation_untrusted", "attestation_failed", "evidence_invalid",
          "nonce_mismatch", "model_mismatch", "key_binding_failed",
          "attestation_ticket_failed", "inference_ticket_failed",
          "encrypt_failed", "decrypt_failed", "transport_failed",
          "response_invalid", "response_too_large", "media_ticket_failed",
          "ticket_binding_mismatch", "ticket_rejected", "relay_refused",
          "provider_failed"}
OtherErrors == {"policy_error", "retained_error", "json_error", "encrypt_error",
                "callback_error", "body_error"}

RequestType ==
    [call : Nat, to : {"control", "inference"}, key : BOOLEAN, ticket : Nat,
     path : {"gateway", "attTicket", "attestation", "keyGet", "models",
             "ticket", "content"},
     body : {"none", "route", "shape", "nonce", "cipher", "plain"},
     seal : Keys \cup {None}]
Early  == {"open", "run", "policy", "gateway", "hopVerify", "hopRefresh"}
Unpaid == Early \cup {"attTicket", "attestation", "keyGet"}
Paid   == {"models", "ticket", "gzip", "content", "body"}
CallType ==
    [n : Nat, kind : {None, "chat", "verify", "verifyRoute", "media"},
     prov : Providers \cup {None}, model : Models \cup {None},
     gate : {"unset", "on", "off"}, valid : BOOLEAN,
     pc : Unpaid \cup Paid \cup {"idle", "over"},
     hop : {"not-requested", "ok", "failed", "unpinned", "unavailable"},
     ticket : Nat, key : Keys \cup {None}, session : {None, "live", "disposed"},
     resp : {None, "live", "zeroized"}, trusted : BOOLEAN,
     err : Codes \cup OtherErrors]
FactsType == [nonces : SUBSET Nat, own : Nat, key : Keys \cup {None},
              fault : Faults, named : BOOLEAN, route : BOOLEAN, opaque : BOOLEAN]

\* The values of the variables.
ClientTypeOK == /\ deploy \in Deployments
                /\ call \in CallType
                /\ signal \in {"live", "abort", "timeout"}
                /\ phase \in {"unverified", "attested", "ended"}
                /\ wire \in Seq(RequestType)
                /\ accepted \in FactsType

\* What is true of every request that ever left: who may see the key, where
\* content may go, and where its ticket comes from.
GoodRequest(i) ==
    /\ Sent(i).call <= call.n
    /\ Sent(i).ticket \in {0, i - 1}
    /\ Sent(i).to = "control" => Sent(i).key
    /\ Sent(i).to = "inference" /\ Sent(i).key
          => ~deploy.split /\ Sent(i).path = "keyGet"
    /\ Sent(i).body = "plain" => SplitOrigins
    /\ Sent(i).body \in {"plain", "cipher"}
          => Sent(i).path = "content" /\ Sent(i).to = "inference"
    /\ Sent(i).path \in {"attestation", "content"} <=> Sent(i).ticket # 0
    /\ Sent(i).ticket # 0 =>
          /\ Sent(Sent(i).ticket).call = Sent(i).call
          /\ Sent(Sent(i).ticket).path = IF Sent(i).path = "content" THEN "ticket"
                                                                     ELSE "attTicket"

HopDue    == deploy.bound \/ (IsChat /\ call.gate = "on")
Trusting  == accepted.nonces = {call.n} /\ accepted.route /\ accepted.opaque

\* What is true of the requests of the call in progress.
OwnRequest(i) ==
    Sent(i).call = call.n =>
        /\ Sent(i).key \/ Sent(i).ticket # 0 =>
              call.pc \notin Early /\ (HopDue => call.hop = "ok")
        /\ IsChat /\ Sent(i).path \in {"models", "ticket", "content"} =>
              /\ call.pc \notin Unpaid /\ Trusting
              /\ Sent(i).body = "cipher" => Sent(i).seal = accepted.key

\* What the place of the call in the code says.
PlaceInv ==
    /\ call.kind = "media" /\ call.pc # "over" => SplitOrigins
    /\ call.pc \notin Early \cup {"idle", "over"} /\ HopDue => call.hop = "ok"
    /\ call.pc = "run" /\ deploy.bound => call.hop = "ok"
    /\ call.pc \in Early \ {"open", "run"} => ~deploy.bound
    /\ call.pc \in Unpaid \ {"open", "run"} => ~IsMedia
    /\ call.pc \in {"models", "gzip"} => IsChat
    /\ call.pc \in Paid /\ IsChat => Trusting /\ call.key = accepted.key
    /\ call.pc = "gzip" => /\ wire # <<>> /\ call.ticket = Len(wire)
                           /\ Latest.path = "ticket" /\ Latest.call = call.n

\* An inductive invariant: the types, the history of requests and the place of
\* the call, from which the privacy and payment properties follow.
ClientInv == /\ ClientTypeOK
             /\ \A i \in Index : GoodRequest(i) /\ OwnRequest(i)
             /\ PlaceInv

\* The host a request goes to.
Host(r) == IF deploy.split THEN r.to ELSE "both"

\* The privacy split: over any number of calls and through every fallback, a
\* host that is shown the API key is never shown a prompt in the clear, and with
\* two origins the key stays with one of them and the content with the other.
CredentialIsolation ==
    /\ ~deploy.loopback =>
          \A i, j \in Index : Sent(i).key /\ Sent(j).body = "plain"
                                => Host(Sent(i)) # Host(Sent(j))
    /\ deploy.split =>
          \A i \in Index : /\ Sent(i).key <=> Sent(i).to = "control"
                           /\ Sent(i).body \in {"plain", "cipher"} => ~Sent(i).key

\* A ticket is presented once, by the call that asked for it, for what it was
\* minted for; content is never sent without one.
TicketOnce ==
    /\ \A i, j \in Index : Sent(i).ticket = Sent(j).ticket /\ Sent(i).ticket # 0
                             => i = j
    /\ \A i \in Index :
          /\ Sent(i).path \in {"attestation", "content"} <=> Sent(i).ticket # 0
          /\ Sent(i).ticket # 0 =>
                LET mint == Sent(Sent(i).ticket)
                IN  /\ mint.call = Sent(i).call
                    /\ mint.path = IF Sent(i).path = "content" THEN "ticket"
                                                               ELSE "attTicket"

\* chat reserves money and sends ciphertext only after a gateway verdict and
\* raw evidence that were both made for this call's own nonce, on a route that
\* was not swapped, and seals it to the key of that evidence: what the relay
\* kept from an earlier call never leads to a paid request.
PaidAfterTrust ==
    \A i \in Index :
        /\ Sent(i).call = call.n /\ IsChat
        /\ Sent(i).path \in {"models", "ticket", "content"}
        => /\ accepted.nonces = {call.n} /\ accepted.route /\ accepted.opaque
           /\ Sent(i).body = "cipher" => Sent(i).seal = accepted.key

\* A chat that requires hop 1, and every call of a bound client, shows no
\* credential, names no model and spends no ticket before hop 1 held.
GatewayFirst ==
    \A i \in Index :
        /\ Sent(i).call = call.n /\ (Sent(i).key \/ Sent(i).ticket # 0)
        /\ deploy.bound \/ (IsChat /\ call.gate = "on")
        => call.hop = "ok"

\* What the documented table of media errors says of money, and the codes of
\* chat that claim nothing was sent: no content left the client in that call.
ContentFreeCodes == {"unsupported_request", "provider_unsupported",
                     "attestation_ticket_failed", "attestation_failed",
                     "attestation_untrusted", "evidence_invalid",
                     "nonce_mismatch", "model_mismatch", "key_binding_failed",
                     "measurement_untrusted", "inference_ticket_failed",
                     "media_ticket_failed", "ticket_binding_mismatch"}
ContentFreeErrors ==
    call.pc = "over" /\ call.err \in ContentFreeCodes =>
        ~\E i \in Index : Sent(i).call = call.n /\ Sent(i).path = "content"

\* What verify does not look for: no one outside has listed what a Venice TD must
\* measure, and nothing there ties the encryption key of near-ai to the quote.
Unlooked(prov) == (IF prov = "venice"  THEN {"measurement"} ELSE {})
             \cup (IF prov = "near-ai" THEN {"key"} ELSE {})

\* A trusted report of verify or verifyRoute, whichever calls and fallbacks came
\* before: the evidence was made for this call's nonce and on its route, hop 1 held
\* where the caller asked for it or the client is bound, the model is the one the
\* relay names wherever the evidence names one, and nothing is wrong with the
\* evidence but what verify does not look for.
TrustedTruth ==
    call.trusted =>
        /\ accepted.own = call.n /\ accepted.route
        /\ accepted.fault \in {None} \cup Unlooked(call.prov)
        /\ call.prov # "chutes" => accepted.named
        /\ call.gate = "on" \/ deploy.bound => call.hop = "ok"

\* A bound client asks for a ticket, and sends anything to the gateway, only
\* while the approval, the evidence and the connection still hold.
TicketsWhileAttested ==
    [][deploy.bound /\ wire' # wire /\ Latest'.path # "models"
         => phase = "attested"]_vars

\* "key material is disposed in finally" (client.ts, header).
KeysDisposed == call.pc = "over" => call.session # "live" /\ call.resp # "live"

----------------------------------------------------------------------------
(* The inductive invariant of the answers a caller gets                    *)

\* Content of the call in progress has left the client.
ContentSent == \E i \in Index : Sent(i).call = call.n /\ Sent(i).path = "content"

\* A verdict is given once, at the end; hop 1 has a result by the time the
\* attestation is asked for, where it was asked for itself; content leaves from
\* one place of the code only, and no error that claims otherwise is raised later.
AnswerInv ==
    /\ TrustedTruth /\ (call.trusted => call.pc = "over")
    /\ Verifies /\ call.gate = "on" /\ call.pc \notin Early \cup {"idle", "over"}
          => call.hop # "not-requested"
    /\ ContentFreeErrors
    /\ call.pc \notin {"content", "body", "over"} => ~ContentSent
=============================================================================
