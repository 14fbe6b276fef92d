---------------------------- MODULE GatewayVerdict ----------------------------
(***************************************************************************)
(* One gateway verification of client.ts (verifyGateway, gatewayHop and the *)
(* calls they make) over the verdict of gateway/verify.ts.  The policy is   *)
(* resolved, a document is fetched for a fresh nonce, the chain verifier is *)
(* prepared, and verifyGatewayAttestation judges the document; a verdict    *)
(* that says the release moved refreshes a signed policy and judges again.  *)
(* Meanwhile time passes, the policy source publishes and the owner of a    *)
(* policy object may change it.  A TD is a machine; an honest one runs a    *)
(* reviewed release and asserts the truth, any other asserts what it likes, *)
(* and whoever relays a document may present it otherwise.                  *)
(***************************************************************************)
EXTENDS GatewayEvidence

CONSTANTS
    Machines,      \* the TDs: registers, measured events, TLS key, honest
    Callers,       \* the policies a caller may supply
    Published,     \* what each policy source serves, one after the other
    Registry,      \* the shipped registry
    Origin,        \* the origin of the client
    Claims,        \* [app, compose, release] a TD may assert
    MaxNow         \* bound on the clock

VARIABLES
    phase,     \* "idle", "resolved", "fetched", "prepared", "refresh", "refused", "done"
    call,      \* the call under way
    serving,   \* how far the policy sources have published
    doc,       \* the document that was fetched
    engine,    \* the chain verifier of the call: "absent", "failed" or "works"
    now,
    verdict

vars == <<phase, call, serving, doc, engine, now, verdict>>

Skew == 0  \* clock skew accepted of issued_at_ms: 60 s, below one tick

\* unqualifiedPlatformPilot, without effect while every kind is qualified.
Pilot == FALSE

\* The nonce of this call; a document may also carry one of an earlier call.
Nonce == "fresh"

NoDoc == [style |-> None]

\* GatewayVerificationResult.
Verdict(ok, level, checks, identity, instance, at) ==
    [ok |-> ok, level |-> level, checks |-> checks, identity |-> identity,
     instance |-> instance, at |-> at]

NoVerdict == Verdict(FALSE, "unverified", {}, None, None, 0)

\* The policy and its provenance (a caller, a source or the package, and when
\* it expires, 0 for never), the policy it was, the connection,
\* and how far the source had published when the policy was taken and when it
\* was first applied.
Call(policy, from, expires, connection) ==
    [policy |-> policy, was |-> policy, from |-> from, expires |-> expires,
     connection |-> connection, seen |-> serving, since |-> 0]

VerdictInit ==
    /\ phase = "idle" /\ serving = 1 /\ doc = NoDoc
    /\ call = [policy |-> NoPolicy, was |-> NoPolicy, from |-> None, expires |-> 0,
               connection |-> None, seen |-> 0, since |-> 0]
    /\ engine = "absent" /\ now = 1 /\ verdict = NoVerdict

----------------------------------------------------------------------------
(* verifyGatewayAttestation: the checks of one document                     *)

Check(name, passed, required) == [name |-> name, passed |-> passed, required |-> required]
Require(name, passed) == Check(name, passed, TRUE)
When(condition, checks) == IF condition THEN checks ELSE {}

\* 0. A tuple-form policy proves its own floor.
FloorChecks(p) ==
    When(TupleForm(p),
         {Require("policy_security_floor", Floor(p)),
          Check("platform_boot_chain_qualified", KindOf(p) \in Qualified,
                KindOf(p) \in Qualified \/ ~Pilot)})

\* 2 to 4. The quote, what it commits to, and the challenge it answers.
QuoteChecks(d, b, nonce) ==
    {Require("quote_is_tdx", d.quote.tdx),
     Require("quote_not_debug", ~d.quote.debug),
     Require("report_data_binds_binding", d.quote.data = BindingHash(b)),
     Require("nonce_matches_request", b.nonce = nonce),
     Require("origin_matches_connection", HexEqual(CanonicalOrigin(Origin), b.origin))}

\* 5 and 6 on gcp-tdx-native: the registers are the measurements.
NativeChecks(p, d, b) ==
    {Require("rtmr3_unextended", d.quote.rtmr3 = <<>>),
     Require("owner_config_registers_zero",
             /\ d.quote.cfg = Zero
             /\ \/ d.quote.owner = Zero
                \/ p.v3.present /\ \E t \in p.v3.tuples : t.rule # {}),
     Require("instance_id_derives_from_boot_key", b.alg = "ed25519" /\ b.inst = b.key),
     Check("firmware_event_log_replayed", FALSE, FALSE)}

KeyProviderCheck(p, log) ==
    LET kp == Measured(log, "key-provider")
    IN  IF TupleForm(p)
        THEN Require("key_provider_pinned", kp # None /\ \E t \in p.tuples : t.kp = kp)
        ELSE IF p.kp # None
        THEN Require("key_provider_pinned", kp # None /\ p.kp \in Mentions(kp))
        ELSE Check("key_provider_pinned", FALSE, FALSE)

\* 5 on dstack: the log replays to the registers, its events commit to what they
\* say, and the identities it names are the ones the binding claims.
EventLogChecks(p, d, b) ==
    LET log == d.log
        read == d.parses /\ EventLogRead(log)
        event(n) == IF d.parses THEN Measured(log, n) ELSE None
        os == event("os-image-hash")
    IN  {Require("event_log_replays_rtmrs",
                 d.parses /\ ReplayRtmrs(log, 0) = d.quote.rtmr
                          /\ ReplayRtmrs(log, 3) = d.quote.rtmr3),
         Require("event_digests_commit_to_payloads", d.parses /\ Committing(log)),
         Require("compose_hash_measured_in_rtmr3", HexEqual(event("compose-hash"), b.compose)),
         Require("instance_id_measured", read /\ event("instance-id") \in {None, b.inst}),
         Require("app_id_measured", HexEqual(event("app-id"), b.app)),
         IF d.parses THEN KeyProviderCheck(p, log) ELSE KeyProviderCheck(p, <<>>),
         IF os # None /\ d.os # None
         THEN Require("vm_config_matches_measured_os_image", os = d.os)
         ELSE Check("vm_config_matches_measured_os_image", FALSE, FALSE)}

\* 6 on dstack: the manifest is the measured one and says what it should.
ManifestChecks(p, d, b) ==
    LET m == AppCompose(d.compose)
    IN  {Require("app_compose_parsed", m.hash # None),
         Require("app_compose_matches_measurement", HexEqual(m.hash, b.compose))}
        \cup When("privateLogs" \in p.req,
                  {Require("compose_public_logs_disabled", m.logs = "private")})
        \cup When("pinnedImages" \in p.req,
                  {Require("compose_images_digest_pinned", m.pinned)})

\* 7. The locally pinned identity.
IdentityChecks(p, b) ==
    When(~p.v3.present,
         {Require("app_id_pinned", b.app \in p.apps),
          Require("compose_hash_pinned", b.compose \in p.composes),
          Require("release_pinned", b.release \in p.releases)})
    \cup {Require("origin_pinned", b.origin \in p.origins)}

\* Mutant: a PZID that does not verify is as if none had been presented.
MatchesGarbled(v3, d) ==
    LET q == d.quote
        vm == GceInstanceFromMrOwner(d.pzid, q.owner)
        same == {t \in v3.tuples : /\ t.mrtd = q.mrtd /\ t.rtmr = q.rtmr
                                   /\ t.rtmr3 = q.rtmr3 /\ t.attr = q.attr}
    IN  {[tuple |-> t, identity |-> IF t.rule = {} THEN "not-applicable"
                                    ELSE IF d.pzid # None THEN "verified" ELSE "unverified"]
            : t \in same}

\* The tuples of a v3 policy a quote matches, with what that says of the VM:
\* every register is compared, MROWNER by the rule of the tuple.
Matches(v3, d) ==
    LET q == d.quote
        vm == GceInstanceFromMrOwner(d.pzid, q.owner)
        same == {t \in v3.tuples : /\ t.mrtd = q.mrtd /\ t.rtmr = q.rtmr /\ t.cfg = q.cfg
                                   /\ t.rtmr3 = q.rtmr3 /\ t.attr = q.attr}
        identity(t) ==
            CASE t.rule = {} -> IF t.owner = Zero /\ q.owner = Zero
                                THEN "not-applicable" ELSE None
              [] t.rule # {} ->
                    IF t.owner # Zero \/ q.owner = Zero THEN None
                    ELSE IF vm # None
                    THEN IF GcePzidRuleAdmits(t.rule, vm) THEN "verified" ELSE None
                    ELSE IF d.pzid = None THEN "unverified" ELSE None
    IN  {[tuple |-> t, identity |-> identity(t)] : t \in {t \in same : identity(t) # None}}

\* Exactly one tuple matches, or none does.
MatchOf(v3, d) ==
    IF Cardinality(Matches(v3, d)) = 1 THEN CHOOSE m \in Matches(v3, d) : TRUE
    ELSE [identity |-> None]

Registers(q) == TupleDigest(V3Tuple(None, q.mrtd, q.rtmr, q.rtmr3, q.cfg, q.owner, q.attr, {}))

\* 7 under a release policy v3.
V3Checks(v3, d) ==
    LET match == MatchOf(v3, d)
        vm == GceInstanceFromMrOwner(d.pzid, d.quote.owner)
        identity == match.identity
    IN  When(d.pzid # None, {Require("gce_pzid_matches_mrowner", vm # None)})
        \cup
        {Require("release_tuple_not_revoked",
                 /\ Registers(d.quote) \notin v3.revoked
                 /\ identity # None => TupleDigest(match.tuple) \notin v3.revoked),
         Require("release_tuple_matched", identity # None)}
        \cup When(identity \in {"verified", "unverified"},
                  {Check("gce_instance_identity", identity = "verified",
                         v3.pzid \/ identity = "verified")})
        \cup When(v3.pzid /\ identity \in {None, "not-applicable"},
                  {Require("gce_instance_identity", FALSE)})

\* Mutant: every value is on the list of some tuple.
TupleChecksEach(p, d, b, t0) ==
    LET q == d.quote IN
    {Require("release_tuple_matched",
             /\ b.compose \in {t.compose : t \in p.tuples}
             /\ q.mrtd \in {t.mrtd : t \in p.tuples} /\ q.rtmr \in {t.rtmr : t \in p.tuples})}

\* 7 under a tuple-form policy: one tuple matches every value at once.
TupleChecks(p, d, b, t0) ==
    LET q == d.quote
        event(n) == IF d.parses THEN Measured(d.log, n) ELSE None
        matches(t) ==
            /\ t.release = b.release /\ t.app = b.app /\ t.compose = b.compose
            /\ t.mrtd = q.mrtd /\ t.rtmr = q.rtmr
            /\ IF KindOf(p) = "gcp" THEN t.attr = q.attr
               ELSE /\ d.parses /\ EventLogRead(d.log) /\ t.cfg = q.cfg
                    /\ t.os = event("os-image-hash") /\ t.kp = event("key-provider")
    IN  {Require("release_tuple_matched",
                 \E t \in p.tuples : matches(t) /\ t.from <= t0 /\ t0 < t.until)}

\* 7 under a legacy policy: independent lists.
PlatformChecks(p, d) ==
    LET os == IF d.parses THEN Measured(d.log, "os-image-hash") ELSE None
    IN  When(p.platform.pinned,
             {Require("platform_measurements_pinned",
                      /\ d.quote.mrtd \in p.platform.mrtd /\ d.quote.cfg \in p.platform.cfg
                      /\ d.quote.rtmr \in p.platform.rtmr),
              Require("os_image_pinned", os # None /\ os \in p.platform.os)})

ReleaseChecks(p, d, b, t0) ==
    IF p.v3.present THEN V3Checks(p.v3, d)
    ELSE IF TupleForm(p) THEN TupleChecks(p, d, b, t0)
    ELSE PlatformChecks(p, d)

\* 8. The transport: where one socket is required the certificate is one the
\* client saw on that socket.  "unobserved" is a client that cannot see one.
TransportChecks(p, b, observed, retained) ==
    LET inTee == b.transport = "in-tee-tls"
        bound == observed # "unobserved" /\ HexEqual(observed, b.spki)
    IN  IF RequiresRetained(p)
        THEN {Require("transport_terminates_in_tee", inTee),
              Require("tls_certificate_bound_to_quote", bound),
              Require("tls_observed_on_retained_connection", retained)}
        ELSE IF "inTeeTls" \in p.req
        THEN {Require("transport_terminates_in_tee", inTee),
              Check("tls_certificate_bound_to_quote", bound, observed # "unobserved")}
        ELSE {Check("transport_terminates_in_tee", inTee, FALSE)}

\* 9. Age; a document without a time is not recent.
RecentCheck(p, d, t0) ==
    Check("evidence_recent", \E i \in d.issued : i <= t0 + Skew /\ t0 - i <= p.age,
          "expiry" \in p.req)

\* 10. The hardware chain: the TCB status is held to the policy even when the
\* verifier was content, and no verifier is a failure where one is demanded.
ChainChecks(p, d, e) ==
    LET verified == e = "works" /\ d.quote.genuine
        tcb == IF e = "works" THEN d.quote.tcb ELSE None
        required == e # "absent" \/ "hardware" \in p.req \/ TupleForm(p)
    IN  {Check("quote_signature_chain", verified, required),
         Check("tcb_status_acceptable", e # "absent" /\ tcb \in p.tcbs, required)}

MeasurementChecks(p, d, b) ==
    IF KindOf(p) = "gcp" THEN NativeChecks(p, d, b)
    ELSE EventLogChecks(p, d, b) \cup ManifestChecks(p, d, b)

Accepting(checks) == \A c \in checks : c.required => c.passed

\* verifyGatewayAttestation.  A binding that is not well formed and a quote that
\* does not parse end it early.
VerifyGatewayAttestation(p, d, e, nonce, observed, retained, t0) ==
    LET b == NormalizeGatewayBinding(d.binding)
        checks ==
            FloorChecks(p) \cup
            IF ~WellFormed(d.binding) THEN {Require("binding_wellformed", FALSE)}
            ELSE {Require("binding_wellformed", TRUE)} \cup
                 IF ~d.quote.parsed THEN {Require("quote_parsed", FALSE)}
                 ELSE {Require("quote_parsed", TRUE)}
                      \cup QuoteChecks(d, b, nonce) \cup MeasurementChecks(p, d, b)
                      \cup IdentityChecks(p, b) \cup ReleaseChecks(p, d, b, t0)
                      \cup TransportChecks(p, b, observed, retained)
                      \cup {RecentCheck(p, d, t0)} \cup ChainChecks(p, d, e)
        ok == Accepting(checks)
        chain == \A c \in ChainChecks(p, d, e) : c.passed
        identity == IF p.v3.present THEN MatchOf(p.v3, d).identity ELSE "not-applicable"
    IN  IF ok
        THEN Verdict(TRUE, IF chain THEN "hardware-verified" ELSE "provider-attested", checks,
                     identity, IF identity = "verified" THEN d.pzid ELSE None, t0)
        ELSE Verdict(FALSE, "unverified", checks, None, None, t0)

----------------------------------------------------------------------------
(* The documents a gateway may serve                                       *)

\* What a TD measures: the events of RTMR3, each V1 or V2.
Digest(e) == IF e.v2 THEN DigestV2(<<e.event, e.payload>>) ELSE DigestV1(e.event, e.payload)

\* The log as the guest agent returns it: V1 entries come without a digest.
GenuineLog(m) ==
    [i \in DOMAIN m.rtmr |-> Entry(0, "", "", m.rtmr[i], <<>>)] \o
    [i \in DOMAIN m.events |->
        LET e == m.events[i] IN
        IF e.v2 THEN Entry(3, e.event, e.payload, Digest(e), <<e.event, e.payload>>)
        ELSE Entry(3, e.event, e.payload, <<>>, <<>>)]

\* The log with another compose hash shown: beside the digest that was measured,
\* without a digest, or in an entry of a register whose names nothing commits to.
ShownLog(m, style, compose) ==
    LET log == GenuineLog(m)
        digest(e) == IF style = "kept" /\ e.preimage = <<>> THEN DigestV1(e.event, e.payload)
                     ELSE e.digest
    IN  CASE style = "genuine" -> log
          [] style = "shadow"  -> [log EXCEPT ![1].event = "compose-hash", ![1].payload = compose]
          [] OTHER -> [i \in DOMAIN log |->
                         IF log[i].event # "compose-hash" THEN log[i]
                         ELSE [log[i] EXCEPT !.payload = compose, !.digest = digest(log[i])]]

\* What the reviewed program asserts of itself.
Truth(m, nonce) == Binding(nonce, m.app, m.inst, m.compose, m.release, Origin, "ed25519",
                           m.key, "in-tee-tls", m.spki)

\* The TLS keys worth claiming, or meeting at the other end of a connection.
Spkis == {m.spki : m \in {m \in Machines : m.honest}}

\* What another program may assert instead.
Claim(m, nonce, c, spki) ==
    [Truth(m, nonce) EXCEPT !.app = c.app, !.compose = c.compose, !.release = c.release,
                            !.spki = spki]

\* What a TD asserts: any other program, what it likes.
Assertions(m, nonce) ==
    IF m.honest THEN {Truth(m, nonce)}
    ELSE {Claim(m, nonce, c, spki) : c \in Claims, spki \in Spkis \cup {m.spki}}

Payload(m, event) ==
    LET at == {i \in DOMAIN m.events : m.events[i].event = event}
    IN  IF at = {} THEN None ELSE m.events[CHOOSE i \in at : TRUE].payload

Document(m, b, style, compose, peer) ==
    [style |-> style, quote |-> Quote(m, now, BindingHash(b)), binding |-> b,
     log |-> ShownLog(m, style, compose), parses |-> TRUE, compose |-> compose,
     os |-> Payload(m, "os-image-hash"), issued |-> {now},
     pzid |-> IF m.owner \in DOMAIN Site THEN m.owner ELSE None, observed |-> peer]

\* A document with one of its parts lost, stale, malformed or replaced.
Altered(d) ==
    {[d EXCEPT !.binding.strange = TRUE], [d EXCEPT !.quote.parsed = FALSE],
     [d EXCEPT !.parses = FALSE], [d EXCEPT !.issued = {}], [d EXCEPT !.issued = {now + 1}],
     [d EXCEPT !.os = None], [d EXCEPT !.binding.transport = "gateway-tls"],
     [d EXCEPT !.observed = "unobserved"]}
    \cup {[d EXCEPT !.binding.release = c.release, !.binding.compose = c.compose] : c \in Claims}
    \cup {[d EXCEPT !.pzid = x] : x \in DOMAIN Site \cup {None, "garbage"}}

Documents(m) ==
    LET plain(n) == {Document(m, b, "genuine", b.compose, s) : b \in Assertions(m, n), s \in Spkis}
        shown == {Document(m, b, style, b.compose, m.spki) :
                    b \in Assertions(m, Nonce), style \in {"kept", "bare", "shadow"}}
        own == {Document(m, b, "genuine", b.compose, m.spki) : b \in Assertions(m, Nonce)}
    IN  plain(Nonce) \cup plain("earlier") \cup shown
        \cup (IF m.honest THEN UNION {Altered(d) : d \in own} ELSE {})

----------------------------------------------------------------------------
(* What is assumed of the world                                            *)

\* Bounds and times are numbers; what a source serves is a sequence.
NumbersAssumption ==
    /\ MaxAge \in Nat /\ MaxLoadAge \in Nat /\ MaxNow \in Nat
    /\ DOMAIN Published \cap {None, "caller", "package"} = {}
    /\ \A s \in DOMAIN Published :
         /\ Len(Published[s]) \in Nat \ {0} /\ DOMAIN Published[s] = 1..Len(Published[s])
         /\ \A i \in DOMAIN Published[s] : Published[s][i].expires \in Nat
ASSUME NumbersAssumption

\* canonicalGatewayOrigin leaves what it made as it is; a VM identity that is
\* presented is a value.
SpellingsAssumption ==
    /\ CanonicalOrigin(CanonicalOrigin(Origin)) = CanonicalOrigin(Origin)
    /\ DOMAIN Site \cap {None, Zero} = {}
ASSUME SpellingsAssumption

\* A policy as the loader, or releasePolicyV3 of a signed envelope, makes it.
AsLoaded(p) ==
    /\ p = Policy(p.kind, p.tuples, p.v3, p.origins, p.apps, p.composes, p.releases,
                  p.kp, p.platform, p.req, p.tcbs, p.age)
    /\ p.age \in Nat /\ None \notin p.origins
    /\ p.v3.present => p.kind = "gcp"
    /\ TupleForm(p) /\ ~p.v3.present => Derived(p)

\* The policies a call may start from.
Served == UNION {{Published[s][i].policy : i \in DOMAIN Published[s]} : s \in DOMAIN Published}
Supplied == Callers \cup Served \cup {Shipped(Registry, Origin, c) : c \in BOOLEAN}

PoliciesAssumption == \A p \in Callers \cup Served : AsLoaded(p)
ASSUME PoliciesAssumption

\* RTMR3 holds the events a TD measured, and the first compose hash among them is
\* that of the manifest it runs: the base image measures it before it runs it.
MachinesAssumption == \A m \in Machines :
    /\ Len(m.rtmr) \in Nat /\ m.rtmr = [i \in 1..Len(m.rtmr) |-> m.rtmr[i]]
    /\ Len(m.events) \in Nat /\ DOMAIN m.events = 1..Len(m.events)
    /\ m.rtmr3 = [i \in DOMAIN m.events |-> Digest(m.events[i])]
    /\ \A i \in DOMAIN m.events :
         /\ m.events[i].event = "compose-hash"
         /\ \A j \in 1..(i-1) : m.events[j].event # "compose-hash"
         => m.events[i].payload = m.compose
ASSUME MachinesAssumption

\* A reviewed GCP image measures nothing at run time and names itself by its boot key.
NativeImage(m) == m.rtmr3 = <<>> /\ m.cfg = Zero /\ m.inst = m.key

\* A reviewed dstack base image measures each identity once, before it runs the
\* manifest, which is one that was reviewed.
DstackImage(m) ==
    /\ None \notin {m.app, m.compose}
    /\ \A i \in DOMAIN m.events : m.events[i].payload \notin {None, "odd", "throws"}
    /\ \A i, j \in DOMAIN m.events :
         m.events[i].event = m.events[j].event /\ m.events[i].event \in IdentityEvents => i = j
    /\ Payload(m, "app-id") = m.app /\ Payload(m, "compose-hash") = m.compose
    /\ Payload(m, "instance-id") \in {None, m.inst}
    /\ m.compose \in DOMAIN Manifests
    /\ Manifests[m.compose].parses /\ Manifests[m.compose].logs = "private"
    /\ Manifests[m.compose].pinned

\* What is reviewed is an image of either platform with a TLS key of its own.
ImagesAssumption == \A m \in Machines : m.honest =>
    m.spki \notin {None, "unobserved"} /\ (NativeImage(m) \/ DstackImage(m))
ASSUME ImagesAssumption

\* A TD has measured what one approved tuple lists, said of the TD itself.
Measures(p, m) ==
    IF p.v3.present
    THEN \E t \in p.v3.tuples :
           /\ t.mrtd = m.mrtd /\ t.rtmr = m.rtmr /\ t.rtmr3 = m.rtmr3
           /\ t.cfg = m.cfg /\ t.attr = m.attr
           /\ IF t.rule = {} THEN m.owner = Zero ELSE m.owner # Zero
    ELSE \E t \in p.tuples :
           /\ t.mrtd = m.mrtd /\ t.rtmr = m.rtmr
           /\ IF p.kind = "gcp"
              THEN t.attr = m.attr /\ m.rtmr3 = <<>> /\ m.cfg = Zero /\ m.owner = Zero
              ELSE /\ t.cfg = m.cfg /\ t.compose = m.compose /\ t.app = Payload(m, "app-id")
                   /\ t.os = Payload(m, "os-image-hash") /\ t.kp = Payload(m, "key-provider")

\* What a policy approves was reviewed: genuine hardware that has measured one of
\* its tuples runs a program that asserts the truth.
ReviewedAssumption == \A p \in Supplied, m \in Machines :
    Floor(p) /\ m.genuine /\ ~m.debug /\ Measures(p, m) => m.honest
ASSUME ReviewedAssumption

----------------------------------------------------------------------------
(* The call                                                                *)

\* assertPlatformUsable.
PlatformUsable(p, from, connection) ==
    /\ KindOf(p) \in Qualified \/ (from \in {"caller", "v3"} /\ Pilot)
    /\ RequiresRetained(p) => connection = "retained"

\* resolveGatewayPolicy: a platform this path cannot verify is refused before
\* anything is fetched.
Resolve(p, from, expires, connection) ==
    /\ phase = "idle"
    /\ IF p # NoPolicy /\ PlatformUsable(p, from, connection)
       THEN phase' = "resolved" /\ call' = Call(p, from, expires, connection)
       ELSE phase' = "refused" /\ UNCHANGED call
    /\ UNCHANGED <<serving, doc, engine, now, verdict>>

\* resolveGatewayPolicySource: the policy of the caller, else of the configured
\* source, else the one the package ships for this origin.
ResolveCaller == \E p \in Callers, c \in {"retained", "separate"} : Resolve(p, "caller", 0, c)

ResolveSource == \E s \in DOMAIN Published, c \in {"retained", "separate"} :
    LET served == Published[s][serving] IN Resolve(served.policy, s, served.expires, c)

ResolveShipped == \E candidate \in BOOLEAN, c \in {"retained", "separate"} :
    Resolve(Shipped(Registry, Origin, candidate), "package", 0, c)

\* What the owner of a policy object may do to it: a switch off, an older TCB or
\* age let in, a release approved beside the tuples.
Changes(p) ==
    {[p EXCEPT !.req = @ \ {s}] : s \in Switches}
    \cup {[p EXCEPT !.tcbs = @ \cup {"OutOfDate"}], [p EXCEPT !.age = MaxAge + 1]}
    \cup {[p EXCEPT !.apps = @ \cup {c.app}, !.composes = @ \cup {c.compose},
                    !.releases = @ \cup {c.release}] : c \in Claims}

\* The owner of a tuple-form policy object changes it while the call is under way;
\* it is read again only when the document is judged.
Mutate ==
    /\ phase = "resolved" /\ call.from = "caller" /\ call.policy = call.was
    /\ TupleForm(call.policy)
    /\ \E p \in Changes(call.policy) : call' = [call EXCEPT !.policy = p]
    /\ UNCHANGED <<phase, serving, doc, engine, now, verdict>>

\* fetchGatewayEvidence: no answer, one that refuses (404, 429, 503 and every
\* other failure), or one that is no document.
FetchFails ==
    /\ phase = "resolved" /\ phase' = "refused"
    /\ UNCHANGED <<call, serving, doc, engine, now, verdict>>

FetchGatewayEvidence ==
    /\ phase = "resolved" /\ phase' = "fetched"
    /\ \E m \in Machines : doc' \in Documents(m)
    /\ UNCHANGED <<call, serving, engine, now, verdict>>

\* prepareChainVerifier, of a caller that configured an engine or did not.
PrepareChainVerifier ==
    /\ phase = "fetched" /\ phase' = "prepared"
    /\ engine' \in {"absent", "failed", "works"}
    /\ UNCHANGED <<call, serving, doc, now, verdict>>

Expired == call.expires # 0 /\ now >= call.expires

Judge == VerifyGatewayAttestation(call.policy, doc, engine, Nonce, doc.observed,
                                  call.connection = "retained", now)

IdentityNames == {"app_id_pinned", "compose_hash_pinned", "release_pinned",
                  "platform_measurements_pinned", "os_image_pinned", "key_provider_pinned",
                  "release_tuple_matched"}

\* The quote is genuine and only the identity is not the approved one.
Moved(v) ==
    /\ ~v.ok
    /\ \E c \in v.checks : c.name = "quote_signature_chain" /\ c.passed
    /\ \E c \in v.checks : c.name \in IdentityNames /\ ~c.passed

\* Mutant: the first verdict stands.
VerifyGatewayEvidenceOnce ==
    /\ phase = "prepared" /\ phase' = "done"
    /\ verdict' = Judge /\ call' = [call EXCEPT !.since = serving]
    /\ UNCHANGED <<serving, doc, engine, now>>

\* verifyGatewayEvidence up to its first verdict; on a retained connection the
\* bound operation reopens instead of refreshing here.
VerifyGatewayEvidence ==
    /\ phase = "prepared"
    /\ IF Expired THEN phase' = "refused" /\ UNCHANGED <<call, verdict>>
       ELSE /\ verdict' = Judge
            /\ call' = [call EXCEPT !.since = serving]
            /\ phase' = IF Moved(verdict') /\ call.from \in DOMAIN Published
                           /\ call.connection = "separate"
                        THEN "refresh" ELSE "done"
    /\ UNCHANGED <<serving, doc, engine, now>>

\* The refresh takes the newest policy and judges the same document again.
Refresh ==
    /\ phase = "refresh"
    /\ LET served == Published[call.from][serving]
           fresh == [call EXCEPT !.policy = served.policy, !.was = served.policy,
                                 !.expires = served.expires, !.seen = serving]
       IN  IF \/ ~PlatformUsable(served.policy, call.from, call.connection)
              \/ served.expires # 0 /\ now >= served.expires
           THEN phase' = "refused" /\ verdict' = NoVerdict /\ UNCHANGED call
           ELSE /\ call' = fresh /\ phase' = "done"
                /\ verdict' = VerifyGatewayAttestation(served.policy, doc, engine, Nonce,
                                doc.observed, FALSE, now)
    /\ UNCHANGED <<serving, doc, engine, now>>

----------------------------------------------------------------------------
(* The world                                                               *)

Tick == /\ phase = "prepared" /\ now < MaxNow /\ now' = now + 1
        /\ UNCHANGED <<phase, call, serving, doc, engine, verdict>>

Publish == /\ phase \in {"idle", "prepared"}
           /\ \A s \in DOMAIN Published : serving < Len(Published[s])
           /\ serving' = serving + 1
           /\ UNCHANGED <<phase, call, doc, engine, now, verdict>>

VerdictNext ==
    \/ ResolveCaller \/ ResolveSource \/ ResolveShipped \/ Mutate
    \/ FetchFails \/ FetchGatewayEvidence \/ PrepareChainVerifier
    \/ VerifyGatewayEvidence \/ Refresh \/ Tick \/ Publish

VerdictSpec == VerdictInit /\ [][VerdictNext]_vars

----------------------------------------------------------------------------
(* Properties                                                              *)

Machine == doc.quote.by
Accepted == phase = "done" /\ verdict.ok
Pinned == TupleForm(call.was) \/ call.was.v3.present

\* Under a tuple-form or signed policy, an accepting verdict is about one genuine
\* TD that runs a reviewed release as a whole, made for this very challenge on a
\* platform whose TCB is up to date, however the log and the binding were
\* presented; on a platform with a key per node it is the node this client is
\* connected to.
SoundVerdict == Accepted /\ Pinned =>
    /\ verdict.level = "hardware-verified"
    /\ Machine.honest /\ Machine.genuine /\ ~Machine.debug /\ Machine.tcb = "UpToDate"
    /\ doc.quote.data.nonce = Nonce
    /\ RequiresRetained(call.was) => doc.observed = Machine.spki

\* The tuples of a v3 policy that list what a TD is: its registers, and no VM or a VM
\* in a project and zone the tuple admits.
Listing(v3, m) == {t \in v3.tuples :
    /\ t.mrtd = m.mrtd /\ t.rtmr = m.rtmr /\ t.cfg = m.cfg /\ t.attr = m.attr
    /\ t.rtmr3 = <<>> /\ t.owner = Zero
    /\ IF t.rule = {} THEN m.owner = Zero
       ELSE m.owner \in DOMAIN Site /\ Site[m.owner] \in t.rule}

\* Whether a policy approves a machine, said of the machine itself.
Approves(p, m, t0) ==
    IF p.v3.present
    THEN \E t \in p.v3.tuples :
           /\ Listing(p.v3, m) = {t} /\ m.rtmr3 = <<>>
           /\ p.v3.pzid => t.rule # {}
           /\ Registers(m) \notin p.v3.revoked
    ELSE \E t \in p.tuples :
           /\ t.mrtd = m.mrtd /\ t.rtmr = m.rtmr /\ t.release = m.release
           /\ t.app = m.app /\ t.compose = m.compose /\ t.from <= t0 /\ t0 < t.until
           /\ IF p.kind = "gcp" THEN t.attr = m.attr /\ m.owner = Zero /\ m.rtmr3 = <<>>
              ELSE t.cfg = m.cfg /\ t.os = Payload(m, "os-image-hash")
                   /\ t.kp = Payload(m, "key-provider")

\* The document a reviewed machine itself returned for this challenge, seen whole.
HonestDoc ==
    /\ Machine.honest /\ ~Machine.debug /\ Machine.genuine /\ Machine.tcb = "UpToDate"
    /\ doc = [Document(Machine, Truth(Machine, Nonce), "genuine", Machine.compose, Machine.spki)
                 EXCEPT !.quote.at = doc.quote.at, !.issued = {doc.quote.at}]

\* No false refusal: what a reviewed machine answers, in the age the policy
\* allows, is accepted by every policy for this origin that is above its floor,
\* approves the machine and was tampered with by nobody; and when a source has
\* published its release by the time the document is judged, and not withdrawn it,
\* the verdict is made under it.
HonestAccepted ==
    phase = "done" /\ HonestDoc /\ engine = "works" /\ Pinned
        /\ call.policy = call.was /\ Floor(call.was)
        /\ CanonicalOrigin(Origin) \in call.was.origins
        /\ verdict.at - doc.quote.at <= call.was.age =>
    /\ Approves(call.was, Machine, verdict.at) => verdict.ok
    /\ call.from \in DOMAIN Published /\ call.connection = "separate"
       /\ (\A i \in call.since..serving :
              Approves(Published[call.from][i].policy, Machine, verdict.at)) => verdict.ok

\* A VM identity that is reported as verified is the VM the quote came from, in a
\* project and zone the owner signed; "not-applicable" is only said of a quote
\* that names no VM; and no garbled identity passes as an absent one.
InstanceTruth == Accepted /\ call.policy.v3.present =>
    /\ verdict.identity = "verified" =>
         /\ verdict.instance = Machine.owner
         /\ \E t \in call.policy.v3.tuples : Site[Machine.owner] \in t.rule
    /\ verdict.identity = "not-applicable" => Machine.owner = Zero
    /\ verdict.identity # "verified" => doc.pzid = None /\ ~call.policy.v3.pzid

\* A policy that was resolved in tuple form keeps its floor to the verdict: no
\* change of the object in between drops the hardware chain, TLS in the TD,
\* private logs or the age limit, or approves a release beside its tuples.
FloorHolds == Accepted /\ TupleForm(call.was) =>
    /\ verdict.level = "hardware-verified" /\ doc.binding.transport = "in-tee-tls"
    /\ \E i \in doc.issued : verdict.at - i <= MaxAge
    /\ call.was.kind = "phala" => Manifests[Machine.compose].logs = "private"
    /\ call.policy = call.was

\* An approval that expired is never what a verdict rests on, and an expired
\* approval does not come back by a refresh.
ApprovalInForce == Accepted /\ call.from \in DOMAIN Published =>
    \E served \in {Published[call.from][call.seen]} :
        call.policy = served.policy /\ (served.expires # 0 => verdict.at < served.expires)

----------------------------------------------------------------------------
(* The inductive invariant of one verification                             *)

\* The policy of a call is one that was supplied, changed only by its owner and
\* only in tuple form, and a source's is the one it served when it was taken.
CallInv == call.from # None =>
    /\ call.was \in Supplied
    /\ \/ call.policy = call.was
       \/ call.from = "caller" /\ TupleForm(call.was) /\ call.policy \in Changes(call.was)
    /\ call.from \in DOMAIN Published =>
         /\ call.seen \in DOMAIN Published[call.from]
         /\ call.policy = Published[call.from][call.seen].policy
         /\ call.expires = Published[call.from][call.seen].expires
    /\ call.from \notin DOMAIN Published => call.expires = 0
    /\ RequiresRetained(call.policy) => call.connection = "retained"

\* What the hardware puts in a quote, or is found out about it.
Measurements == {"debug", "mrtd", "rtmr", "rtmr3", "cfg", "owner", "attr", "genuine", "tcb"}

\* A document says of the TD that quoted it what the hardware says; what a reviewed
\* program put in the quote is the truth about itself.
Shows(d) ==
    LET q == d.quote IN
    /\ q.by \in Machines /\ \A f \in Measurements : q[f] = q.by[f]
    /\ q.by.honest => \E n \in {Nonce, "earlier"} : q.data = BindingHash(Truth(q.by, n))
    /\ DOMAIN d.binding = DOMAIN Truth(q.by, Nonce)
    /\ \E len \in Nat : DOMAIN d.log = 1..len
    /\ d.issued \subseteq Nat

CallFields == {"policy", "was", "from", "expires", "connection", "seen", "since"}

\* Each phase has behind it what the calls before it established; the verdict is
\* that of the last policy, made before it expired and no sooner than the quote, and
\* a policy it says the release moved from is refreshed.
PhaseInv ==
    /\ now \in Nat /\ serving \in Nat
    /\ \A s \in DOMAIN Published : serving \in DOMAIN Published[s]
    /\ DOMAIN call = CallFields
    /\ phase = "idle" => call.from = None
    /\ phase \in {"resolved", "fetched", "prepared", "refresh", "done"} => call.from # None
    /\ phase \in {"fetched", "prepared", "refresh", "done"} =>
         Shows(doc) /\ doc.quote.at \in Nat /\ doc.quote.at <= now
    /\ phase \in {"refresh", "done"} => call.since = serving
    /\ phase = "refresh" => call.from \in DOMAIN Published /\ call.connection = "separate"
    /\ phase = "done" =>
         /\ verdict = VerifyGatewayAttestation(call.policy, doc, engine, Nonce, doc.observed,
                                               call.connection = "retained", verdict.at)
         /\ verdict.at \in Nat /\ (call.expires # 0 => verdict.at < call.expires)
         /\ doc.quote.at <= verdict.at
         /\ call.from \in DOMAIN Published /\ call.connection = "separate" =>
              call.seen = serving \/ ~Moved(verdict)

GatewayInv == CallInv /\ PhaseInv

=============================================================================
