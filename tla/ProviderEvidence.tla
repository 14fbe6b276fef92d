--------------------------- MODULE ProviderEvidence ---------------------------
(***************************************************************************)
(* verify/*.ts: the verdict on a provider's evidence, a pure function of    *)
(* the evidence, the route and a clock.  A byte string is a tuple of        *)
(* strings that is only compared, <<>> where the field is absent; a hash    *)
(* tags what it was taken of.  RTMR0..2 are checked alike and one boot      *)
(* register stands for them.  Quotes name the TD that made them (by), which *)
(* the code cannot see and the properties can.                              *)
(***************************************************************************)
EXTENDS FiniteSets, Naturals, Sequences

CONSTANTS
    Measurements,    \* measurements.json: <<provider, model>> to [kind, accepted, endpoint]
    ComposeFiles,    \* what a compose document says: [repo, managers]
    ActionLogs,      \* compose-manager logs: sets of actions
    Skew,            \* 30 s of clock skew
    MaxEvidenceAge,  \* DEFAULT_EVIDENCE_MAX_AGE_MS
    KeyWidth         \* of an ed25519 key, 32 bytes

None == "none"
Absent == <<>>

\* hexEqual: an absent value equals nothing.
HexEqual(a, b) == a # Absent /\ a = b

Sha(bytes) == <<"sha">> \o bytes
Address(key) == IF key = Absent THEN Absent ELSE <<"address">> \o key  \* keccak256

Check(name, passed, required) == [name |-> name, passed |-> passed, required |-> required]
Require(name, passed) == Check(name, passed, TRUE)

\* ParsedTdxQuote: report_data is a pair of 32-byte halves.
TdxQuote(by, debug, boot, rtmr3, cfg, data) ==
    [by |-> by, given |-> TRUE, parses |-> TRUE, tee |-> "tdx", debug |-> debug, boot |-> boot,
     rtmr3 |-> rtmr3, cfg |-> cfg, data |-> data]
NoTd == [name |-> None, honest |-> FALSE, serves |-> {}, key |-> Absent, tls |-> Absent]
Unparsed == [TdxQuote(NoTd, FALSE, [mrtd |-> Absent, rtmr |-> Absent], Absent,
                      Absent, <<Absent, Absent>>) EXCEPT !.parses = FALSE]
NoQuote == [Unparsed EXCEPT !.given = FALSE]

\* freshnessCheck, over the instant the envelope names (readEnvelope: the present
\* when it names none).
FreshnessCheck(envelope, e) ==
    LET at == IF envelope.at = 0 THEN e.now ELSE envelope.at
    IN  Require("evidence_freshness", at <= e.now + Skew /\ e.now <= at + MaxEvidenceAge)

----------------------------------------------------------------------------
(* The pinned policy and the expectations of a route                       *)

NoPins == [kind |-> None, accepted |-> {}, endpoint |-> None]

\* pinnedMeasurementPolicyFor, pinnedEndpointIdentityFor: per model on the
\* NEAR-protocol providers, per provider on the others.
PinsFor(provider, model) ==
    LET row == <<provider, IF provider \in {"near-ai", "other"} THEN model ELSE "*">>
    IN  IF row \in DOMAIN Measurements THEN Measurements[row] ELSE NoPins

\* buildExpectations.
BuildExpectations(provider, upstream, modality, nonce, now, node) ==
    LET pins == PinsFor(provider, upstream)
    IN  [provider |-> provider, upstream |-> upstream, modality |-> modality,
         nonce |-> nonce, pins |-> pins, now |-> now, node |-> node,
         endpoint |-> IF pins.endpoint = None THEN provider ELSE pins.endpoint]

\* matchMeasurementAllowlist: every register at once (no two entries of a policy
\* have the same registers, so the first match is the only one).
MatchMeasurementAllowlist(q, allowlist) ==
    {entry \in allowlist : entry.boot = q.boot /\ entry.rtmr3 = q.rtmr3}

----------------------------------------------------------------------------
(* verify/near-authority.ts                                                *)

\* An event names a value; a version-1 digest is derived from it, a version-2
\* digest is that of a preimage that repeats it.
Committed(name, payload) == <<"v1", name>> \o payload
CommittedV2(preimage) == <<"v2">> \o preimage
Garbage == <<"ff">>

Rtmr3Digest(ev) ==
    IF ev.preimage # Absent
    THEN IF ev.digest = CommittedV2(ev.preimage) /\ ev.preimage = <<ev.name>> \o ev.payload
         THEN ev.digest ELSE Garbage
    ELSE LET derived == Committed(ev.name, ev.payload)
         IN  IF ev.digest \in {Absent, derived} THEN derived ELSE Garbage

\* replay of RTMR3, and of a boot register, whose digests stand as given.
Replay(events, imr) ==
    LET own == SelectSeq(events, LAMBDA ev : ev.imr = imr)
    IN  [i \in DOMAIN own |-> IF imr = 3 THEN Rtmr3Digest(own[i]) ELSE own[i].digest]

\* singlePayload: exactly one event of the name, measured and committing.
SinglePayload(events, name) ==
    LET at == {i \in DOMAIN events : events[i].name = name}
    IN  IF /\ Cardinality(at) = 1
           /\ \A i \in at : events[i].imr = 3 /\ Rtmr3Digest(events[i]) # Garbage
        THEN events[CHOOSE i \in at : TRUE].payload ELSE Absent

Config(composeHash) == <<"01">> \o composeHash
Recent(at, e, policy) == e.now <= at + policy.maxAge /\ at <= e.now + Skew

BootCompose(doc, q, events, policy) ==
    LET hash == Sha(doc.boot)
    IN  /\ doc.boot # Absent /\ HexEqual(q.cfg, Config(hash))
        /\ Replay(events, 0) = q.boot.rtmr /\ Replay(events, 3) = q.rtmr3
        /\ HexEqual(SinglePayload(events, "compose-hash"), hash)
        /\ SinglePayload(events, "os-image-hash") # Absent
        /\ SinglePayload(events, "app-id") # Absent
        /\ ComposeFiles[doc.boot].repo = policy.composeRepo

\* dstackImages.find: the first record with this OS hash, if there is one.
ImageRecord(images, os) ==
    {images[i] : i \in {k \in DOMAIN images :
        images[k].os = os /\ \A j \in DOMAIN images : images[j].os = os => k <= j}}

BaseImage(doc, q, events, policy) ==
    \E image \in ImageRecord(doc.collateral.images, SinglePayload(events, "os-image-hash")) :
        /\ ~image.dev /\ (image.pre => policy.allowPrerelease)
        /\ q.boot \in image.registers

Onchain(doc, events, policy, e) ==
    LET record == doc.collateral.onchain
    IN  /\ record.kms = policy.kms /\ Recent(record.at, e, policy)
        /\ record.app = SinglePayload(events, "app-id")
        /\ record.compose = Sha(doc.boot)
        /\ record.os = SinglePayload(events, "os-image-hash")
        /\ record.allowed

\* The compose-manager's log, bound by a second quote of the same TD.
ManagerLog(doc, q, nonce) ==
    LET second == doc.second
    IN  /\ second.parses /\ ~second.debug
        /\ second.boot = q.boot /\ second.cfg = q.cfg /\ second.rtmr3 = q.rtmr3
        /\ second.data = <<Sha(doc.actions), nonce>> /\ doc.actionsHash = Sha(doc.actions)

\* Every manager that started, and every one the boot compose names, is released.
ManagersReleased(doc, actions, policy, e) ==
    LET releases == doc.collateral.releases
        started == {a.image : a \in {b \in actions : b.action = "compose_manager_started"}}
    IN  /\ releases.repo = policy.managerRepo /\ Recent(releases.at, e, policy)
        /\ started # {}
        /\ started \cup ComposeFiles[doc.boot].managers \subseteq releases.images

\* Every file the log claims is published in the official repository.
FilesPublished(doc, actions, policy, e) ==
    LET publication == doc.collateral.publication
        claims == {a \in actions : a.sha # Absent}
    IN  /\ publication.repo = policy.composeRepo /\ Recent(publication.at, e, policy)
        /\ \A a \in claims : /\ a.commit \in publication.commits
                             /\ <<a.commit, a.sha>> \in publication.files
        /\ claims # {} /\ \E a \in actions : a.action = "compose_up"

VerifyNearReleaseAuthority(doc, q, policy, e) ==
    /\ BootCompose(doc, q, doc.events, policy)
    /\ BaseImage(doc, q, doc.events, policy)
    /\ Onchain(doc, doc.events, policy, e)
    /\ ManagerLog(doc, q, e.nonce)
    /\ ManagersReleased(doc, ActionLogs[doc.actions], policy, e)
    /\ FilesPublished(doc, ActionLogs[doc.actions], policy, e)

\* verifyNearGpuEvidence: the document and each of its entries carry the nonce.
VerifyNearGpuEvidence(gpu, nonce) ==
    gpu.present /\ gpu.nonce = nonce /\ gpu.entries # {} /\ gpu.entries \subseteq {nonce}

----------------------------------------------------------------------------
(* The four verifiers                                                      *)

\* NormalizedAttestationResult, as far as a caller acts on it.
AssembleResult(checks, requestedLevel, key, spki, opaque) ==
    LET ok == \A c \in checks : c.required => c.passed
    IN  [ok |-> ok, level |-> IF ok THEN requestedLevel ELSE "unverified",
         checks |-> checks, key |-> key, spki |-> spki, opaque |-> opaque]

FailedResult(reason, level) ==
    AssembleResult({Require("evidence_present", FALSE)}, level, Absent, Absent, FALSE)

\* MRCONFIGID binds the compose document; all-zero (absent here) binds nothing.
ComposeBinding(doc, q) ==
    IF doc.compose = Absent \/ q.cfg = Absent THEN {Require("compose_binding", FALSE)}
    ELSE {Require("compose_binding", q.cfg = Config(Sha(doc.compose))),
          Require("reported_compose_hash", HexEqual(doc.composeHash, Sha(doc.compose)))}

NearQuoteChecks(doc, q, e) ==
    {Require("expected_tee_type", q.tee = "tdx"), Require("debug_disabled", ~q.debug),
     Require("nonce_binding", q.data[2] = e.nonce),
     Require("tls_spki_binding", doc.address # Absent /\ doc.tls # Absent
                                   /\ q.data[1] = Sha(doc.address \o doc.tls))}
    \cup ComposeBinding(doc, q)
    \cup IF e.pins.kind = "near-authority"
         THEN {Require("release_authority",
                       \E policy \in e.pins.accepted : VerifyNearReleaseAuthority(doc, q, policy, e))}
         ELSE {Require("measurement_allowlist",
                       \E entry \in MatchMeasurementAllowlist(q, e.pins.accepted) :
                           HexEqual(entry.compose, Sha(doc.compose)))}

VerifyNear(envelope, e) ==
    LET doc == envelope.payload
        q == doc.quote
        checks ==
          {Require("evidence_present", q.given), Require("quote_parsed", q.parses),
           Require("model_binding", doc.model = e.upstream),
           Require("gpu_evidence_present", doc.gpu.present), FreshnessCheck(envelope, e)}
          \cup (IF q.parses THEN NearQuoteChecks(doc, q, e) ELSE {})
          \cup IF e.provider # "other" THEN {}
               ELSE {Require("gpu_nonce_binding", VerifyNearGpuEvidence(doc.gpu, e.nonce)),
                     Require("encryption_key_binding",
                             /\ doc.algo = "ed25519" /\ Len(doc.key) = KeyWidth
                             /\ HexEqual(doc.address, doc.key))}
    IN  AssembleResult(checks, "provider-attested", doc.key, doc.tls, TRUE)

\* verifyCertPossession: without node:crypto a certificate that is there goes
\* unchecked; one that is missing fails in every runtime.
CertPossession(cert, signature, body, node) ==
    IF node /\ cert.key # Absent
    THEN [available |-> TRUE, spki |-> Sha(cert.key), fresh |-> cert.fresh,
          possession |-> signature = <<cert.key, body>>]
    ELSE [available |-> cert.key = Absent, spki |-> Absent, fresh |-> FALSE,
          possession |-> FALSE]

NonceKey(nonce, key) == Sha(nonce \o key)

KeyBound(instance, keys, e) ==
    /\ instance.id \in DOMAIN keys
    /\ HexEqual(instance.quote.data[1], NonceKey(e.nonce, keys[instance.id]))

InstanceChecks(instance, keys, e) ==
    LET q == instance.quote
        body == instance.body
        cert == CertPossession(instance.cert, instance.signature, body, e.node)
    IN  {Require("identity", instance.id # None), Require("quote_parsed", q.parses)}
        \cup IF ~q.parses THEN {}
             ELSE {Require("expected_tee_type", q.tee = "tdx"), Require("debug_disabled", ~q.debug),
                   Require("measurement_allowlist",
                           MatchMeasurementAllowlist(q, e.pins.accepted) # {}),
                   Require("nonce_key_binding", KeyBound(instance, keys, e)),
                   Require("gpu_evidence_present", instance.gpu # {}),
                   Check("certificate_spki_binding", HexEqual(q.data[2], cert.spki), cert.available),
                   Check("certificate_freshness", cert.fresh, cert.available),
                   Check("key_possession", cert.possession, cert.available),
                   Check("attested_nonce", body.nonce = e.nonce, cert.available),
                   Check("attested_quote", body.quote = q, cert.available),
                   Check("attested_gpu_evidence", body.gpu = instance.gpu, cert.available)}

\* Mutant: the first instance speaks for the others.
VerifyChutesFirst(envelope, e) ==
    LET doc == envelope.payload
    IN  AssembleResult(
          {Require("evidence_present", doc.instances # <<>>), FreshnessCheck(envelope, e)}
          \cup (IF doc.instances = <<>> THEN {}
                ELSE InstanceChecks(doc.instances[1], doc.keys, e)),
          "provider-attested", Absent, Absent, e.modality = "e2ee")

\* Every instance the provider returned, and an opaque route only when the key of
\* every one of them is bound (an instance whose quote does not parse is passed
\* over: its own required check refuses it).
VerifyChutes(envelope, e) ==
    LET doc == envelope.payload
        instances == {doc.instances[i] : i \in DOMAIN doc.instances}
        everyKeyBound == instances # {}
            /\ \A i \in instances : i.quote.parses => KeyBound(i, doc.keys, e)
        checks ==
          {Require("evidence_present", instances # {}),
           Require("all_instances_returned", ~doc.failed),
           Require("measurement_policy_pinned", e.pins.accepted # {}),
           Check("model_binding", FALSE, FALSE), FreshnessCheck(envelope, e)}
          \cup UNION {InstanceChecks(i, doc.keys, e) : i \in instances}
        only == DOMAIN doc.keys
    IN  AssembleResult(checks, "provider-attested",
          IF Cardinality(only) = 1 THEN doc.keys[CHOOSE id \in only : TRUE] ELSE Absent,
          Absent, e.modality = "e2ee" /\ everyKeyBound)

VerifyVenice(envelope, e) ==
    LET doc == envelope.payload
        q == doc.quote
        checks ==
          {Require("evidence_present", q.given), Require("quote_parsed", q.parses),
           Require("expected_tee_type", q.parses /\ q.tee = "tdx"),
           Require("debug_disabled", q.parses /\ ~q.debug),
           Require("nonce_binding", HexEqual(doc.nonce, e.nonce) /\ q.data[2] = e.nonce),
           Require("model_binding", doc.model = e.upstream),
           Require("signing_algorithm", doc.algo = "ecdsa"),
           Require("signing_key_address", HexEqual(Address(doc.key), doc.address)),
           Require("signing_address_quote_binding", HexEqual(q.data[1], doc.address)),
           Require("reported_quote_binding", q.parses /\ doc.reported = q.data /\ doc.nested = q.data),
           Require("workload_keyset_binding", doc.key # Absent /\ doc.key \in doc.keyset),
           Require("gpu_evidence_present", doc.gpu # {}), FreshnessCheck(envelope, e)}
    IN  AssembleResult(checks, "provider-attested", doc.key, Absent, TRUE)

TinfoilEndpoint == "inference.tinfoil.sh"
SdkSteps == {"fetchDigest", "verifyCode", "verifyEnclave", "compareMeasurements",
             "verifyCertificate"}

\* The key binds only against a pinned connection somebody made to the enclave.
TransportBound(doc) ==
    /\ doc.binding.mode = "tls-pinned" /\ doc.binding.verified
    /\ doc.binding.endpoint = TinfoilEndpoint
    /\ HexEqual(doc.tls, doc.binding.observed)

VerifyTinfoil(envelope, e) ==
    LET doc == envelope.payload
        checks ==
          {Require("evidence_present", doc.present),
           Require("sdk_security_verified", doc.secure),
           Require("official_verifier_identity", doc.official),
           Require("enclave_host_binding",
                   {doc.router, doc.enclave, e.endpoint} = {TinfoilEndpoint}),
           Require("sdk_verification_steps", SdkSteps \subseteq doc.succeeded),
           Require("provider_release_authority",
                   e.pins.kind = "sigstore" /\ doc.repo \in e.pins.accepted),
           Require("signed_release_identity",
                   Absent \notin {doc.release, doc.code, doc.live}),
           Require("code_matches_live_enclave", HexEqual(doc.code, doc.live)),
           Require("serving_modality_supported", e.modality = "tee"),
           Require("attested_key_binding",
                   IF e.modality = "e2ee" THEN doc.hpke # Absent ELSE TransportBound(doc)),
           Check("nonce_binding", FALSE, FALSE), FreshnessCheck(envelope, e)}
    IN  AssembleResult(checks, "sdk-verified", Absent, doc.tls, FALSE)

\* verifyRawEvidence, on the verifier of the provider if it has one.
VerifyRawEvidence(provider, envelope, e) ==
    CASE provider \in {"near-ai", "other"} -> VerifyNear(envelope, e)
      [] provider = "chutes"  -> VerifyChutes(envelope, e)
      [] provider = "venice"  -> VerifyVenice(envelope, e)
      [] provider = "tinfoil" -> VerifyTinfoil(envelope, e)
      [] OTHER -> FailedResult("provider_not_verifiable", "unsupported")
=============================================================================
