--------------------------- MODULE GatewayEvidence ---------------------------
(***************************************************************************)
(* What the gateway verifier reads out of an attestation document:          *)
(* gateway/binding.ts, eventLog.ts, appCompose.ts, gce-pzid.ts and          *)
(* verify/tdx.ts.  A hash is its own preimage, so it is injective and tells *)
(* nothing else apart; hex spellings are normalised values.                 *)
(***************************************************************************)
EXTENDS GatewayPolicy, Sequences

CONSTANTS
    Manifests,      \* app-compose manifests by their SHA-256: [parses, logs, pinned]
    Site,           \* the project and zone of every GCE VM
    Mentions(_)     \* the provider ids the decoded key-provider payload contains

\* hexEqual: an absent value equals nothing, another absent value included.
HexEqual(a, b) == a # None /\ a = b

----------------------------------------------------------------------------
(* The binding                                                             *)

\* GatewayAttestationBinding; strange marks a field no binding has.
Binding(nonce, app, inst, compose, release, origin, alg, key, transport, spki) ==
    [nonce |-> nonce, app |-> app, inst |-> inst, compose |-> compose,
     release |-> release, origin |-> origin, alg |-> alg, key |-> key,
     transport |-> transport, spki |-> spki, strange |-> FALSE]

\* normalizeGatewayBinding refuses unknown fields, an origin that is not
\* canonical, and a certificate that disagrees with the transport.
WellFormed(b) ==
    /\ ~b.strange
    /\ b.alg \in {"x25519", "ed25519", "secp256k1"}
    /\ b.transport \in {"in-tee-tls", "gateway-tls"}
    /\ (b.transport = "in-tee-tls") <=> (b.spki # None)
    /\ CanonicalOrigin(b.origin) # None

NormalizeGatewayBinding(b) == [b EXCEPT !.origin = CanonicalOrigin(@)]

\* canonicalGatewayBindingJson, gatewayBindingHash: what the TD puts in
\* report_data.
BindingHash(b) == NormalizeGatewayBinding(b)

----------------------------------------------------------------------------
(* The quote                                                               *)

\* parseTdxQuote: the fields of a TDX quote.  parsed and tdx fail on bytes that
\* are none; genuine and tcb are what a chain verifier finds out; by is the
\* machine that produced it, which no verifier can read.
Quote(m, at, data) ==
    [parsed |-> TRUE, tdx |-> TRUE, debug |-> m.debug, mrtd |-> m.mrtd,
     rtmr |-> m.rtmr, rtmr3 |-> m.rtmr3, cfg |-> m.cfg, owner |-> m.owner,
     attr |-> m.attr, data |-> data, genuine |-> m.genuine, tcb |-> m.tcb,
     by |-> m, at |-> at]

----------------------------------------------------------------------------
(* The event log                                                           *)

\* DstackEventLogEntry.  A digest is the tuple that was hashed, <<>> when the
\* entry has none; preimage is <<>> on a V1 entry.
Entry(imr, event, payload, digest, preimage) ==
    [imr |-> imr, event |-> event, payload |-> payload, digest |-> digest,
     preimage |-> preimage]

Unhashable == <<"ff">>

\* computeRtmr3EventDigestV1.
DigestV1(event, payload) == <<"v1", event, payload>>

\* What a V2 entry's preimage hashes to.
DigestV2(preimage) == <<"v2", preimage>>

\* rtmr3EventDigest: the digest an entry must have, from its own fields; a V2
\* entry's preimage has to name the event and payload shown beside it.
Rtmr3EventDigest(e) ==
    IF e.payload = "odd" THEN Unhashable
    ELSE IF e.preimage # <<>>
    THEN IF e.digest = DigestV2(e.preimage) /\ e.preimage = <<e.event, e.payload>>
         THEN e.digest ELSE Unhashable
    ELSE DigestV1(e.event, e.payload)

\* The entries of a register, and the k-th of them.
Entries(log, imr) == {i \in DOMAIN log : log[i].imr = imr}
NthEntry(log, imr, k) ==
    log[CHOOSE i \in Entries(log, imr) :
            Cardinality({j \in Entries(log, imr) : j <= i}) = k]

\* replayRegister and replayRtmrs: a register is the digests that extended it;
\* those of RTMR3 are derived.
ReplayRtmrs(log, imr) ==
    [k \in 1..Cardinality(Entries(log, imr)) |->
        IF imr = 3 THEN Rtmr3EventDigest(NthEntry(log, imr, k))
        ELSE NthEntry(log, imr, k).digest]

\* rtmr3EventDigestIsSelfConsistent.
SelfConsistent(e) == /\ Rtmr3EventDigest(e) # Unhashable
                     /\ e.digest # <<>> => Rtmr3EventDigest(e) = e.digest

\* inconsistentRtmr3Events is empty.
Committing(log) == \A i \in DOMAIN log : log[i].imr = 3 => SelfConsistent(log[i])

Named(log, event) == {i \in DOMAIN log : log[i].event = event}

\* singleEventPayload: absent is None; a second event of that name, in whatever
\* register, one outside RTMR3 or one that does not commit throws.
SingleEventPayload(log, event) ==
    IF Named(log, event) = {} THEN None
    ELSE LET i == CHOOSE i \in Named(log, event) : TRUE
         IN  IF Named(log, event) = {i} /\ log[i].imr = 3 /\ SelfConsistent(log[i])
             THEN log[i].payload ELSE "throws"

IdentityEvents == {"compose-hash", "instance-id", "app-id", "key-provider", "os-image-hash"}

\* eventLogRead: one unusable identity makes every identity of the log unusable.
EventLogRead(log) == \A n \in IdentityEvents : SingleEventPayload(log, n) # "throws"

Measured(log, event) == IF EventLogRead(log) THEN SingleEventPayload(log, event) ELSE None

----------------------------------------------------------------------------
(* The manifest and the VM identity                                        *)

\* readAttestedAppCompose and extractComposeImages: the manifest's facts; one
\* that does not parse has none.
AppCompose(manifest) ==
    IF manifest \in DOMAIN Manifests /\ Manifests[manifest].parses
    THEN [hash |-> manifest, logs |-> Manifests[manifest].logs,
          pinned |-> Manifests[manifest].pinned]
    ELSE [hash |-> None, logs |-> None, pinned |-> FALSE]

\* gceInstanceFromMrOwner with parseGcePzid: the VM a presented PZID names, if
\* it is canonical and hashes to the quoted MROWNER.
GceInstanceFromMrOwner(pzid, owner) ==
    IF owner # Zero /\ pzid \in DOMAIN Site /\ pzid = owner THEN pzid ELSE None

\* gcePzidRuleAdmits: the project and one of the zones of the rule.
GcePzidRuleAdmits(rule, vm) == Site[vm] \in rule
=============================================================================
