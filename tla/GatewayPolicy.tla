---------------------------- MODULE GatewayPolicy ----------------------------
(***************************************************************************)
(* gateway/policy.ts: the policies a gateway may be held to.  A document    *)
(* is parsed by loadGatewayPolicy into one of two forms, or a release       *)
(* policy v3 is built from a signed envelope; the package ships a registry. *)
(* The per-platform floor is checked again on every use, because a policy   *)
(* is an object its owner can change.  Registers, digests and names are     *)
(* values that are only compared; a list is a set.                          *)
(***************************************************************************)
EXTENDS FiniteSets, Naturals

CONSTANTS
    CanonicalOrigin(_),  \* canonicalGatewayOrigin of an origin, None if it throws
    MaxTuples,           \* MAX_RELEASE_TUPLES and MAX_RELEASE_V3_TUPLES
    MaxLifetime,         \* MAX_RELEASE_TUPLE_LIFETIME_MS
    MaxAge,              \* the floor's bound on maxEvidenceAgeMs
    MaxLoadAge           \* the loader's bound on it

None == "none"
Zero == "zero"

\* The switches of a policy, all of which a document must state.
Switches == {"hardware", "inTeeTls", "privateLogs", "pinnedImages", "expiry"}

\* GATEWAY_PLATFORM_KINDS and GATEWAY_PLATFORM_QUALIFIED.
Kinds     == {"phala", "gcp"}
Qualified == {"phala", "gcp"}

----------------------------------------------------------------------------
(* Policies                                                                *)

\* GatewayPlatformMeasurements: four independent lists.
NoPlatform == [pinned |-> FALSE, mrtd |-> {}, cfg |-> {}, rtmr |-> {}, os |-> {}]

\* GatewayReleasePolicyV3: approved tuples, revoked digests, requireGcePzid.
NoV3 == [present |-> FALSE, tuples |-> {}, revoked |-> {}, pzid |-> FALSE]

\* GatewayMeasurementPolicy: kind and tuples are None and {} in the legacy form,
\* whose identities are the independent lists, key provider and platform.
Policy(kind, tuples, v3, origins, apps, composes, releases, kp, platform, req, tcbs, age) ==
    [kind |-> kind, tuples |-> tuples, v3 |-> v3, origins |-> origins,
     apps |-> apps, composes |-> composes, releases |-> releases, kp |-> kp,
     platform |-> platform, req |-> req, tcbs |-> tcbs, age |-> age]

NoPolicy == Policy(None, {}, NoV3, {}, {}, {}, {}, None, NoPlatform, {}, {}, 0)

\* gatewayPolicyPlatformKind.
KindOf(p) == IF p.kind = None THEN "phala" ELSE p.kind

TupleForm(p) == p.kind # None \/ p.tuples # {}

\* gatewayPolicyRequiresRetainedConnection.
RequiresRetained(p) == KindOf(p) = "gcp"

----------------------------------------------------------------------------
(* Tuples                                                                  *)

\* GatewayReleaseTuple: every value of one release observed together.  Registers
\* mrtd, rtmr (RTMR0..2), cfg (MRCONFIGID), attr (td_attributes and XFAM).
Tuple(id, release, app, compose, mrtd, rtmr, cfg, os, kp, attr, from, until) ==
    [id |-> id, release |-> release, app |-> app, compose |-> compose,
     mrtd |-> mrtd, rtmr |-> rtmr, cfg |-> cfg, os |-> os, kp |-> kp,
     attr |-> attr, from |-> from, until |-> until]

\* validateGatewayReleaseTuple: exactly the fields of its kind, a key provider
\* that names the KMS, no debug attribute, a bounded non-empty window.
ValidTuple(kind, t) ==
    /\ IF kind = "phala" THEN /\ t.attr = None /\ None \notin {t.cfg, t.os, t.kp}
                              /\ t.kp # "not_kms"
       ELSE t.cfg = None /\ t.os = None /\ t.kp = None /\ t.attr \notin {None, "debug"}
    /\ t.from < t.until /\ t.until - t.from <= MaxLifetime

UniqueIds(tuples) == \A s, t \in tuples : s.id = t.id => s = t

\* validateReleaseTuples.
ValidTuples(kind, tuples) ==
    /\ tuples # {} /\ Cardinality(tuples) <= MaxTuples
    /\ \A t \in tuples : ValidTuple(kind, t)
    /\ UniqueIds(tuples)

\* GatewayMeasuredTupleV3: the quote's registers; cfg is MRCONFIGID with
\* MROWNERCONFIG; rule is the sites of a gce-pzid rule, {} the zero rule.
V3Tuple(id, mrtd, rtmr, rtmr3, cfg, owner, attr, rule) ==
    [id |-> id, mrtd |-> mrtd, rtmr |-> rtmr, rtmr3 |-> rtmr3, cfg |-> cfg,
     owner |-> owner, attr |-> attr, rule |-> rule]

\* releaseTupleDigest: the registers and the MROWNER rule, without the label.
TupleDigest(t) == [mrtd |-> t.mrtd, rtmr |-> t.rtmr, rtmr3 |-> t.rtmr3, cfg |-> t.cfg,
                   owner |-> t.owner, attr |-> t.attr, rule |-> t.rule]

\* validateGatewayMeasuredTupleV3: a gce-pzid rule comes with the zero MROWNER.
ValidV3Tuple(t) == t.rule # {} => t.owner = Zero

\* validateGatewayReleasePolicyV3: also, that no tuple it approves is revoked.
ValidV3(v) ==
    /\ v.tuples # {} /\ Cardinality(v.tuples) <= MaxTuples
    /\ \A t \in v.tuples : ValidV3Tuple(t)
    /\ UniqueIds(v.tuples)
    /\ \A t \in v.tuples : TupleDigest(t) \notin v.revoked

----------------------------------------------------------------------------
(* The floor                                                               *)

Derived(p) == /\ p.apps = {t.app : t \in p.tuples}
              /\ p.composes = {t.compose : t \in p.tuples}
              /\ p.releases = {t.release : t \in p.tuples}

\* Mutant: the switches are trusted to be as they were loaded.
FloorLoaded(p) ==
    IF p.v3.present THEN p.kind = "gcp" /\ ValidV3(p.v3)
    ELSE p.kind = None \/ (ValidTuples(p.kind, p.tuples) /\ Derived(p))

\* assertGatewayPlatformSecurityFloor.
Floor(p) ==
    /\ p.req = Switches /\ p.age <= MaxAge /\ p.tcbs = {"UpToDate"}
    /\ IF p.kind = None
       THEN p.tuples = {} /\ ~p.v3.present /\ p.kp # None /\ p.platform.pinned
       ELSE /\ p.kind \in Kinds /\ p.kp = None /\ ~p.platform.pinned
            /\ IF p.v3.present
               THEN /\ p.kind = "gcp" /\ p.tuples = {}
                    /\ p.apps = {} /\ p.composes = {} /\ p.releases = {}
                    /\ ValidV3(p.v3)
               ELSE ValidTuples(p.kind, p.tuples) /\ Derived(p)

----------------------------------------------------------------------------
(* Loading                                                                 *)

\* A policy document: the fields it carries, which may be too few or too many.
\* stated are the switches it states; legacy, that it carries identity lists of
\* its own; extra, that it carries a field no form has.
\* loadLegacyGatewayPolicy: every switch stated, lists not empty, origins
\* canonical.
LoadLegacy(raw, tuples, apps, composes, releases) ==
    LET origins == {CanonicalOrigin(o) : o \in raw.origins}
    IN  IF \/ raw.stated # Switches \/ raw.age \notin 1..MaxLoadAge \/ raw.tcbs = {}
           \/ None \in origins \/ {} \in {origins, apps, composes, releases}
        THEN NoPolicy
        ELSE Policy(raw.kind, tuples, NoV3, origins, apps, composes, releases,
                    raw.kp, raw.platform, raw.req, raw.tcbs, raw.age)

\* loadTupleGatewayPolicy: none of the legacy fields, valid tuples, and the
\* lists derived from them.
LoadTuple(raw) ==
    IF \/ raw.kind \notin Kinds \/ raw.legacy \/ raw.extra
       \/ ~ValidTuples(raw.kind, raw.tuples)
    THEN NoPolicy
    ELSE LoadLegacy(raw, raw.tuples, {t.app : t \in raw.tuples},
                    {t.compose : t \in raw.tuples}, {t.release : t \in raw.tuples})

\* loadGatewayPolicy: the document says which form it is; mixing them refuses.
LoadGatewayPolicy(raw) ==
    IF raw.kind # None THEN LoadTuple(raw)
    ELSE IF raw.tuples # {} THEN NoPolicy
    ELSE LoadLegacy(raw, {}, raw.apps, raw.composes, raw.releases)

\* What releasePolicyV3 of a verified envelope becomes (release-v3.ts).
ReleasePolicy(v3, origins) ==
    IF ValidV3(v3)
    THEN Policy("gcp", {}, [v3 EXCEPT !.present = TRUE], origins, {}, {}, {}, None,
                NoPlatform, Switches, {"UpToDate"}, MaxAge)
    ELSE NoPolicy

\* pinnedGatewayPolicyFor: the shipped entry for the canonical origin, a
\* candidate only when the caller opted in.  A registry with an entry that does
\* not parse, or of an unqualified platform, throws.
Shipped(registry, origin, allowCandidate) ==
    LET o == CanonicalOrigin(origin)
        fit == {e \in registry : /\ o \in LoadGatewayPolicy(e.raw).origins
                                 /\ (e.status = "published" \/ allowCandidate)}
    IN  IF \/ o = None \/ fit = {}
           \/ \E e \in registry : \/ LoadGatewayPolicy(e.raw) = NoPolicy
                                  \/ KindOf(LoadGatewayPolicy(e.raw)) \notin Qualified
        THEN NoPolicy
        ELSE LoadGatewayPolicy((CHOOSE e \in fit : TRUE).raw)
=============================================================================
