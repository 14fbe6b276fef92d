--------------------------- MODULE MCGatewayVerdict ---------------------------
(* Two reviewed dstack releases, one reviewed GCP image, and machines that     *)
(* differ from them in one measured value.  Values are named by release.       *)
EXTENDS GatewayVerdict

MCOrigin == "https://gw/"
MCCanonicalOrigin(o) == CASE o \in {"https://gw/", "https://gw"} -> "https://gw"
                          [] o = "https://other" -> o
                          [] OTHER -> None

MCManifests == [h1 |-> [parses |-> TRUE, logs |-> "private", pinned |-> TRUE],
                h2 |-> [parses |-> TRUE, logs |-> "private", pinned |-> TRUE],
                hx |-> [parses |-> TRUE, logs |-> "public", pinned |-> FALSE],
                hg |-> [parses |-> FALSE, logs |-> "private", pinned |-> TRUE]]
MCSite == [vm_in |-> "zone_a", vm_out |-> "zone_b"]
MCMentions(payload) == CASE payload = "kms1" -> {"kms1"} [] OTHER -> {}

Event(event, payload, v2) == [event |-> event, payload |-> payload, v2 |-> v2]

Events(app, compose, os, kp) ==
    <<Event("app-id", app, FALSE), Event("compose-hash", compose, FALSE),
      Event("os-image-hash", os, TRUE), Event("key-provider", kp, TRUE)>>

TD(name, honest, release, app, compose, mrtd, rtmr, cfg, owner, attr, events) ==
    [name |-> name, honest |-> honest, release |-> release, app |-> app, compose |-> compose,
     mrtd |-> mrtd, rtmr |-> rtmr, cfg |-> cfg, owner |-> owner, attr |-> attr,
     events |-> events, inst |-> name, key |-> name, spki |-> name, debug |-> FALSE,
     genuine |-> TRUE, tcb |-> "UpToDate",
     rtmr3 |-> [i \in DOMAIN events |-> Digest(events[i])]]

Phala1 == TD("p1", TRUE, "r1", "a", "h1", "m1", <<<<"f1">>>>, "c1", Zero, "at", Events("a", "h1", "o1", "kms1"))
Phala2 == TD("p2", TRUE, "r2", "a", "h2", "m1", <<<<"f2">>>>, "c1", Zero, "at", Events("a", "h2", "o1", "kms1"))
\* Old firmware under the new compose, and a program no one reviewed.
Mixed  == TD("px", FALSE, "r2", "a", "h2", "m1", <<<<"f1">>>>, "c1", Zero, "at", Events("a", "h2", "o1", "kms1"))
Other  == TD("po", FALSE, "r1", "a", "hx", "m1", <<<<"f1">>>>, "c1", Zero, "at", Events("a", "hx", "o1", "kms1"))
\* It measures a second compose hash after the approved one.
Twice  == [Other EXCEPT !.events = @ \o <<Event("compose-hash", "h1", FALSE)>>,
                        !.rtmr3 = @ \o <<DigestV1("compose-hash", "h1")>>]
Debug  == [Phala1 EXCEPT !.debug = TRUE, !.honest = FALSE, !.spki = "pd"]
Forged == [Phala1 EXCEPT !.genuine = FALSE, !.honest = FALSE, !.spki = "pf"]
Old    == [Phala1 EXCEPT !.tcb = "OutOfDate"]
Gcp    == TD("g4", TRUE, "rg", "ga", "hg", "mg", <<<<"fg">>>>, Zero, Zero, "at", <<>>)
GcpIn  == [Gcp EXCEPT !.owner = "vm_in", !.inst = "g3", !.key = "g3"]
GcpOut == [GcpIn EXCEPT !.owner = "vm_out"]
GcpOther == [Gcp EXCEPT !.rtmr = <<<<"fx">>>>, !.honest = FALSE, !.spki = "gx"]

MCMachines == {Phala1, Phala2, Mixed, Other, Twice, Debug, Forged, Old, Gcp, GcpIn, GcpOut, GcpOther}
MCClaims == {[app |-> "a", compose |-> "h1", release |-> "r1"],
             [app |-> "a", compose |-> "h2", release |-> "r2"],
             [app |-> "ga", compose |-> "hg", release |-> "rg"]}

T1 == Tuple("t1", "r1", "a", "h1", "m1", <<<<"f1">>>>, "c1", "o1", "kms1", None, 1, 4)
T2 == Tuple("t2", "r2", "a", "h2", "m1", <<<<"f2">>>>, "c1", "o1", "kms1", None, 2, 4)
TG == Tuple("tg", "rg", "ga", "hg", "mg", <<<<"fg">>>>, None, None, None, "at", 1, 3)

Raw(kind, tuples) ==
    [kind |-> kind, tuples |-> tuples, legacy |-> FALSE, extra |-> FALSE, origins |-> {MCOrigin},
     apps |-> {}, composes |-> {}, releases |-> {}, kp |-> None, platform |-> NoPlatform,
     stated |-> Switches, req |-> Switches, tcbs |-> {"UpToDate"}, age |-> 1]

Legacy == [Raw(None, {}) EXCEPT !.apps = {"a"}, !.composes = {"h1", "h2"},
              !.releases = {"r1", "r2"}, !.kp = "kms1",
              !.platform = [pinned |-> TRUE, mrtd |-> {"m1"}, cfg |-> {"c1"},
                            rtmr |-> {<<<<"f1">>>>, <<<<"f2">>>>}, os |-> {"o1"}]]
Weak == [Legacy EXCEPT !.req = {}, !.kp = None, !.platform = NoPlatform]
Both == [Raw("phala", {T1}) EXCEPT !.legacy = TRUE, !.apps = {"a"}, !.composes = {"h1", "h2", "hx"},
              !.releases = {"r1", "r2"}]
Truncated == [Legacy EXCEPT !.stated = @ \ {"hardware"}]

MCCallers == {LoadGatewayPolicy(raw) : raw \in {Legacy, Weak, Both, Truncated,
                 Raw("phala", {T1, T2}), Raw("gcp", {TG}), Raw("gcp", {T1}), Raw(None, {T1})}}

V3G == V3Tuple("tg", "mg", <<<<"fg">>>>, <<>>, Zero, Zero, "at", {})
V3P == V3Tuple("tp", "mg", <<<<"fg">>>>, <<>>, Zero, Zero, "at", {"zone_a"})

V3(tuples, revoked, pzid) == [present |-> FALSE, tuples |-> tuples, revoked |-> revoked, pzid |-> pzid]

Serve(policy, expires) == [policy |-> policy, expires |-> expires]
CanonicalOrigins == {MCCanonicalOrigin(MCOrigin)}

MCPublished ==
    [authority |-> <<Serve(LoadGatewayPolicy(Raw("phala", {T1})), 3),
                     Serve(LoadGatewayPolicy(Raw("phala", {T1, T2})), 4)>>,
     v3 |-> <<Serve(ReleasePolicy(V3({V3G, V3P}, {}, FALSE), CanonicalOrigins), 0),
              Serve(ReleasePolicy(V3({V3P}, {TupleDigest(V3G)}, TRUE), CanonicalOrigins), 3)>>]

MCRegistry == {[status |-> "candidate", raw |-> Raw("phala", {T1})]}

=============================================================================
