----------------------------- MODULE RouteVerdict -----------------------------
(***************************************************************************)
(* The route verdict of verify/route.ts over the states of verify/state.ts, *)
(* as verifyRoute and verify of client.ts and the command of cli/run.ts     *)
(* reach it: hop 1 is the gateway's verdict (GatewayVerdict, seen here by   *)
(* its outcome), hop 2 the provider's evidence, which the relay returns     *)
(* with an echo of the route it served.  How the evidence is fetched, with  *)
(* which credential, is ClientCalls.  A caller's abort, or the command's    *)
(* timer, may fall at any point.                                            *)
(***************************************************************************)
EXTENDS ProviderEvidence

CONSTANTS
    Asks,          \* what callers of verifyRoute and verify ask
    CommandLines,  \* the arguments and environment of the command
    Documents(_),  \* the envelopes the relay may return to an ask
    Echoes(_),     \* what it may say of the route
    Now

\* The two calls of the client and the command are told apart, and a call names
\* how its gateway is to be verified.
ASSUME EntriesAssumption ==
    /\ \A a \in Asks : a.via \in {"verifyRoute", "verify"}
    /\ \A a \in CommandLines : a.via \notin {"none", "verifyRoute", "verify"}

VARIABLES
    phase,     \* "idle", "observe", "key", "hop1", "hop2", "assemble", "done", "rejected"
    ask,
    observed,  \* the certificate the command observed: None, "same" or "other"
    aborted,
    hop1,      \* RouteHopVerdict of the gateway
    reply,     \* what attestRoute made of the relay's answer, or the code it failed with
    report,
    exit,      \* exit code of the command, 3 while it runs
    sent       \* the requests made: "tls", "evidence", "ticket"

vars == <<phase, ask, observed, aborted, hop1, reply, report, exit, sent>>

Nonce == <<"fresh">>

----------------------------------------------------------------------------
(* verify/state.ts                                                         *)

TrustedStates == {"hardware_verified", "cryptographically_checked", "policy_matched"}

Rank(state) == CASE state = "hardware_verified" -> 4
                 [] state = "cryptographically_checked" -> 3
                 [] state = "policy_matched" -> 2
                 [] OTHER -> 0

AtLeast(state, required) == Rank(required) # 0 /\ Rank(state) >= Rank(required)
IsTrusted(state) == Rank(state) > 0

StateForLevel(level) == CASE level = "hardware-verified" -> "hardware_verified"
                          [] level = "provider-attested" -> "cryptographically_checked"
                          [] level = "sdk-verified" -> "policy_matched"
                          [] level = "unsupported" -> "unavailable"
                          [] OTHER -> "untrusted"

----------------------------------------------------------------------------
(* verify/route.ts                                                         *)

Hop(requested, state, failed) == [requested |-> requested, state |-> state, failed |-> failed]
HopNotRequested == Hop(FALSE, "unavailable", {})
HopUnavailable  == Hop(TRUE, "unavailable", {})
HopFromFailure(code) == Hop(TRUE, "untrusted", {code})

\* gatewayHopVerdict and providerHopVerdict.
HopVerdict(ok, level, failed) ==
    Hop(TRUE, IF ok THEN StateForLevel(level) ELSE "untrusted", failed)

ProviderHop(verdict) ==
    HopVerdict(verdict.ok, verdict.level,
               {c.name : c \in {d \in verdict.checks : d.required /\ ~d.passed}})

\* Mutant: only the provider is cross-bound.
MismatchesProvider(route, echo, attested, expected) ==
    {f \in {"provider"} : echo.provider \notin {None, route.provider}}

\* A field disagrees when the gateway said something else than was asked; the
\* upstream model only when the caller pinned one.
Mismatches(route, echo, attested, expected) ==
    {f \in {"provider"} : echo.provider \notin {None, route.provider}}
    \cup {f \in {"requested_model"} : echo.model \notin {None, route.model}}
    \cup {f \in {"privacy_modality"} : echo.class \notin {None, route.modality}}
    \cup {f \in {"model"} : None \notin {expected, attested} /\ expected # attested}

\* Mutant: the better of two hops.
WeakestStrongest(gateway, provider) ==
    IF gateway.requested /\ AtLeast(gateway.state, provider.state) THEN gateway.state
    ELSE provider.state

\* The fold over the requested hops, the gateway's first.
Weakest(gateway, provider) ==
    LET Worse(worst, hop) ==
          CASE ~hop.requested -> worst
            [] hop.requested /\ ~IsTrusted(hop.state) -> hop.state
            [] OTHER -> IF ~IsTrusted(worst) \/ AtLeast(hop.state, worst) THEN worst ELSE hop.state
    IN  Worse(Worse("hardware_verified", gateway), provider)

AssembleRouteVerdict(route, gateway, provider, echo, attested, expected) ==
    LET wrong == Mismatches(route, echo, attested, expected)
        overall == IF wrong # {} THEN "untrusted"
                   ELSE IF ~gateway.requested /\ ~provider.requested THEN "unavailable"
                   ELSE Weakest(gateway, provider)
    IN  [state |-> overall, trusted |-> IsTrusted(overall) /\ wrong = {}, wrong |-> wrong,
         gateway |-> gateway, provider |-> provider, source |-> route.source,
         visible |-> route.modality = "tee"]

NoReport == [state |-> None, trusted |-> FALSE, wrong |-> {}, gateway |-> HopNotRequested,
             provider |-> HopNotRequested, source |-> "unestablished", visible |-> TRUE]

----------------------------------------------------------------------------
(* client.ts: attestRoute                                                  *)

NoEcho == [provider |-> None, model |-> None, upstream |-> None, class |-> None]
NoDocument == [payload |-> None, at |-> 0]
NoReply == [code |-> None, modality |-> "tee", source |-> "unestablished", upstream |-> None,
            verdict |-> FailedResult(None, "unverified"), echo |-> NoEcho, doc |-> NoDocument]

Unestablished == "tee"  \* UNESTABLISHED_MODALITY

\* Mutant: an unstated class is taken for the stronger one.
ModalityStrong(a, echo) ==
    IF a.class # None THEN a.class ELSE IF echo.class # None THEN echo.class ELSE "e2ee"

Modality(a, echo) ==
    IF a.class # None THEN a.class ELSE IF echo.class # None THEN echo.class ELSE Unestablished

ModalitySource(a, echo) ==
    IF a.class # None THEN "caller-pinned"
    ELSE IF echo.class # None THEN "gateway-attested" ELSE "unestablished"

AttestRoute(a, doc, echo) ==
    LET upstream == IF a.upstream # None THEN a.upstream
                    ELSE IF echo.upstream # None THEN echo.upstream ELSE a.model
    IN  [code |-> None, modality |-> Modality(a, echo), source |-> ModalitySource(a, echo),
         upstream |-> upstream, echo |-> echo, doc |-> doc,
         verdict |-> VerifyRawEvidence(a.provider, doc,
                       BuildExpectations(a.provider, upstream, Modality(a, echo), Nonce, Now, a.node))]

Failed(code) == [NoReply EXCEPT !.code = code]

\* verifyAttestation turns a disagreement of the echo into a failure.
EchoDisagrees(a, echo) ==
    \/ echo.provider \notin {None, a.provider}
    \/ echo.model \notin {None, a.model}
    \/ a.class # None /\ echo.class \notin {None, a.class}

VerifyAttestation(a, doc, echo) ==
    IF EchoDisagrees(a, echo) THEN Failed("attestation_untrusted") ELSE AttestRoute(a, doc, echo)

----------------------------------------------------------------------------
(* cli/run.ts: arguments and files                                         *)

\* parseArgs: what it refuses.
UsageError(a) ==
    \/ a.via \notin {"gateway", "route", "doctor"}
    \/ a.keyOnArgv
    \/ a.require \notin TrustedStates
    \/ ~a.timeoutOk
    \/ a.via # "doctor" /\ a.origin = None
    \/ a.via = "route" /\ None \in {a.provider, a.model}
    \/ a.require = "hardware_verified" /\ ~a.dcap /\ a.via # "doctor"
    \/ a.noFetch /\ a.collateral = None

\* readJsonFile and loadGatewayPolicy of the files named.
FilesUnusable(a) == "bad" \in {a.policy, a.collateral}

\* A GCP origin without a policy file is held to the signed release policy v3.
BoundReleaseV3(a) == a.policy = None /\ a.origin = "v3"

Cli(a) == a.via \in {"gateway", "route", "doctor"}

Exits(code) == exit' = code /\ phase' = "done"

----------------------------------------------------------------------------
(* Actions                                                                 *)

NoAsk == [via |-> None]

RouteInit ==
    /\ phase = "idle" /\ ask = NoAsk /\ observed = None /\ aborted = FALSE
    /\ hop1 = HopNotRequested /\ reply = NoReply /\ report = NoReport
    /\ exit = 3 /\ sent = {}

\* verifyRoute or verify is called.
Ask(a) ==
    /\ phase = "idle" /\ ask' = a
    /\ phase' = IF a.gateway = "no" THEN "hop2" ELSE "hop1"
    /\ UNCHANGED <<observed, aborted, hop1, reply, report, exit, sent>>

\* runCli up to its first connection.
RunCli(a) ==
    /\ phase = "idle" /\ ask' = a
    /\ IF UsageError(a) THEN Exits(2)
       ELSE IF a.via = "doctor" THEN Exits(0)
       ELSE IF FilesUnusable(a) THEN Exits(2)
       ELSE phase' = (IF BoundReleaseV3(a) \/ ~a.tls THEN "key" ELSE "observe")
            /\ UNCHANGED exit
    /\ UNCHANGED <<observed, aborted, hop1, reply, report, sent>>

\* observeTlsSpki, on a connection of its own; a failed handshake is a gap.
ObserveTlsSpki ==
    /\ phase = "observe" /\ phase' = "key"
    /\ observed' \in {None, "same", "other"} /\ sent' = sent \cup {"tls"}
    /\ UNCHANGED <<ask, aborted, hop1, reply, report, exit>>

\* Hop 2 needs a key, and only the environment may hold one.
KeyCheck ==
    /\ phase = "key"
    /\ IF ask.via = "route" /\ ~ask.envKey THEN Exits(2)
       ELSE phase' = "hop1" /\ UNCHANGED exit
    /\ UNCHANGED <<ask, observed, aborted, hop1, reply, report, sent>>

\* The caller's signal, or the command's timer.
Abort ==
    /\ phase \in {"hop1", "hop2"} /\ ~aborted /\ aborted' = TRUE
    /\ UNCHANGED <<phase, ask, observed, hop1, reply, report, exit, sent>>

\* What GatewayVerdict comes to: a verdict, no pin or no endpoint ("absent"), or
\* an error; "cancelled" only once the signal fired.  A vendor chain takes an
\* engine, and a certificate that was observed and differs is a required failure.
Outcomes ==
    LET levels == {l \in {"hardware-verified", "provider-attested"} :
                      /\ observed # "other"
                      /\ l = "hardware-verified" => ask.dcap
                      /\ l = "provider-attested" => ask.gateway # "bound"}
        faults == {"verdict", "absent", "error"} \cup (IF aborted THEN {"cancelled"} ELSE {})
    IN  {[kind |-> "verdict", ok |-> TRUE, level |-> l] : l \in levels}
        \cup {[kind |-> k, ok |-> FALSE, level |-> "unverified"] : k \in faults}

GatewayHop(o) == IF o.kind = "verdict"
                 THEN HopVerdict(o.ok, o.level, IF o.ok THEN {} ELSE {"gateway_check"})
                 ELSE HopUnavailable

\* gatewayHop2 of verifyRoute, gatewayHop of verify and the bound operation: an
\* error rejects the call, and a bound operation opens only on a passing verdict.
VerifyGatewayHop ==
    /\ phase = "hop1" /\ ~Cli(ask)
    /\ \E o \in Outcomes :
         /\ hop1' = GatewayHop(o)
         /\ phase' = IF \/ o.kind \in {"error", "cancelled"}
                        \/ (ask.gateway = "bound" /\ ~o.ok)
                     THEN "rejected" ELSE "hop2"
    /\ sent' = sent \cup {"evidence"}
    /\ UNCHANGED <<ask, observed, aborted, reply, report, exit>>

\* Mutant: gateway goes on to the provider.
RunGatewayHopRoute ==
    /\ phase = "hop1" /\ Cli(ask)
    /\ \E o \in Outcomes : o.kind # "cancelled" /\ hop1' = GatewayHop(o)
    /\ phase' = "hop2" /\ sent' = sent \cup {"evidence"}
    /\ UNCHANGED <<ask, observed, aborted, reply, report, exit>>

\* The command reports a hop that could not be attempted, and stops only when it
\* was cancelled; the retained path takes the native engine.
RunGatewayHop ==
    /\ phase = "hop1" /\ Cli(ask)
    /\ \E o \in Outcomes :
         LET unusable == BoundReleaseV3(ask) /\ ~ask.dcap
         IN  IF o.kind = "cancelled" /\ ~unusable
             THEN Exits(1) /\ UNCHANGED hop1
             ELSE /\ hop1' = IF unusable THEN HopUnavailable ELSE GatewayHop(o)
                  /\ phase' = (IF ask.via = "route" THEN "hop2" ELSE "assemble")
                  /\ UNCHANGED exit
    /\ sent' = sent \cup (IF BoundReleaseV3(ask) /\ ~ask.dcap THEN {} ELSE {"evidence"})
    /\ UNCHANGED <<ask, observed, aborted, reply, report>>

\* Hop 2 does not come to evidence.
AttestationFails ==
    /\ phase = "hop2"
    /\ \E code \in {"attestation_failed", "attestation_ticket_failed", "evidence_invalid"}
                   \cup (IF aborted THEN {"cancelled"} ELSE {}) :
         /\ reply' = Failed(code)
         /\ phase' = IF ask.via = "verify" \/ (ask.via = "verifyRoute" /\ code = "cancelled")
                     THEN "rejected" ELSE "assemble"
    /\ sent' = sent \cup {"ticket"}
    /\ UNCHANGED <<ask, observed, aborted, hop1, report, exit>>

\* The relay returns evidence and says which route it served.
Attested ==
    /\ phase = "hop2"
    /\ \E doc \in Documents(ask), echo \in Echoes(ask) :
         LET r == IF ask.via = "verifyRoute" THEN AttestRoute(ask, doc, echo)
                  ELSE VerifyAttestation(ask, doc, echo)
         IN  /\ reply' = r
             /\ phase' = IF ask.via = "verify" /\ r.code # None THEN "rejected" ELSE "assemble"
    /\ sent' = sent \cup {"ticket"}
    /\ UNCHANGED <<ask, observed, aborted, hop1, report, exit>>

Hop2 == IF reply.code # None THEN HopFromFailure(reply.code) ELSE ProviderHop(reply.verdict)

\* verifyRoute hands the gateway's own words to the assembly.
RouteReport ==
    AssembleRouteVerdict(
        [provider |-> ask.provider, model |-> ask.model, modality |-> reply.modality,
         source |-> reply.source],
        hop1, Hop2, reply.echo, reply.echo.upstream, ask.upstream)

VerifyRoute ==
    /\ phase = "assemble" /\ ask.via = "verifyRoute" /\ phase' = "done"
    /\ report' = RouteReport
    /\ UNCHANGED <<ask, observed, aborted, hop1, reply, exit, sent>>

\* verify reports statuses; the route was cross-bound by verifyAttestation.
VerifyReport ==
    [NoReport EXCEPT
        !.trusted = (~hop1.requested \/ IsTrusted(hop1.state)) /\ reply.verdict.ok,
        !.state = Weakest(hop1, Hop2), !.gateway = hop1, !.provider = Hop2,
        !.source = reply.source, !.visible = reply.modality = "tee"]

Verify ==
    /\ phase = "assemble" /\ ask.via = "verify" /\ phase' = "done"
    /\ report' = VerifyReport
    /\ UNCHANGED <<ask, observed, aborted, hop1, reply, exit, sent>>

Gated(r) == IF ask.via = "gateway" THEN r.gateway.state ELSE r.state
Met(r) == AtLeast(Gated(r), ask.require) /\ r.wrong = {}

\* The command hands the assembly what verifyAttestation returned.
CommandReport ==
    LET got == ask.via = "route" /\ reply.code = None
    IN  AssembleRouteVerdict(
            [provider |-> ask.provider, model |-> ask.model, source |-> "unestablished",
             modality |-> IF got THEN reply.modality ELSE "e2ee"],
            hop1, IF ask.via = "route" THEN Hop2 ELSE HopNotRequested,
            IF got THEN [NoEcho EXCEPT !.provider = ask.provider, !.class = reply.modality]
            ELSE NoEcho,
            IF got THEN reply.upstream ELSE None, ask.upstream)

RunReport ==
    /\ phase = "assemble" /\ Cli(ask)
    /\ report' = CommandReport /\ Exits(IF Met(CommandReport) THEN 0 ELSE 1)
    /\ UNCHANGED <<ask, observed, aborted, hop1, reply, sent>>

RouteNext ==
    \/ \E a \in Asks : Ask(a)
    \/ \E a \in CommandLines : RunCli(a)
    \/ ObserveTlsSpki \/ KeyCheck \/ Abort
    \/ VerifyGatewayHop \/ RunGatewayHop \/ AttestationFails \/ Attested
    \/ VerifyRoute \/ Verify \/ RunReport

RouteSpec == RouteInit /\ [][RouteNext]_vars

----------------------------------------------------------------------------
(* What is assumed of the world                                            *)

Bytes == Seq(STRING)

\* A TD booted an image that dstack publishes and is not for development.
Booted(q, collateral) ==
    \E i \in DOMAIN collateral.images : /\ ~collateral.images[i].dev
                                       /\ q.boot \in collateral.images[i].registers

\* Every manager a TD may start or has started is released, and every file it has
\* run is published, by the vendor's own records.
RunsPublished(td, collateral, policy) ==
    LET log == ActionLogs[td.log]
        started == {a.image : a \in {b \in log : b.action = "compose_manager_started"}}
    IN  /\ ComposeFiles[td.compose].repo = policy.composeRepo
        /\ started \cup ComposeFiles[td.compose].managers \subseteq collateral.releases.images
        /\ \A a \in {b \in log : b.sha # Absent} :
              <<a.commit, a.sha>> \in collateral.publication.files

\* What a pinned list holds was reviewed: a TD with these registers, outside debug
\* mode, serves the model honestly.
ListedTruth(q, provider) ==
    \A row \in {r \in DOMAIN Measurements :
                  r[1] = provider /\ Measurements[r].kind # "near-authority"} :
        /\ q.parses /\ ~q.debug
        /\ MatchMeasurementAllowlist(q, Measurements[row].accepted) # {}
        => q.by.honest /\ row \in q.by.serves

\* So was what a vendor publishes.
PublishedTruth(q, collateral) ==
    \A row \in {r \in DOMAIN Measurements : Measurements[r].kind = "near-authority"} :
        \A policy \in Measurements[row].accepted :
            /\ ~q.debug /\ Booted(q, collateral)
            /\ RunsPublished(q.by, collateral, policy)
            => q.by.honest

\* An honest NEAR program quotes its own keys.  A published image runs the compose
\* that MRCONFIGID binds, its manager quotes no log but its own, and two quotes
\* with the same registers are of one TD (dstack measures an instance id).
NearTruth(provider, doc) ==
    LET q == doc.quote
        s == doc.second
    IN  /\ {doc.address, doc.tls, doc.key, doc.boot} \subseteq Bytes
        /\ DOMAIN ActionLogs \subseteq Bytes /\ doc.actions \in DOMAIN ActionLogs
        /\ q.parses =>
             /\ {q.by.key, q.by.tls, q.by.compose} \subseteq Bytes
             /\ q.by.honest => q.data[1] = Sha(q.by.key \o q.by.tls)
             /\ q.by.honest /\ provider = "other" => Len(q.by.key) = KeyWidth
             /\ Booted(q, doc.collateral) => q.cfg = Config(Sha(q.by.compose))
             /\ ListedTruth(q, provider) /\ PublishedTruth(q, doc.collateral)
        /\ q.parses /\ s.parses =>
             /\ ~q.debug /\ ~s.debug /\ q.boot = s.boot /\ q.cfg = s.cfg /\ q.rtmr3 = s.rtmr3
                => q.by = s.by
             /\ Booted(s, doc.collateral)
                => \A log \in DOMAIN ActionLogs : s.data[1] = Sha(log) => log = s.by.log

\* An honest Chutes instance quotes its own key beside a nonce of one width.
ChutesTruth(doc) ==
    /\ IsFiniteSet(DOMAIN doc.keys) /\ \A id \in DOMAIN doc.keys : doc.keys[id] \in Bytes
    /\ \A i \in DOMAIN doc.instances :
         LET q == doc.instances[i].quote
         IN  q.parses =>
               /\ ListedTruth(q, "chutes")
               /\ q.by.honest => /\ q.by.key \in Bytes /\ q.data[1][2] \in STRING
                                 /\ q.data[1] = NonceKey(<<q.data[1][2]>>, q.by.key)

VeniceTruth(doc) ==
    LET q == doc.quote
    IN  /\ doc.key \in Bytes
        /\ q.parses /\ q.by.honest => q.by.key \in Bytes /\ q.data[1] = Address(q.by.key)

\* Where the official verifier really ran, the key it reports is the enclave's.
TinfoilTruth(doc) ==
    doc.real /\ doc.secure /\ doc.official /\ SdkSteps \subseteq doc.succeeded
    => doc.tls = doc.by.tls

EvidenceTruth(provider, doc) ==
    CASE provider \in {"near-ai", "other"} -> NearTruth(provider, doc)
      [] provider = "chutes"  -> ChutesTruth(doc)
      [] provider = "venice"  -> VeniceTruth(doc)
      [] provider = "tinfoil" -> TinfoilTruth(doc)
      [] OTHER -> TRUE

Attestable(a) == a \in Asks \/ (a \in CommandLines /\ a.via = "route" /\ ~UsageError(a))

\* measurements.json names an authority for NEAR's workloads only.
ASSUME PinsAssumption == \A row \in DOMAIN Measurements :
    Measurements[row].kind = "near-authority" => row[1] \in {"near-ai", "other"}

\* Instants are numbers; a class that is pinned or echoed is one of the two.
ASSUME ClockAssumption == {Now, Skew, MaxEvidenceAge} \subseteq Nat

Classes == {None, "tee", "e2ee"}
ASSUME ClassesAssumption == \A a \in {b \in Asks \cup CommandLines : Attestable(b)} :
    a.class \in Classes /\ \A echo \in Echoes(a) : echo.class \in Classes

ASSUME EvidenceAssumption ==
    \A a \in {b \in Asks \cup CommandLines : Attestable(b)} :
        \A d \in Documents(a) : EvidenceTruth(a.provider, d.payload)

----------------------------------------------------------------------------
(* A right answer, said of what gives it                                   *)

\* In the age an envelope may have; one without an instant is of the present.
Timely(at) == at = 0 \/ (at <= Now + Skew /\ Now <= at + MaxEvidenceAge)

\* The measured log of a TD has one event of this name, and its digest is that of
\* what it names.
Logged(events, name, payload) == \E i \in DOMAIN events :
    LET ev == events[i]
    IN  /\ \A j \in DOMAIN events : events[j].name = name => j = i
        /\ ev.imr = 3 /\ ev.name = name /\ ev.payload = payload
        /\ \/ ev.preimage = Absent /\ ev.digest \in {Absent, Committed(name, payload)}
           \/ ev.preimage = <<name>> \o payload /\ ev.digest = CommittedV2(ev.preimage)

\* The vendor has published what this TD runs, keeps records of it that are recent,
\* and the TD itself shows its log and the one of its manager.
Published(doc, policy) ==
    LET q == doc.quote
        log == ActionLogs[q.by.log]
        c == doc.collateral
        claims == {a \in log : a.sha # Absent}
    IN  /\ RunsPublished(q.by, c, policy)
        /\ claims # {} /\ {a.commit : a \in claims} \subseteq c.publication.commits
        /\ {"compose_manager_started", "compose_up"} \subseteq {a.action : a \in log}
        /\ c.releases.repo = policy.managerRepo /\ c.publication.repo = policy.composeRepo
        /\ c.onchain.kms = policy.kms /\ c.onchain.allowed
        /\ c.onchain.compose = Sha(q.by.compose)
        /\ \A at \in {c.onchain.at, c.releases.at, c.publication.at} :
              Now <= at + policy.maxAge /\ at <= Now + Skew
        /\ {c.onchain.os, c.onchain.app} \subseteq Bytes \ {Absent}
        /\ \E image \in ImageRecord(c.images, c.onchain.os) :
              q.boot \in image.registers /\ ~image.dev /\ (image.pre => policy.allowPrerelease)
        /\ Logged(doc.events, "os-image-hash", c.onchain.os)
        /\ Logged(doc.events, "app-id", c.onchain.app)
        /\ Logged(doc.events, "compose-hash", Sha(q.by.compose))
        /\ Replay(doc.events, 0) = q.boot.rtmr
        /\ doc.actions = q.by.log /\ doc.actionsHash = Sha(q.by.log)
        /\ doc.second = [q EXCEPT !.data = <<Sha(q.by.log), Nonce>>]

\* A NEAR workload that is published, or on the pinned list of its model, answers
\* this nonce with its own keys.
NearAnswers(provider, upstream, doc) ==
    LET td == doc.quote.by
        pins == PinsFor(provider, upstream)
    IN  /\ td.honest /\ Absent \notin {td.key, td.tls, td.compose}
        /\ doc.quote = TdxQuote(td, FALSE, doc.quote.boot, Replay(doc.events, 3),
                                Config(Sha(td.compose)), <<Sha(td.key \o td.tls), Nonce>>)
        /\ doc.address = td.key /\ doc.key = td.key /\ doc.tls = td.tls /\ doc.algo = "ed25519"
        /\ doc.compose = td.compose /\ doc.boot = td.compose /\ doc.composeHash = Sha(td.compose)
        /\ doc.model = upstream
        /\ doc.gpu = [present |-> TRUE, nonce |-> Nonce, entries |-> {Nonce}]
        /\ IF pins.kind = "near-authority"
           THEN \E policy \in pins.accepted : Published(doc, policy)
           ELSE \E entry \in pins.accepted :
                   /\ entry.boot = doc.quote.boot /\ entry.rtmr3 = doc.quote.rtmr3
                   /\ entry.compose = Sha(td.compose)

\* Every instance of a Chutes workload is on the pinned list and answers this nonce
\* with its own key and certificate.
ChutesAnswers(doc) ==
    /\ ~doc.failed /\ DOMAIN doc.instances # {}
    /\ \A i \in DOMAIN doc.instances :
         LET instance == doc.instances[i]
             q == instance.quote
             td == q.by
         IN  /\ td.honest /\ td.cert \in Bytes \ {Absent}
             /\ q = TdxQuote(td, FALSE, q.boot, q.rtmr3, q.cfg,
                             <<NonceKey(Nonce, td.key), Sha(td.cert)>>)
             /\ \E entry \in PinsFor("chutes", "*").accepted :
                   entry.boot = q.boot /\ entry.rtmr3 = q.rtmr3
             /\ instance.id \in DOMAIN doc.keys \ {None} /\ doc.keys[instance.id] = td.key
             /\ instance.gpu # {} /\ instance.cert = [key |-> td.cert, fresh |-> TRUE]
             /\ instance.body = [nonce |-> Nonce, quote |-> q, gpu |-> instance.gpu]
             /\ instance.signature = <<td.cert, instance.body>>

VeniceAnswers(upstream, doc) ==
    LET q == doc.quote
        td == q.by
    IN  /\ td.honest /\ td.key # Absent
        /\ q = TdxQuote(td, FALSE, q.boot, q.rtmr3, q.cfg, <<Address(td.key), Nonce>>)
        /\ doc.key = td.key /\ doc.address = Address(td.key) /\ td.key \in doc.keyset
        /\ doc.nonce = Nonce /\ doc.reported = q.data /\ doc.nested = q.data
        /\ doc.model = upstream /\ doc.algo = "ecdsa" /\ doc.gpu # {}

\* The official verifier found the enclave to run the pinned release, and the client
\* holds a connection to it.
TinfoilAnswers(doc) ==
    LET pins == PinsFor("tinfoil", "*")
    IN  /\ doc.present /\ doc.secure /\ doc.official /\ SdkSteps \subseteq doc.succeeded
        /\ {doc.router, doc.enclave, pins.endpoint} = {TinfoilEndpoint}
        /\ pins.kind = "sigstore" /\ doc.repo \in pins.accepted
        /\ Absent \notin {doc.release, doc.code, doc.tls} /\ doc.live = doc.code
        /\ doc.binding = [mode |-> "tls-pinned", verified |-> TRUE,
                          endpoint |-> TinfoilEndpoint, observed |-> doc.tls]

RightAnswer(provider, upstream, d) ==
    /\ Timely(d.at)
    /\ CASE provider \in {"near-ai", "other"} -> NearAnswers(provider, upstream, d.payload)
         [] provider = "chutes"  -> ChutesAnswers(d.payload)
         [] provider = "venice"  -> VeniceAnswers(upstream, d.payload)
         [] provider = "tinfoil" -> TinfoilAnswers(d.payload)
         [] OTHER -> FALSE

----------------------------------------------------------------------------
(* Properties                                                              *)

Good(q, provider, upstream) == q.by.honest /\ <<provider, upstream>> \in q.by.serves

\* An accepted hop 2 is about the enclave it should be about.  NEAR: the quote is
\* that of a TD that runs what is published (where the pin is a list, for this
\* model), made for this nonce, and a TLS key of the right width is the TD's own;
\* on "other", where the width of the encryption key is checked, both are.  Chutes:
\* so is every instance, and a key reported or an opaque route is bound in each.
\* Venice: the key is the one the quote was made for.  Tinfoil: where the
\* official verifier and the connection are real, the key is the enclave's.
ProviderSound ==
    reply.code = None /\ reply.verdict.ok =>
    LET doc == reply.doc.payload
    IN  CASE ask.provider \in {"near-ai", "other"} ->
               /\ doc.quote.by.honest /\ doc.quote.data[2] = Nonce
               /\ PinsFor(ask.provider, reply.upstream).kind # "near-authority"
                  => Good(doc.quote, ask.provider, reply.upstream)
               /\ Len(reply.verdict.spki) = Len(doc.quote.by.tls)
                  => reply.verdict.spki = doc.quote.by.tls
               /\ ask.provider = "other"
                  => /\ reply.verdict.key = doc.quote.by.key
                     /\ reply.verdict.spki = doc.quote.by.tls
          [] ask.provider = "chutes" ->
               \A i \in DOMAIN doc.instances :
                 LET instance == doc.instances[i]
                 IN  /\ Good(instance.quote, "chutes", "*")
                     /\ instance.quote.data[1] = NonceKey(Nonce, instance.quote.by.key)
                     /\ reply.verdict.key # Absent => reply.verdict.key = instance.quote.by.key
                     /\ reply.verdict.opaque => doc.keys[instance.id] = instance.quote.by.key
          [] ask.provider = "venice" ->
               /\ ~doc.quote.debug /\ doc.quote.data[2] = Nonce
               /\ doc.quote.by.honest => reply.verdict.key = doc.quote.by.key
          [] ask.provider = "tinfoil" ->
               /\ reply.modality = "tee" /\ ~reply.verdict.opaque
               /\ doc.real => reply.verdict.spki = doc.by.tls
          [] OTHER -> FALSE

\* What a caller may conclude of a gateway's echo: it contradicts nothing asked.
Agrees(echo) == /\ echo.provider \in {None, ask.provider} /\ echo.model \in {None, ask.model}
                /\ ask.class # None => echo.class \in {None, ask.class}

\* A trusted route, from every entry: each hop that was asked for was established,
\* at no less than the state reported, and the gateway contradicted neither the
\* route nor a pinned class; verifyRoute also holds a pinned upstream model.
RouteBound == report.trusted =>
    /\ report.provider.requested /\ ask.via # "gateway" =>
         reply.code = None /\ reply.verdict.ok /\ Agrees(reply.echo)
    /\ report.gateway.requested => IsTrusted(hop1.state)
    /\ \A hop \in {report.gateway, report.provider} :
         hop.requested => Rank(hop.state) >= Rank(report.state)
    /\ ask.via = "verifyRoute" /\ ask.upstream # None =>
         reply.echo.upstream \in {None, ask.upstream}

\* The relay answered and hop 2 came to evidence.
Relayed == "ticket" \in sent /\ reply.code = None

\* A right answer on the right route is not refused, on any provider, whether or
\* not the gateway says which class it served: only a pinned class or upstream
\* model can stand against it.
HonestRoute ==
    /\ phase = "done" /\ ask.via # "gateway"
    /\ Relayed /\ RightAnswer(ask.provider, reply.upstream, reply.doc) /\ Agrees(reply.echo)
    /\ ask.provider = "tinfoil" => "e2ee" \notin {ask.class, reply.echo.class}
    /\ ask.via = "verifyRoute" => Mismatches([provider |-> ask.provider, model |-> ask.model,
                                    modality |-> reply.modality], reply.echo,
                                    reply.echo.upstream, ask.upstream) = {}
    =>
    /\ report.provider.state = IF ask.provider = "tinfoil" THEN "policy_matched"
                               ELSE "cryptographically_checked"
    /\ ~hop1.requested \/ IsTrusted(hop1.state) => report.trusted

\* Exit 0 says the assurance the command was asked for was established: on hop 1
\* for gateway, on both hops for route, at the state required, with a certificate
\* that, where one was observed, is the attested one.
ExitMet == exit = 0 /\ ask.via # "doctor" =>
    /\ AtLeast(hop1.state, ask.require) /\ observed # "other"
    /\ ask.via = "route" =>
         reply.code = None /\ Agrees(reply.echo) /\ AtLeast(Hop2.state, ask.require)

\* gateway never makes a request with a credential, doctor makes none at all, route
\* makes none before hop 1 was looked at, and a command that is refused as wrong has
\* sent nothing but a handshake.
CredentialFree ==
    /\ ask.via = "gateway" => "ticket" \notin sent
    /\ ask.via = "route" /\ "ticket" \in sent => hop1.requested
    /\ ask.via = "doctor" => sent = {}
    /\ exit = 2 => sent \subseteq {"tls"}

----------------------------------------------------------------------------
(* The inductive invariant                                                 *)

\* What hop 2 came to is an error, or the verdict on this very document under
\* this very echo, which verifyAttestation has compared with what was asked.
Answered ==
    \/ reply.code # None
    \/ /\ reply = AttestRoute(ask, reply.doc, reply.echo)
       /\ ask.via # "verifyRoute" => ~EchoDisagrees(ask, reply.echo)

\* How far the call is, what it has by then, and what it has sent.
StageInv ==
    /\ phase = "idle" => ask = NoAsk /\ sent = {}
    /\ phase \in {"observe", "key"} => ask.via \in {"gateway", "route"} /\ sent \subseteq {"tls"}
    /\ phase = "hop1" => ask.via \in {"verifyRoute", "verify", "route", "gateway"}
                         /\ "ticket" \notin sent
    /\ phase = "hop2" => ask.via \in {"verifyRoute", "verify", "route"}
    /\ phase = "assemble" =>
          /\ ask.via \in {"verifyRoute", "verify", "route", "gateway"}
          /\ ask.via # "gateway" => Answered
          /\ ask.via = "verify" => reply.code = None
    /\ phase \in {"hop2", "assemble"} /\ Cli(ask) => hop1.requested
    /\ phase # "done" => exit = 3 /\ report = NoReport

\* A trusted hop 1 was not reached over a certificate that differs.
CertificateInv ==
    /\ phase \in {"idle", "observe", "key", "hop1"} => hop1 = HopNotRequested
    /\ IsTrusted(hop1.state) => observed # "other"

RouteInv == StageInv /\ CertificateInv /\ RouteBound /\ ExitMet /\ CredentialFree

\* Nothing is judged before the relay answers, and only an ask that may come to
\* hop 2 is taken there; what is judged is sound.
JudgeInv ==
    /\ phase \in {"observe", "key", "hop1", "hop2"} =>
         ask \in Asks \/ (ask \in CommandLines /\ ~UsageError(ask))
    /\ phase \in {"idle", "observe", "key", "hop1", "hop2"} => reply = NoReply
    /\ ProviderSound

\* What the relay answered was asked for, and the report is made of what it came to.
RelayInv ==
    /\ phase \in {"idle", "observe", "key", "hop1", "hop2"} => "ticket" \notin sent
    /\ Relayed =>
         /\ reply = AttestRoute(ask, reply.doc, reply.echo)
         /\ Attestable(ask) /\ ask.via \in {"verifyRoute", "verify", "route"}
         /\ reply.doc \in Documents(ask) /\ reply.echo \in Echoes(ask)
         /\ phase = "done" => report = CASE ask.via = "verifyRoute" -> RouteReport
                                         [] ask.via = "verify" -> VerifyReport
                                         [] ask.via = "route" -> CommandReport

----------------------------------------------------------------------------
(* What comments of the code say, and the code does not do                 *)

\* route.ts: contentVisibleToAnonRouter is true when the modality was not
\* established; false is only made from a pin or an attested route class.
VisibleUnlessEstablished == phase = "done" /\ ask.via = "route" /\ exit # 2 /\ ~report.visible =>
    "e2ee" \in {ask.class, reply.echo.class}
=============================================================================
