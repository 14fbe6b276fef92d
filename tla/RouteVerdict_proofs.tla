------------------------- MODULE RouteVerdict_proofs -------------------------
(* Proofs about RouteVerdict, for any asks, command lines, documents, echoes *)
(* and pinned measurements: what a trusted route and an exit of 0 say.       *)
EXTENDS RouteVerdict, FiniteSetTheorems, SequenceTheorems, TLAPS

----------------------------------------------------------------------------
(* verify/state.ts and the fold of verify/route.ts                         *)

\* States are ordered by four ranks, and only a trusted one has a rank.
LEMMA Ranks ==
    /\ \A s : Rank(s) \in {0, 2, 3, 4} /\ (IsTrusted(s) <=> Rank(s) # 0)
    /\ Rank("hardware_verified") = 4
    /\ Rank("untrusted") = 0 /\ Rank("unavailable") = 0
    /\ ~(\E l : StateForLevel(l) = "none")
  BY DEF Rank, IsTrusted, StateForLevel

\* No requested hop is below the state the fold reports: the weakest hop decides.
LEMMA WeakestIsLower ==
    ASSUME NEW g, NEW p
    PROVE  /\ g.requested => Rank(g.state) >= Rank(Weakest(g, p))
           /\ p.requested => Rank(p.state) >= Rank(Weakest(g, p))
  <1> DEFINE Worse(worst, hop) ==
               CASE ~hop.requested -> worst
                 [] hop.requested /\ ~IsTrusted(hop.state) -> hop.state
                 [] OTHER -> IF ~IsTrusted(worst) \/ AtLeast(hop.state, worst)
                             THEN worst ELSE hop.state
  <1>1. ASSUME NEW w, NEW h
        PROVE  /\ h.requested => Rank(h.state) >= Rank(Worse(w, h))
               /\ Rank(w) >= Rank(Worse(w, h))
    <2>0. /\ Rank(w) \in {0, 2, 3, 4} /\ Rank(h.state) \in {0, 2, 3, 4}
          /\ IsTrusted(w) <=> Rank(w) # 0
          /\ IsTrusted(h.state) <=> Rank(h.state) # 0
      BY Ranks
    <2>1. CASE ~h.requested BY <2>0, <2>1
    <2>2. CASE h.requested /\ ~IsTrusted(h.state) BY <2>0, <2>2
    <2>3. CASE h.requested /\ IsTrusted(h.state)
      BY <2>0, <2>3 DEF AtLeast
    <2>4. QED BY <2>1, <2>2, <2>3
  <1>2. Weakest(g, p) = Worse(Worse("hardware_verified", g), p) BY DEF Weakest
  <1> HIDE DEF Worse
  <1>3. /\ Rank(Worse("hardware_verified", g)) \in {0, 2, 3, 4}
        /\ Rank(Weakest(g, p)) \in {0, 2, 3, 4}
        /\ Rank(g.state) \in {0, 2, 3, 4} /\ Rank(p.state) \in {0, 2, 3, 4}
    BY Ranks
  <1>4. QED BY <1>1, <1>2, <1>3

\* What an accepted report of assembleRouteVerdict rests on.
LEMMA AssembledBound ==
    ASSUME NEW route, NEW g, NEW p, NEW echo, NEW attested, NEW expected,
           NEW r, r = AssembleRouteVerdict(route, g, p, echo, attested, expected),
           r.wrong = {}, IsTrusted(r.state)
    PROVE  /\ r.gateway = g /\ r.provider = p
           /\ \A hop \in {g, p} : hop.requested =>
                 Rank(hop.state) >= Rank(r.state) /\ IsTrusted(hop.state)
           /\ Mismatches(route, echo, attested, expected) = {}
  <1>1. /\ r.wrong = Mismatches(route, echo, attested, expected)
        /\ r.gateway = g /\ r.provider = p
    BY DEF AssembleRouteVerdict
  <1>2. r.state = "unavailable" \/ r.state = Weakest(g, p)
    BY <1>1 DEF AssembleRouteVerdict
  <1>3. r.state = Weakest(g, p) /\ Rank(r.state) # 0 BY <1>2, Ranks
  <1>4. \A hop \in {g, p} : hop.requested => Rank(hop.state) >= Rank(r.state)
    BY <1>3, WeakestIsLower
  <1>5. \A hop \in {g, p} : hop.requested => IsTrusted(hop.state)
    <2> SUFFICES ASSUME NEW hop \in {g, p}, hop.requested PROVE IsTrusted(hop.state)
      OBVIOUS
    <2>1. Rank(hop.state) >= Rank(r.state) BY <1>4
    <2>2. Rank(hop.state) \in {0, 2, 3, 4} /\ Rank(r.state) \in {0, 2, 3, 4}
      BY Ranks
    <2>3. Rank(hop.state) # 0 BY <1>3, <2>1, <2>2
    <2>4. QED BY <2>3, Ranks
  <1>6. QED BY <1>1, <1>4, <1>5

LEMMA TrustedReport ==
    ASSUME NEW route, NEW g, NEW p, NEW echo, NEW attested, NEW expected
    PROVE  LET r == AssembleRouteVerdict(route, g, p, echo, attested, expected)
           IN  r.trusted <=> r.wrong = {} /\ IsTrusted(r.state)
  BY DEF AssembleRouteVerdict

\* A hop is trusted only on a verdict that passed.
LEMMA HopTrusted ==
    /\ \A ok, level, failed : IsTrusted(HopVerdict(ok, level, failed).state) => ok
    /\ \A code : ~IsTrusted(HopFromFailure(code).state)
    /\ ~IsTrusted(HopUnavailable.state) /\ ~IsTrusted(HopNotRequested.state)
    /\ \A ok, level, failed : HopVerdict(ok, level, failed).requested
    /\ HopUnavailable.requested /\ ~HopNotRequested.requested
    /\ \A code : HopFromFailure(code).requested
  BY Ranks DEF HopVerdict, Hop, HopFromFailure, HopUnavailable, HopNotRequested

LEMMA Hop2Trusted ==
    /\ Hop2.requested
    /\ IsTrusted(Hop2.state) => reply.code = None /\ reply.verdict.ok
  BY HopTrusted DEF Hop2, ProviderHop

LEMMA GatewayHopTrusted ==
    ASSUME NEW o \in Outcomes
    PROVE  /\ GatewayHop(o).requested
           /\ IsTrusted(GatewayHop(o).state) => o.ok /\ observed # "other"
  <1>1. o.ok => observed # "other" BY DEF Outcomes
  <1>2. QED BY <1>1, HopTrusted DEF GatewayHop

----------------------------------------------------------------------------
(* The inductive invariant                                                 *)

\* Before its end a call has reported nothing, and the command has not exited.
LEMMA Unfinished ==
    ASSUME StageInv, phase # "done" PROVE RouteBound /\ ExitMet
  BY DEF StageInv, RouteBound, ExitMet, NoReport

LEMMA UnfinishedNext ==
    ASSUME StageInv', phase' # "done" PROVE RouteBound' /\ ExitMet'
  BY DEF StageInv, RouteBound, ExitMet, NoReport

LEMMA RouteInitInv == RouteInit => RouteInv
  <1> SUFFICES ASSUME RouteInit PROVE RouteInv OBVIOUS
  <1>1. StageInv BY DEF RouteInit, StageInv
  <1>2. CertificateInv BY HopTrusted DEF RouteInit, CertificateInv
  <1>3. RouteBound /\ ExitMet BY <1>1, Unfinished DEF RouteInit
  <1>4. CredentialFree BY DEF RouteInit, CredentialFree, NoAsk
  <1>5. QED BY <1>1, <1>2, <1>3, <1>4 DEF RouteInv

LEMMA AskKeeps ==
    ASSUME RouteInv, NEW a \in Asks, Ask(a) PROVE RouteInv'
  <1>1. /\ a.via \in {"verifyRoute", "verify"} /\ ask' = a
        /\ phase = "idle" /\ phase' \in {"hop1", "hop2"} /\ sent = {}
        /\ exit = 3 /\ report = NoReport /\ hop1 = HopNotRequested
        /\ UNCHANGED <<observed, aborted, hop1, reply, report, exit, sent>>
    BY EntriesAssumption DEF Ask, RouteInv, StageInv, CertificateInv
  <1>2. StageInv' BY <1>1 DEF StageInv, Cli
  <1>3. CertificateInv' BY <1>1, HopTrusted DEF CertificateInv
  <1>4. RouteBound' /\ ExitMet' BY <1>1, <1>2, UnfinishedNext
  <1>5. CredentialFree' BY <1>1 DEF CredentialFree
  <1>6. QED BY <1>2, <1>3, <1>4, <1>5 DEF RouteInv

LEMMA RunCliKeeps ==
    ASSUME RouteInv, NEW a \in CommandLines, RunCli(a) PROVE RouteInv'
  <1>1. /\ a.via \notin {"none", "verifyRoute", "verify"} /\ ask' = a
        /\ phase = "idle" /\ sent = {} /\ exit = 3 /\ report = NoReport
        /\ hop1 = HopNotRequested
        /\ UNCHANGED <<observed, aborted, hop1, reply, report, sent>>
    BY EntriesAssumption DEF RunCli, RouteInv, StageInv, CertificateInv
  <1>2. \/ phase' = "done" /\ (exit' = 2 \/ (exit' = 0 /\ a.via = "doctor"))
        \/ phase' \in {"observe", "key"} /\ exit' = 3 /\ a.via \in {"gateway", "route"}
    BY <1>1 DEF RunCli, Exits, UsageError
  <1>3. StageInv' BY <1>1, <1>2 DEF StageInv
  <1>4. CertificateInv' BY <1>1, HopTrusted DEF CertificateInv
  <1>5. RouteBound' BY <1>1 DEF RouteBound, NoReport
  <1>6. ExitMet' BY <1>1, <1>2 DEF ExitMet
  <1>7. CredentialFree' BY <1>1 DEF CredentialFree
  <1>8. QED BY <1>3, <1>4, <1>5, <1>6, <1>7 DEF RouteInv

\* The command's steps before its gateway hop.
LEMMA EarlyKeeps ==
    ASSUME RouteInv, ObserveTlsSpki \/ KeyCheck PROVE RouteInv'
  <1>1. /\ phase \in {"observe", "key"} /\ ask.via \in {"gateway", "route"}
        /\ sent' \subseteq {"tls"} /\ exit = 3 /\ report = NoReport
        /\ hop1 = HopNotRequested
        /\ UNCHANGED <<ask, aborted, hop1, reply, report>>
    BY DEF ObserveTlsSpki, KeyCheck, RouteInv, StageInv, CertificateInv
  <1>2. \/ phase' \in {"key", "hop1"} /\ exit' = 3
        \/ phase' = "done" /\ exit' = 2
    BY <1>1 DEF ObserveTlsSpki, KeyCheck, Exits
  <1>3. StageInv' BY <1>1, <1>2 DEF StageInv
  <1>4. CertificateInv' BY <1>1, HopTrusted DEF CertificateInv
  <1>5. RouteBound' BY <1>1 DEF RouteBound, NoReport
  <1>6. ExitMet' BY <1>2 DEF ExitMet
  <1>7. CredentialFree' BY <1>1 DEF CredentialFree
  <1>8. QED BY <1>3, <1>4, <1>5, <1>6, <1>7 DEF RouteInv

LEMMA AbortKeeps == ASSUME RouteInv, Abort PROVE RouteInv'
  <1>1. /\ phase \in {"hop1", "hop2"}
        /\ UNCHANGED <<phase, ask, observed, hop1, reply, report, exit, sent>>
    BY DEF Abort
  <1>2. StageInv' BY <1>1 DEF RouteInv, StageInv, Cli
  <1>3. CertificateInv' BY <1>1 DEF RouteInv, CertificateInv
  <1>4. RouteBound' /\ ExitMet' BY <1>1, <1>2, UnfinishedNext
  <1>5. CredentialFree' BY <1>1 DEF RouteInv, CredentialFree
  <1>6. QED BY <1>2, <1>3, <1>4, <1>5 DEF RouteInv

\* The gateway hop, from the calls of the client and from the command.
LEMMA GatewayHopKeeps ==
    ASSUME RouteInv, VerifyGatewayHop \/ RunGatewayHop PROVE RouteInv'
  <1>1. /\ phase = "hop1" /\ exit = 3 /\ report = NoReport
        /\ ask.via \in {"verifyRoute", "verify", "route", "gateway"}
        /\ "ticket" \notin sent /\ hop1 = HopNotRequested
        /\ sent' \subseteq sent \cup {"evidence"}
        /\ UNCHANGED <<ask, observed, aborted, reply, report>>
    BY DEF VerifyGatewayHop, RunGatewayHop, RouteInv, StageInv, CertificateInv
  <1>2. \/ hop1' = HopNotRequested /\ phase' = "done" /\ exit' = 1
        \/ /\ hop1'.requested /\ (IsTrusted(hop1'.state) => observed # "other")
           /\ exit' = 3 /\ phase' \in {"hop2", "assemble", "rejected"}
           /\ phase' = "assemble" => ask.via = "gateway"
           /\ phase' = "hop2" => ask.via = "route" \/ ~Cli(ask)
    <2>1. CASE VerifyGatewayHop
      <3>1. PICK o \in Outcomes : hop1' = GatewayHop(o)
        BY <2>1 DEF VerifyGatewayHop
      <3>2. exit' = 3 /\ phase' \in {"hop2", "rejected"} /\ ~Cli(ask)
        BY <1>1, <2>1 DEF VerifyGatewayHop
      <3>3. QED BY <3>1, <3>2, GatewayHopTrusted
    <2>2. CASE RunGatewayHop
      <3>1. PICK o \in Outcomes :
               \/ Exits(1) /\ UNCHANGED hop1
               \/ /\ hop1' = HopUnavailable \/ hop1' = GatewayHop(o)
                  /\ phase' = (IF ask.via = "route" THEN "hop2" ELSE "assemble")
                  /\ UNCHANGED exit
        BY <2>2 DEF RunGatewayHop
      <3>2. Cli(ask) BY <2>2 DEF RunGatewayHop
      <3>3. CASE Exits(1) /\ UNCHANGED hop1 BY <1>1, <3>3 DEF Exits
      <3>4. CASE /\ hop1' = HopUnavailable \/ hop1' = GatewayHop(o)
                 /\ phase' = (IF ask.via = "route" THEN "hop2" ELSE "assemble")
                 /\ UNCHANGED exit
        <4>1. hop1'.requested /\ (IsTrusted(hop1'.state) => observed # "other")
          BY <3>4, GatewayHopTrusted, HopTrusted
        <4>2. QED BY <1>1, <3>2, <3>4, <4>1 DEF Cli
      <3>5. QED BY <3>1, <3>3, <3>4
    <2>3. QED BY <2>1, <2>2
  <1>3. StageInv' BY <1>1, <1>2 DEF StageInv, Cli
  <1>4. CertificateInv' BY <1>1, <1>2, HopTrusted DEF CertificateInv
  <1>5. RouteBound' BY <1>1 DEF RouteBound, NoReport
  <1>6. ExitMet' BY <1>2 DEF ExitMet
  <1>7. CredentialFree' BY <1>1, <1>2 DEF CredentialFree
  <1>8. QED BY <1>3, <1>4, <1>5, <1>6, <1>7 DEF RouteInv

\* What attestRoute and verifyAttestation return of a document.
LEMMA AttestedAnswer ==
    ASSUME NEW a, NEW doc, NEW echo
    PROVE  /\ AttestRoute(a, doc, echo) =
                AttestRoute(a, AttestRoute(a, doc, echo).doc, AttestRoute(a, doc, echo).echo)
           /\ AttestRoute(a, doc, echo).code = None
           /\ AttestRoute(a, doc, echo).echo = echo
           /\ AttestRoute(a, doc, echo).modality = Modality(a, echo)
           /\ \/ VerifyAttestation(a, doc, echo).code # None
              \/ /\ VerifyAttestation(a, doc, echo) = AttestRoute(a, doc, echo)
                 /\ ~EchoDisagrees(a, echo)
  BY DEF AttestRoute, VerifyAttestation, Failed, NoReply, None

LEMMA Hop2Keeps ==
    ASSUME RouteInv, AttestationFails \/ Attested PROVE RouteInv'
  <1>1. /\ phase = "hop2" /\ exit = 3 /\ report = NoReport
        /\ ask.via \in {"verifyRoute", "verify", "route"}
        /\ Cli(ask) => hop1.requested
        /\ sent' = sent \cup {"ticket"}
        /\ UNCHANGED <<ask, observed, aborted, hop1, report, exit>>
    BY DEF AttestationFails, Attested, RouteInv, StageInv
  <1>2. /\ phase' \in {"assemble", "rejected"}
        /\ phase' = "assemble" => Answered' /\ (ask.via = "verify" => reply'.code = None)
    <2>1. CASE AttestationFails
      <3>1. PICK code : /\ code # None /\ reply' = Failed(code)
                        /\ phase' = IF ask.via = "verify" \/ (ask.via = "verifyRoute" /\ code = "cancelled")
                                    THEN "rejected" ELSE "assemble"
        BY <2>1 DEF AttestationFails, None
      <3>2. reply'.code # None BY <3>1 DEF Failed, NoReply
      <3>3. QED BY <3>1, <3>2 DEF Answered
    <2>2. CASE Attested
      <3>1. PICK doc \in Documents(ask), echo \in Echoes(ask) :
               /\ reply' = IF ask.via = "verifyRoute" THEN AttestRoute(ask, doc, echo)
                           ELSE VerifyAttestation(ask, doc, echo)
               /\ phase' = IF ask.via = "verify" /\ reply'.code # None
                           THEN "rejected" ELSE "assemble"
        BY <2>2 DEF Attested
      <3>2. \/ reply'.code # None
            \/ /\ reply' = AttestRoute(ask, doc, echo)
               /\ ask.via # "verifyRoute" => ~EchoDisagrees(ask, echo)
        BY <3>1, AttestedAnswer
      <3>3. Answered'
        <4>1. CASE reply'.code # None BY <4>1 DEF Answered
        <4>2. CASE reply' = AttestRoute(ask, doc, echo)
                   /\ (ask.via # "verifyRoute" => ~EchoDisagrees(ask, echo))
          <5>1. reply' = AttestRoute(ask, reply'.doc, reply'.echo) /\ reply'.echo = echo
            BY <4>2, AttestedAnswer
          <5>2. QED BY <1>1, <4>2, <5>1 DEF Answered
        <4>3. QED BY <3>2, <4>1, <4>2
      <3>4. QED BY <3>1, <3>3
    <2>3. QED BY <2>1, <2>2
  <1>3. StageInv' BY <1>1, <1>2 DEF StageInv, Cli
  <1>4. CertificateInv' BY <1>1, <1>2 DEF RouteInv, CertificateInv
  <1>5. RouteBound' /\ ExitMet' BY <1>2, <1>3, UnfinishedNext
  <1>6. CredentialFree' BY <1>1, <1>2 DEF CredentialFree, Cli
  <1>7. QED BY <1>3, <1>4, <1>5, <1>6 DEF RouteInv

\* An echo that contradicts nothing is one verifyAttestation lets through; one the
\* assembly finds no fault with agrees too, a pinned class included.
LEMMA AnsweredAgrees ==
    ASSUME Answered, reply.code = None
    PROVE  /\ reply.modality = Modality(ask, reply.echo)
           /\ ask.via # "verifyRoute" => Agrees(reply.echo)
  BY AttestedAnswer DEF Answered, EchoDisagrees, Agrees

LEMMA MatchedAgrees ==
    ASSUME NEW source, NEW attested, NEW expected,
           reply.modality = Modality(ask, reply.echo),
           Mismatches([provider |-> ask.provider, model |-> ask.model,
                       modality |-> reply.modality, source |-> source],
                      reply.echo, attested, expected) = {}
    PROVE  /\ Agrees(reply.echo)
           /\ expected # None => attested \in {None, expected}
  BY DEF Mismatches, Agrees, Modality

\* The end of a call: the report is made of what the hops came to.
LEMMA ReportKeeps ==
    ASSUME RouteInv, VerifyRoute \/ Verify \/ RunReport, phase' = "done", RouteBound', ExitMet',
           exit' # 2
    PROVE  RouteInv'
  <1>1. /\ UNCHANGED <<ask, observed, aborted, hop1, reply, sent>>
    BY DEF VerifyRoute, Verify, RunReport
  <1>2. StageInv' BY DEF StageInv
  <1>3. CertificateInv' BY <1>1 DEF RouteInv, CertificateInv
  <1>4. CredentialFree' BY <1>1 DEF RouteInv, CredentialFree
  <1>5. QED BY <1>2, <1>3, <1>4 DEF RouteInv

LEMMA VerifyRouteKeeps == ASSUME RouteInv, VerifyRoute PROVE RouteInv'
  <1> DEFINE route == [provider |-> ask.provider, model |-> ask.model,
                       modality |-> reply.modality, source |-> reply.source]
             r == AssembleRouteVerdict(route, hop1, Hop2, reply.echo, reply.echo.upstream,
                                       ask.upstream)
  <1>1. /\ report' = r /\ phase' = "done" /\ exit' = 3 /\ phase = "assemble"
        /\ ask.via = "verifyRoute" /\ UNCHANGED <<ask, hop1, reply>>
    BY DEF VerifyRoute, RouteReport, RouteInv, StageInv
  <1>2. Answered BY <1>1 DEF RouteInv, StageInv
  <1>3. RouteBound'
    <2> SUFFICES ASSUME r.trusted PROVE RouteBound' BY <1>1 DEF RouteBound
    <2>1. r.wrong = {} /\ IsTrusted(r.state) BY TrustedReport
    <2>2. /\ r.gateway = hop1 /\ r.provider = Hop2
          /\ \A hop \in {hop1, Hop2} : hop.requested =>
                Rank(hop.state) >= Rank(r.state) /\ IsTrusted(hop.state)
          /\ Mismatches(route, reply.echo, reply.echo.upstream, ask.upstream) = {}
      BY <2>1, AssembledBound
    <2> HIDE DEF r
    <2>3. reply.code = None /\ reply.verdict.ok BY <2>2, Hop2Trusted
    <2>4. reply.modality = Modality(ask, reply.echo) BY <1>2, <2>3, AnsweredAgrees
    <2>5. /\ Agrees(reply.echo)
          /\ ask.upstream # None => reply.echo.upstream \in {None, ask.upstream}
      BY <2>2, <2>4, MatchedAgrees
    <2>6. Agrees(reply.echo)' BY <1>1, <2>5 DEF Agrees
    <2>7. QED BY <1>1, <2>2, <2>3, <2>5, <2>6 DEF RouteBound
  <1>4. QED BY <1>1, <1>3, ReportKeeps DEF ExitMet

LEMMA VerifyKeeps == ASSUME RouteInv, Verify PROVE RouteInv'
  <1>1. /\ phase' = "done" /\ exit' = 3 /\ phase = "assemble" /\ ask.via = "verify"
        /\ UNCHANGED <<ask, hop1, reply>>
        /\ report'.trusted = ((~hop1.requested \/ IsTrusted(hop1.state)) /\ reply.verdict.ok)
        /\ report'.state = Weakest(hop1, Hop2)
        /\ report'.gateway = hop1 /\ report'.provider = Hop2
    BY DEF Verify, VerifyReport, RouteInv, StageInv, NoReport
  <1>2. Answered /\ reply.code = None BY <1>1 DEF RouteInv, StageInv
  <1>3. Agrees(reply.echo)' BY <1>1, <1>2, AnsweredAgrees DEF Agrees
  <1>4. \A hop \in {hop1, Hop2} : hop.requested => Rank(hop.state) >= Rank(Weakest(hop1, Hop2))
    BY WeakestIsLower
  <1>5. RouteBound' BY <1>1, <1>2, <1>3, <1>4 DEF RouteBound
  <1>6. QED BY <1>1, <1>5, ReportKeeps DEF ExitMet

LEMMA RunReportKeeps == ASSUME RouteInv, RunReport PROVE RouteInv'
  <1> DEFINE got == ask.via = "route" /\ reply.code = None
             route == [provider |-> ask.provider, model |-> ask.model, source |-> "unestablished",
                       modality |-> IF got THEN reply.modality ELSE "e2ee"]
             hop2 == IF ask.via = "route" THEN Hop2 ELSE HopNotRequested
             echo == IF got THEN [NoEcho EXCEPT !.provider = ask.provider, !.class = reply.modality]
                     ELSE NoEcho
             r == AssembleRouteVerdict(route, hop1, hop2, echo,
                                       IF got THEN reply.upstream ELSE None, ask.upstream)
  <1>1. /\ report' = r /\ phase' = "done" /\ exit' = (IF Met(r) THEN 0 ELSE 1)
        /\ phase = "assemble" /\ Cli(ask) /\ hop1.requested
        /\ ask.via \in {"route", "gateway"}
        /\ UNCHANGED <<ask, hop1, reply, observed>>
    BY DEF RunReport, CommandReport, Exits, RouteInv, StageInv, Cli
  <1>2. ask.via = "route" => Answered BY <1>1 DEF RouteInv, StageInv
  <1>3. ASSUME r.wrong = {}, IsTrusted(r.state)
        PROVE  /\ r.gateway = hop1 /\ r.provider = hop2
               /\ \A hop \in {hop1, hop2} : hop.requested =>
                     Rank(hop.state) >= Rank(r.state) /\ IsTrusted(hop.state)
               /\ ask.via = "route" =>
                     reply.code = None /\ reply.verdict.ok /\ Agrees(reply.echo)
    <2>1. /\ r.gateway = hop1 /\ r.provider = hop2
          /\ \A hop \in {hop1, hop2} : hop.requested =>
                Rank(hop.state) >= Rank(r.state) /\ IsTrusted(hop.state)
      BY <1>3, AssembledBound
    <2>2. ask.via = "route" => reply.code = None /\ reply.verdict.ok
      BY <2>1, Hop2Trusted
    <2>3. ask.via = "route" => Agrees(reply.echo) BY <1>2, <2>2, AnsweredAgrees
    <2>4. QED BY <2>1, <2>2, <2>3
  <1> HIDE DEF r
  <1>4. RouteBound'
    <2> SUFFICES ASSUME r.trusted PROVE RouteBound' BY <1>1 DEF RouteBound
    <2>1. r.wrong = {} /\ IsTrusted(r.state) BY TrustedReport DEF r
    <2>2. ~HopNotRequested.requested BY HopTrusted
    <2>3. ask.via = "route" => Agrees(reply.echo)' BY <1>1, <1>3, <2>1 DEF Agrees
    <2>4. QED BY <1>1, <1>3, <2>1, <2>2, <2>3 DEF RouteBound
  <1>5. ExitMet'
    <2> SUFFICES ASSUME Met(r) PROVE ExitMet' BY <1>1 DEF ExitMet
    <2>1. AtLeast(Gated(r), ask.require) /\ r.wrong = {} BY DEF Met
    <2>2. CASE ask.via = "gateway"
      <3>1. r.gateway = hop1 BY DEF r, AssembleRouteVerdict
      <3>2. AtLeast(hop1.state, ask.require) BY <2>1, <2>2, <3>1 DEF Gated
      <3>3. observed # "other"
        BY <3>2, Ranks DEF AtLeast, RouteInv, CertificateInv
      <3>4. QED BY <1>1, <2>2, <3>2, <3>3 DEF ExitMet
    <2>3. CASE ask.via = "route"
      <3>1. AtLeast(r.state, ask.require) BY <2>1, <2>3 DEF Gated
      <3>2. IsTrusted(r.state) BY <3>1, Ranks DEF AtLeast
      <3>3. Rank(hop1.state) >= Rank(r.state) /\ Rank(Hop2.state) >= Rank(r.state)
            /\ IsTrusted(hop1.state)
        BY <1>1, <1>3, <2>1, <2>3, <3>2, Hop2Trusted
      <3>4. AtLeast(hop1.state, ask.require) /\ AtLeast(Hop2.state, ask.require)
        <4>1. /\ Rank(hop1.state) \in {0, 2, 3, 4} /\ Rank(Hop2.state) \in {0, 2, 3, 4}
              /\ Rank(r.state) \in {0, 2, 3, 4} /\ Rank(ask.require) \in {0, 2, 3, 4}
          BY Ranks
        <4>2. QED BY <3>1, <3>3, <4>1 DEF AtLeast
      <3>5. observed # "other" BY <3>3 DEF RouteInv, CertificateInv
      <3>6. Agrees(reply.echo)' /\ Hop2' = Hop2
        BY <1>1, <1>3, <2>1, <2>3, <3>2 DEF Agrees, Hop2
      <3>7. QED BY <1>1, <1>3, <2>1, <2>3, <3>2, <3>4, <3>5, <3>6 DEF ExitMet
    <2>4. QED BY <1>1, <2>2, <2>3
  <1>6. QED BY <1>1, <1>4, <1>5, ReportKeeps

LEMMA RouteStep == RouteInv /\ [RouteNext]_vars => RouteInv'
  <1>1. ASSUME RouteInv, UNCHANGED vars PROVE RouteInv'
    BY <1>1 DEF RouteInv, StageInv, CertificateInv, RouteBound, ExitMet,
      CredentialFree, Answered, Agrees, Cli, Hop2, vars
  <1>2. QED
    BY <1>1, AskKeeps, RunCliKeeps, EarlyKeeps, AbortKeeps, GatewayHopKeeps,
      Hop2Keeps, VerifyRouteKeeps, VerifyKeeps, RunReportKeeps DEF RouteNext

----------------------------------------------------------------------------
(* Byte strings                                                            *)

\* The provers do not know that a literal is in STRING.
Units == STRING \cup {"sha", "address", "01", "fresh"}
Strings == Seq(Units)

LEMMA BytesAre == Bytes \subseteq Strings
  <1>1. \A S, T : S \subseteq T => Seq(S) \subseteq Seq(T) OBVIOUS
  <1>2. QED BY <1>1 DEF Bytes, Strings, Units

\* Two concatenations that agree agree in each part, where one part has the same
\* width in both.
LEMMA SameCut ==
    \A a, b, c, d \in Strings :
        /\ a \o b = c \o d /\ Len(a) = Len(c) => a = c /\ b = d
        /\ a \o b = c \o d /\ Len(b) = Len(d) => a = c /\ b = d
  <1> USE DEF Strings
  <1> SUFFICES ASSUME NEW a \in Strings, NEW b \in Strings, NEW c \in Strings,
                      NEW d \in Strings, a \o b = c \o d,
                      Len(a) = Len(c) \/ Len(b) = Len(d)
               PROVE  a = c /\ b = d
    OBVIOUS
  <1>1. /\ Len(a) \in Nat /\ Len(b) \in Nat /\ Len(c) \in Nat /\ Len(d) \in Nat
        /\ Len(a \o b) = Len(a) + Len(b) /\ Len(c \o d) = Len(c) + Len(d)
    BY LenProperties, ConcatProperties
  <1>2. Len(a) = Len(c) /\ Len(b) = Len(d) BY <1>1
  <1>3. ASSUME NEW i \in 1..Len(a) PROVE a[i] = c[i]
    <2>1. (a \o b)[i] = a[i] /\ (c \o d)[i] = c[i] BY <1>1, <1>2, <1>3, ConcatProperties
    <2>2. QED BY <2>1
  <1>4. ASSUME NEW i \in 1..Len(b) PROVE b[i] = d[i]
    <2>1. i + Len(a) \in 1..Len(a) + Len(b) /\ ~(i + Len(a) <= Len(a))
          /\ i + Len(a) - Len(a) = i
      BY <1>1, <1>4
    <2>2. (a \o b)[i + Len(a)] = b[i] BY <1>1, <2>1, ConcatProperties
    <2>3. i + Len(c) \in 1..Len(c) + Len(d) /\ ~(i + Len(c) <= Len(c))
          /\ i + Len(c) - Len(c) = i
      BY <1>2, <2>1
    <2>4. (c \o d)[i + Len(c)] = d[i] BY <1>1, <2>3, ConcatProperties
    <2>5. QED BY <1>2, <2>2, <2>4
  <1>5. QED BY <1>2, <1>3, <1>4, SeqEqual

LEMMA One == \A S : \A x \in S : <<x>> \in Seq(S) /\ Len(<<x>>) = 1
  OBVIOUS

LEMMA Tagged ==
    /\ <<"sha">> \in Strings /\ <<"address">> \in Strings /\ <<"01">> \in Strings /\ Nonce \in Strings
    /\ Len(<<"sha">>) = 1 /\ Len(Nonce) = 1
    /\ \A x, y \in Strings : x \o y \in Strings
  <1>1. /\ <<"sha">> \in Strings /\ <<"address">> \in Strings /\ <<"01">> \in Strings
        /\ Len(<<"sha">>) = 1 /\ Nonce \in Strings /\ Len(Nonce) = 1
    BY One DEF Strings, Units, Nonce
  <1>2. ASSUME NEW x \in Strings, NEW y \in Strings PROVE x \o y \in Strings
    BY <1>2, ConcatProperties DEF Strings
  <1>3. QED BY <1>1, <1>2

\* A hash is the hash of one value.
LEMMA ShaInjective == \A x, y \in Strings : Sha(x) \in Strings /\ (Sha(x) = Sha(y) => x = y)
  BY Tagged, SameCut DEF Sha

LEMMA ConfigInjective ==
    \A x, y \in Strings : Config(Sha(x)) = Config(Sha(y)) => x = y
  BY Tagged, SameCut, ShaInjective DEF Config

LEMMA AddressInjective ==
    \A x, y \in Strings \ {Absent} : Address(x) = Address(y) => x = y
  BY Tagged, SameCut DEF Address

\* A key beside a nonce of one width.
LEMMA KeyInjective ==
    ASSUME NEW x \in STRING, NEW k \in Strings, NEW l \in Strings, NonceKey(Nonce, k) = NonceKey(<<x>>, l)
    PROVE  k = l
  <1>1. <<x>> \in Strings /\ Len(<<x>>) = 1 BY One DEF Strings, Units
  <1>2. Sha(Nonce \o k) = Sha(<<x>> \o l) BY DEF NonceKey
  <1>3. Nonce \o k = <<x>> \o l BY <1>1, <1>2, Tagged, ShaInjective
  <1>4. Nonce \in Strings /\ Len(Nonce) = Len(<<x>>) BY <1>1, Tagged
  <1>5. QED BY <1>1, <1>3, <1>4, SameCut

----------------------------------------------------------------------------
(* Checks                                                                  *)

Passes(S) == \A c \in S : c.required => c.passed

LEMMA Demanded ==
    ASSUME NEW S, Passes(S), NEW name, NEW x, Require(name, x) \in S
    PROVE  x
  BY DEF Passes, Require, Check

LEMMA PassesUnion == \A S, T : Passes(S \cup T) <=> Passes(S) /\ Passes(T)
  BY DEF Passes

----------------------------------------------------------------------------
(* The verifiers                                                           *)

\* The expectations a verifier is called with.
Expected(e, provider) ==
    e.provider = provider /\ e.nonce = Nonce /\ e.pins = PinsFor(provider, e.upstream)

\* A row that pins something is a row of the measurements.
LEMMA Pinned ==
    ASSUME NEW provider, NEW model,
           \/ PinsFor(provider, model).kind # None
           \/ PinsFor(provider, model).accepted # {}
    PROVE  LET row == <<provider, IF provider \in {"near-ai", "other"} THEN model ELSE "*">>
           IN  row \in DOMAIN Measurements /\ PinsFor(provider, model) = Measurements[row]
  BY DEF PinsFor, NoPins

\* The registers of a quote that a pinned list admits are of a reviewed TD.
LEMMA Listed ==
    ASSUME NEW q, NEW provider, NEW model, ListedTruth(q, provider), q.parses, ~q.debug,
           PinsFor(provider, model).kind # "near-authority",
           MatchMeasurementAllowlist(q, PinsFor(provider, model).accepted) # {}
    PROVE  q.by.honest
           /\ <<provider, IF provider \in {"near-ai", "other"} THEN model ELSE "*">> \in q.by.serves
  <1> DEFINE row == <<provider, IF provider \in {"near-ai", "other"} THEN model ELSE "*">>
  <1>1. PinsFor(provider, model).accepted # {} BY DEF MatchMeasurementAllowlist
  <1>2. row \in DOMAIN Measurements /\ PinsFor(provider, model) = Measurements[row]
    BY <1>1, Pinned
  <1>3. row[1] = provider OBVIOUS
  <1> HIDE DEF row
  <1>4. q.by.honest /\ row \in q.by.serves BY <1>2, <1>3 DEF ListedTruth
  <1>5. QED BY <1>4 DEF row

\* What the checks of the release authority say of a document, they say of the TD:
\* the boot compose is the one it booted, the log the one it kept.
LEMMA AuthorityPublished ==
    ASSUME NEW provider, NEW doc, NEW policy, NEW e, e.nonce = Nonce,
           NearTruth(provider, doc), doc.quote.parses, ~doc.quote.debug,
           VerifyNearReleaseAuthority(doc, doc.quote, policy, e)
    PROVE  /\ Booted(doc.quote, doc.collateral)
           /\ RunsPublished(doc.quote.by, doc.collateral, policy)
  <1> DEFINE q == doc.quote
             s == doc.second
  <1>1. Booted(q, doc.collateral)
    BY DEF VerifyNearReleaseAuthority, BaseImage, ImageRecord, Booted
  <1>2. doc.boot = q.by.compose /\ ComposeFiles[doc.boot].repo = policy.composeRepo
    <2>1. q.cfg = Config(Sha(doc.boot)) /\ ComposeFiles[doc.boot].repo = policy.composeRepo
      BY DEF VerifyNearReleaseAuthority, BootCompose, HexEqual
    <2>2. q.cfg = Config(Sha(q.by.compose)) /\ {doc.boot, q.by.compose} \subseteq Bytes
      BY <1>1 DEF NearTruth
    <2>3. QED BY <2>1, <2>2, ConfigInjective, BytesAre
  <1>3. doc.actions = q.by.log
    <2>1. /\ s.parses /\ ~s.debug /\ s.boot = q.boot /\ s.cfg = q.cfg /\ s.rtmr3 = q.rtmr3
          /\ s.data = <<Sha(doc.actions), Nonce>>
      BY DEF VerifyNearReleaseAuthority, ManagerLog
    <2>2. s.data[1] = Sha(doc.actions) BY <2>1
    <2>3. Booted(s, doc.collateral) BY <1>1, <2>1 DEF Booted
    <2>4. s.by = q.by BY <2>1 DEF NearTruth
    <2>5. doc.actions = s.by.log BY <2>1, <2>2, <2>3 DEF NearTruth
    <2>6. QED BY <2>4, <2>5
  <1>4. ManagersReleased(doc, ActionLogs[doc.actions], policy, e)
        /\ FilesPublished(doc, ActionLogs[doc.actions], policy, e)
    BY DEF VerifyNearReleaseAuthority
  <1>5. RunsPublished(q.by, doc.collateral, policy)
    BY <1>2, <1>3, <1>4 DEF RunsPublished, ManagersReleased, FilesPublished
  <1>6. QED BY <1>1, <1>5

LEMMA NearSound ==
    ASSUME NEW provider \in {"near-ai", "other"}, NEW env, NEW e, Expected(e, provider),
           NearTruth(provider, env.payload), VerifyNear(env, e).ok
    PROVE  LET q == env.payload.quote
               v == VerifyNear(env, e)
           IN  /\ q.by.honest /\ q.data[2] = Nonce
               /\ e.pins.kind # "near-authority" => Good(q, provider, e.upstream)
               /\ Len(v.spki) = Len(q.by.tls) => v.spki = q.by.tls
               /\ provider = "other" => v.key = q.by.key /\ v.spki = q.by.tls
  <1> DEFINE doc == env.payload
             q == doc.quote
             v == VerifyNear(env, e)
             always == {Require("evidence_present", q.given), Require("quote_parsed", q.parses),
                        Require("model_binding", doc.model = e.upstream),
                        Require("gpu_evidence_present", doc.gpu.present), FreshnessCheck(env, e)}
             quoted == IF q.parses THEN NearQuoteChecks(doc, q, e) ELSE {}
             sealed == doc.algo = "ed25519" /\ Len(doc.key) = KeyWidth
                       /\ HexEqual(doc.address, doc.key)
             keyed == IF e.provider # "other" THEN {}
                      ELSE {Require("gpu_nonce_binding", VerifyNearGpuEvidence(doc.gpu, e.nonce)),
                            Require("encryption_key_binding", sealed)}
  <1>1. v = AssembleResult(always \cup quoted \cup keyed, "provider-attested", doc.key, doc.tls, TRUE)
    BY DEF VerifyNear
  <1> HIDE DEF v, always, quoted, keyed, sealed
  <1>2. Passes(always \cup quoted \cup keyed) /\ v.key = doc.key /\ v.spki = doc.tls
    <2> DEFINE all == always \cup quoted \cup keyed
    <2>1. v = AssembleResult(all, "provider-attested", doc.key, doc.tls, TRUE) /\ v.ok
      BY <1>1 DEF v
    <2> HIDE DEF all
    <2>2. Passes(all) /\ v.key = doc.key /\ v.spki = doc.tls 
      BY <2>1 DEF AssembleResult, Passes
    <2>3. QED BY <2>2 DEF all
  <1>3. Passes(always) /\ Passes(quoted) /\ Passes(keyed) BY <1>2, PassesUnion
  <1>4. q.parses
    <2>1. Require("quote_parsed", q.parses) \in always BY DEF always
    <2>2. QED BY <1>3, <2>1, Demanded
  <1>5. Passes(NearQuoteChecks(doc, q, e)) BY <1>3, <1>4 DEF quoted
  <1>6. ~q.debug
    <2>1. Require("debug_disabled", ~q.debug) \in NearQuoteChecks(doc, q, e)
      BY DEF NearQuoteChecks
    <2>2. QED BY <1>5, <2>1, Demanded
  <1>7. q.data[2] = Nonce
    <2>1. Require("nonce_binding", q.data[2] = e.nonce) \in NearQuoteChecks(doc, q, e)
      BY DEF NearQuoteChecks
    <2>2. QED BY <1>5, <2>1, Demanded DEF Expected
  <1>8. q.data[1] = Sha(doc.address \o doc.tls)
    <2> DEFINE bound == doc.address # Absent /\ doc.tls # Absent
                        /\ q.data[1] = Sha(doc.address \o doc.tls)
    <2>1. Require("tls_spki_binding", bound) \in NearQuoteChecks(doc, q, e)
      BY DEF NearQuoteChecks
    <2> HIDE DEF bound
    <2>2. bound BY <1>5, <2>1, Demanded
    <2>3. QED BY <2>2 DEF bound
  <1>9. q.by.honest /\ (e.pins.kind # "near-authority" => Good(q, provider, e.upstream))
    <2>1. CASE e.pins.kind = "near-authority"
      <3> DEFINE released == \E policy \in e.pins.accepted :
                               VerifyNearReleaseAuthority(doc, q, policy, e)
      <3>1. Require("release_authority", released) \in NearQuoteChecks(doc, q, e)
        BY <2>1 DEF NearQuoteChecks
      <3> HIDE DEF released
      <3>2. released BY <1>5, <3>1, Demanded
      <3>3. PICK policy \in e.pins.accepted : VerifyNearReleaseAuthority(doc, q, policy, e)
        BY <3>2 DEF released
      <3>4. Booted(q, doc.collateral) /\ RunsPublished(q.by, doc.collateral, policy)
        BY <1>4, <1>6, <3>3, AuthorityPublished DEF Expected
      <3>5. PICK row \in DOMAIN Measurements :
               Measurements[row].kind = "near-authority" /\ policy \in Measurements[row].accepted
        <4>1. PinsFor(provider, e.upstream).kind # None BY <2>1 DEF Expected, None
        <4>2. PICK row \in DOMAIN Measurements : PinsFor(provider, e.upstream) = Measurements[row]
          BY <4>1, Pinned
        <4>3. QED BY <2>1, <3>3, <4>2 DEF Expected
      <3>6. q.by.honest BY <1>4, <1>6, <3>4, <3>5 DEF NearTruth, PublishedTruth
      <3>7. QED BY <2>1, <3>6
    <2>2. CASE e.pins.kind # "near-authority"
      <3> DEFINE listed == \E entry \in MatchMeasurementAllowlist(q, e.pins.accepted) :
                              HexEqual(entry.compose, Sha(doc.compose))
      <3>1. Require("measurement_allowlist", listed) \in NearQuoteChecks(doc, q, e)
        BY <2>2 DEF NearQuoteChecks
      <3> HIDE DEF listed
      <3>2. listed BY <1>5, <3>1, Demanded
      <3>3. MatchMeasurementAllowlist(q, e.pins.accepted) # {} BY <3>2 DEF listed
      <3>4. ListedTruth(q, provider) BY <1>4 DEF NearTruth
      <3>5. QED BY <1>4, <1>6, <2>2, <3>3, <3>4, Listed DEF Expected, Good
    <2>3. QED BY <2>1, <2>2
  <1>10. /\ doc.address \in Strings /\ doc.tls \in Strings
         /\ q.by.key \in Strings /\ q.by.tls \in Strings
    BY <1>4, BytesAre DEF NearTruth
  <1>11. doc.address \o doc.tls = q.by.key \o q.by.tls
    <2>1. Sha(doc.address \o doc.tls) = Sha(q.by.key \o q.by.tls)
      BY <1>4, <1>8, <1>9 DEF NearTruth
    <2>2. QED BY <1>10, <2>1, Tagged, ShaInjective
  <1>12. /\ Len(doc.tls) = Len(q.by.tls) => doc.tls = q.by.tls
         /\ Len(doc.address) = Len(q.by.key) => doc.address = q.by.key /\ doc.tls = q.by.tls
    <2> DEFINE a == doc.address
               b == doc.tls
               c == q.by.key
               d == q.by.tls
    <2>1. a \in Strings /\ b \in Strings /\ c \in Strings /\ d \in Strings /\ a \o b = c \o d
      BY <1>10, <1>11
    <2> HIDE DEF a, b, c, d, doc, q
    <2>2. /\ Len(a) = Len(c) => a = c /\ b = d
          /\ Len(b) = Len(d) => a = c /\ b = d
      BY <2>1, SameCut
    <2>3. QED BY <2>2 DEF a, b, c, d, doc, q
  <1>13. ASSUME provider = "other" PROVE doc.key = q.by.key /\ doc.tls = q.by.tls
    <2>1. Require("encryption_key_binding", sealed) \in keyed BY <1>13 DEF keyed, Expected
    <2>2. sealed BY <1>3, <2>1, Demanded
    <2>3. doc.address = doc.key /\ Len(doc.address) = Len(q.by.key)
      BY <1>4, <1>9, <1>13, <2>2 DEF sealed, HexEqual, NearTruth
    <2>4. QED BY <1>12, <2>3
  <1>14. QED BY <1>2, <1>7, <1>9, <1>12, <1>13 DEF v

\* A Chutes instance whose checks passed is a reviewed TD, and the key the provider
\* listed for it is its own.
LEMMA InstanceSound ==
    ASSUME NEW doc, NEW i \in DOMAIN doc.instances, NEW e, Expected(e, "chutes"),
           ChutesTruth(doc), Passes(InstanceChecks(doc.instances[i], doc.keys, e))
    PROVE  LET instance == doc.instances[i]
               q == instance.quote
           IN  /\ Good(q, "chutes", "*") /\ q.data[1] = NonceKey(Nonce, q.by.key)
               /\ instance.id \in DOMAIN doc.keys /\ doc.keys[instance.id] = q.by.key
  <1> DEFINE instance == doc.instances[i]
             q == instance.quote
             S == InstanceChecks(instance, doc.keys, e)
             listed == MatchMeasurementAllowlist(q, e.pins.accepted) # {}
             bound == KeyBound(instance, doc.keys, e)
  <1>0. Passes(S) OBVIOUS
  <1>1. q.parses
    <2>1. Require("quote_parsed", q.parses) \in S BY DEF InstanceChecks
    <2> HIDE DEF S, q
    <2>2. QED BY <1>0, <2>1, Demanded
  <1>2. /\ Require("debug_disabled", ~q.debug) \in S
        /\ Require("measurement_allowlist", listed) \in S
        /\ Require("nonce_key_binding", bound) \in S
    BY <1>1 DEF InstanceChecks
  <1> HIDE DEF S, listed, bound
  <1>3. ~q.debug BY <1>0, <1>2, Demanded
  <1>4. listed BY <1>0, <1>2, Demanded
  <1>5. bound BY <1>0, <1>2, Demanded
  <1>6. Good(q, "chutes", "*")
    <2>1. ListedTruth(q, "chutes") BY <1>1 DEF ChutesTruth
    <2>2. MatchMeasurementAllowlist(q, PinsFor("chutes", e.upstream).accepted) # {}
      BY <1>4 DEF listed, Expected
    <2>3. PinsFor("chutes", e.upstream).kind # "near-authority"
      <3> DEFINE row == <<"chutes", "*">>
      <3>1. PinsFor("chutes", e.upstream).accepted # {} BY <2>2 DEF MatchMeasurementAllowlist
      <3>2. row \in DOMAIN Measurements /\ PinsFor("chutes", e.upstream) = Measurements[row]
        BY <3>1, Pinned
      <3>3. row[1] = "chutes" OBVIOUS
      <3> HIDE DEF row
      <3>4. QED BY <3>2, <3>3, PinsAssumption DEF PinsAssumption
    <2>4. QED BY <1>1, <1>3, <2>1, <2>2, <2>3, Listed DEF Good
  <1>7. /\ instance.id \in DOMAIN doc.keys
        /\ q.data[1] = NonceKey(Nonce, doc.keys[instance.id])
    BY <1>5 DEF bound, KeyBound, HexEqual, Expected
  <1>8. doc.keys[instance.id] = q.by.key
    <2> DEFINE k == doc.keys[instance.id]
               l == q.by.key
               x == q.data[1][2]
    <2>1. x \in STRING /\ l \in Bytes /\ q.data[1] = NonceKey(<<x>>, l)
      BY <1>1, <1>6 DEF ChutesTruth, Good
    <2>2. k \in Bytes BY <1>7 DEF ChutesTruth
    <2>3. NonceKey(Nonce, k) = NonceKey(<<x>>, l) BY <1>7, <2>1
    <2> HIDE DEF k, l, x
    <2>4. k = l BY <2>1, <2>2, <2>3, BytesAre, KeyInjective
    <2>5. QED BY <2>4 DEF k, l
  <1>9. QED BY <1>6, <1>7, <1>8

\* What is accepted of a Chutes document, of each of its instances.
LEMMA ChutesSound ==
    ASSUME NEW env, NEW e, Expected(e, "chutes"), ChutesTruth(env.payload),
           VerifyChutes(env, e).ok, NEW i \in DOMAIN env.payload.instances
    PROVE  LET doc == env.payload
               v == VerifyChutes(env, e)
               instance == doc.instances[i]
               q == instance.quote
           IN  /\ Good(q, "chutes", "*") /\ q.data[1] = NonceKey(Nonce, q.by.key)
               /\ v.key # Absent => v.key = q.by.key
               /\ doc.keys[instance.id] = q.by.key
  <1> DEFINE doc == env.payload
             v == VerifyChutes(env, e)
             instance == doc.instances[i]
             instances == {doc.instances[n] : n \in DOMAIN doc.instances}
             everyKeyBound == instances # {}
               /\ \A n \in instances : n.quote.parses => KeyBound(n, doc.keys, e)
             base == {Require("evidence_present", instances # {}),
                      Require("all_instances_returned", ~doc.failed),
                      Require("measurement_policy_pinned", e.pins.accepted # {}),
                      Check("model_binding", FALSE, FALSE), FreshnessCheck(env, e)}
             each == UNION {InstanceChecks(n, doc.keys, e) : n \in instances}
             only == DOMAIN doc.keys
             key == IF Cardinality(only) = 1 THEN doc.keys[CHOOSE id \in only : TRUE] ELSE Absent
             opaque == e.modality = "e2ee" /\ everyKeyBound
  <1>1. v = AssembleResult(base \cup each, "provider-attested", key, Absent, opaque)
    BY DEF VerifyChutes
  <1>2. instance \in instances OBVIOUS
  <1> HIDE DEF v, base, key, opaque, instances
  <1>3. Passes(base \cup each) /\ v.key = key
    <2> DEFINE all == base \cup each
    <2>1. v = AssembleResult(all, "provider-attested", key, Absent, opaque) /\ v.ok
      BY <1>1 DEF v
    <2> HIDE DEF all
    <2>2. Passes(all) /\ v.key = key BY <2>1 DEF AssembleResult, Passes
    <2>3. QED BY <2>2 DEF all
  <1>4. Passes(InstanceChecks(instance, doc.keys, e)) BY <1>2, <1>3 DEF Passes
  <1>5. /\ Good(instance.quote, "chutes", "*")
        /\ instance.quote.data[1] = NonceKey(Nonce, instance.quote.by.key)
        /\ instance.id \in only /\ doc.keys[instance.id] = instance.quote.by.key
    BY <1>4, InstanceSound
  <1>6. ASSUME key # Absent PROVE key = doc.keys[instance.id]
    <2>1. Cardinality(only) = 1 /\ key = doc.keys[CHOOSE id \in only : TRUE]
      BY <1>6 DEF key
    <2>2. IsFiniteSet(only) BY DEF ChutesTruth
    <2> HIDE DEF only
    <2>3. PICK id : only = {id} BY <2>1, <2>2, FS_Singleton
    <2>4. (CHOOSE n \in only : TRUE) = instance.id BY <1>5, <2>3
    <2>5. QED BY <2>1, <2>4
  <1>7. QED BY <1>3, <1>5, <1>6 DEF v

LEMMA VeniceSound ==
    ASSUME NEW env, NEW e, Expected(e, "venice"), VeniceTruth(env.payload),
           VerifyVenice(env, e).ok
    PROVE  LET q == env.payload.quote
               v == VerifyVenice(env, e)
           IN  /\ ~q.debug /\ q.data[2] = Nonce
               /\ q.by.honest => v.key = q.by.key
  <1> DEFINE doc == env.payload
             q == doc.quote
             v == VerifyVenice(env, e)
             signed == HexEqual(Address(doc.key), doc.address)
             quoted == HexEqual(q.data[1], doc.address)
             listed == doc.key # Absent /\ doc.key \in doc.keyset
             nonced == HexEqual(doc.nonce, e.nonce) /\ q.data[2] = e.nonce
             S == {Require("evidence_present", q.given), Require("quote_parsed", q.parses),
                   Require("expected_tee_type", q.parses /\ q.tee = "tdx"),
                   Require("debug_disabled", q.parses /\ ~q.debug),
                   Require("nonce_binding", nonced),
                   Require("model_binding", doc.model = e.upstream),
                   Require("signing_algorithm", doc.algo = "ecdsa"),
                   Require("signing_key_address", signed),
                   Require("signing_address_quote_binding", quoted),
                   Require("reported_quote_binding",
                           q.parses /\ doc.reported = q.data /\ doc.nested = q.data),
                   Require("workload_keyset_binding", listed),
                   Require("gpu_evidence_present", doc.gpu # {}), FreshnessCheck(env, e)}
  <1>1. /\ v = AssembleResult(S, "provider-attested", doc.key, Absent, TRUE)
        /\ Require("quote_parsed", q.parses) \in S
        /\ Require("debug_disabled", q.parses /\ ~q.debug) \in S
        /\ Require("nonce_binding", nonced) \in S
        /\ Require("signing_key_address", signed) \in S
        /\ Require("signing_address_quote_binding", quoted) \in S
        /\ Require("workload_keyset_binding", listed) \in S
    BY DEF VerifyVenice
  <1> HIDE DEF S
  <1>2. Passes(S) /\ v.key = doc.key
    <2>1. v.ok OBVIOUS
    <2> HIDE DEF v, q, doc
    <2>2. QED BY <1>1, <2>1 DEF AssembleResult, Passes
  <1> HIDE DEF v, signed, quoted, listed, nonced
  <1>3. q.parses /\ ~q.debug BY <1>1, <1>2, Demanded
  <1>4. nonced /\ signed /\ quoted /\ listed BY <1>1, <1>2, Demanded
  <1>5. q.data[2] = Nonce BY <1>4 DEF nonced, Expected
  <1>6. ASSUME q.by.honest PROVE doc.key = q.by.key
    <2>1. /\ doc.key \in Bytes /\ q.by.key \in Bytes /\ doc.key # Absent
          /\ Address(doc.key) = Address(q.by.key) /\ Address(q.by.key) # Absent
      BY <1>3, <1>4, <1>6 DEF signed, quoted, listed, HexEqual, VeniceTruth
    <2>2. q.by.key # Absent BY <2>1 DEF Address
    <2>3. QED BY <2>1, <2>2, BytesAre, AddressInjective
  <1>7. QED BY <1>2, <1>3, <1>5, <1>6 DEF v

LEMMA TinfoilSound ==
    ASSUME NEW env, NEW e, Expected(e, "tinfoil"), TinfoilTruth(env.payload),
           VerifyTinfoil(env, e).ok
    PROVE  LET doc == env.payload
               v == VerifyTinfoil(env, e)
           IN  e.modality = "tee" /\ ~v.opaque /\ (doc.real => v.spki = doc.by.tls)
  <1> DEFINE doc == env.payload
             v == VerifyTinfoil(env, e)
             S == {Require("evidence_present", doc.present),
                   Require("sdk_security_verified", doc.secure),
                   Require("official_verifier_identity", doc.official),
                   Require("enclave_host_binding",
                           {doc.router, doc.enclave, e.endpoint} = {TinfoilEndpoint}),
                   Require("sdk_verification_steps", SdkSteps \subseteq doc.succeeded),
                   Require("provider_release_authority",
                           e.pins.kind = "sigstore" /\ doc.repo \in e.pins.accepted),
                   Require("signed_release_identity",
                           Absent \notin {doc.release, doc.code, doc.live}),
                   Require("code_matches_live_enclave", HexEqual(doc.code, doc.live)),
                   Require("serving_modality_supported", e.modality = "tee"),
                   Require("attested_key_binding",
                           IF e.modality = "e2ee" THEN doc.hpke # Absent ELSE TransportBound(doc)),
                   Check("nonce_binding", FALSE, FALSE), FreshnessCheck(env, e)}
  <1>1. /\ v = AssembleResult(S, "sdk-verified", Absent, doc.tls, FALSE)
        /\ Require("sdk_security_verified", doc.secure) \in S
        /\ Require("official_verifier_identity", doc.official) \in S
        /\ Require("sdk_verification_steps", SdkSteps \subseteq doc.succeeded) \in S
        /\ Require("serving_modality_supported", e.modality = "tee") \in S
    BY DEF VerifyTinfoil
  <1> HIDE DEF S
  <1>2. Passes(S) /\ v.spki = doc.tls /\ v.opaque = FALSE
    <2>1. v.ok OBVIOUS
    <2> HIDE DEF v, doc
    <2>2. QED BY <1>1, <2>1 DEF AssembleResult, Passes
  <1>3. doc.secure /\ doc.official BY <1>1, <1>2, Demanded
  <1>4. SdkSteps \subseteq doc.succeeded /\ e.modality = "tee"
    <2>1. SdkSteps \subseteq doc.succeeded BY <1>1, <1>2, Demanded
    <2>2. e.modality = "tee" BY <1>1, <1>2, Demanded
    <2>3. QED BY <2>1, <2>2
  <1> HIDE DEF v
  <1>5. QED BY <1>2, <1>3, <1>4 DEF TinfoilTruth, v

----------------------------------------------------------------------------
(* What a right answer is accepted by                                      *)

\* The expectations of a verifier that is called now.
Current(e, provider) == Expected(e, provider) /\ e.now = Now

LEMMA MustPass ==
    ASSUME NEW name, NEW x, x PROVE Passes({Require(name, x)})
  BY DEF Passes, Require, Check

LEMMA MayPass ==
    ASSUME NEW name, NEW x, NEW y, x \/ ~y PROVE Passes({Check(name, x, y)})
  BY DEF Passes, Check

LEMMA PassEach ==
    ASSUME NEW S, \A c \in S : Passes({c}) PROVE Passes(S)
  BY DEF Passes

LEMMA Assembled ==
    ASSUME NEW S, Passes(S), NEW level, NEW key, NEW spki, NEW opaque
    PROVE  /\ AssembleResult(S, level, key, spki, opaque).ok
           /\ AssembleResult(S, level, key, spki, opaque).level = level
  BY DEF AssembleResult, Passes

\* A hash is there.
LEMMA HashGiven ==
    \A x \in Strings : /\ HexEqual(Sha(x), Sha(x)) /\ Sha(x) # Absent
                       /\ HexEqual(Address(x), Address(x)) \/ x = Absent
  <1> SUFFICES ASSUME NEW x \in Strings
               PROVE  /\ HexEqual(Sha(x), Sha(x)) /\ Sha(x) # Absent
                      /\ HexEqual(Address(x), Address(x)) \/ x = Absent
    OBVIOUS
  <1>1. Len(<<"sha">> \o x) = 1 + Len(x) /\ Len(<<"address">> \o x) = 1 + Len(x) /\ Len(x) \in Nat
    <2>1. Len(<<"address">>) = 1 BY One
    <2>2. QED BY <2>1, Tagged, ConcatProperties, LenProperties DEF Strings
  <1>2. <<"sha">> \o x # Absent /\ <<"address">> \o x # Absent
    <2>1. Len(Absent) = 0 BY DEF Absent
    <2>2. 1 + Len(x) # 0 BY <1>1
    <2>3. QED BY <1>1, <2>1, <2>2
  <1>3. QED BY <1>2 DEF Sha, Address, HexEqual

LEMMA FreshPasses ==
    ASSUME NEW d, Timely(d.at), NEW e, e.now = Now
    PROVE  Passes({FreshnessCheck(d, e)})
  <1> DEFINE at == IF d.at = 0 THEN e.now ELSE d.at
             fresh == at <= e.now + Skew /\ e.now <= at + MaxEvidenceAge
  <1>1. Now \in Nat /\ Skew \in Nat /\ MaxEvidenceAge \in Nat
    BY ClockAssumption DEF ClockAssumption
  <1>2. Now <= Now + Skew /\ Now <= Now + MaxEvidenceAge BY <1>1
  <1>3. fresh BY <1>2 DEF Timely
  <1>4. FreshnessCheck(d, e) = Require("evidence_freshness", fresh) BY DEF FreshnessCheck
  <1> HIDE DEF fresh
  <1>5. QED BY <1>3, <1>4, MustPass

LEMMA TinfoilAccepted ==
    ASSUME NEW d, NEW e, Current(e, "tinfoil"), e.modality = "tee",
           e.endpoint = PinsFor("tinfoil", "*").endpoint,
           Timely(d.at), TinfoilAnswers(d.payload)
    PROVE  VerifyTinfoil(d, e).ok /\ VerifyTinfoil(d, e).level = "sdk-verified"
  <1> DEFINE doc == d.payload
             host == {doc.router, doc.enclave, e.endpoint} = {TinfoilEndpoint}
             steps == SdkSteps \subseteq doc.succeeded
             authority == e.pins.kind = "sigstore" /\ doc.repo \in e.pins.accepted
             named == Absent \notin {doc.release, doc.code, doc.live}
             live == HexEqual(doc.code, doc.live)
             key == IF e.modality = "e2ee" THEN doc.hpke # Absent ELSE TransportBound(doc)
             tee == e.modality = "tee"
             checks ==
               {Require("evidence_present", doc.present),
                Require("sdk_security_verified", doc.secure),
                Require("official_verifier_identity", doc.official),
                Require("enclave_host_binding", host),
                Require("sdk_verification_steps", steps),
                Require("provider_release_authority", authority),
                Require("signed_release_identity", named),
                Require("code_matches_live_enclave", live),
                Require("serving_modality_supported", tee),
                Require("attested_key_binding", key),
                Check("nonce_binding", FALSE, FALSE), FreshnessCheck(d, e)}
  <1>1. VerifyTinfoil(d, e) = AssembleResult(checks, "sdk-verified", Absent, doc.tls, FALSE)
    BY DEF VerifyTinfoil
  <1>2. e.pins = PinsFor("tinfoil", "*") BY DEF Current, Expected, PinsFor
  <1>3. doc.present /\ doc.secure /\ doc.official /\ host /\ steps /\ authority /\ named /\ tee
    BY <1>2 DEF TinfoilAnswers
  <1>4. live /\ key
    BY DEF TinfoilAnswers, TransportBound, HexEqual
  <1>5. Passes({FreshnessCheck(d, e)}) BY FreshPasses DEF Current
  <1> HIDE DEF host, steps, authority, named, live, key, tee
  <1>6. \A c \in checks : Passes({c})
    <2>1. /\ Passes({Require("evidence_present", doc.present)})
          /\ Passes({Require("sdk_security_verified", doc.secure)})
          /\ Passes({Require("official_verifier_identity", doc.official)})
          /\ Passes({Require("enclave_host_binding", host)})
          /\ Passes({Require("sdk_verification_steps", steps)})
      BY <1>3, MustPass
    <2>2. /\ Passes({Require("provider_release_authority", authority)})
          /\ Passes({Require("signed_release_identity", named)})
          /\ Passes({Require("code_matches_live_enclave", live)})
          /\ Passes({Require("serving_modality_supported", tee)})
          /\ Passes({Require("attested_key_binding", key)})
      BY <1>3, <1>4, MustPass
    <2>3. Passes({Check("nonce_binding", FALSE, FALSE)}) BY MayPass
    <2>4. QED BY <1>5, <2>1, <2>2, <2>3
  <1> HIDE DEF checks
  <1>7. Passes(checks) BY <1>6, PassEach
  <1>8. QED BY <1>1, <1>7 DEF AssembleResult, Passes

\* A certificate that can be checked here is shown to be held; one that cannot is
\* not demanded.
LEMMA InstanceAccepted ==
    ASSUME NEW doc, NEW i \in DOMAIN doc.instances, NEW e, Current(e, "chutes"),
           ChutesTruth(doc), ChutesAnswers(doc)
    PROVE  Passes(InstanceChecks(doc.instances[i], doc.keys, e)) /\ e.pins.accepted # {}
  <1> DEFINE instance == doc.instances[i]
             q == instance.quote
             td == q.by
             body == instance.body
             cert == CertPossession(instance.cert, instance.signature, body, e.node)
             named == instance.id # None
             tdx == q.tee = "tdx"
             released == ~q.debug
             listed == MatchMeasurementAllowlist(q, e.pins.accepted) # {}
             bound == KeyBound(instance, doc.keys, e)
             gpu == instance.gpu # {}
             spki == HexEqual(q.data[2], cert.spki)
             nonce == body.nonce = e.nonce
             quote == body.quote = q
             cards == body.gpu = instance.gpu
             first == {Require("identity", named), Require("quote_parsed", q.parses)}
             rest == {Require("expected_tee_type", tdx), Require("debug_disabled", released),
                      Require("measurement_allowlist", listed), Require("nonce_key_binding", bound),
                      Require("gpu_evidence_present", gpu),
                      Check("certificate_spki_binding", spki, cert.available),
                      Check("certificate_freshness", cert.fresh, cert.available),
                      Check("key_possession", cert.possession, cert.available),
                      Check("attested_nonce", nonce, cert.available),
                      Check("attested_quote", quote, cert.available),
                      Check("attested_gpu_evidence", cards, cert.available)}
  <1>1. InstanceChecks(instance, doc.keys, e) = first \cup (IF ~q.parses THEN {} ELSE rest)
    BY DEF InstanceChecks
  <1>2. /\ td.honest /\ td.cert \in Bytes \ {Absent}
        /\ q = TdxQuote(td, FALSE, q.boot, q.rtmr3, q.cfg,
                        <<NonceKey(Nonce, td.key), Sha(td.cert)>>)
        /\ \E entry \in PinsFor("chutes", "*").accepted :
              entry.boot = q.boot /\ entry.rtmr3 = q.rtmr3
        /\ instance.id \in DOMAIN doc.keys \ {None} /\ doc.keys[instance.id] = td.key
        /\ instance.gpu # {} /\ instance.cert = [key |-> td.cert, fresh |-> TRUE]
        /\ body = [nonce |-> Nonce, quote |-> q, gpu |-> instance.gpu]
        /\ instance.signature = <<td.cert, body>>
    BY DEF ChutesAnswers
  <1>3. /\ q.parses = TRUE /\ q.tee = "tdx" /\ q.debug = FALSE
        /\ q.data = <<NonceKey(Nonce, td.key), Sha(td.cert)>>
    <2> DEFINE data == <<NonceKey(Nonce, td.key), Sha(td.cert)>>
    <2>1. PICK boot, rtmr3, cfg : q = TdxQuote(td, FALSE, boot, rtmr3, cfg, data) BY <1>2
    <2> HIDE DEF q, td, data
    <2>2. q.parses = TRUE /\ q.tee = "tdx" /\ q.debug = FALSE /\ q.data = data
      BY <2>1 DEF TdxQuote
    <2>3. QED BY <2>2 DEF data
  <1>4. q.data[1] = NonceKey(Nonce, td.key) /\ q.data[2] = Sha(td.cert) BY <1>3
  <1>5. /\ e.nonce = Nonce /\ e.pins = PinsFor("chutes", "*")
    BY DEF Current, Expected, PinsFor
  <1>6. listed /\ e.pins.accepted # {} BY <1>2, <1>5 DEF MatchMeasurementAllowlist
  <1>7. bound
    <2>1. td.key \in Strings BY <1>2, <1>3, BytesAre DEF ChutesTruth
    <2>2. Nonce \o td.key \in Strings BY <2>1, Tagged
    <2>3. HexEqual(NonceKey(Nonce, td.key), NonceKey(Nonce, td.key))
      BY <2>2, HashGiven DEF NonceKey
    <2>4. QED BY <1>2, <1>4, <1>5, <2>3 DEF KeyBound
  <1>8. named /\ tdx /\ released /\ gpu BY <1>2, <1>3
  <1>9. nonce /\ quote /\ cards BY <1>2, <1>5
  <1>10. (spki /\ cert.fresh /\ cert.possession) \/ ~cert.available
    <2> DEFINE k == td.cert
    <2>1. k # Absent /\ cert = CertPossession([key |-> k, fresh |-> TRUE], <<k, body>>, body, e.node)
      BY <1>2
    <2> HIDE DEF k, body, td, cert
    <2>2. CASE e.node
      <3>1. cert = [available |-> TRUE, spki |-> Sha(k), fresh |-> TRUE,
                    possession |-> <<k, body>> = <<k, body>>]
        BY <2>1, <2>2 DEF CertPossession
      <3>2. cert.spki = Sha(k) /\ cert.fresh /\ cert.possession BY <3>1
      <3>3. HexEqual(Sha(k), Sha(k)) BY <1>2, BytesAre, HashGiven DEF k
      <3>4. spki BY <1>4, <3>2, <3>3 DEF k
      <3>5. QED BY <3>2, <3>4
    <2>3. CASE ~e.node
      <3>1. cert.available = FALSE BY <2>1, <2>3 DEF CertPossession
      <3>2. QED BY <3>1
    <2>4. QED BY <2>2, <2>3
  <1> HIDE DEF named, tdx, released, listed, bound, gpu, spki, nonce, quote, cards, cert
  <1>11. \A c \in first : Passes({c})
    <2>1. Passes({Require("identity", named)}) /\ Passes({Require("quote_parsed", q.parses)})
      BY <1>3, <1>8, MustPass
    <2>2. QED BY <2>1
  <1>12. \A c \in rest : Passes({c})
    <2>1. /\ Passes({Require("expected_tee_type", tdx)})
          /\ Passes({Require("debug_disabled", released)})
          /\ Passes({Require("measurement_allowlist", listed)})
          /\ Passes({Require("nonce_key_binding", bound)})
          /\ Passes({Require("gpu_evidence_present", gpu)})
      BY <1>6, <1>7, <1>8, MustPass
    <2>2. /\ Passes({Check("certificate_spki_binding", spki, cert.available)})
          /\ Passes({Check("certificate_freshness", cert.fresh, cert.available)})
          /\ Passes({Check("key_possession", cert.possession, cert.available)})
      BY <1>10, MayPass
    <2>3. /\ Passes({Check("attested_nonce", nonce, cert.available)})
          /\ Passes({Check("attested_quote", quote, cert.available)})
          /\ Passes({Check("attested_gpu_evidence", cards, cert.available)})
      BY <1>9, MayPass
    <2>4. QED BY <2>1, <2>2, <2>3
  <1> HIDE DEF first, rest
  <1>13. Passes(first) /\ Passes(rest) BY <1>11, <1>12, PassEach
  <1>14. Passes(first \cup (IF ~q.parses THEN {} ELSE rest))
    BY <1>3, <1>13, PassesUnion
  <1>15. QED BY <1>1, <1>6, <1>14

LEMMA ChutesAccepted ==
    ASSUME NEW d, NEW e, Current(e, "chutes"), ChutesTruth(d.payload),
           Timely(d.at), ChutesAnswers(d.payload)
    PROVE  VerifyChutes(d, e).ok /\ VerifyChutes(d, e).level = "provider-attested"
  <1> DEFINE doc == d.payload
             instances == {doc.instances[n] : n \in DOMAIN doc.instances}
             everyKeyBound == instances # {}
               /\ \A n \in instances : n.quote.parses => KeyBound(n, doc.keys, e)
             present == instances # {}
             all == ~doc.failed
             pinned == e.pins.accepted # {}
             base == {Require("evidence_present", present),
                      Require("all_instances_returned", all),
                      Require("measurement_policy_pinned", pinned),
                      Check("model_binding", FALSE, FALSE), FreshnessCheck(d, e)}
             each == UNION {InstanceChecks(n, doc.keys, e) : n \in instances}
             checks == base \cup each
             only == DOMAIN doc.keys
             key == IF Cardinality(only) = 1 THEN doc.keys[CHOOSE id \in only : TRUE] ELSE Absent
             opaque == e.modality = "e2ee" /\ everyKeyBound
  <1>1. VerifyChutes(d, e) = AssembleResult(checks, "provider-attested", key, Absent, opaque)
    BY DEF VerifyChutes
  <1>2. present /\ all BY DEF ChutesAnswers
  <1>3. \A n \in instances : Passes(InstanceChecks(n, doc.keys, e))
    BY InstanceAccepted
  <1>4. pinned BY <1>2, InstanceAccepted
  <1>5. Passes({FreshnessCheck(d, e)}) BY FreshPasses DEF Current
  <1>6. Passes(each) BY <1>3 DEF Passes
  <1> HIDE DEF present, all, pinned, each, key, opaque
  <1>7. \A c \in base : Passes({c})
    <2>1. /\ Passes({Require("evidence_present", present)})
          /\ Passes({Require("all_instances_returned", all)})
          /\ Passes({Require("measurement_policy_pinned", pinned)})
      BY <1>2, <1>4, MustPass
    <2>2. Passes({Check("model_binding", FALSE, FALSE)}) BY MayPass
    <2>3. QED BY <1>5, <2>1, <2>2
  <1> HIDE DEF base
  <1>8. Passes(checks) BY <1>6, <1>7, PassEach, PassesUnion
  <1> HIDE DEF checks
  <1>9. QED BY <1>1, <1>8 DEF AssembleResult, Passes

LEMMA VeniceAccepted ==
    ASSUME NEW d, NEW e, Current(e, "venice"), VeniceTruth(d.payload),
           Timely(d.at), VeniceAnswers(e.upstream, d.payload)
    PROVE  VerifyVenice(d, e).ok /\ VerifyVenice(d, e).level = "provider-attested"
  <1> DEFINE doc == d.payload
             q == doc.quote
             typed == q.parses /\ q.tee = "tdx"
             released == q.parses /\ ~q.debug
             nonce == HexEqual(doc.nonce, e.nonce) /\ q.data[2] = e.nonce
             model == doc.model = e.upstream
             algo == doc.algo = "ecdsa"
             signed == HexEqual(Address(doc.key), doc.address)
             quoted == HexEqual(q.data[1], doc.address)
             reported == q.parses /\ doc.reported = q.data /\ doc.nested = q.data
             keyset == doc.key # Absent /\ doc.key \in doc.keyset
             gpu == doc.gpu # {}
             checks ==
               {Require("evidence_present", q.given), Require("quote_parsed", q.parses),
                Require("expected_tee_type", typed), Require("debug_disabled", released),
                Require("nonce_binding", nonce), Require("model_binding", model),
                Require("signing_algorithm", algo), Require("signing_key_address", signed),
                Require("signing_address_quote_binding", quoted),
                Require("reported_quote_binding", reported),
                Require("workload_keyset_binding", keyset),
                Require("gpu_evidence_present", gpu), FreshnessCheck(d, e)}
  <1>1. VerifyVenice(d, e) = AssembleResult(checks, "provider-attested", doc.key, Absent, TRUE)
    BY DEF VerifyVenice
  <1>2. /\ q.parses = TRUE /\ q.given = TRUE /\ q.tee = "tdx" /\ q.debug = FALSE
        /\ q.data = <<Address(q.by.key), Nonce>> /\ q.by.honest /\ q.by.key # Absent
        /\ doc.key = q.by.key /\ doc.address = Address(q.by.key) /\ doc.nonce = Nonce
        /\ q.by.key \in doc.keyset
        /\ doc.reported = q.data /\ doc.nested = q.data
    BY DEF VeniceAnswers, TdxQuote
  <1>3. q.by.key \in Strings BY <1>2, BytesAre DEF VeniceTruth
  <1>4. HexEqual(Address(q.by.key), Address(q.by.key)) BY <1>2, <1>3, HashGiven
  <1>5. e.nonce = Nonce /\ HexEqual(Nonce, Nonce)
    BY DEF Current, Expected, HexEqual, Nonce, Absent
  <1>6. q.data[1] = Address(q.by.key) /\ q.data[2] = Nonce BY <1>2
  <1>7. /\ typed /\ released /\ nonce /\ signed /\ quoted /\ reported /\ keyset
    BY <1>2, <1>4, <1>5, <1>6
  <1>8. model /\ algo /\ gpu BY DEF VeniceAnswers
  <1>9. Passes({FreshnessCheck(d, e)}) BY FreshPasses DEF Current
  <1> HIDE DEF typed, released, nonce, model, algo, signed, quoted, reported, keyset, gpu
  <1>10. \A c \in checks : Passes({c})
    <2>1. /\ Passes({Require("evidence_present", q.given)})
          /\ Passes({Require("quote_parsed", q.parses)})
          /\ Passes({Require("expected_tee_type", typed)})
          /\ Passes({Require("debug_disabled", released)})
          /\ Passes({Require("nonce_binding", nonce)})
          /\ Passes({Require("model_binding", model)})
      BY <1>2, <1>7, <1>8, MustPass
    <2>2. /\ Passes({Require("signing_algorithm", algo)})
          /\ Passes({Require("signing_key_address", signed)})
          /\ Passes({Require("signing_address_quote_binding", quoted)})
          /\ Passes({Require("reported_quote_binding", reported)})
          /\ Passes({Require("workload_keyset_binding", keyset)})
          /\ Passes({Require("gpu_evidence_present", gpu)})
      BY <1>7, <1>8, MustPass
    <2>3. QED BY <1>9, <2>1, <2>2
  <1> HIDE DEF checks
  <1>11. Passes(checks) BY <1>10, PassEach
  <1>12. QED BY <1>1, <1>11 DEF AssembleResult, Passes

\* A commitment is longer than the digest that stands for none, so that an event
\* which is logged once is read for what it names.
LEMMA SingleLogged ==
    ASSUME NEW events, NEW name, NEW payload \in Strings, Logged(events, name, payload)
    PROVE  SinglePayload(events, name) = payload
  <1> DEFINE T == Units \cup {name, "v1", "v2"}
             preimage == <<name>> \o payload
  <1>1. /\ payload \in Seq(T) /\ <<name>> \in Seq(T) /\ Len(<<name>>) = 1
        /\ <<"v2">> \in Seq(T) /\ Len(<<"v2">>) = 1
        /\ <<"v1", name>> \in Seq(T) /\ Len(<<"v1", name>>) = 2
    <2>1. \A S : Units \subseteq S => Seq(Units) \subseteq Seq(S) OBVIOUS
    <2>2. payload \in Seq(T) BY <2>1 DEF Strings
    <2>3. \A S : \A x, y \in S : <<x, y>> \in Seq(S) /\ Len(<<x, y>>) = 2 OBVIOUS
    <2>4. QED BY <2>2, <2>3, One
  <1> HIDE DEF T
  <1>2. /\ preimage \in Seq(T) /\ Len(preimage) = 1 + Len(payload) /\ Len(payload) \in Nat
        /\ Len(<<"v1", name>> \o payload) = 2 + Len(payload)
    BY <1>1, ConcatProperties, LenProperties
  <1>3. Len(<<"v2">> \o preimage) = 2 + Len(payload)
    <2> HIDE DEF preimage
    <2>1. Len(<<"v2">> \o preimage) = 1 + Len(preimage) BY <1>1, <1>2, ConcatProperties
    <2>2. QED BY <1>2, <2>1
  <1>4. /\ Committed(name, payload) # Garbage /\ CommittedV2(preimage) # Garbage
        /\ preimage # Absent
    <2>1. Len(Garbage) = 1 /\ Len(Absent) = 0 BY One DEF Garbage, Absent
    <2>2. 2 + Len(payload) # 1 /\ 1 + Len(payload) # 0 BY <1>2
    <2> HIDE DEF preimage
    <2>3. Len(Committed(name, payload)) # Len(Garbage) BY <1>2, <2>1, <2>2 DEF Committed
    <2>4. Len(CommittedV2(preimage)) # Len(Garbage) BY <1>3, <2>1, <2>2 DEF CommittedV2
    <2>5. Len(preimage) # Len(Absent) BY <1>2, <2>1, <2>2
    <2>6. QED BY <2>3, <2>4, <2>5
  <1>5. PICK i \in DOMAIN events :
           /\ \A j \in DOMAIN events : events[j].name = name => j = i
           /\ events[i].imr = 3 /\ events[i].name = name /\ events[i].payload = payload
           /\ \/ /\ events[i].preimage = Absent
                 /\ events[i].digest \in {Absent, Committed(name, payload)}
              \/ /\ events[i].preimage = preimage
                 /\ events[i].digest = CommittedV2(events[i].preimage)
    BY DEF Logged
  <1> HIDE DEF preimage
  <1>6. Rtmr3Digest(events[i]) # Garbage
    <2>1. CASE events[i].preimage = Absent
      BY <1>4, <1>5, <2>1 DEF Rtmr3Digest
    <2>2. CASE events[i].preimage = preimage
      BY <1>4, <1>5, <2>2 DEF Rtmr3Digest, preimage
    <2>3. QED BY <1>5, <2>1, <2>2
  <1>7. {j \in DOMAIN events : events[j].name = name} = {i} BY <1>5
  <1>8. Cardinality({i}) = 1 BY FS_Singleton
  <1>9. QED BY <1>5, <1>6, <1>7, <1>8 DEF SinglePayload

LEMMA ConfigGiven == \A x \in Strings : HexEqual(Config(Sha(x)), Config(Sha(x)))
  <1> SUFFICES ASSUME NEW x \in Strings PROVE Config(Sha(x)) # Absent BY DEF HexEqual
  <1> DEFINE hash == Sha(x)
  <1>1. hash \in Strings BY ShaInjective
  <1> HIDE DEF hash
  <1>2. Len(<<"01">> \o hash) = 1 + Len(hash) /\ Len(hash) \in Nat
    <2>1. Len(<<"01">>) = 1 BY One
    <2>2. QED BY <1>1, <2>1, Tagged, ConcatProperties, LenProperties DEF Strings
  <1>3. <<"01">> \o hash # Absent
    <2>1. Len(Absent) = 0 BY DEF Absent
    <2>2. 1 + Len(hash) # 0 BY <1>2
    <2>3. QED BY <1>2, <2>1, <2>2
  <1>4. QED BY <1>3 DEF Config, hash

\* The quote of a TD that answers.
LEMMA Answering ==
    ASSUME NEW provider, NEW upstream, NEW doc, NearTruth(provider, doc),
           NearAnswers(provider, upstream, doc)
    PROVE  LET q == doc.quote
               td == q.by
           IN  /\ q.given /\ q.parses /\ q.tee = "tdx" /\ ~q.debug
               /\ q.rtmr3 = Replay(doc.events, 3) /\ q.cfg = Config(Sha(td.compose))
               /\ q.data[1] = Sha(td.key \o td.tls) /\ q.data[2] = Nonce
               /\ td.honest /\ {td.key, td.tls, td.compose} \subseteq Bytes
               /\ \A data : LET s == [q EXCEPT !.data = data]
                            IN  /\ s.parses /\ ~s.debug /\ s.data = data
                                /\ s.boot = q.boot /\ s.cfg = q.cfg /\ s.rtmr3 = q.rtmr3
  <1> DEFINE q == doc.quote
             td == q.by
             replayed == Replay(doc.events, 3)
             config == Config(Sha(td.compose))
             own == Sha(td.key \o td.tls)
  <1>1. PICK boot : q = TdxQuote(td, FALSE, boot, replayed, config, <<own, Nonce>>)
    BY DEF NearAnswers
  <1>2. td.honest BY DEF NearAnswers
  <1> HIDE DEF q, td, replayed, config, own
  <1>3. /\ q.given = TRUE /\ q.parses = TRUE /\ q.tee = "tdx" /\ q.debug = FALSE
        /\ q.rtmr3 = replayed /\ q.cfg = config /\ q.data = <<own, Nonce>>
    BY <1>1 DEF TdxQuote
  <1>4. q.data[1] = own /\ q.data[2] = Nonce BY <1>3
  <1>5. ASSUME NEW data
        PROVE  LET s == [q EXCEPT !.data = data]
               IN  /\ s.parses = TRUE /\ s.debug = FALSE /\ s.data = data
                   /\ s.boot = q.boot /\ s.cfg = q.cfg /\ s.rtmr3 = q.rtmr3
    BY <1>1 DEF TdxQuote
  <1>6. {td.key, td.tls, td.compose} \subseteq Bytes
    BY <1>3 DEF NearTruth, q, td
  <1>7. QED BY <1>2, <1>3, <1>4, <1>5, <1>6 DEF q, td, replayed, config, own

\* Each part of the release authority finds what the vendor has published.
LEMMA AuthorityAccepted ==
    ASSUME NEW provider, NEW upstream, NEW doc, NearTruth(provider, doc),
           NearAnswers(provider, upstream, doc), NEW policy, Published(doc, policy),
           NEW e, e.nonce = Nonce, e.now = Now
    PROVE  VerifyNearReleaseAuthority(doc, doc.quote, policy, e)
  <1> DEFINE q == doc.quote
             td == q.by
             c == doc.collateral
             log == ActionLogs[td.log]
             events == doc.events
  <1>1. /\ q.rtmr3 = Replay(events, 3) /\ q.cfg = Config(Sha(td.compose))
        /\ ~q.debug /\ q.parses /\ {td.key, td.tls, td.compose} \subseteq Bytes
    BY Answering
  <1>2. doc.boot = td.compose /\ td.compose # Absent
    BY DEF NearAnswers
  <1>3. td.compose \in Strings /\ Sha(td.compose) \in Strings
    BY <1>1, BytesAre, ShaInjective
  <1>4. /\ RunsPublished(td, c, policy)
        /\ {c.onchain.os, c.onchain.app} \subseteq Bytes \ {Absent}
        /\ Logged(events, "os-image-hash", c.onchain.os)
        /\ Logged(events, "app-id", c.onchain.app)
        /\ Logged(events, "compose-hash", Sha(td.compose))
        /\ Replay(events, 0) = q.boot.rtmr
    BY DEF Published
  <1>5. /\ SinglePayload(events, "os-image-hash") = c.onchain.os
        /\ SinglePayload(events, "app-id") = c.onchain.app
        /\ SinglePayload(events, "compose-hash") = Sha(td.compose)
        /\ c.onchain.os # Absent /\ c.onchain.app # Absent
    BY <1>3, <1>4, BytesAre, SingleLogged
  <1>6. BootCompose(doc, q, events, policy)
    <2>1. /\ HexEqual(q.cfg, Config(Sha(doc.boot)))
          /\ HexEqual(SinglePayload(events, "compose-hash"), Sha(doc.boot))
      BY <1>1, <1>2, <1>3, <1>5, ConfigGiven, HashGiven
    <2>2. ComposeFiles[doc.boot].repo = policy.composeRepo BY <1>2, <1>4 DEF RunsPublished
    <2>3. QED BY <1>1, <1>2, <1>4, <1>5, <2>1, <2>2 DEF BootCompose
  <1>7. BaseImage(doc, q, events, policy)
    <2>1. PICK image \in ImageRecord(c.images, c.onchain.os) :
             /\ q.boot \in image.registers
             /\ ~image.dev /\ (image.pre => policy.allowPrerelease)
      BY DEF Published
    <2>2. QED BY <1>5, <2>1 DEF BaseImage
  <1>8. Recent(c.onchain.at, e, policy) /\ Recent(c.releases.at, e, policy)
        /\ Recent(c.publication.at, e, policy)
    BY DEF Published, Recent
  <1>9. Onchain(doc, events, policy, e)
    <2>1. /\ c.onchain.kms = policy.kms /\ c.onchain.allowed
          /\ c.onchain.compose = Sha(td.compose)
      BY DEF Published
    <2>2. QED BY <1>2, <1>5, <1>8, <2>1 DEF Onchain
  <1>10. doc.actions = td.log BY DEF Published
  <1>11. ManagerLog(doc, q, e.nonce)
    <2> DEFINE data == <<Sha(td.log), Nonce>>
    <2>1. /\ doc.second = [q EXCEPT !.data = data] /\ doc.actionsHash = Sha(td.log)
      BY DEF Published
    <2>2. LET s == [q EXCEPT !.data = data]
          IN  /\ s.parses /\ ~s.debug /\ s.data = data
              /\ s.boot = q.boot /\ s.cfg = q.cfg /\ s.rtmr3 = q.rtmr3
      BY Answering
    <2>3. QED BY <1>10, <2>1, <2>2 DEF ManagerLog
  <1>12. ManagersReleased(doc, ActionLogs[doc.actions], policy, e)
    <2> DEFINE started == {a.image : a \in {b \in log : b.action = "compose_manager_started"}}
    <2>1. started \cup ComposeFiles[td.compose].managers \subseteq c.releases.images
      BY <1>4 DEF RunsPublished
    <2>2. started # {} /\ c.releases.repo = policy.managerRepo
      BY DEF Published
    <2>3. QED BY <1>2, <1>8, <1>10, <2>1, <2>2 DEF ManagersReleased
  <1>13. FilesPublished(doc, ActionLogs[doc.actions], policy, e)
    <2> DEFINE claims == {a \in log : a.sha # Absent}
    <2>1. \A a \in claims : <<a.commit, a.sha>> \in c.publication.files
      BY <1>4 DEF RunsPublished
    <2>2. /\ claims # {} /\ \A a \in claims : a.commit \in c.publication.commits
          /\ c.publication.repo = policy.composeRepo
          /\ \E a \in log : a.action = "compose_up"
      BY DEF Published
    <2>3. QED BY <1>8, <1>10, <2>1, <2>2 DEF FilesPublished
  <1>14. QED BY <1>6, <1>7, <1>9, <1>11, <1>12, <1>13 DEF VerifyNearReleaseAuthority

LEMMA NearAccepted ==
    ASSUME NEW provider \in {"near-ai", "other"}, NEW d, NEW e, Current(e, provider),
           NearTruth(provider, d.payload), Timely(d.at),
           NearAnswers(provider, e.upstream, d.payload)
    PROVE  VerifyNear(d, e).ok /\ VerifyNear(d, e).level = "provider-attested"
  <1> DEFINE doc == d.payload
             q == doc.quote
             td == q.by
             model == doc.model = e.upstream
             cards == doc.gpu.present
             tdx == q.tee = "tdx"
             released == ~q.debug
             nonce == q.data[2] = e.nonce
             own == doc.address # Absent /\ doc.tls # Absent
                    /\ q.data[1] = Sha(doc.address \o doc.tls)
             authority == \E policy \in e.pins.accepted :
                             VerifyNearReleaseAuthority(doc, q, policy, e)
             listed == \E entry \in MatchMeasurementAllowlist(q, e.pins.accepted) :
                          HexEqual(entry.compose, Sha(doc.compose))
             config == q.cfg = Config(Sha(doc.compose))
             hash == HexEqual(doc.composeHash, Sha(doc.compose))
             fresh == VerifyNearGpuEvidence(doc.gpu, e.nonce)
             sealed == /\ doc.algo = "ed25519" /\ Len(doc.key) = KeyWidth
                       /\ HexEqual(doc.address, doc.key)
             always == {Require("evidence_present", q.given), Require("quote_parsed", q.parses),
                        Require("model_binding", model),
                        Require("gpu_evidence_present", cards), FreshnessCheck(d, e)}
             quoted == {Require("expected_tee_type", tdx), Require("debug_disabled", released),
                        Require("nonce_binding", nonce), Require("tls_spki_binding", own)}
             composed == {Require("compose_binding", config),
                          Require("reported_compose_hash", hash)}
             pinned == IF e.pins.kind = "near-authority"
                       THEN {Require("release_authority", authority)}
                       ELSE {Require("measurement_allowlist", listed)}
             keyed == IF e.provider # "other" THEN {}
                      ELSE {Require("gpu_nonce_binding", fresh),
                            Require("encryption_key_binding", sealed)}
             checks == always \cup (quoted \cup composed \cup pinned) \cup keyed
  <1>1. e.provider = provider /\ e.nonce = Nonce /\ e.now = Now
        /\ e.pins = PinsFor(provider, e.upstream)
    BY DEF Current, Expected
  <1>2. /\ q.given /\ q.parses /\ tdx /\ released
        /\ q.cfg = Config(Sha(td.compose))
        /\ q.data[1] = Sha(td.key \o td.tls) /\ q.data[2] = Nonce
        /\ td.honest /\ {td.key, td.tls, td.compose} \subseteq Bytes
    BY Answering
  <1>3. /\ Absent \notin {td.key, td.tls, td.compose}
        /\ doc.address = td.key /\ doc.key = td.key /\ doc.tls = td.tls /\ doc.algo = "ed25519"
        /\ doc.compose = td.compose /\ doc.composeHash = Sha(td.compose)
        /\ model
        /\ doc.gpu = [present |-> TRUE, nonce |-> Nonce, entries |-> {Nonce}]
    BY DEF NearAnswers
  <1>4. cards /\ fresh
    <2> DEFINE gpu == doc.gpu
    <2>1. gpu = [present |-> TRUE, nonce |-> Nonce, entries |-> {Nonce}] BY <1>3
    <2> HIDE DEF gpu
    <2>2. gpu.present /\ gpu.nonce = Nonce /\ gpu.entries = {Nonce} BY <2>1
    <2>3. gpu.present /\ VerifyNearGpuEvidence(gpu, Nonce) BY <2>2 DEF VerifyNearGpuEvidence
    <2>4. QED BY <1>1, <2>3 DEF gpu
  <1>5. nonce /\ own /\ config BY <1>1, <1>2, <1>3
  <1>6. hash /\ HexEqual(Sha(td.compose), Sha(td.compose))
    BY <1>2, <1>3, BytesAre, HashGiven
  <1>7. ASSUME e.pins.kind = "near-authority" PROVE authority
    <2>1. PICK policy \in e.pins.accepted : Published(doc, policy)
      BY <1>1, <1>7 DEF NearAnswers
    <2>2. VerifyNearReleaseAuthority(doc, q, policy, e)
      BY <1>1, <2>1, AuthorityAccepted
    <2>3. QED BY <2>1, <2>2
  <1>8. ASSUME e.pins.kind # "near-authority" PROVE listed
    <2>1. PICK entry \in e.pins.accepted :
             /\ entry.boot = q.boot /\ entry.rtmr3 = q.rtmr3
             /\ entry.compose = Sha(td.compose)
      BY <1>1, <1>8 DEF NearAnswers
    <2>2. entry \in MatchMeasurementAllowlist(q, e.pins.accepted)
      BY <2>1 DEF MatchMeasurementAllowlist
    <2>3. QED BY <1>3, <1>6, <2>1, <2>2
  <1>9. ASSUME provider = "other" PROVE sealed
    BY <1>2, <1>3, <1>9 DEF NearTruth, HexEqual
  <1>10. Passes({FreshnessCheck(d, e)}) BY FreshPasses DEF Current
  <1>11. NearQuoteChecks(doc, q, e) = quoted \cup composed \cup pinned
    <2>1. doc.compose # Absent BY <1>3
    <2>2. q.cfg # Absent BY <1>2, BytesAre, ConfigGiven DEF HexEqual
    <2>3. ComposeBinding(doc, q) = composed BY <2>1, <2>2 DEF ComposeBinding
    <2> HIDE DEF composed
    <2>4. QED BY <2>3 DEF NearQuoteChecks
  <1>12. VerifyNear(d, e) = AssembleResult(checks, "provider-attested", doc.key, doc.tls, TRUE)
    <2> HIDE DEF quoted, composed, pinned
    <2>1. QED BY <1>2, <1>11 DEF VerifyNear
  <1> HIDE DEF model, cards, tdx, released, nonce, own, authority, listed, config, hash, fresh, sealed
  <1>13. Passes(always)
    <2>1. /\ Passes({Require("evidence_present", q.given)})
          /\ Passes({Require("quote_parsed", q.parses)})
          /\ Passes({Require("model_binding", model)})
          /\ Passes({Require("gpu_evidence_present", cards)})
      BY <1>2, <1>3, <1>4, MustPass
    <2>2. \A c \in always : Passes({c}) BY <1>10, <2>1
    <2>3. QED BY <2>2, PassEach
  <1>14. Passes(quoted)
    <2>1. /\ Passes({Require("expected_tee_type", tdx)})
          /\ Passes({Require("debug_disabled", released)})
          /\ Passes({Require("nonce_binding", nonce)})
          /\ Passes({Require("tls_spki_binding", own)})
      BY <1>2, <1>5, MustPass
    <2>2. \A c \in quoted : Passes({c}) BY <2>1
    <2>3. QED BY <2>2, PassEach
  <1>15. Passes(composed)
    <2>1. /\ Passes({Require("compose_binding", config)})
          /\ Passes({Require("reported_compose_hash", hash)})
      BY <1>5, <1>6, MustPass
    <2>2. \A c \in composed : Passes({c}) BY <2>1
    <2>3. QED BY <2>2, PassEach
  <1>16. Passes(pinned)
    <2>1. CASE e.pins.kind = "near-authority" BY <1>7, <2>1, MustPass
    <2>2. CASE e.pins.kind # "near-authority" BY <1>8, <2>2, MustPass
    <2>3. QED BY <2>1, <2>2
  <1>17. Passes(keyed)
    <2>1. CASE e.provider # "other" BY <2>1 DEF Passes
    <2>2. CASE e.provider = "other"
      <3>1. /\ Passes({Require("gpu_nonce_binding", fresh)})
            /\ Passes({Require("encryption_key_binding", sealed)})
        BY <1>1, <1>4, <1>9, <2>2, MustPass
      <3>2. \A c \in keyed : Passes({c}) BY <2>2, <3>1
      <3>3. QED BY <3>2, PassEach
    <2>3. QED BY <2>1, <2>2
  <1> HIDE DEF always, quoted, composed, pinned, keyed
  <1>18. Passes(checks)
    <2>1. Passes(quoted \cup composed) BY <1>14, <1>15, PassesUnion
    <2>2. Passes(quoted \cup composed \cup pinned) BY <1>16, <2>1, PassesUnion
    <2>3. Passes(always \cup (quoted \cup composed \cup pinned))
      BY <1>13, <2>2, PassesUnion
    <2>4. QED BY <1>17, <2>3, PassesUnion
  <1> HIDE DEF checks
  <1>19. QED BY <1>12, <1>18 DEF AssembleResult, Passes

\* Whatever verifier the provider has, it accepts a right answer, at its level.
Level(provider) == IF provider = "tinfoil" THEN "sdk-verified" ELSE "provider-attested"

LEMMA AnswerAccepted ==
    ASSUME NEW provider, NEW upstream, NEW modality, NEW node, NEW d,
           EvidenceTruth(provider, d.payload), RightAnswer(provider, upstream, d),
           provider = "tinfoil" => modality = "tee"
    PROVE  LET v == VerifyRawEvidence(provider, d,
                      BuildExpectations(provider, upstream, modality, Nonce, Now, node))
           IN  v.ok /\ v.level = Level(provider)
  <1> DEFINE e == BuildExpectations(provider, upstream, modality, Nonce, Now, node)
             v == VerifyRawEvidence(provider, d, e)
  <1>1. /\ Current(e, provider) /\ e.upstream = upstream /\ e.modality = modality
        /\ e.endpoint = IF PinsFor(provider, upstream).endpoint = None THEN provider
                        ELSE PinsFor(provider, upstream).endpoint
    BY DEF BuildExpectations, Current, Expected
  <1> SUFFICES v.ok /\ v.level = Level(provider) OBVIOUS
  <1> HIDE DEF e
  <1>2. Timely(d.at) BY DEF RightAnswer
  <1>3. CASE provider \in {"near-ai", "other"}
    <2>1. NearTruth(provider, d.payload) BY <1>3 DEF EvidenceTruth
    <2>2. NearAnswers(provider, upstream, d.payload) BY <1>3 DEF RightAnswer
    <2>3. v = VerifyNear(d, e) BY <1>3 DEF VerifyRawEvidence
    <2>4. VerifyNear(d, e).ok /\ VerifyNear(d, e).level = "provider-attested"
      BY <1>1, <1>2, <1>3, <2>1, <2>2, NearAccepted
    <2>5. Level(provider) = "provider-attested" BY <1>3 DEF Level
    <2> HIDE DEF v
    <2>6. QED BY <2>3, <2>4, <2>5
  <1>4. CASE provider = "chutes"
    <2>1. ChutesTruth(d.payload) BY <1>4 DEF EvidenceTruth
    <2>2. ChutesAnswers(d.payload) BY <1>4 DEF RightAnswer
    <2>3. v = VerifyChutes(d, e) BY <1>4 DEF VerifyRawEvidence
    <2>4. VerifyChutes(d, e).ok /\ VerifyChutes(d, e).level = "provider-attested"
      BY <1>1, <1>2, <1>4, <2>1, <2>2, ChutesAccepted
    <2>5. Level(provider) = "provider-attested" BY <1>4 DEF Level
    <2> HIDE DEF v
    <2>6. QED BY <2>3, <2>4, <2>5
  <1>5. CASE provider = "venice"
    <2>1. VeniceTruth(d.payload) BY <1>5 DEF EvidenceTruth
    <2>2. VeniceAnswers(upstream, d.payload) BY <1>5 DEF RightAnswer
    <2>3. v = VerifyVenice(d, e) BY <1>5 DEF VerifyRawEvidence
    <2>4. VerifyVenice(d, e).ok /\ VerifyVenice(d, e).level = "provider-attested"
      BY <1>1, <1>2, <1>5, <2>1, <2>2, VeniceAccepted
    <2>5. Level(provider) = "provider-attested" BY <1>5 DEF Level
    <2> HIDE DEF v
    <2>6. QED BY <2>3, <2>4, <2>5
  <1>6. CASE provider = "tinfoil"
    <2>1. TinfoilAnswers(d.payload) BY <1>6 DEF RightAnswer
    <2>2. v = VerifyTinfoil(d, e) BY <1>6 DEF VerifyRawEvidence
    <2>3. PinsFor(provider, upstream) = PinsFor("tinfoil", "*") BY <1>6 DEF PinsFor
    <2>4. PinsFor("tinfoil", "*").endpoint = TinfoilEndpoint BY <2>1 DEF TinfoilAnswers
    <2>5. e.endpoint = PinsFor("tinfoil", "*").endpoint
      BY <1>1, <2>3, <2>4 DEF TinfoilEndpoint, None
    <2>6. VerifyTinfoil(d, e).ok /\ VerifyTinfoil(d, e).level = "sdk-verified"
      BY <1>1, <1>2, <1>6, <2>1, <2>5, TinfoilAccepted
    <2>7. Level(provider) = "sdk-verified" BY <1>6 DEF Level
    <2> HIDE DEF v
    <2>8. QED BY <2>2, <2>6, <2>7
  <1>7. CASE provider \notin {"near-ai", "other", "chutes", "venice", "tinfoil"}
    BY <1>7 DEF RightAnswer
  <1>8. QED BY <1>3, <1>4, <1>5, <1>6, <1>7

----------------------------------------------------------------------------
(* What is judged is sound                                                 *)

LEMMA FailedNotOk == \A reason, level : ~FailedResult(reason, level).ok
  <1> TAKE reason, level
  <1> DEFINE S == {Require("evidence_present", FALSE)}
  <1>1. ~Passes(S) BY DEF Passes, Require, Check
  <1>2. QED BY <1>1 DEF FailedResult, AssembleResult, Passes

LEMMA NoReplyNotOk == NoReply.code = None /\ ~NoReply.verdict.ok
  BY FailedNotOk DEF NoReply

\* attestRoute on an answer of the relay.
LEMMA AttestSound ==
    ASSUME ask' = ask, Attestable(ask), NEW doc \in Documents(ask), NEW echo,
           reply' = AttestRoute(ask, doc, echo)
    PROVE  ProviderSound'
  <1> DEFINE provider == ask.provider
             upstream == IF ask.upstream # None THEN ask.upstream
                         ELSE IF echo.upstream # None THEN echo.upstream ELSE ask.model
             modality == Modality(ask, echo)
             e == BuildExpectations(provider, upstream, modality, Nonce, Now, ask.node)
             v == VerifyRawEvidence(provider, doc, e)
  <1>1. /\ reply'.doc = doc /\ reply'.verdict = v /\ reply'.upstream = upstream
        /\ reply'.modality = modality
    BY DEF AttestRoute
  <1> HIDE DEF upstream, modality
  <1>2. Expected(e, provider) /\ e.upstream = upstream /\ e.modality = modality
        /\ e.pins = PinsFor(provider, upstream)
    BY DEF BuildExpectations, Expected
  <1>3. EvidenceTruth(provider, doc.payload)
    <2>1. ask \in {b \in Asks \cup CommandLines : Attestable(b)} BY DEF Attestable
    <2>2. QED BY <2>1, EvidenceAssumption DEF EvidenceAssumption
  <1> HIDE DEF e, v
  <1> SUFFICES ASSUME v.ok PROVE ProviderSound' BY <1>1 DEF ProviderSound
  <1>4. CASE provider \in {"near-ai", "other"}
    <2>1. NearTruth(provider, doc.payload) BY <1>3, <1>4 DEF EvidenceTruth
    <2>2. v = VerifyNear(doc, e) BY <1>4 DEF v, VerifyRawEvidence
    <2>3. LET q == doc.payload.quote
          IN  /\ q.by.honest /\ q.data[2] = Nonce
              /\ PinsFor(provider, upstream).kind # "near-authority" => Good(q, provider, upstream)
              /\ Len(v.spki) = Len(q.by.tls) => v.spki = q.by.tls
              /\ provider = "other" => v.key = q.by.key /\ v.spki = q.by.tls
      BY <1>2, <1>4, <2>1, <2>2, NearSound
    <2>4. QED BY <1>1, <1>4, <2>3 DEF ProviderSound
  <1>5. CASE provider = "chutes"
    <2>1. ChutesTruth(doc.payload) BY <1>3, <1>5 DEF EvidenceTruth
    <2>2. v = VerifyChutes(doc, e) BY <1>5 DEF v, VerifyRawEvidence
    <2>3. ASSUME NEW i \in DOMAIN doc.payload.instances
          PROVE  LET instance == doc.payload.instances[i]
                     q == instance.quote
                 IN  /\ Good(q, "chutes", "*") /\ q.data[1] = NonceKey(Nonce, q.by.key)
                     /\ v.key # Absent => v.key = q.by.key
                     /\ doc.payload.keys[instance.id] = q.by.key
      BY <1>2, <1>5, <2>1, <2>2, ChutesSound
    <2>4. QED BY <1>1, <1>5, <2>3 DEF ProviderSound
  <1>6. CASE provider = "venice"
    <2>1. VeniceTruth(doc.payload) BY <1>3, <1>6 DEF EvidenceTruth
    <2>2. v = VerifyVenice(doc, e) BY <1>6 DEF v, VerifyRawEvidence
    <2>3. LET q == doc.payload.quote
          IN  ~q.debug /\ q.data[2] = Nonce /\ (q.by.honest => v.key = q.by.key)
      BY <1>2, <1>6, <2>1, <2>2, VeniceSound
    <2>4. QED BY <1>1, <1>6, <2>3 DEF ProviderSound
  <1>7. CASE provider = "tinfoil"
    <2>1. TinfoilTruth(doc.payload) BY <1>3, <1>7 DEF EvidenceTruth
    <2>2. v = VerifyTinfoil(doc, e) BY <1>7 DEF v, VerifyRawEvidence
    <2>3. modality = "tee" /\ ~v.opaque /\ (doc.payload.real => v.spki = doc.payload.by.tls)
      BY <1>2, <1>7, <2>1, <2>2, TinfoilSound
    <2>4. QED BY <1>1, <1>7, <2>3 DEF ProviderSound
  <1>8. CASE provider \notin {"near-ai", "other", "chutes", "venice", "tinfoil"}
    <2>1. v = FailedResult("provider_not_verifiable", "unsupported")
      BY <1>8 DEF v, VerifyRawEvidence
    <2>2. QED BY <2>1, FailedNotOk
  <1>9. QED BY <1>4, <1>5, <1>6, <1>7, <1>8

\* A step that judges nothing.
LEMMA UnjudgedSound ==
    ASSUME reply' = NoReply \/ (\E code : code # None /\ reply' = Failed(code))
    PROVE  ProviderSound'
  BY NoReplyNotOk DEF ProviderSound, Failed, NoReply

LEMMA JudgeStep == RouteInv /\ JudgeInv /\ [RouteNext]_vars => JudgeInv'
  <1> SUFFICES ASSUME RouteInv, JudgeInv, [RouteNext]_vars PROVE JudgeInv'
    OBVIOUS
  <1> DEFINE early == {"idle", "observe", "key", "hop1", "hop2"}
             Taken(a) == a \in Asks \/ (a \in CommandLines /\ ~UsageError(a))
  <1>1. ASSUME reply' = reply, ask' = ask PROVE ProviderSound'
    BY <1>1 DEF JudgeInv, ProviderSound
  <1>2. ASSUME NEW a \in Asks, Ask(a) PROVE JudgeInv'
    <2>1. reply' = NoReply /\ ask' = a BY <1>2 DEF Ask, JudgeInv
    <2>2. QED BY <2>1, UnjudgedSound DEF JudgeInv
  <1>3. ASSUME NEW a \in CommandLines, RunCli(a) PROVE JudgeInv'
    <2>1. reply' = NoReply BY <1>3 DEF RunCli, JudgeInv
    <2>2. ask' = a /\ (phase' \in early => Taken(a)) BY <1>3 DEF RunCli, Exits
    <2>3. QED BY <2>1, <2>2, UnjudgedSound DEF JudgeInv
  <1>4. CASE ObserveTlsSpki \/ KeyCheck \/ Abort \/ VerifyGatewayHop \/ RunGatewayHop
    <2>1. reply' = reply /\ ask' = ask /\ phase \in {"observe", "key", "hop1", "hop2"}
      BY <1>4 DEF ObserveTlsSpki, KeyCheck, Abort, VerifyGatewayHop, RunGatewayHop
    <2>2. QED BY <1>1, <2>1 DEF JudgeInv, UsageError
  <1>5. CASE AttestationFails
    <2>1. phase' \notin early BY <1>5 DEF AttestationFails
    <2>2. \E code : code # None /\ reply' = Failed(code) BY <1>5 DEF AttestationFails, None
    <2>3. QED BY <2>1, <2>2, UnjudgedSound DEF JudgeInv
  <1>6. CASE Attested
    <2>1. phase' \notin early /\ ask' = ask /\ phase = "hop2" BY <1>6 DEF Attested
    <2>2. Attestable(ask)
      <3>1. Taken(ask) /\ ask.via \in {"verifyRoute", "verify", "route"}
        BY <2>1 DEF JudgeInv, RouteInv, StageInv
      <3>2. QED BY <3>1, EntriesAssumption DEF EntriesAssumption, Attestable
    <2>3. PICK doc \in Documents(ask), echo \in Echoes(ask) :
             reply' = AttestRoute(ask, doc, echo) \/ reply' = Failed("attestation_untrusted")
      BY <1>6 DEF Attested, VerifyAttestation
    <2>4. CASE reply' = AttestRoute(ask, doc, echo)
      <3>1. ProviderSound' BY <2>1, <2>2, <2>4, AttestSound
      <3>2. QED BY <2>1, <3>1 DEF JudgeInv
    <2>5. CASE reply' = Failed("attestation_untrusted")
      <3>1. ProviderSound' BY <2>5, UnjudgedSound DEF None
      <3>2. QED BY <2>1, <3>1 DEF JudgeInv
    <2>6. QED BY <2>3, <2>4, <2>5
  <1>7. CASE VerifyRoute \/ Verify \/ RunReport
    <2>1. reply' = reply /\ ask' = ask /\ phase' = "done"
      BY <1>7 DEF VerifyRoute, Verify, RunReport, Exits
    <2>2. QED BY <1>1, <2>1 DEF JudgeInv
  <1>8. CASE UNCHANGED vars BY <1>1, <1>8 DEF JudgeInv, UsageError, vars
  <1>9. QED BY <1>2, <1>3, <1>4, <1>5, <1>6, <1>7, <1>8 DEF RouteNext

----------------------------------------------------------------------------
(* What the relay answered                                                 *)

\* A step before the relay is asked.
LEMMA Unasked ==
    ASSUME RelayInv, phase \in {"idle", "observe", "key", "hop1", "hop2"},
           sent' \subseteq sent \cup {"tls", "evidence"}
    PROVE  RelayInv'
  BY DEF RelayInv, Relayed

LEMMA AttestedRelay ==
    ASSUME RouteInv, JudgeInv, RelayInv, Attested PROVE RelayInv'
  <1>1. /\ phase = "hop2" /\ phase' \in {"rejected", "assemble"} /\ ask' = ask
    BY DEF Attested
  <1>2. Attestable(ask) /\ ask.via \in {"verifyRoute", "verify", "route"}
    <2>1. /\ ask \in Asks \/ (ask \in CommandLines /\ ~UsageError(ask))
          /\ ask.via \in {"verifyRoute", "verify", "route"}
      BY <1>1 DEF JudgeInv, RouteInv, StageInv
    <2>2. QED BY <2>1, EntriesAssumption DEF EntriesAssumption, Attestable
  <1>3. PICK doc \in Documents(ask), echo \in Echoes(ask) :
           reply' = AttestRoute(ask, doc, echo) \/ reply'.code # None
    <2>1. PICK doc \in Documents(ask), echo \in Echoes(ask) :
             reply' = IF ask.via = "verifyRoute" THEN AttestRoute(ask, doc, echo)
                      ELSE VerifyAttestation(ask, doc, echo)
      BY DEF Attested
    <2>2. QED BY <2>1, AttestedAnswer
  <1>4. CASE reply'.code # None BY <1>1, <1>4 DEF RelayInv, Relayed
  <1>5. CASE reply' = AttestRoute(ask, doc, echo)
    <2>1. reply'.doc = doc /\ reply'.echo = echo BY <1>5 DEF AttestRoute
    <2>2. QED BY <1>1, <1>2, <1>5, <2>1 DEF RelayInv, Relayed, Attestable
  <1>6. QED BY <1>3, <1>4, <1>5

LEMMA ReportedRelay ==
    ASSUME RelayInv, VerifyRoute \/ Verify \/ RunReport PROVE RelayInv'
  <1>1. /\ phase' = "done" /\ UNCHANGED <<ask, hop1, reply, sent>>
    BY DEF VerifyRoute, Verify, RunReport, Exits
  <1>2. RouteReport' = RouteReport /\ VerifyReport' = VerifyReport
        /\ CommandReport' = CommandReport
    BY <1>1 DEF RouteReport, VerifyReport, CommandReport, Hop2
  <1>3. \/ ask.via = "verifyRoute" /\ report' = RouteReport
        \/ ask.via = "verify" /\ report' = VerifyReport
        \/ ask.via \in {"gateway", "route", "doctor"} /\ report' = CommandReport
    BY DEF VerifyRoute, Verify, RunReport, Cli
  <1>4. QED BY <1>1, <1>2, <1>3 DEF RelayInv, Relayed, Attestable

LEMMA RelayStep == RouteInv /\ JudgeInv /\ RelayInv /\ [RouteNext]_vars => RelayInv'
  <1> SUFFICES ASSUME RouteInv, JudgeInv, RelayInv, [RouteNext]_vars PROVE RelayInv'
    OBVIOUS
  <1>1. ASSUME NEW a \in Asks, Ask(a) PROVE RelayInv' BY <1>1, Unasked DEF Ask
  <1>2. ASSUME NEW a \in CommandLines, RunCli(a) PROVE RelayInv' BY <1>2, Unasked DEF RunCli
  <1>3. CASE ObserveTlsSpki \/ KeyCheck \/ Abort \/ VerifyGatewayHop \/ RunGatewayHop
    <2>1. sent' \subseteq sent \cup {"tls", "evidence"} /\ phase \in {"observe", "key", "hop1", "hop2"}
      BY <1>3 DEF ObserveTlsSpki, KeyCheck, Abort, VerifyGatewayHop, RunGatewayHop
    <2>2. QED BY <2>1, Unasked
  <1>4. CASE AttestationFails
    <2>1. phase' \in {"rejected", "assemble"} BY <1>4 DEF AttestationFails
    <2>2. reply'.code # None BY <1>4 DEF AttestationFails, Failed, NoReply, None
    <2>3. QED BY <2>1, <2>2 DEF RelayInv, Relayed
  <1>5. CASE Attested BY <1>5, AttestedRelay
  <1>6. CASE VerifyRoute \/ Verify \/ RunReport BY <1>6, ReportedRelay
  <1>7. CASE UNCHANGED vars
    BY <1>7 DEF RelayInv, Relayed, Attestable, RouteReport, VerifyReport, CommandReport, Hop2, vars
  <1>8. QED BY <1>1, <1>2, <1>3, <1>4, <1>5, <1>6, <1>7 DEF RouteNext

\* Hops that are trusted where they were asked for come to a trusted route.
LEMMA WeakestTrusted ==
    ASSUME NEW g, NEW p, ~g.requested \/ IsTrusted(g.state), IsTrusted(p.state)
    PROVE  IsTrusted(Weakest(g, p))
  <1>1. IsTrusted("hardware_verified") BY Ranks
  <1>2. QED BY <1>1 DEF Weakest

LEMMA MatchedTrusted ==
    ASSUME NEW route, NEW g, NEW p, NEW echo, NEW attested, NEW expected,
           ~g.requested \/ IsTrusted(g.state), p.requested, IsTrusted(p.state),
           Mismatches(route, echo, attested, expected) = {}
    PROVE  AssembleRouteVerdict(route, g, p, echo, attested, expected).trusted
  <1> DEFINE r == AssembleRouteVerdict(route, g, p, echo, attested, expected)
  <1>1. r.wrong = {} /\ r.state = Weakest(g, p) BY DEF AssembleRouteVerdict
  <1>2. IsTrusted(r.state) BY <1>1, WeakestTrusted
  <1>3. QED BY <1>1, <1>2, TrustedReport

\* The modality of a class that is neither pinned nor echoed is the weaker one.
LEMMA PlainModality ==
    ASSUME Attestable(ask), NEW echo \in Echoes(ask), "e2ee" \notin {ask.class, echo.class}
    PROVE  Modality(ask, echo) = "tee"
  <1>1. ask.class \in Classes /\ echo.class \in Classes
    <2>1. ask \in {b \in Asks \cup CommandLines : Attestable(b)} BY DEF Attestable
    <2>2. QED BY <2>1, ClassesAssumption DEF ClassesAssumption
  <1>2. QED BY <1>1 DEF Classes, Modality, Unestablished, None

LEMMA RelayedHonest == RelayInv => HonestRoute
  <1> SUFFICES ASSUME RelayInv, phase = "done", ask.via # "gateway", Relayed,
                      RightAnswer(ask.provider, reply.upstream, reply.doc),
                      ask.provider = "tinfoil" => "e2ee" \notin {ask.class, reply.echo.class},
                      ask.via = "verifyRoute" =>
                        Mismatches([provider |-> ask.provider, model |-> ask.model,
                                    modality |-> reply.modality], reply.echo,
                                   reply.echo.upstream, ask.upstream) = {}
               PROVE  /\ report.provider.state = IF ask.provider = "tinfoil" THEN "policy_matched"
                                                 ELSE "cryptographically_checked"
                      /\ ~hop1.requested \/ IsTrusted(hop1.state) => report.trusted
    BY DEF HonestRoute
  <1>1. /\ reply = AttestRoute(ask, reply.doc, reply.echo)
        /\ Attestable(ask) /\ ask.via \in {"verifyRoute", "verify", "route"}
        /\ reply.doc \in Documents(ask) /\ reply.echo \in Echoes(ask)
        /\ report = CASE ask.via = "verifyRoute" -> RouteReport
                      [] ask.via = "verify" -> VerifyReport
                      [] ask.via = "route" -> CommandReport
    BY DEF RelayInv
  <1>2. /\ reply.code = None /\ reply.modality = Modality(ask, reply.echo)
        /\ ask.upstream # None => reply.upstream = ask.upstream
        /\ reply.verdict = VerifyRawEvidence(ask.provider, reply.doc,
                             BuildExpectations(ask.provider, reply.upstream, reply.modality,
                                               Nonce, Now, ask.node))
    <2> DEFINE doc == reply.doc
               echo == reply.echo
    <2>1. reply = AttestRoute(ask, doc, echo) BY <1>1
    <2> HIDE DEF doc, echo
    <2>2. /\ reply.code = None /\ reply.modality = Modality(ask, echo)
          /\ reply.upstream = IF ask.upstream # None THEN ask.upstream
                              ELSE IF echo.upstream # None THEN echo.upstream ELSE ask.model
          /\ reply.verdict = VerifyRawEvidence(ask.provider, doc,
                               BuildExpectations(ask.provider, reply.upstream, reply.modality,
                                                 Nonce, Now, ask.node))
      BY <2>1 DEF AttestRoute
    <2>3. QED BY <2>2 DEF doc, echo
  <1>3. EvidenceTruth(ask.provider, reply.doc.payload)
    <2>1. ask \in {b \in Asks \cup CommandLines : Attestable(b)} BY <1>1 DEF Attestable
    <2>2. QED BY <1>1, <2>1, EvidenceAssumption DEF EvidenceAssumption
  <1>4. ask.provider = "tinfoil" => reply.modality = "tee" BY <1>1, <1>2, PlainModality
  <1>5. reply.verdict.ok /\ reply.verdict.level = Level(ask.provider)
    BY <1>2, <1>3, <1>4, AnswerAccepted
  <1> DEFINE state == IF ask.provider = "tinfoil" THEN "policy_matched"
                      ELSE "cryptographically_checked"
  <1>6. Hop2.requested /\ Hop2.state = state /\ IsTrusted(Hop2.state)
    <2>1. StateForLevel(Level(ask.provider)) = state BY DEF StateForLevel, Level
    <2>2. Hop2 = ProviderHop(reply.verdict) BY <1>2 DEF Hop2
    <2>3. ProviderHop(reply.verdict).requested /\ ProviderHop(reply.verdict).state = state
      BY <1>5, <2>1 DEF ProviderHop, HopVerdict, Hop
    <2>4. IsTrusted(state) BY DEF IsTrusted, Rank
    <2> HIDE DEF state
    <2>5. QED BY <2>2, <2>3, <2>4
  <1> HIDE DEF state
  <1> SUFFICES report.provider = Hop2 /\ (~hop1.requested \/ IsTrusted(hop1.state) => report.trusted)
    BY <1>6 DEF state
  <1>7. CASE ask.via = "verifyRoute"
    <2> DEFINE route == [provider |-> ask.provider, model |-> ask.model,
                         modality |-> reply.modality, source |-> reply.source]
    <2>1. report = AssembleRouteVerdict(route, hop1, Hop2, reply.echo, reply.echo.upstream,
                                        ask.upstream)
      BY <1>1, <1>7 DEF RouteReport
    <2>2. Mismatches(route, reply.echo, reply.echo.upstream, ask.upstream) = {}
      BY <1>7 DEF Mismatches
    <2> HIDE DEF route
    <2>3. report.provider = Hop2 BY <2>1 DEF AssembleRouteVerdict
    <2>4. QED BY <1>6, <2>1, <2>2, <2>3, MatchedTrusted
  <1>8. CASE ask.via = "verify"
    <2>1. report = VerifyReport BY <1>1, <1>8
    <2>2. report.provider = Hop2
          /\ report.trusted = ((~hop1.requested \/ IsTrusted(hop1.state)) /\ reply.verdict.ok)
      BY <2>1 DEF VerifyReport, NoReport
    <2>3. QED BY <1>5, <2>2
  <1>9. CASE ask.via = "route"
    <2> DEFINE route == [provider |-> ask.provider, model |-> ask.model,
                         source |-> "unestablished", modality |-> reply.modality]
               echo == [NoEcho EXCEPT !.provider = ask.provider, !.class = reply.modality]
    <2>1. report = AssembleRouteVerdict(route, hop1, Hop2, echo, reply.upstream, ask.upstream)
      BY <1>1, <1>2, <1>9 DEF CommandReport
    <2>2. Mismatches(route, echo, reply.upstream, ask.upstream) = {}
      <3>1. /\ echo.provider = route.provider /\ echo.class = route.modality /\ echo.model = None
        BY DEF NoEcho
      <3> HIDE DEF echo, route
      <3>2. QED BY <1>2, <3>1 DEF Mismatches
    <2> HIDE DEF route, echo
    <2>3. report.provider = Hop2 BY <2>1 DEF AssembleRouteVerdict
    <2>4. QED BY <1>6, <2>1, <2>2, <2>3, MatchedTrusted
  <1>10. QED BY <1>1, <1>7, <1>8, <1>9

----------------------------------------------------------------------------
(* The theorems                                                            *)

\* The inductive invariant of a call of verifyRoute, of verify and of the command.
THEOREM RouteInductive == RouteSpec => []RouteInv
  BY RouteInitInv, RouteStep, PTL DEF RouteSpec

\* A trusted route has every hop that was asked for, none below the state it
\* reports, and an echo that contradicts neither the route nor a pin
\* (assembleRouteVerdict, verifyAttestation).
THEOREM AlwaysRouteBound == RouteSpec => []RouteBound
  <1>1. RouteInv => RouteBound BY DEF RouteInv
  <1>2. QED BY <1>1, RouteInductive, PTL

\* Exit 0 of the command says the required state was reached (runReport's gate).
THEOREM AlwaysExitMet == RouteSpec => []ExitMet
  <1>1. RouteInv => ExitMet BY DEF RouteInv
  <1>2. QED BY <1>1, RouteInductive, PTL

\* The command's keyless subcommands make no request with a credential, route makes
\* none before its gateway hop, and a refused command sent no more than a handshake
\* (runCli's order of checks).
THEOREM AlwaysCredentialFree == RouteSpec => []CredentialFree
  <1>1. RouteInv => CredentialFree BY DEF RouteInv
  <1>2. QED BY <1>1, RouteInductive, PTL

\* What is judged is sound, whatever the relay returns (attestRoute and the
\* verifiers of verify/*.ts).
THEOREM AlwaysProviderSound == RouteSpec => []ProviderSound
  <1>1. RouteInit => JudgeInv BY NoReplyNotOk DEF RouteInit, JudgeInv, ProviderSound
  <1>2. JudgeInv => ProviderSound BY DEF JudgeInv
  <1>3. QED BY <1>1, <1>2, RouteInitInv, RouteStep, JudgeStep, PTL DEF RouteSpec

\* A right answer on the right route is not refused: whatever verifier the provider
\* has accepts it, and the report is trusted unless hop 1 was asked for and failed
\* (attestRoute, the verifiers of verify/*.ts, assembleRouteVerdict and the gate of
\* the command).
THEOREM AlwaysHonestRoute == RouteSpec => []HonestRoute
  <1>1. RouteInit => JudgeInv BY NoReplyNotOk DEF RouteInit, JudgeInv, ProviderSound
  <1>2. RouteInit => RelayInv BY DEF RouteInit, RelayInv, Relayed
  <1>3. QED
    BY <1>1, <1>2, RouteInitInv, RouteStep, JudgeStep, RelayStep, RelayedHonest, PTL DEF RouteSpec
=============================================================================
