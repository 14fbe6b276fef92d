---------------------------- MODULE MCRouteVerdict ----------------------------
(* A published NEAR workload, two Chutes instances, a Venice key and the       *)
(* Tinfoil enclave, beside TDs that run something else.  A TD that is not      *)
(* honest puts what it likes in report_data; whoever relays a document may     *)
(* combine it with another quote and change any one field.                     *)
EXTENDS RouteVerdict, TLC

Fresh == Nonce
Stale == <<"stale">>

\* Values[f] for one field f of a document.
Alter(docs, Values) ==
    docs \cup UNION {UNION {{[d EXCEPT ![f] = v] : v \in Values[f]} : f \in DOMAIN Values} : d \in docs}

Envelope(payload, at) == [payload |-> payload, at |-> at]
Stamped(docs) == {Envelope(d, 0) : d \in docs}

----------------------------------------------------------------------------
(* NEAR                                                                    *)

Boot(image) == [mrtd |-> <<image>>, rtmr |-> <<<<image, "boot">>>>]
Event(imr, name, payload, preimage, digest) ==
    [imr |-> imr, name |-> name, payload |-> payload, preimage |-> preimage, digest |-> digest]
V1(name, payload) == Event(3, name, payload, Absent, Committed(name, payload))
V2(name, payload) == Event(3, name, payload, <<name>> \o payload,
                           CommittedV2(<<name>> \o payload))
\* dstack measures the instance, so that no two TDs replay to one RTMR3.
EventsOf(image, compose, inst) ==
    <<Event(0, "boot", Absent, Absent, <<image, "boot">>), V1("compose-hash", Sha(compose)),
      V2("os-image-hash", <<image>>), V1("app-id", <<"app">>),
      V1("instance-id", <<inst>>)>>

Compose1 == <<"compose1">>
ComposeX == <<"composeX">>
MCComposeFiles ==
    (Compose1 :> [repo |-> "near/files", managers |-> {"mgr"}]
     @@ ComposeX :> [repo |-> "fork/files", managers |-> {"mgr"}])

Action(action, image, commit, sha) ==
    [action |-> action, image |-> image, commit |-> commit, sha |-> sha]
Started == Action("compose_manager_started", "mgr", None, Absent)
Up(sha) == Action("compose_up", None, "c1", sha)
MCActionLogs ==
    (<<"log1">> :> {Started, Up(<<"file1">>)} @@ <<"logX">> :> {Started, Up(<<"fileX">>)}
     @@ <<"logM">> :> {[Started EXCEPT !.image = "fork"], Up(<<"file1">>)})

NearTd(name, honest, inst, image, compose, log, debug) ==
    [name |-> name, honest |-> honest, serves |-> {<<"near-ai", "u1">>, <<"other", "u1">>},
     inst |-> inst,
     tls |-> <<name, "tls">>, key |-> <<name, "key">>, image |-> image, compose |-> compose,
     log |-> log, debug |-> debug]
N1 == NearTd("n1", TRUE, "n1", "os1", Compose1, <<"log1">>, FALSE)
NX == NearTd("nx", FALSE, "nx", "os1", Compose1, <<"logX">>, FALSE)   \* ran an unpublished file
NU == NearTd("nu", FALSE, "n1", "os1", ComposeX, <<"log1">>, FALSE)   \* another compose
NB == NearTd("nb", FALSE, "n1", "osX", Compose1, <<"log1">>, FALSE)   \* another base image
ND == NearTd("nd", FALSE, "n1", "os1", Compose1, <<"log1">>, TRUE)

NearData(td, nonce) == <<Sha(td.key \o td.tls), nonce>>
NearQuote(td, data) ==
    TdxQuote(td, td.debug, Boot(td.image), Replay(EventsOf(td.image, td.compose, td.inst), 3),
             Config(Sha(td.compose)), data)
\* An unpublished file still runs below an honest compose-manager.
Second(td, log, nonce) == NearQuote(td, <<Sha(log), nonce>>)

ImageOf(os, dev) == [os |-> <<os>>, dev |-> dev, pre |-> FALSE, registers |-> {Boot(os)}]
Collateral ==
    [images |-> <<ImageOf("os1", FALSE), ImageOf("osX", TRUE)>>,
     onchain |-> [kms |-> "kms", at |-> 4, app |-> <<"app">>, compose |-> Sha(Compose1),
                  os |-> <<"os1">>, allowed |-> TRUE],
     releases |-> [repo |-> "near/manager", at |-> 4, images |-> {"mgr"}],
     publication |-> [repo |-> "near/files", at |-> 4, commits |-> {"c1"},
                      files |-> {<<"c1", <<"file1">>>>}]]

NearDoc(td, quote, nonce) ==
    [quote |-> quote, address |-> td.key, tls |-> td.tls, key |-> td.key, algo |-> "ed25519",
     model |-> "u1", compose |-> td.compose, composeHash |-> Sha(td.compose),
     gpu |-> [present |-> TRUE, nonce |-> nonce, entries |-> {nonce}], boot |-> td.compose,
     events |-> EventsOf(td.image, td.compose, td.inst), second |-> Second(td, td.log, nonce),
     actions |-> td.log, actionsHash |-> Sha(td.log), collateral |-> Collateral]

NearQuotes ==
    {NearQuote(N1, NearData(N1, n)) : n \in {Fresh, Stale}}
    \cup {NearQuote(td, NearData(as, Fresh)) : td \in {NX, NU, NB, ND}, as \in {N1, NX}}
    \cup {NoQuote, Unparsed}

NearValues ==
    [address |-> {Absent, NX.key, <<"n1">>},
     tls |-> {Absent, NX.tls, <<"key", "n1", "tls">>}, key |-> {Absent, NX.key},
     algo |-> {"ecdsa"}, model |-> {"u2"}, compose |-> {Absent, Compose1, ComposeX},
     composeHash |-> {Absent, Sha(Compose1)},
     gpu |-> {[present |-> FALSE, nonce |-> Absent, entries |-> {}],
              [present |-> TRUE, nonce |-> Fresh, entries |-> {Fresh, Stale}]},
     boot |-> {Absent, Compose1},
     events |-> {EventsOf("os1", Compose1, "n1"), Append(EventsOf("os1", ComposeX, "n1"), V1("compose-hash", Sha(Compose1))),
                 <<Event(0, "boot", Absent, Absent, <<"os1", "boot">>),
                   Event(3, "compose-hash", Sha(Compose1), Absent, Committed("compose-hash", Sha(ComposeX))),
                   V2("os-image-hash", <<"os1">>), V1("app-id", <<"app">>), V1("instance-id", <<"n1">>)>>},
     second |-> {Second(N1, <<"log1">>, n) : n \in {Fresh, Stale}}
                \cup {Second(ND, <<"log1">>, Fresh), Unparsed},
     actions |-> {<<"log1">>, <<"logM">>}, actionsHash |-> {Sha(<<"log1">>)},
     collateral |-> {[Collateral EXCEPT !.onchain.at = 1], [Collateral EXCEPT !.onchain.allowed = FALSE],
                     [Collateral EXCEPT !.onchain.compose = Sha(ComposeX)],
                     [Collateral EXCEPT !.releases.at = 1], [Collateral EXCEPT !.releases.images = {}],
                     [Collateral EXCEPT !.publication.files = {}], [Collateral EXCEPT !.images = <<>>],
                     \* two records of one hash: the first one counts
                     [Collateral EXCEPT !.images = <<ImageOf("os1", TRUE), ImageOf("os1", FALSE)>>],
                     [Collateral EXCEPT !.images = <<ImageOf("os1", FALSE), ImageOf("os1", TRUE)>>]}]

NearHonest == NearDoc(N1, NearQuote(N1, NearData(N1, Fresh)), Fresh)
\* The same bytes under the hash, cut elsewhere.
NearShifted == [NearHonest EXCEPT !.address = <<"n1">>, !.key = <<"n1">>,
                                  !.tls = <<"key", "n1", "tls">>]
NearDocs == Stamped(Alter({NearDoc(td, q, Fresh) : td \in {N1, NX, NU, NB, ND}, q \in NearQuotes}, NearValues)
                    \cup Alter(Alter({NearHonest}, NearValues), NearValues) \cup {NearShifted})
            \cup {Envelope(NearHonest, at) : at \in {0, 1, 4, 6, 9}}

----------------------------------------------------------------------------
(* Chutes                                                                  *)

ChutesTd(name, honest, image, debug) ==
    [name |-> name, honest |-> honest, serves |-> {<<"chutes", "*">>}, key |-> <<name, "key">>,
     cert |-> <<name, "cert">>, image |-> image, debug |-> debug]
C1 == ChutesTd("c1", TRUE, "chutes", FALSE)
C2 == ChutesTd("c2", TRUE, "chutes", FALSE)
CX == ChutesTd("cx", FALSE, "other", FALSE)
CD == ChutesTd("cd", FALSE, "chutes", TRUE)

ChutesQuote(td, key, cert, nonce) ==
    TdxQuote(td, td.debug, Boot(td.image), <<>>, Absent, <<NonceKey(nonce, key), Sha(cert)>>)
Instance(id, q, cert, nonce) ==
    LET body == [nonce |-> nonce, quote |-> q, gpu |-> {"gpu"}]
    IN  [id |-> id, quote |-> q, cert |-> [key |-> cert, fresh |-> TRUE],
         signature |-> <<cert, body>>, body |-> body, gpu |-> {"gpu"}]
Honest(td, nonce) == Instance(td.name, ChutesQuote(td, td.key, td.cert, nonce), td.cert, nonce)

InstanceValues ==
    [id |-> {None, "c2"}, quote |-> {Unparsed, ChutesQuote(C2, C2.key, C2.cert, Fresh)},
     cert |-> {[key |-> Absent, fresh |-> FALSE], [key |-> C1.cert, fresh |-> FALSE],
               [key |-> CX.cert, fresh |-> TRUE]},
     body |-> {[nonce |-> Stale, quote |-> ChutesQuote(C1, C1.key, C1.cert, Fresh), gpu |-> {"gpu"}]},
     gpu |-> {{}, {"other"}}]
Instances == Alter({Honest(C1, Fresh)}, InstanceValues)
             \cup {Honest(C1, Stale), Honest(C2, Fresh)}
             \cup {Instance("c1", ChutesQuote(td, k, CX.cert, Fresh), CX.cert, Fresh) :
                     td \in {CX, CD}, k \in {C1.key, CX.key}}

ChutesKeys == {("c1" :> C1.key), ("c1" :> C1.key @@ "c2" :> C2.key), ("c1" :> CX.key),
               ("c1" :> C1.key @@ "c2" :> CX.key)}
ChutesDoc(instances, keys, failed) == [instances |-> instances, keys |-> keys, failed |-> failed]
ChutesDocs ==
    Stamped({ChutesDoc(s, k, FALSE) : k \in ChutesKeys,
               s \in {<<>>} \cup {<<i>> : i \in Instances} \cup {<<Honest(C2, Fresh), i>> : i \in Instances}})
    \cup {Envelope(ChutesDoc(<<Honest(C1, Fresh)>>, "c1" :> C1.key, failed), IF failed THEN 5 ELSE 4) :
            failed \in BOOLEAN}

----------------------------------------------------------------------------
(* Venice and Tinfoil                                                      *)

VeniceTd(name, honest, debug) ==
    [name |-> name, honest |-> honest, serves |-> {<<"venice", "u1">>}, key |-> <<name, "key">>, debug |-> debug]
E1 == VeniceTd("v1", TRUE, FALSE)
EX == VeniceTd("vx", FALSE, FALSE)
ED == VeniceTd("vd", FALSE, TRUE)
VeniceData(td, nonce) == <<Address(td.key), nonce>>
VeniceQuote(td, data) == TdxQuote(td, td.debug, Boot("venice"), <<>>, Absent, data)
VeniceDoc(td, q, nonce) ==
    [quote |-> q, nonce |-> nonce, model |-> "u1", address |-> Address(td.key), key |-> td.key,
     algo |-> "ecdsa", reported |-> q.data, nested |-> q.data, keyset |-> {td.key}, gpu |-> {"gpu"}]
VeniceQuotes == {VeniceQuote(E1, VeniceData(E1, n)) : n \in {Fresh, Stale}}
                \cup {VeniceQuote(td, VeniceData(E1, Fresh)) : td \in {EX, ED}}
                \cup {NoQuote, Unparsed}
VeniceValues ==
    [nonce |-> {Absent, Stale}, model |-> {"u2"}, address |-> {Absent, Address(EX.key)},
     key |-> {Absent, EX.key}, algo |-> {"ed25519"}, reported |-> {VeniceData(E1, Stale)},
     nested |-> {VeniceData(E1, Stale)}, keyset |-> {{}, {EX.key}}, gpu |-> {{}}]
VeniceHonest == VeniceDoc(E1, VeniceQuote(E1, VeniceData(E1, Fresh)), Fresh)
VeniceDocs == Stamped(Alter({VeniceDoc(td, q, Fresh) : td \in {E1, EX}, q \in VeniceQuotes}, VeniceValues))
              \cup {Envelope(VeniceHonest, 4)}

Enclave == [tls |-> <<"t1", "tls">>]
Binding(endpoint, key) == [mode |-> "tls-pinned", verified |-> TRUE, endpoint |-> endpoint, observed |-> key]
TinfoilHonest ==
    [present |-> TRUE, secure |-> TRUE, official |-> TRUE, router |-> TinfoilEndpoint,
     enclave |-> TinfoilEndpoint, succeeded |-> SdkSteps, repo |-> "tinfoil/router",
     release |-> <<"r1">>, code |-> <<"code">>, live |-> <<"code">>, tls |-> Enclave.tls,
     hpke |-> <<"hpke">>, binding |-> Binding(TinfoilEndpoint, Enclave.tls), by |-> Enclave, real |-> TRUE]
TinfoilValues ==
    [present |-> {FALSE}, secure |-> {FALSE}, official |-> {FALSE}, router |-> {"elsewhere"},
     enclave |-> {"elsewhere"}, succeeded |-> {SdkSteps \ {"verifyCertificate"}}, repo |-> {"fork/router"},
     release |-> {Absent}, live |-> {Absent, <<"other">>}, hpke |-> {Absent},
     binding |-> {Binding("elsewhere", Enclave.tls), Binding(TinfoilEndpoint, <<"mitm">>),
                  [Binding(TinfoilEndpoint, Enclave.tls) EXCEPT !.verified = FALSE],
                  [Binding(TinfoilEndpoint, Absent) EXCEPT !.mode = None]}]
TinfoilDocs == Stamped(Alter(Alter({TinfoilHonest}, TinfoilValues), TinfoilValues))
               \cup {Envelope(TinfoilHonest, 4)}

----------------------------------------------------------------------------
(* Routes                                                                  *)

NearPolicy == [composeRepo |-> "near/files", managerRepo |-> "near/manager", kms |-> "kms",
               maxAge |-> 2, allowPrerelease |-> FALSE]
Pins(kind, accepted, endpoint) == [kind |-> kind, accepted |-> accepted, endpoint |-> endpoint]
Entry(q, compose) == [boot |-> q.boot, rtmr3 |-> q.rtmr3, compose |-> Sha(compose)]
MCMeasurements ==
    (<<"other", "u1">> :> Pins("near-authority", {NearPolicy}, "u1.near")
     @@ <<"near-ai", "u1">> :> Pins("list", {Entry(NearQuote(N1, <<Absent, Absent>>), Compose1)}, "u1.near")
     @@ <<"chutes", "*">> :> Pins("list", {Entry(Honest(C1, Fresh).quote, Compose1)}, None)
     @@ <<"tinfoil", "*">> :> Pins("sigstore", {"tinfoil/router"}, TinfoilEndpoint))

MCProviders == {"near-ai", "other", "chutes", "venice", "tinfoil", "unlisted"}

AllDocuments(provider) ==
    CASE provider = "near-ai" -> NearDocs [] provider = "other" -> NearDocs
      [] provider = "chutes" -> ChutesDocs [] provider = "venice" -> VeniceDocs
      [] provider = "tinfoil" -> TinfoilDocs
      [] OTHER -> {Envelope("unread", 4)}
HonestDocuments == [p \in MCProviders |-> {d \in AllDocuments(p) : d.at = 4}]

\* Every document is judged once, on the plain call of its provider; every other
\* call meets the honest one and one whose evidence is too old.
MCDocuments(a) ==
    IF a.deep THEN AllDocuments(a.provider)
    ELSE LET honest == HonestDocuments[a.provider]
         IN  honest \cup {[d EXCEPT !.at = 1] : d \in honest}

Right == [provider |-> None, model |-> "m1", upstream |-> "u1", class |-> None]
MCEchoes(a) ==
    LET right == [Right EXCEPT !.provider = a.provider]
    IN  IF a.deep THEN {[right EXCEPT !.class = c] : c \in {"tee", "e2ee"}}
        ELSE {NoEcho} \cup {[right EXCEPT !.class = c] : c \in {"tee", "e2ee"}}
             \cup {[right EXCEPT !.upstream = "u2"], [right EXCEPT !.model = "m2"],
                   [right EXCEPT !.provider = "elsewhere"], [right EXCEPT !.model = None, !.class = "tee"]}

Call(via, provider, upstream, class, gateway, dcap, node, deep) ==
    [via |-> via, provider |-> provider, model |-> "m1", upstream |-> upstream, class |-> class,
     gateway |-> gateway, dcap |-> dcap, node |-> node, deep |-> deep]
MCAsks ==
    {Call("verifyRoute", p, None, None, "no", FALSE, n, TRUE) : p \in MCProviders, n \in BOOLEAN}
    \cup {Call("verifyRoute", p, u, c, g, TRUE, TRUE, FALSE) :
            p \in MCProviders, u \in {None, "u1"}, c \in {None, "tee", "e2ee"}, g \in {"yes", "bound"}}
    \cup {Call("verify", p, u, None, g, FALSE, TRUE, FALSE) :
            p \in MCProviders, u \in {None, "u1"}, g \in {"no", "yes"}}

Line(via, provider, origin, require, dcap) ==
    Call(via, provider, None, None, "yes", dcap, TRUE, FALSE) @@
    [origin |-> origin, require |-> require, policy |-> None, collateral |-> None, noFetch |-> FALSE,
     tls |-> TRUE, timeoutOk |-> TRUE, keyOnArgv |-> FALSE, envKey |-> TRUE]
LineValues ==
    [origin |-> {None}, provider |-> {None}, model |-> {None}, upstream |-> {"u1"},
     policy |-> {"good", "bad"}, collateral |-> {"good", "bad"}, noFetch |-> {TRUE}, tls |-> {FALSE},
     timeoutOk |-> {FALSE}, keyOnArgv |-> {TRUE}, envKey |-> {FALSE}, require |-> {"untrusted"},
     via |-> {"unknown"}]
MCCommandLines ==
    Alter({Line(v, "chutes", o, r, d) : v \in {"gateway", "route", "doctor"}, o \in {"v3", "pinned"},
             r \in TrustedStates, d \in BOOLEAN}, LineValues)
    \cup {Line("route", p, "pinned", "policy_matched", TRUE) : p \in MCProviders}
=============================================================================
