------------------------ MODULE GatewayVerdict_proofs ------------------------
(* Proofs about GatewayVerdict, for any machines, policies, publications and *)
(* documents: what an accepting verdict says of the TD behind it.            *)
EXTENDS GatewayVerdict, FiniteSetTheorems, SequenceTheorems, TLAPS

----------------------------------------------------------------------------
(* Documents                                                               *)

\* Two sequences joined have the entries of both, the one's after the other's.
LEMMA Joined ==
    ASSUME NEW n \in Nat, NEW k \in Nat, NEW s, NEW t,
           s = [i \in 1..n |-> s[i]], t = [i \in 1..k |-> t[i]]
    PROVE  /\ DOMAIN (s \o t) = 1..(n + k)
           /\ \A i \in 1..n : (s \o t)[i] = s[i]
           /\ \A i \in 1..k : (s \o t)[n + i] = t[i]
  <1> DEFINE S == {s[i] : i \in 1..n} \cup {t[i] : i \in 1..k}
  <1>1. s \in [1..n -> S] /\ t \in [1..k -> S]
    <2>1. \A i \in 1..n : s[i] \in S OBVIOUS
    <2>2. \A i \in 1..k : t[i] \in S OBVIOUS
    <2> HIDE DEF S
    <2>3. QED BY <2>1, <2>2
  <1> HIDE DEF S
  <1>2. s \in Seq(S) /\ t \in Seq(S) /\ Len(s) = n /\ Len(t) = k
    BY <1>1, SeqDef, LenProperties
  <1>3. /\ s \o t \in Seq(S) /\ Len(s \o t) = n + k
        /\ \A i \in 1..(n + k) : (s \o t)[i] = IF i <= n THEN s[i] ELSE t[i - n]
    <2>1. /\ s \o t \in Seq(S) /\ Len(s \o t) = Len(s) + Len(t)
          /\ \A i \in 1..(Len(s) + Len(t)) :
                (s \o t)[i] = IF i <= Len(s) THEN s[i] ELSE t[i - Len(s)]
      BY <1>2, ConcatProperties, Zenon
    <2>2. QED BY <1>2, <2>1
  <1>4. DOMAIN (s \o t) = 1..(n + k) BY <1>3, LenProperties
  <1>5. ASSUME NEW i \in 1..n PROVE (s \o t)[i] = s[i]
    <2>1. i \in 1..(n + k) /\ i <= n OBVIOUS
    <2>2. QED BY <1>3, <2>1
  <1>6. ASSUME NEW i \in 1..k PROVE (s \o t)[n + i] = t[i]
    <2>1. n + i \in 1..(n + k) /\ ~(n + i <= n) /\ (n + i) - n = i OBVIOUS
    <2>2. QED BY <1>3, <2>1
  <1>7. QED BY <1>4, <1>5, <1>6

\* However a log is presented, it is a list.
LEMMA LogListed ==
    ASSUME NEW m \in Machines, NEW style, NEW compose
    PROVE  \E len \in Nat : DOMAIN ShownLog(m, style, compose) = 1..len
  <1> DEFINE s == [i \in DOMAIN m.rtmr |-> Entry(0, "", "", m.rtmr[i], <<>>)]
             t == [i \in DOMAIN m.events |->
                     LET x == m.events[i] IN
                     IF x.v2 THEN Entry(3, x.event, x.payload, Digest(x), <<x.event, x.payload>>)
                     ELSE Entry(3, x.event, x.payload, <<>>, <<>>)]
             n == Len(m.rtmr)
             k == Len(m.events)
             log == GenuineLog(m)
  <1>1. n \in Nat /\ k \in Nat /\ DOMAIN m.rtmr = 1..n /\ DOMAIN m.events = 1..k
    BY MachinesAssumption DEF MachinesAssumption
  <1>2. s = [i \in 1..n |-> s[i]] /\ t = [i \in 1..k |-> t[i]] BY <1>1
  <1>3. log = s \o t BY DEF GenuineLog
  <1>4. DOMAIN log = 1..(n + k) /\ n + k \in Nat
    <2> HIDE DEF s, t, n, k, log
    <2>1. QED BY <1>1, <1>2, <1>3, Joined
  <1>5. DOMAIN ShownLog(m, style, compose) = DOMAIN log
    <2> HIDE DEF log
    <2>1. DOMAIN [log EXCEPT ![1].event = "compose-hash", ![1].payload = compose] = DOMAIN log
      OBVIOUS
    <2>2. QED BY <2>1 DEF ShownLog, log
  <1>6. QED BY <1>4, <1>5

\* A binding has the fields of one, whatever they say.
Fields == {"nonce", "app", "inst", "compose", "release", "origin", "alg", "key",
           "transport", "spki", "strange"}

LEMMA BindingFields ==
    /\ \A m, n : DOMAIN Truth(m, n) = Fields
    /\ \A b : DOMAIN b = Fields =>
         /\ BindingHash(b) = NormalizeGatewayBinding(b)
         /\ BindingHash(b).nonce = b.nonce /\ BindingHash(b).app = b.app
         /\ BindingHash(b).compose = b.compose /\ BindingHash(b).spki = b.spki
         /\ BindingHash(b).transport = b.transport
  BY DEF Fields, Truth, Binding, BindingHash, NormalizeGatewayBinding

LEMMA AssertionsBound ==
    ASSUME NEW m, NEW n, NEW b \in Assertions(m, n)
    PROVE  DOMAIN b = Fields /\ (m.honest => b = Truth(m, n))
  <1>1. DOMAIN Truth(m, n) = Fields BY BindingFields
  <1>2. \A c, spki : DOMAIN Claim(m, n, c, spki) = Fields BY <1>1 DEF Claim
  <1>3. QED BY <1>1, <1>2 DEF Assertions

LEMMA DocumentShows ==
    ASSUME NEW m \in Machines, NEW n \in {Nonce, "earlier"}, NEW b \in Assertions(m, n),
           NEW style, NEW compose, NEW peer, now \in Nat
    PROVE  LET d == Document(m, b, style, compose, peer) IN Shows(d) /\ d.quote.at = now
  <1> DEFINE d == Document(m, b, style, compose, peer)
  <1>1. d.log = ShownLog(m, style, compose) /\ d.issued = {now} /\ d.binding = b
    BY DEF Document
  <1>2. d.quote = Quote(m, now, BindingHash(b)) BY DEF Document
  <1>3. /\ d.quote.by = m /\ d.quote.data = BindingHash(b) /\ d.quote.at = now
        /\ \A f \in Measurements : d.quote[f] = m[f]
    <2> HIDE DEF d
    <2>1. QED BY <1>2 DEF Quote, Measurements
  <1>4. DOMAIN b = DOMAIN Truth(m, Nonce) /\ (m.honest => b = Truth(m, n))
    BY AssertionsBound, BindingFields
  <1>5. \E len \in Nat : DOMAIN d.log = 1..len BY <1>1, LogListed
  <1> HIDE DEF d
  <1>6. QED BY <1>1, <1>3, <1>4, <1>5 DEF Shows, d

LEMMA AlteredShows ==
    ASSUME NEW m \in Machines, NEW b \in Assertions(m, Nonce), m.honest, now \in Nat,
           NEW e \in Altered(Document(m, b, "genuine", b.compose, m.spki))
    PROVE  Shows(e) /\ e.quote.at = now
  <1> DEFINE d == Document(m, b, "genuine", b.compose, m.spki)
  <1>1. Shows(d) /\ d.quote.at = now BY DocumentShows
  <1>2. /\ DOMAIN d = {"style", "quote", "binding", "log", "parses", "compose", "os", "issued",
                       "pzid", "observed"}
        /\ Measurements \cup {"by", "data", "at"} \subseteq DOMAIN d.quote
        /\ "parsed" \notin Measurements
    BY DEF Document, Quote, Measurements
  <1>3. e \in Altered(d) OBVIOUS
  <1> HIDE DEF d
  <1>4. /\ e.quote = d.quote \/ e.quote = [d.quote EXCEPT !.parsed = FALSE]
        /\ DOMAIN e.binding = DOMAIN d.binding
        /\ e.log = d.log
        /\ e.issued \in {d.issued, {}, {now + 1}}
    <2>1. CASE e \in {[d EXCEPT !.binding.strange = TRUE], [d EXCEPT !.quote.parsed = FALSE],
                      [d EXCEPT !.binding.transport = "gateway-tls"]}
      <3>1. CASE e = [d EXCEPT !.binding.strange = TRUE] BY <1>2, <3>1
      <3>2. CASE e = [d EXCEPT !.quote.parsed = FALSE] BY <1>2, <3>2
      <3>3. CASE e = [d EXCEPT !.binding.transport = "gateway-tls"] BY <1>2, <3>3
      <3>4. QED BY <2>1, <3>1, <3>2, <3>3
    <2>2. CASE e \in {[d EXCEPT !.parses = FALSE], [d EXCEPT !.issued = {}],
                      [d EXCEPT !.issued = {now + 1}], [d EXCEPT !.os = None],
                      [d EXCEPT !.observed = "unobserved"]}
      BY <1>2, <2>2
    <2>3. CASE \E c \in Claims : e = [d EXCEPT !.binding.release = c.release,
                                             !.binding.compose = c.compose]
      BY <1>2, <2>3
    <2>4. CASE \E x \in DOMAIN Site \cup {None, "garbage"} : e = [d EXCEPT !.pzid = x]
      BY <1>2, <2>4
    <2>5. QED BY <1>3, <2>1, <2>2, <2>3, <2>4 DEF Altered
  <1>5. /\ e.quote.by = d.quote.by /\ e.quote.data = d.quote.data /\ e.quote.at = d.quote.at
        /\ \A f \in Measurements : e.quote[f] = d.quote[f]
    BY <1>2, <1>4
  <1>6. e.issued \subseteq Nat
    <2>1. now + 1 \in Nat /\ d.issued \subseteq Nat BY <1>1 DEF Shows
    <2>2. QED BY <1>4, <2>1
  <1>7. QED BY <1>1, <1>4, <1>5, <1>6, BindingFields DEF Shows

LEMMA DocumentsShow ==
    ASSUME NEW m \in Machines, NEW d \in Documents(m), now \in Nat
    PROVE  Shows(d) /\ d.quote.at = now
  BY DocumentShows, AlteredShows DEF Documents, Nonce

----------------------------------------------------------------------------
(* The call                                                                *)

\* What the loader makes of a document, whatever it says, and a signed envelope
\* becomes: the assumption about policies is true of the code's own constructors.
LEMMA LoadedAsLoaded == \A raw : AsLoaded(LoadGatewayPolicy(raw))
  <1> TAKE raw
  <1>1. AsLoaded(NoPolicy)
    BY DEF AsLoaded, NoPolicy, Policy, NoV3, TupleForm, None
  <1>2. ASSUME NEW tuples, NEW apps, NEW composes, NEW releases,
               \/ /\ raw.kind = None
                  /\ tuples = {}
               \/ /\ apps = {t.app : t \in tuples}
                  /\ composes = {t.compose : t \in tuples}
                  /\ releases = {t.release : t \in tuples}
        PROVE  AsLoaded(LoadLegacy(raw, tuples, apps, composes, releases))
    <2> DEFINE origins == {CanonicalOrigin(o) : o \in raw.origins}
               q == Policy(raw.kind, tuples, NoV3, origins, apps, composes, releases,
                           raw.kp, raw.platform, raw.req, raw.tcbs, raw.age)
               l == LoadLegacy(raw, tuples, apps, composes, releases)
    <2>1. CASE l = NoPolicy BY <1>1, <2>1
    <2>2. CASE l = q /\ raw.age \in 1..MaxLoadAge /\ None \notin origins
      <3>1. raw.age \in Nat BY <2>2, NumbersAssumption DEF NumbersAssumption
      <3> HIDE DEF origins
      <3>2. AsLoaded(q)
        BY <1>2, <2>2, <3>1 DEF AsLoaded, Policy, NoV3, TupleForm, Derived
      <3>3. QED BY <2>2, <3>2
    <2>3. QED BY <2>1, <2>2 DEF LoadLegacy
  <1>3. CASE raw.kind # None BY <1>1, <1>2, <1>3 DEF LoadGatewayPolicy, LoadTuple
  <1>4. CASE raw.kind = None
    <2>2. AsLoaded(LoadLegacy(raw, {}, raw.apps, raw.composes, raw.releases)) BY <1>2, <1>4
    <2>3. QED BY <1>1, <1>4, <2>2 DEF LoadGatewayPolicy
  <1>5. QED BY <1>3, <1>4

LEMMA ReleaseAsLoaded ==
    ASSUME NEW v3, "present" \in DOMAIN v3, NEW origins, None \notin origins
    PROVE  AsLoaded(ReleasePolicy(v3, origins))
  <1>1. AsLoaded(NoPolicy)
    BY DEF AsLoaded, NoPolicy, Policy, NoV3, TupleForm, None
  <1>2. [v3 EXCEPT !.present = TRUE].present OBVIOUS
  <1>3. QED
    BY <1>1, <1>2, NumbersAssumption DEF NumbersAssumption, AsLoaded, ReleasePolicy, Policy

LEMMA SuppliedAsLoaded == \A p \in Supplied : AsLoaded(p)
  <1>1. \A c \in BOOLEAN : AsLoaded(Shipped(Registry, Origin, c))
    <2>1. AsLoaded(NoPolicy)
      BY DEF AsLoaded, NoPolicy, Policy, NoV3, TupleForm, None
    <2>2. QED BY <2>1, LoadedAsLoaded DEF Shipped
  <1>2. QED BY <1>1, PoliciesAssumption DEF PoliciesAssumption, Supplied

\* What a change leaves of a policy in tuple form.
LEMMA ChangesKeep ==
    ASSUME NEW p, AsLoaded(p), NEW q \in Changes(p)
    PROVE  q.kind = p.kind /\ q.tuples = p.tuples /\ q.v3 = p.v3
  <1>1. {"kind", "tuples", "v3", "req", "tcbs", "age", "apps", "composes", "releases"}
          \subseteq DOMAIN p
    BY DEF AsLoaded, Policy
  <1>2. QED BY <1>1 DEF Changes

LEMMA GatewayInit == VerdictInit => GatewayInv
  <1> SUFFICES ASSUME VerdictInit PROVE GatewayInv OBVIOUS
  <1>1. phase = "idle" /\ serving = 1 /\ now = 1 /\ call.from = None BY DEF VerdictInit
  <1>2. \A s \in DOMAIN Published : 1 \in DOMAIN Published[s]
    BY NumbersAssumption DEF NumbersAssumption
  <1>3. DOMAIN call = CallFields BY DEF VerdictInit, CallFields
  <1>4. QED BY <1>1, <1>2, <1>3 DEF GatewayInv, CallInv, PhaseInv

\* A verdict bears the time it was made.
LEMMA VerdictAt ==
    ASSUME NEW p, NEW d, NEW e, NEW n, NEW o, NEW r, NEW t
    PROVE  VerifyGatewayAttestation(p, d, e, n, o, r, t).at = t
  BY DEF VerifyGatewayAttestation, Verdict

\* A source's approval expires at a time, or never.
LEMMA ExpiresNat == CallInv /\ call.from # None => call.expires \in Nat
  BY NumbersAssumption DEF CallInv, NumbersAssumption

\* The policy of a call that resolves was supplied.
LEMMA ResolveKeeps ==
    ASSUME GatewayInv, NEW p, NEW from, NEW expires, NEW c, Resolve(p, from, expires, c),
           from # None, p \in Supplied,
           from \in DOMAIN Published => /\ serving \in DOMAIN Published[from]
                                       /\ p = Published[from][serving].policy
                                       /\ expires = Published[from][serving].expires,
           from \notin DOMAIN Published => expires = 0
    PROVE  GatewayInv'
  <1>1. CASE phase' = "refused" /\ UNCHANGED call
    BY <1>1 DEF Resolve, GatewayInv, CallInv, PhaseInv
  <1>2. CASE phase' = "resolved" /\ call' = Call(p, from, expires, c)
    <2>1. /\ call'.from = from /\ call'.was = p /\ call'.policy = p
          /\ call'.seen = serving /\ call'.expires = expires /\ call'.connection = c
          /\ DOMAIN call' = CallFields
      BY <1>2 DEF Call, CallFields
    <2>2. RequiresRetained(p) => c = "retained" BY <1>2 DEF Resolve, PlatformUsable
    <2>3. CallInv' BY <2>1, <2>2 DEF CallInv
    <2>4. PhaseInv' BY <1>2, <2>1 DEF Resolve, GatewayInv, PhaseInv
    <2>5. QED BY <2>3, <2>4 DEF GatewayInv
  <1>3. QED BY <1>1, <1>2 DEF Resolve

LEMMA GatewayStep == GatewayInv /\ [VerdictNext]_vars => GatewayInv'
  <1> SUFFICES ASSUME GatewayInv, [VerdictNext]_vars PROVE GatewayInv' OBVIOUS
  <1>0. /\ now \in Nat /\ serving \in Nat
        /\ \A s \in DOMAIN Published : serving \in DOMAIN Published[s]
        /\ DOMAIN Published \cap {None, "caller", "package"} = {}
    BY NumbersAssumption DEF GatewayInv, PhaseInv, NumbersAssumption
  <1>1. CASE ResolveCaller
    <2>1. PICK p \in Callers, c \in {"retained", "separate"} : Resolve(p, "caller", 0, c)
      BY <1>1 DEF ResolveCaller
    <2>2. QED BY <1>0, <2>1, ResolveKeeps DEF Supplied, None
  <1>2. CASE ResolveSource
    <2>1. PICK s \in DOMAIN Published, c \in {"retained", "separate"} :
            Resolve(Published[s][serving].policy, s, Published[s][serving].expires, c)
      BY <1>2 DEF ResolveSource
    <2>2. Published[s][serving].policy \in Supplied /\ s # None
      BY <1>0 DEF Supplied, Served
    <2>3. QED BY <1>0, <2>1, <2>2, ResolveKeeps
  <1>3. CASE ResolveShipped
    <2>1. PICK b \in BOOLEAN, c \in {"retained", "separate"} :
            Resolve(Shipped(Registry, Origin, b), "package", 0, c)
      BY <1>3 DEF ResolveShipped
    <2>2. Shipped(Registry, Origin, b) \in Supplied BY DEF Supplied
    <2>3. QED BY <1>0, <2>1, <2>2, ResolveKeeps DEF None
  <1>4. CASE Mutate
    <2>1. PICK p \in Changes(call.policy) : call' = [call EXCEPT !.policy = p]
      BY <1>4 DEF Mutate
    <2>2. call.from = "caller" /\ call.policy = call.was /\ TupleForm(call.was)
      BY <1>4 DEF Mutate
    <2>3. CallFields \subseteq DOMAIN call /\ CallFields = DOMAIN call
      BY DEF GatewayInv, PhaseInv
    <2>4. /\ call'.from = call.from /\ call'.was = call.was /\ call'.policy = p
          /\ call'.connection = call.connection /\ call'.seen = call.seen
          /\ call'.expires = call.expires /\ DOMAIN call' = CallFields
      BY <2>1, <2>3 DEF CallFields
    <2>5. call.was \in Supplied BY <1>0, <2>2 DEF GatewayInv, CallInv, None
    <2>6. RequiresRetained(p) <=> RequiresRetained(call.policy)
      BY <2>2, <2>5, ChangesKeep, SuppliedAsLoaded DEF RequiresRetained, KindOf
    <2>7. CallInv' BY <1>0, <2>2, <2>4, <2>5, <2>6 DEF GatewayInv, CallInv, None
    <2>8. PhaseInv' BY <1>4, <2>4 DEF Mutate, GatewayInv, PhaseInv
    <2>9. QED BY <2>7, <2>8 DEF GatewayInv
  <1>5. CASE FetchFails
    BY <1>5 DEF FetchFails, GatewayInv, CallInv, PhaseInv
  <1>6. CASE FetchGatewayEvidence
    <2>1. PICK m \in Machines : doc' \in Documents(m) BY <1>6 DEF FetchGatewayEvidence
    <2>2. Shows(doc') /\ doc'.quote.at = now BY <1>0, <2>1, DocumentsShow
    <2>3. QED BY <1>0, <1>6, <2>2 DEF FetchGatewayEvidence, GatewayInv, CallInv, PhaseInv
  <1>7. CASE PrepareChainVerifier
    BY <1>7 DEF PrepareChainVerifier, GatewayInv, CallInv, PhaseInv
  <1>8. CASE VerifyGatewayEvidence
    <2>1. CASE phase' = "refused" /\ UNCHANGED <<call, verdict>>
      BY <1>8, <2>1 DEF VerifyGatewayEvidence, GatewayInv, CallInv, PhaseInv
    <2>2. CASE ~Expired
      <3>1. /\ verdict' = Judge /\ call' = [call EXCEPT !.since = serving]
            /\ phase' \in {"refresh", "done"}
            /\ phase' = "refresh" => /\ call.from \in DOMAIN Published
                                     /\ call.connection = "separate"
        BY <1>8, <2>2 DEF VerifyGatewayEvidence
      <3>2. /\ call'.from = call.from /\ call'.was = call.was /\ call'.policy = call.policy
            /\ call'.seen = call.seen /\ call'.expires = call.expires
            /\ call'.connection = call.connection /\ DOMAIN call' = DOMAIN call
        BY <3>1 DEF GatewayInv, PhaseInv, CallFields
      <3>3. verdict'.at = now
        BY <3>1, VerdictAt DEF Judge
      <3>4. call.expires # 0 => now < call.expires
        <4>1. call.from # None BY <1>8 DEF GatewayInv, PhaseInv, VerifyGatewayEvidence
        <4>2. call.expires \in Nat BY <4>1, ExpiresNat DEF GatewayInv
        <4>3. QED BY <1>0, <2>2, <4>2 DEF Expired
      <3>5. CallInv' BY <3>2 DEF GatewayInv, CallInv
      <3>6. PhaseInv'
        BY <1>8, <3>1, <3>2, <3>3, <3>4 DEF VerifyGatewayEvidence, GatewayInv, PhaseInv, Judge
      <3>7. QED BY <3>5, <3>6 DEF GatewayInv
    <2>3. QED BY <1>8, <2>1, <2>2 DEF VerifyGatewayEvidence
  <1>9. CASE Refresh
    <2> DEFINE served == Published[call.from][serving]
    <2>1. CASE phase' = "refused" /\ verdict' = NoVerdict /\ UNCHANGED call
      BY <1>9, <2>1 DEF Refresh, GatewayInv, CallInv, PhaseInv
    <2>2. CASE phase' = "done"
      <3>1. /\ call' = [call EXCEPT !.policy = served.policy, !.was = served.policy,
                                 !.expires = served.expires, !.seen = serving]
            /\ verdict' = VerifyGatewayAttestation(served.policy, doc, engine, Nonce,
                                doc.observed, FALSE, now)
            /\ ~(served.expires # 0 /\ now >= served.expires)
            /\ RequiresRetained(served.policy) => call.connection = "retained"
            /\ UNCHANGED <<serving, doc, engine, now>>
        BY <1>9, <2>2 DEF Refresh, PlatformUsable
      <3>2. /\ call.from \in DOMAIN Published /\ call.connection = "separate" /\ Shows(doc)
            /\ call.from # None
        BY <1>9 DEF Refresh, GatewayInv, PhaseInv
      <3>3. served.expires \in Nat /\ served.policy \in Supplied
        BY <1>0, <3>2, NumbersAssumption DEF NumbersAssumption, Supplied, Served
      <3>4. /\ call'.from = call.from /\ call'.was = served.policy
            /\ call'.policy = served.policy
            /\ call'.seen = serving /\ call'.expires = served.expires
            /\ call'.connection = call.connection /\ DOMAIN call' = DOMAIN call
        BY <3>1 DEF GatewayInv, PhaseInv, CallFields
      <3>5. verdict' = VerifyGatewayAttestation(call'.policy, doc, engine, Nonce,
                          doc.observed, call'.connection = "retained", now)
        <4>1. (call'.connection = "retained") = FALSE BY <3>2, <3>4
        <4>2. QED BY <3>1, <3>4, <4>1, Zenon
      <3>6. verdict'.at = now
        <4> DEFINE r == (call'.connection = "retained")
        <4> HIDE DEF r
        <4>1. verdict' = VerifyGatewayAttestation(call'.policy, doc, engine, Nonce,
                          doc.observed, r, now)
          BY <3>5 DEF r
        <4>2. QED BY <4>1, VerdictAt
      <3>7. CallInv' BY <1>0, <3>1, <3>2, <3>3, <3>4 DEF CallInv
      <3>8. /\ verdict' = VerifyGatewayAttestation(call'.policy, doc', engine', Nonce,
                          doc'.observed, call'.connection = "retained", verdict'.at)
            /\ verdict'.at \in Nat /\ (call'.expires # 0 => verdict'.at < call'.expires)
            /\ verdict'.at = now
        <4>1. doc' = doc /\ engine' = engine BY <3>1
        <4>2. now < served.expires \/ served.expires = 0 BY <1>0, <3>1, <3>3
        <4> HIDE DEF served
        <4>3. verdict'.at \in Nat /\ (call'.expires # 0 => verdict'.at < call'.expires)
          BY <1>0, <3>4, <3>6, <4>2
        <4>4. QED BY <3>5, <3>6, <4>1, <4>3, Zenon
      <3>9. call'.since = serving /\ call'.seen = serving'
        BY <1>9, <3>1, <3>4 DEF Refresh, GatewayInv, PhaseInv, CallFields
      <3>10. PhaseInv'
        <4>1. doc.quote.at \in Nat /\ doc.quote.at <= now
          BY <1>9 DEF Refresh, GatewayInv, PhaseInv
        <4>2. DOMAIN call' = CallFields BY <3>4 DEF GatewayInv, PhaseInv
        <4> HIDE DEF served
        <4>3. QED BY <1>0, <2>2, <3>1, <3>2, <3>4, <3>8, <3>9, <4>1, <4>2 DEF PhaseInv
      <3>11. QED BY <3>7, <3>10 DEF GatewayInv
    <2>3. QED BY <1>9, <2>1, <2>2 DEF Refresh
  <1>10. CASE Tick
    BY <1>0, <1>10 DEF Tick, GatewayInv, CallInv, PhaseInv
  <1>11. CASE Publish
    <2>1. \A s \in DOMAIN Published : serving + 1 \in DOMAIN Published[s]
      BY <1>0, <1>11, NumbersAssumption DEF Publish, NumbersAssumption
    <2>2. QED BY <1>0, <1>11, <2>1 DEF Publish, GatewayInv, CallInv, PhaseInv
  <1>12. CASE UNCHANGED vars
    BY <1>12 DEF vars, GatewayInv, CallInv, PhaseInv
  <1>13. QED
    BY <1>1, <1>2, <1>3, <1>4, <1>5, <1>6, <1>7, <1>8, <1>9, <1>10, <1>11, <1>12 DEF VerdictNext

----------------------------------------------------------------------------
(* What the checks of an accepting verdict say                             *)

LEMMA AcceptingUnion ==
    \A S, T : Accepting(S \cup T) <=> Accepting(S) /\ Accepting(T)
  BY DEF Accepting

\* A check that must pass and did.
LEMMA Demanded ==
    ASSUME NEW S, Accepting(S), NEW name, NEW x, Require(name, x) \in S
    PROVE  x
  BY DEF Accepting, Require, Check

\* Every group of checks of an accepting verdict accepts.
LEMMA AcceptedGroups ==
    ASSUME NEW p, NEW d, NEW e, NEW n, NEW o, NEW r, NEW t,
           VerifyGatewayAttestation(p, d, e, n, o, r, t).ok
    PROVE  LET b == NormalizeGatewayBinding(d.binding)
               v == VerifyGatewayAttestation(p, d, e, n, o, r, t)
           IN  /\ WellFormed(d.binding) /\ d.quote.parsed
               /\ Accepting(FloorChecks(p)) /\ Accepting(QuoteChecks(d, b, n))
               /\ Accepting(MeasurementChecks(p, d, b)) /\ Accepting(IdentityChecks(p, b))
               /\ Accepting(ReleaseChecks(p, d, b, t))
               /\ Accepting(TransportChecks(p, b, o, r))
               /\ Accepting({RecentCheck(p, d, t)}) /\ Accepting(ChainChecks(p, d, e))
               /\ (\A c \in ChainChecks(p, d, e) : c.passed) => v.level = "hardware-verified"
               /\ p.v3.present => v.identity = MatchOf(p.v3, d).identity
               /\ v.instance = IF v.identity = "verified" THEN d.pzid ELSE None
  <1> DEFINE b == NormalizeGatewayBinding(d.binding)
             v == VerifyGatewayAttestation(p, d, e, n, o, r, t)
             read == {Require("quote_parsed", TRUE)}
                      \cup QuoteChecks(d, b, n) \cup MeasurementChecks(p, d, b)
                      \cup IdentityChecks(p, b) \cup ReleaseChecks(p, d, b, t)
                      \cup TransportChecks(p, b, o, r)
                      \cup {RecentCheck(p, d, t)} \cup ChainChecks(p, d, e)
             quoted == IF ~d.quote.parsed THEN {Require("quote_parsed", FALSE)} ELSE read
             bound == IF ~WellFormed(d.binding) THEN {Require("binding_wellformed", FALSE)}
                      ELSE {Require("binding_wellformed", TRUE)} \cup quoted
             checks == FloorChecks(p) \cup bound
             chain == \A c \in ChainChecks(p, d, e) : c.passed
             identity == IF p.v3.present THEN MatchOf(p.v3, d).identity ELSE "not-applicable"
  <1>1. v = IF Accepting(checks)
            THEN Verdict(TRUE, IF chain THEN "hardware-verified" ELSE "provider-attested",
                         checks, identity, IF identity = "verified" THEN d.pzid ELSE None, t)
            ELSE Verdict(FALSE, "unverified", checks, None, None, t)
    BY DEF VerifyGatewayAttestation
  <1>2. v.ok OBVIOUS
  <1> HIDE DEF checks, chain, identity, v, b
  <1>3. Accepting(checks) BY <1>1, <1>2 DEF Verdict
  <1>4. /\ chain => v.level = "hardware-verified"
        /\ v.identity = identity
        /\ v.instance = IF identity = "verified" THEN d.pzid ELSE None
    BY <1>1, <1>3 DEF Verdict
  <1> HIDE DEF bound, quoted, read
  <1>5. Accepting(FloorChecks(p)) /\ Accepting(bound)
    BY <1>3, AcceptingUnion DEF checks
  <1>6. WellFormed(d.binding)
    <2>1. ASSUME ~WellFormed(d.binding) PROVE FALSE
      <3>1. bound = {Require("binding_wellformed", FALSE)} BY <2>1 DEF bound
      <3>2. QED BY <1>5, <3>1 DEF Accepting, Require, Check
    <2>2. QED BY <2>1
  <1>7. Accepting(quoted)
    <2>1. bound = {Require("binding_wellformed", TRUE)} \cup quoted BY <1>6 DEF bound
    <2>2. QED BY <1>5, <2>1, AcceptingUnion
  <1>8. d.quote.parsed
    <2>1. ASSUME ~d.quote.parsed PROVE FALSE
      <3>1. quoted = {Require("quote_parsed", FALSE)} BY <2>1 DEF quoted
      <3>2. QED BY <1>7, <3>1 DEF Accepting, Require, Check
    <2>2. QED BY <2>1
  <1>9. Accepting(read) BY <1>7, <1>8 DEF quoted
  <1>10. /\ Accepting(QuoteChecks(d, b, n)) /\ Accepting(MeasurementChecks(p, d, b))
         /\ Accepting(IdentityChecks(p, b)) /\ Accepting(ReleaseChecks(p, d, b, t))
         /\ Accepting(TransportChecks(p, b, o, r)) /\ Accepting({RecentCheck(p, d, t)})
         /\ Accepting(ChainChecks(p, d, e))
    BY <1>9 DEF read, Accepting
  <1>11. /\ (\A c \in ChainChecks(p, d, e) : c.passed) => v.level = "hardware-verified"
         /\ p.v3.present => v.identity = MatchOf(p.v3, d).identity
         /\ v.instance = IF v.identity = "verified" THEN d.pzid ELSE None
    <2>1. (\A c \in ChainChecks(p, d, e) : c.passed) => v.level = "hardware-verified"
      BY <1>4, Zenon DEF chain
    <2>2. p.v3.present => v.identity = MatchOf(p.v3, d).identity
      BY <1>4, Zenon DEF identity
    <2>3. v.instance = IF v.identity = "verified" THEN d.pzid ELSE None BY <1>4
    <2>4. QED BY <2>1, <2>2, <2>3
  <1>12. QED BY <1>5, <1>6, <1>8, <1>10, <1>11 DEF b, v

\* Under a release policy v3 the identity reported is that of the match.
LEMMA AcceptedIdentity ==
    ASSUME NEW p, NEW d, NEW e, NEW n, NEW o, NEW r, NEW t, p.v3.present,
           VerifyGatewayAttestation(p, d, e, n, o, r, t).ok
    PROVE  VerifyGatewayAttestation(p, d, e, n, o, r, t).identity = MatchOf(p.v3, d).identity
  BY AcceptedGroups

LEMMA FloorPassed ==
    ASSUME NEW p, Accepting(FloorChecks(p)), TupleForm(p)
    PROVE  Floor(p)
  BY Demanded DEF FloorChecks, When

LEMMA QuotePassed ==
    ASSUME NEW d, NEW b, NEW n, Accepting(QuoteChecks(d, b, n))
    PROVE  ~d.quote.debug /\ d.quote.data = BindingHash(b) /\ b.nonce = n
  <1> DEFINE S == QuoteChecks(d, b, n)
  <1>1. /\ Require("quote_not_debug", ~d.quote.debug) \in S
        /\ Require("report_data_binds_binding", d.quote.data = BindingHash(b)) \in S
        /\ Require("nonce_matches_request", b.nonce = n) \in S
    BY DEF QuoteChecks
  <1>2. QED BY <1>1, Demanded

LEMMA ChainPassed ==
    ASSUME NEW p, NEW d, NEW e, Accepting(ChainChecks(p, d, e)), TupleForm(p)
    PROVE  /\ \A c \in ChainChecks(p, d, e) : c.passed
           /\ e = "works" /\ d.quote.genuine /\ d.quote.tcb \in p.tcbs
  BY DEF Accepting, ChainChecks, Check

LEMMA TransportPassed ==
    ASSUME NEW p, NEW b, NEW o, NEW r, Accepting(TransportChecks(p, b, o, r))
    PROVE  /\ RequiresRetained(p) \/ "inTeeTls" \in p.req => b.transport = "in-tee-tls"
           /\ RequiresRetained(p) => o = b.spki
  BY DEF Accepting, TransportChecks, Require, Check, HexEqual

LEMMA RecentPassed ==
    ASSUME NEW p, NEW d, NEW t, Accepting({RecentCheck(p, d, t)}), "expiry" \in p.req
    PROVE  \E i \in d.issued : i <= t + Skew /\ t - i <= p.age
  BY DEF Accepting, RecentCheck, Check

\* The tuple a quote was matched to, and what the identity reported with it says
\* of the VM.
LEMMA V3Passed ==
    ASSUME NEW v3, NEW d, Accepting(V3Checks(v3, d))
    PROVE  LET id == MatchOf(v3, d).identity
               q == d.quote
           IN  /\ \E t \in v3.tuples :
                    /\ t.mrtd = q.mrtd /\ t.rtmr = q.rtmr /\ t.rtmr3 = q.rtmr3
                    /\ t.cfg = q.cfg /\ t.attr = q.attr
                    /\ IF t.rule = {} THEN q.owner = Zero ELSE q.owner # Zero
                    /\ id = "verified" => d.pzid = q.owner /\ Site[q.owner] \in t.rule
               /\ id = "not-applicable" => q.owner = Zero
               /\ id # "verified" => d.pzid = None /\ ~v3.pzid
  <1> DEFINE q == d.quote
             vm == GceInstanceFromMrOwner(d.pzid, q.owner)
             match == MatchOf(v3, d)
             id == match.identity
             identity(t) ==
                CASE t.rule = {} -> IF t.owner = Zero /\ q.owner = Zero
                                    THEN "not-applicable" ELSE None
                  [] t.rule # {} ->
                        IF t.owner # Zero \/ q.owner = Zero THEN None
                        ELSE IF vm # None
                        THEN IF GcePzidRuleAdmits(t.rule, vm) THEN "verified" ELSE None
                        ELSE IF d.pzid = None THEN "unverified" ELSE None
             same == {t \in v3.tuples : /\ t.mrtd = q.mrtd /\ t.rtmr = q.rtmr
                                       /\ t.cfg = q.cfg /\ t.rtmr3 = q.rtmr3 /\ t.attr = q.attr}
  <1>1. /\ d.pzid # None => Require("gce_pzid_matches_mrowner", vm # None) \in V3Checks(v3, d)
        /\ Require("release_tuple_matched", id # None) \in V3Checks(v3, d)
        /\ id \in {"verified", "unverified"} =>
             Check("gce_instance_identity", id = "verified", v3.pzid \/ id = "verified")
               \in V3Checks(v3, d)
        /\ v3.pzid /\ id \in {None, "not-applicable"} =>
             Require("gce_instance_identity", FALSE) \in V3Checks(v3, d)
    BY DEF V3Checks, When
  <1>2. id # None BY <1>1, Demanded
  <1>3. d.pzid # None => vm # None BY <1>1, Demanded
  <1>4. id \in {"verified", "unverified"} /\ v3.pzid => id = "verified"
    BY <1>1 DEF Accepting, Check
  <1>5. id = "not-applicable" => ~v3.pzid
    BY <1>1 DEF Accepting, Require, Check
  <1>6. match \in Matches(v3, d)
    <2>1. Cardinality(Matches(v3, d)) = 1 BY <1>2 DEF MatchOf
    <2>2. Matches(v3, d) # {} BY <2>1, FS_EmptySet
    <2>3. QED BY <2>1, <2>2 DEF MatchOf
  <1>7. Matches(v3, d) = {[tuple |-> t, identity |-> identity(t)] :
                            t \in {t \in same : identity(t) # None}}
    BY DEF Matches
  <1> HIDE DEF identity, same, match
  <1>8. PICK t \in same : match = [tuple |-> t, identity |-> identity(t)] /\ identity(t) # None
    BY <1>6, <1>7
  <1>9. id = identity(t) BY <1>8
  <1> HIDE DEF id
  <1>10. CASE t.rule = {}
    <2>1. id = "not-applicable" /\ q.owner = Zero BY <1>8, <1>9, <1>10 DEF identity
    <2>2. vm = None BY <2>1 DEF GceInstanceFromMrOwner
    <2>3. QED BY <1>3, <1>5, <1>8, <1>10, <2>1, <2>2 DEF same, id, match
  <1>11. CASE t.rule # {}
    <2>1. q.owner # Zero BY <1>8, <1>9, <1>11 DEF identity
    <2>2. CASE vm # None
      <3>1. id = "verified" /\ Site[vm] \in t.rule
        BY <1>8, <1>9, <1>11, <2>1, <2>2 DEF identity, GcePzidRuleAdmits
      <3>2. vm = d.pzid /\ d.pzid = q.owner BY <2>2 DEF GceInstanceFromMrOwner
      <3>3. QED BY <1>8, <1>11, <2>1, <3>1, <3>2 DEF same, id, match
    <2>3. CASE vm = None
      <3>1. id = "unverified" BY <1>8, <1>9, <1>11, <2>1, <2>3 DEF identity
      <3>2. d.pzid = None /\ ~v3.pzid BY <1>3, <1>4, <2>3, <3>1
      <3>3. QED BY <1>8, <1>11, <2>1, <3>1, <3>2 DEF same, id, match
    <2>4. QED BY <2>2, <2>3
  <1>12. QED BY <1>10, <1>11

\* A change of a policy in tuple form that leaves it above the floor left it as it was.
LEMMA FloorKept ==
    ASSUME NEW p, AsLoaded(p), TupleForm(p), NEW q \in Changes(p), Floor(q)
    PROVE  q = p
  <1>1. /\ q.kind = p.kind /\ q.tuples = p.tuples /\ q.v3 = p.v3 BY ChangesKeep
  <1>2. p = Policy(p.kind, p.tuples, p.v3, p.origins, p.apps, p.composes, p.releases,
                   p.kp, p.platform, p.req, p.tcbs, p.age)
    BY DEF AsLoaded
  <1>3. {"req", "tcbs", "age", "apps", "composes", "releases"} \subseteq DOMAIN p
    BY <1>2 DEF Policy
  <1>4. ASSUME NEW s \in Switches, q = [p EXCEPT !.req = @ \ {s}] PROVE FALSE
    <2>1. q.req = p.req \ {s} BY <1>3, <1>4
    <2>2. q.req = Switches BY DEF Floor
    <2>3. QED BY <2>1, <2>2
  <1>5. ASSUME q = [p EXCEPT !.tcbs = @ \cup {"OutOfDate"}] PROVE FALSE
    BY <1>3, <1>5 DEF Floor
  <1>6. ASSUME q = [p EXCEPT !.age = MaxAge + 1] PROVE FALSE
    BY <1>3, <1>6, NumbersAssumption DEF Floor, NumbersAssumption
  <1>7. ASSUME NEW c \in Claims,
               q = [p EXCEPT !.apps = @ \cup {c.app}, !.composes = @ \cup {c.compose},
                             !.releases = @ \cup {c.release}]
        PROVE  q = p
    <2>1. /\ q.apps = p.apps \cup {c.app} /\ q.composes = p.composes \cup {c.compose}
          /\ q.releases = p.releases \cup {c.release}
      BY <1>3, <1>7
    <2>2. p.kind # None BY <1>1 DEF Floor, TupleForm
    <2>3. ~p.v3.present BY <1>1, <2>1, <2>2 DEF Floor
    <2>4. Derived(p) /\ Derived(q) BY <1>1, <2>2, <2>3 DEF Floor, AsLoaded
    <2>5. /\ q.apps = p.apps /\ q.composes = p.composes /\ q.releases = p.releases
      BY <1>1, <2>4 DEF Derived
    <2>6. q = [p EXCEPT !.apps = p.apps, !.composes = p.composes, !.releases = p.releases]
      BY <1>7, <2>1, <2>5
    <2>7. QED BY <1>2, <2>6 DEF Policy
  <1>8. QED BY <1>4, <1>5, <1>6, <1>7 DEF Changes

----------------------------------------------------------------------------
(* The event log                                                           *)

\* A digest that was measured names its event and its payload.
LEMMA DigestNames ==
    ASSUME NEW e, NEW x, Rtmr3EventDigest(e) = Digest(x)
    PROVE  e.event = x.event /\ e.payload = x.payload
  BY DEF Rtmr3EventDigest, Digest, DigestV1, DigestV2, Unhashable

\* The entries of a register are numbered by how many there are up to each.
LEMMA Numbered ==
    ASSUME NEW n \in Nat, NEW E \in SUBSET (1..n)
    PROVE  LET place(i) == Cardinality({j \in E : j <= i})
           IN  /\ Cardinality(E) \in Nat
               /\ \A i \in E : place(i) \in 1..Cardinality(E)
               /\ \A i, k \in E : place(i) = place(k) => i = k
               /\ \A k \in 1..Cardinality(E) : \E i \in E : place(i) = k
  <1> DEFINE upto(i) == {j \in E : j <= i}
             place(i) == Cardinality(upto(i))
             f == [i \in E |-> place(i)]
             c == Cardinality(E)
  <1>1. IsFiniteSet(E) /\ E \subseteq Nat
    <2>1. IsFiniteSet(1..n) BY FS_Interval
    <2>2. E \subseteq Nat OBVIOUS
    <2>3. QED BY <2>1, <2>2, FS_Subset
  <1>2. c \in Nat BY <1>1, FS_CardinalityType
  <1>3. ASSUME NEW i \in E
        PROVE  /\ IsFiniteSet(upto(i)) /\ i \in upto(i)
               /\ place(i) \in 1..c
    <2>1. upto(i) \in SUBSET E /\ i \in upto(i) BY <1>1
    <2>2. IsFiniteSet(upto(i)) /\ place(i) <= c BY <1>1, <2>1, FS_Subset
    <2>3. place(i) \in Nat BY <2>2, FS_CardinalityType
    <2>4. place(i) # 0 BY <2>1, <2>2, FS_EmptySet
    <2>5. QED BY <1>2, <2>1, <2>2, <2>3, <2>4
  <1>4. ASSUME NEW i \in E, NEW k \in E, i < k PROVE place(i) # place(k)
    <2>1. upto(i) \in SUBSET upto(k) /\ k \in upto(k) /\ k \notin upto(i)
      <3>1. \A j \in E : j \in Int BY <1>1
      <3>2. \A j \in E : j <= i => j <= k BY <1>4, <3>1
      <3>3. k <= k /\ ~(k <= i) BY <1>4, <3>1
      <3>4. QED BY <3>2, <3>3
    <2>2. IsFiniteSet(upto(k)) BY <1>3
    <2>3. place(k) = place(i) => upto(k) = upto(i) BY <2>1, <2>2, FS_Subset
    <2>4. QED BY <2>1, <2>3
  <1>5. \A i, k \in E : place(i) = place(k) => i = k
    <2> TAKE i, k \in E
    <2>1. i \in Nat /\ k \in Nat BY <1>1
    <2> HIDE DEF place
    <2>2. QED BY <1>4, <2>1
  <1>6. \A k \in 1..c : \E i \in E : place(i) = k
    <2> HIDE DEF place, c
    <2>1. f \in Injection(E, 1..c) BY <1>3, <1>5 DEF Injection, IsInjective
    <2>2. IsFiniteSet(1..c) /\ Cardinality(1..c) = c BY <1>2, FS_Interval
    <2>3. f \in Surjection(E, 1..c) BY <2>1, <2>2, FS_Injection DEF c
    <2>4. QED BY <2>3 DEF Surjection
  <1>7. QED BY <1>2, <1>3, <1>5, <1>6

\* The entries a replay visits are those of the register, each once.
LEMMA Replayed ==
    ASSUME NEW n \in Nat, NEW log, DOMAIN log = 1..n, NEW imr
    PROVE  LET E == Entries(log, imr)
               place(i) == Cardinality({j \in E : j <= i})
           IN  /\ \A i \in E : /\ place(i) \in 1..Cardinality(E)
                               /\ NthEntry(log, imr, place(i)) = log[i]
               /\ \A k \in 1..Cardinality(E) : \E i \in E : place(i) = k
  <1> DEFINE E == Entries(log, imr)
             place(i) == Cardinality({j \in E : j <= i})
  <1>1. E \in SUBSET (1..n) BY DEF Entries
  <1>2. /\ \A i \in E : place(i) \in 1..Cardinality(E)
        /\ \A i, k \in E : place(i) = place(k) => i = k
        /\ \A k \in 1..Cardinality(E) : \E i \in E : place(i) = k
    <2> HIDE DEF E
    <2>1. QED BY <1>1, Numbered
  <1>3. \A k : NthEntry(log, imr, k) = log[CHOOSE i \in E : place(i) = k] BY DEF NthEntry
  <1> HIDE DEF E, place
  <1>4. \A i \in E : NthEntry(log, imr, place(i)) = log[i]
    <2> TAKE i \in E
    <2>1. (CHOOSE k \in E : place(k) = place(i)) = i BY <1>2
    <2>2. QED BY <1>3, <2>1
  <1>5. QED BY <1>2, <1>4 DEF E, place

\* An event that a log names once, when the log replays to the register of a TD, is
\* one the TD measured once, with the payload shown.
LEMMA LogTruth ==
    ASSUME NEW m \in Machines, NEW n \in Nat, NEW log, DOMAIN log = 1..n,
           ReplayRtmrs(log, 3) = m.rtmr3, NEW name,
           SingleEventPayload(log, name) \notin {None, "throws"}
    PROVE  \E k \in DOMAIN m.events :
             /\ {j \in DOMAIN m.events : m.events[j].event = name} = {k}
             /\ m.events[k].payload = SingleEventPayload(log, name)
  <1> DEFINE E == Entries(log, 3)
             place(i) == Cardinality({j \in E : j <= i})
  <1>1. PICK i : Named(log, name) = {i} /\ log[i].imr = 3
                 /\ SingleEventPayload(log, name) = log[i].payload
    BY DEF SingleEventPayload
  <1>2. i \in E /\ log[i].event = name BY <1>1 DEF Named, Entries
  <1>3. /\ \A j \in E : place(j) \in 1..Cardinality(E) /\ NthEntry(log, 3, place(j)) = log[j]
        /\ \A k \in 1..Cardinality(E) : \E j \in E : place(j) = k
    <2>1. \A j \in E : place(j) \in 1..Cardinality(E) /\ NthEntry(log, 3, place(j)) = log[j]
      BY Replayed
    <2>2. \A k \in 1..Cardinality(E) : \E j \in E : place(j) = k
      BY Replayed
    <2>3. QED BY <2>1, <2>2
  <1>4. E \subseteq DOMAIN log BY DEF Entries
  <1>5. /\ DOMAIN m.events = 1..Cardinality(E)
        /\ \A k \in 1..Cardinality(E) :
              Rtmr3EventDigest(NthEntry(log, 3, k)) = Digest(m.events[k])
    <2>1. m.rtmr3 = [k \in DOMAIN m.events |-> Digest(m.events[k])]
      BY MachinesAssumption DEF MachinesAssumption
    <2>2. m.rtmr3 = [k \in 1..Cardinality(E) |-> Rtmr3EventDigest(NthEntry(log, 3, k))]
      BY DEF ReplayRtmrs
    <2>3. QED BY <2>1, <2>2
  <1> HIDE DEF E, place
  <1>6. \A j \in E : /\ m.events[place(j)].event = log[j].event
                     /\ m.events[place(j)].payload = log[j].payload
    BY <1>3, <1>5, DigestNames
  <1>7. ASSUME NEW k \in DOMAIN m.events, m.events[k].event = name PROVE k = place(i)
    <2>1. PICK j \in E : place(j) = k BY <1>3, <1>5
    <2>2. log[j].event = name BY <1>6, <1>7, <2>1
    <2>3. j \in Named(log, name) BY <1>4, <2>2 DEF Named
    <2>4. QED BY <1>1, <2>1, <2>3
  <1>8. place(i) \in DOMAIN m.events /\ m.events[place(i)].event = name
    BY <1>2, <1>3, <1>5, <1>6
  <1>9. QED BY <1>1, <1>2, <1>6, <1>7, <1>8

\* What a log says was measured, when it replays, is what the TD measured.
LEMMA MeasuredTruth ==
    ASSUME NEW m \in Machines, NEW log, \E n \in Nat : DOMAIN log = 1..n,
           ReplayRtmrs(log, 3) = m.rtmr3, NEW name \in IdentityEvents,
           Measured(log, name) # None
    PROVE  /\ Payload(m, name) = Measured(log, name)
           /\ name = "compose-hash" => m.compose = Measured(log, name)
  <1>1. /\ Measured(log, name) = SingleEventPayload(log, name)
        /\ SingleEventPayload(log, name) \notin {None, "throws"}
    BY DEF Measured, EventLogRead
  <1>2. PICK k \in DOMAIN m.events :
          /\ {j \in DOMAIN m.events : m.events[j].event = name} = {k}
          /\ m.events[k].payload = SingleEventPayload(log, name)
    BY <1>1, LogTruth
  <1>3. Payload(m, name) = m.events[k].payload BY <1>2 DEF Payload
  <1>4. ASSUME name = "compose-hash" PROVE m.compose = m.events[k].payload
    <2>1. Len(m.events) \in Nat /\ DOMAIN m.events = 1..Len(m.events)
      BY MachinesAssumption DEF MachinesAssumption
    <2>2. \A j \in 1..(k-1) : j \in DOMAIN m.events /\ j # k BY <2>1
    <2>3. \A j \in 1..(k-1) : m.events[j].event # "compose-hash" BY <1>2, <1>4, <2>2
    <2>4. m.events[k].event = "compose-hash" BY <1>2, <1>4
    <2>5. QED BY <2>3, <2>4, MachinesAssumption DEF MachinesAssumption
  <1>5. QED BY <1>1, <1>2, <1>3, <1>4

LEMMA EventLogPassed ==
    ASSUME NEW p, NEW d, NEW b, Accepting(EventLogChecks(p, d, b))
    PROVE  /\ d.parses /\ ReplayRtmrs(d.log, 3) = d.quote.rtmr3
           /\ HexEqual(Measured(d.log, "compose-hash"), b.compose)
           /\ HexEqual(Measured(d.log, "app-id"), b.app)
  <1> DEFINE S == EventLogChecks(p, d, b)
             event(n) == IF d.parses THEN Measured(d.log, n) ELSE None
  <1>1. /\ Require("event_log_replays_rtmrs",
                    d.parses /\ ReplayRtmrs(d.log, 0) = d.quote.rtmr
                             /\ ReplayRtmrs(d.log, 3) = d.quote.rtmr3) \in S
        /\ Require("compose_hash_measured_in_rtmr3", HexEqual(event("compose-hash"), b.compose)) \in S
        /\ Require("app_id_measured", HexEqual(event("app-id"), b.app)) \in S
    BY DEF EventLogChecks
  <1> HIDE DEF S
  <1>2. d.parses /\ ReplayRtmrs(d.log, 3) = d.quote.rtmr3
    <2>1. Accepting(S) BY DEF S
    <2>2. QED BY <1>1, <2>1, Demanded
  <1>3. HexEqual(event("compose-hash"), b.compose) /\ HexEqual(event("app-id"), b.app)
    <2>1. Accepting(S) BY DEF S
    <2> HIDE DEF event
    <2>2. QED BY <1>1, <2>1, Demanded
  <1>4. QED BY <1>2, <1>3

LEMMA ManifestPassed ==
    ASSUME NEW p, NEW d, NEW b, Accepting(ManifestChecks(p, d, b)), "privateLogs" \in p.req
    PROVE  Manifests[b.compose].logs = "private"
  <1> DEFINE m == AppCompose(d.compose)
  <1>1. /\ Require("app_compose_parsed", m.hash # None) \in ManifestChecks(p, d, b)
        /\ Require("app_compose_matches_measurement", HexEqual(m.hash, b.compose))
             \in ManifestChecks(p, d, b)
        /\ Require("compose_public_logs_disabled", m.logs = "private") \in ManifestChecks(p, d, b)
    BY DEF ManifestChecks, When
  <1> HIDE DEF m
  <1>2. m.hash # None BY <1>1, Demanded
  <1>3. HexEqual(m.hash, b.compose) BY <1>1, Demanded
  <1>4. m.logs = "private" BY <1>1, Demanded
  <1>5. QED BY <1>2, <1>3, <1>4 DEF m, AppCompose, HexEqual

----------------------------------------------------------------------------
(* What the log of a TD says of it                                         *)

\* The log as the guest agent returns it, entry by entry.
LEMMA GenuineEntries ==
    ASSUME NEW m \in Machines
    PROVE  LET n == Len(m.rtmr)
               k == Len(m.events)
               log == GenuineLog(m)
           IN  /\ n \in Nat /\ k \in Nat /\ DOMAIN m.events = 1..k /\ DOMAIN log = 1..(n + k)
               /\ \A i \in 1..n :
                    log[i].imr = 0 /\ log[i].event = "" /\ log[i].digest = m.rtmr[i]
               /\ \A i \in 1..k :
                    LET x == m.events[i] IN
                    /\ log[n + i].imr = 3
                    /\ log[n + i].event = x.event /\ log[n + i].payload = x.payload
                    /\ log[n + i].digest = IF x.v2 THEN Digest(x) ELSE <<>>
                    /\ log[n + i].preimage = IF x.v2 THEN <<x.event, x.payload>> ELSE <<>>
  <1> DEFINE blank == ""
             s == [i \in DOMAIN m.rtmr |-> Entry(0, blank, blank, m.rtmr[i], <<>>)]
             entry(x) == IF x.v2 THEN Entry(3, x.event, x.payload, Digest(x), <<x.event, x.payload>>)
                         ELSE Entry(3, x.event, x.payload, <<>>, <<>>)
             t == [i \in DOMAIN m.events |-> entry(m.events[i])]
             n == Len(m.rtmr)
             k == Len(m.events)
             log == GenuineLog(m)
  <1>1. n \in Nat /\ k \in Nat /\ DOMAIN m.rtmr = 1..n /\ DOMAIN m.events = 1..k
    BY MachinesAssumption DEF MachinesAssumption
  <1> HIDE DEF entry, n, k
  <1>2. s = [i \in 1..n |-> s[i]] /\ t = [i \in 1..k |-> t[i]] BY <1>1
  <1>3. log = s \o t BY DEF GenuineLog, entry
  <1> HIDE DEF blank
  <1>4. /\ \A i \in 1..n : s[i] = Entry(0, blank, blank, m.rtmr[i], <<>>)
        /\ \A i \in 1..k : t[i] = entry(m.events[i])
    BY <1>1
  <1> HIDE DEF s, t, log
  <1>5. /\ DOMAIN log = 1..(n + k)
        /\ \A i \in 1..n : log[i] = s[i]
        /\ \A i \in 1..k : log[n + i] = t[i]
    BY <1>1, <1>2, <1>3, Joined
  <1>6. ASSUME NEW i \in 1..n
        PROVE  log[i].imr = 0 /\ log[i].event = blank /\ log[i].digest = m.rtmr[i]
    <2>1. log[i] = Entry(0, blank, blank, m.rtmr[i], <<>>) BY <1>4, <1>5
    <2>2. QED BY <2>1 DEF Entry
  <1>7. ASSUME NEW i \in 1..k
        PROVE  LET x == m.events[i] IN
               /\ log[n + i].imr = 3
               /\ log[n + i].event = x.event /\ log[n + i].payload = x.payload
               /\ log[n + i].digest = IF x.v2 THEN Digest(x) ELSE <<>>
               /\ log[n + i].preimage = IF x.v2 THEN <<x.event, x.payload>> ELSE <<>>
    <2>1. log[n + i] = entry(m.events[i]) BY <1>4, <1>5
    <2>2. QED BY <2>1 DEF entry, Entry
  <1>8. QED BY <1>1, <1>5, <1>6, <1>7 DEF n, k, log, blank

\* The entries of one register of the log follow one another.
LEMMA GenuinePlaces ==
    ASSUME NEW m \in Machines
    PROVE  LET n == Len(m.rtmr)
               k == Len(m.events)
               log == GenuineLog(m)
           IN  /\ Cardinality(Entries(log, 0)) = n /\ Cardinality(Entries(log, 3)) = k
               /\ \A i \in 1..n : NthEntry(log, 0, i) = log[i]
               /\ \A i \in 1..k : NthEntry(log, 3, i) = log[n + i]
  <1> DEFINE n == Len(m.rtmr)
             k == Len(m.events)
             log == GenuineLog(m)
  <1>1. /\ n \in Nat /\ k \in Nat /\ DOMAIN log = 1..(n + k)
        /\ \A i \in 1..n : log[i].imr = 0
        /\ \A i \in 1..k : log[n + i].imr = 3
    BY GenuineEntries
  <1> HIDE DEF n, k, log
  <1>2. \A i \in (n + 1)..(n + k) : log[i].imr = 3
    <2>1. \A i \in (n + 1)..(n + k) : i - n \in 1..k /\ i = n + (i - n) BY <1>1
    <2>2. QED BY <1>1, <2>1
  <1>3. Entries(log, 0) = 1..n
    <2>1. \A i \in 1..(n + k) : i \in 1..n \/ i \in (n + 1)..(n + k) BY <1>1
    <2>2. 1..n \subseteq 1..(n + k) BY <1>1
    <2>3. QED BY <1>1, <1>2, <2>1, <2>2 DEF Entries
  <1>4. Entries(log, 3) = (n + 1)..(n + k)
    <2>1. \A i \in 1..(n + k) : i \in 1..n \/ i \in (n + 1)..(n + k) BY <1>1
    <2>2. (n + 1)..(n + k) \subseteq 1..(n + k) BY <1>1
    <2>3. QED BY <1>1, <1>2, <2>1, <2>2 DEF Entries
  <1>5. Cardinality(1..n) = n /\ Cardinality((n + 1)..(n + k)) = k BY <1>1, FS_Interval
  <1>6. ASSUME NEW i \in 1..n PROVE NthEntry(log, 0, i) = log[i]
    <2>1. {j \in 1..n : j <= i} = 1..i BY <1>1
    <2>2. Cardinality(1..i) = i BY <1>1, FS_Interval
    <2>3. Cardinality({j \in Entries(log, 0) : j <= i}) = i BY <1>3, <2>1, <2>2
    <2>4. i \in Entries(log, 0) BY <1>3
    <2>5. NthEntry(log, 0, Cardinality({j \in Entries(log, 0) : j <= i})) = log[i]
      BY <1>1, <2>4, Replayed
    <2>6. QED BY <2>3, <2>5
  <1>7. ASSUME NEW i \in 1..k PROVE NthEntry(log, 3, i) = log[n + i]
    <2>1. {j \in (n + 1)..(n + k) : j <= n + i} = (n + 1)..(n + i) BY <1>1
    <2>2. Cardinality((n + 1)..(n + i)) = i BY <1>1, FS_Interval
    <2>3. Cardinality({j \in Entries(log, 3) : j <= n + i}) = i BY <1>4, <2>1, <2>2
    <2>4. n + i \in Entries(log, 3) BY <1>1, <1>4
    <2>5. NthEntry(log, 3, Cardinality({j \in Entries(log, 3) : j <= n + i})) = log[n + i]
      BY <1>1, <2>4, Replayed
    <2>6. QED BY <2>3, <2>5
  <1>8. QED BY <1>3, <1>4, <1>5, <1>6, <1>7 DEF n, k, log

\* The log replays to the registers of the TD, whose events commit to what they say.
LEMMA GenuineReplays ==
    ASSUME NEW m \in Machines, \A i \in DOMAIN m.events : m.events[i].payload # "odd"
    PROVE  /\ ReplayRtmrs(GenuineLog(m), 0) = m.rtmr
           /\ ReplayRtmrs(GenuineLog(m), 3) = m.rtmr3
           /\ Committing(GenuineLog(m))
  <1> DEFINE n == Len(m.rtmr)
             k == Len(m.events)
             log == GenuineLog(m)
  <1>1. /\ n \in Nat /\ k \in Nat /\ DOMAIN m.events = 1..k /\ DOMAIN log = 1..(n + k)
        /\ \A i \in 1..n : log[i].imr = 0 /\ log[i].digest = m.rtmr[i]
        /\ \A i \in 1..k :
             LET x == m.events[i] IN
             /\ log[n + i].event = x.event /\ log[n + i].payload = x.payload
             /\ log[n + i].digest = IF x.v2 THEN Digest(x) ELSE <<>>
             /\ log[n + i].preimage = IF x.v2 THEN <<x.event, x.payload>> ELSE <<>>
    BY GenuineEntries
  <1>2. /\ Cardinality(Entries(log, 0)) = n /\ Cardinality(Entries(log, 3)) = k
        /\ \A i \in 1..n : NthEntry(log, 0, i) = log[i]
        /\ \A i \in 1..k : NthEntry(log, 3, i) = log[n + i]
    BY GenuinePlaces
  <1>3. /\ m.rtmr = [i \in 1..n |-> m.rtmr[i]]
        /\ m.rtmr3 = [i \in 1..k |-> Digest(m.events[i])]
    BY <1>1, MachinesAssumption DEF MachinesAssumption
  <1> HIDE DEF n, k, log
  <1>4. ASSUME NEW i \in 1..k
        PROVE  /\ Rtmr3EventDigest(log[n + i]) = Digest(m.events[i])
               /\ SelfConsistent(log[n + i])
    <2> DEFINE x == m.events[i]
    <2>1. x.payload # "odd" BY <1>1
    <2>2. /\ log[n + i].event = x.event /\ log[n + i].payload = x.payload
          /\ log[n + i].digest = IF x.v2 THEN Digest(x) ELSE <<>>
          /\ log[n + i].preimage = IF x.v2 THEN <<x.event, x.payload>> ELSE <<>>
      BY <1>1
    <2> HIDE DEF x
    <2>3. Digest(x) # Unhashable BY DEF Digest, DigestV1, DigestV2, Unhashable
    <2>4. Rtmr3EventDigest(log[n + i]) = Digest(x)
      <3>1. CASE x.v2
        BY <2>1, <2>2, <3>1 DEF Rtmr3EventDigest, Digest
      <3>2. CASE ~x.v2
        BY <2>1, <2>2, <3>2 DEF Rtmr3EventDigest, Digest
      <3>3. QED BY <3>1, <3>2
    <2>5. SelfConsistent(log[n + i]) BY <2>2, <2>3, <2>4 DEF SelfConsistent
    <2>6. QED BY <2>4, <2>5 DEF x
  <1>5. ReplayRtmrs(log, 0) = m.rtmr
    <2>1. \A i \in 1..n : NthEntry(log, 0, i).digest = m.rtmr[i] BY <1>1, <1>2
    <2>2. ReplayRtmrs(log, 0) = [i \in 1..n |-> NthEntry(log, 0, i).digest]
      BY <1>2 DEF ReplayRtmrs
    <2>3. QED BY <1>3, <2>1, <2>2
  <1>6. ReplayRtmrs(log, 3) = m.rtmr3
    <2>1. \A i \in 1..k : Rtmr3EventDigest(NthEntry(log, 3, i)) = Digest(m.events[i])
      BY <1>2, <1>4
    <2>2. ReplayRtmrs(log, 3) = [i \in 1..k |-> Rtmr3EventDigest(NthEntry(log, 3, i))]
      BY <1>2 DEF ReplayRtmrs
    <2>3. QED BY <1>3, <2>1, <2>2
  <1>7. Committing(log)
    <2> SUFFICES ASSUME NEW j \in 1..(n + k), log[j].imr = 3 PROVE SelfConsistent(log[j])
      BY <1>1 DEF Committing
    <2>1. CASE j \in 1..n
      <3>1. log[j].imr = 0 BY <1>1, <2>1
      <3>2. QED BY <3>1
    <2>2. CASE j \notin 1..n
      <3>1. j - n \in 1..k /\ n + (j - n) = j
        <4>1. n \in Nat /\ k \in Nat BY <1>1
        <4>2. QED BY <2>2, <4>1
      <3>2. QED BY <1>4, <3>1
    <2>3. QED BY <2>1, <2>2
  <1>8. QED BY <1>5, <1>6, <1>7 DEF log

\* The log of a reviewed dstack image says what was measured, each identity once.
LEMMA GenuineMeasured ==
    ASSUME NEW m \in Machines, DstackImage(m)
    PROVE  /\ EventLogRead(GenuineLog(m))
           /\ \A name \in IdentityEvents : Measured(GenuineLog(m), name) = Payload(m, name)
  <1> DEFINE n == Len(m.rtmr)
             k == Len(m.events)
             log == GenuineLog(m)
  <1>1. /\ n \in Nat /\ k \in Nat /\ DOMAIN m.events = 1..k /\ DOMAIN log = 1..(n + k)
        /\ \A i \in 1..n : log[i].event = "" /\ log[i].imr = 0
        /\ \A i \in 1..k : /\ log[n + i].event = m.events[i].event
                           /\ log[n + i].payload = m.events[i].payload
                           /\ log[n + i].imr = 3
    BY GenuineEntries
  <1>2. /\ \A i \in DOMAIN m.events : m.events[i].payload \notin {None, "odd", "throws"}
        /\ \A i, j \in DOMAIN m.events :
             m.events[i].event = m.events[j].event /\ m.events[i].event \in IdentityEvents => i = j
    BY DEF DstackImage
  <1>3. Committing(log) BY <1>2, GenuineReplays
  <1>0. n \in Nat /\ k \in Nat BY <1>1
  <1> HIDE DEF n, k, log
  <1>4. ASSUME NEW name \in IdentityEvents
        PROVE  /\ SingleEventPayload(log, name) = Payload(m, name)
               /\ SingleEventPayload(log, name) # "throws"
    <2> DEFINE at == {i \in DOMAIN m.events : m.events[i].event = name}
    <2>1. ASSUME NEW j \in Named(log, name)
          PROVE  j - n \in at /\ j = n + (j - n)
      <3>1. j \in 1..(n + k) /\ log[j].event = name BY <1>1 DEF Named
      <3>2. j \notin 1..n BY <1>1, <3>1 DEF IdentityEvents
      <3>3. j - n \in 1..k /\ n + (j - n) = j
        <4>1. j \in 1..(n + k) BY <3>1
        <4>2. QED BY <1>0, <3>2, <4>1
      <3>4. m.events[j - n].event = name BY <1>1, <3>1, <3>3
      <3>5. QED BY <1>1, <3>3, <3>4
    <2>2. ASSUME NEW i \in at PROVE n + i \in Named(log, name)
      <3>1. i \in 1..k BY <1>1
      <3>2. n + i \in 1..(n + k) BY <1>0, <3>1
      <3>3. QED BY <1>1, <3>1, <3>2 DEF Named
    <2>3. CASE at = {}
      <3>1. Named(log, name) = {} BY <2>1, <2>3
      <3>2. Payload(m, name) = None BY <2>3 DEF Payload
      <3>3. SingleEventPayload(log, name) = None BY <3>1 DEF SingleEventPayload
      <3>4. QED BY <3>2, <3>3 DEF None
    <2>4. CASE at # {}
      <3>1. PICK i \in at : TRUE BY <2>4
      <3>2. at = {i} BY <1>2, <3>1
      <3>3. Payload(m, name) = m.events[i].payload BY <3>2 DEF Payload
      <3>4. Named(log, name) = {n + i}
        <4>1. n + i \in Named(log, name) BY <2>2, <3>1
        <4>2. \A j \in Named(log, name) : j = n + i BY <2>1, <3>2
        <4> HIDE DEF at
        <4>3. QED BY <4>1, <4>2
      <3>5. i \in 1..k /\ n + i \in DOMAIN log
        <4>1. i \in 1..k BY <1>1, <3>1
        <4>2. n + i \in 1..(n + k) BY <1>0, <4>1
        <4>3. QED BY <1>1, <4>1, <4>2
      <3>6. log[n + i].imr = 3 /\ log[n + i].payload = m.events[i].payload BY <1>1, <3>5
      <3>7. SelfConsistent(log[n + i]) BY <1>3, <3>5, <3>6 DEF Committing
      <3>8. (CHOOSE j \in Named(log, name) : TRUE) = n + i BY <3>4
      <3>9. SingleEventPayload(log, name) = log[n + i].payload
        BY <3>4, <3>6, <3>7, <3>8 DEF SingleEventPayload
      <3>10. m.events[i].payload # "throws" BY <1>1, <1>2, <3>5
      <3>11. QED BY <3>3, <3>6, <3>9, <3>10
    <2>5. QED BY <2>3, <2>4
  <1>5. QED BY <1>4 DEF EventLogRead, Measured, log

\* An accepting verdict is the one the invariant speaks of.
LEMMA AcceptedVerdict ==
    ASSUME GatewayInv, Accepted
    PROVE  /\ Shows(doc) /\ call.was \in Supplied /\ verdict.at \in Nat
           /\ \/ call.policy = call.was
              \/ TupleForm(call.was) /\ call.policy \in Changes(call.was)
           /\ \E r \in BOOLEAN :
                /\ verdict = VerifyGatewayAttestation(call.policy, doc, engine, Nonce,
                                                     doc.observed, r, verdict.at)
                /\ VerifyGatewayAttestation(call.policy, doc, engine, Nonce,
                                           doc.observed, r, verdict.at).ok
  <1>1. phase = "done" /\ verdict.ok BY DEF Accepted
  <1>2. call.from # None BY <1>1 DEF GatewayInv, PhaseInv
  <1> DEFINE r == call.connection = "retained"
  <1>3. verdict = VerifyGatewayAttestation(call.policy, doc, engine, Nonce,
                                           doc.observed, r, verdict.at)
    BY <1>1 DEF GatewayInv, PhaseInv
  <1>4. r \in BOOLEAN OBVIOUS
  <1> HIDE DEF r
  <1>5. QED BY <1>1, <1>2, <1>3, <1>4 DEF GatewayInv, CallInv, PhaseInv

\* A policy in tuple form that is above the floor is of one kind or the other.
LEMMA FloorKinds ==
    ASSUME NEW p, Floor(p), TupleForm(p)
    PROVE  /\ p.kind \in {"phala", "gcp"} /\ KindOf(p) = p.kind
           /\ p.v3.present => p.kind = "gcp"
           /\ ~p.v3.present => ValidTuples(p.kind, p.tuples)
           /\ p.req = Switches /\ p.age <= MaxAge /\ p.tcbs = {"UpToDate"}
  BY DEF Floor, TupleForm, Kinds, KindOf, None

\* What the checks of the measurements and of the release establish together: the
\* TD has measured one approved tuple as a whole.
LEMMA MeasuresPassed ==
    ASSUME NEW p, Floor(p), TupleForm(p), NEW d, Shows(d), NEW b, NEW t0,
           Accepting(MeasurementChecks(p, d, b)), Accepting(ReleaseChecks(p, d, b, t0))
    PROVE  /\ Measures(p, d.quote.by)
           /\ p.kind = "phala" => b.compose = d.quote.by.compose
  <1> DEFINE m == d.quote.by
             q == d.quote
  <1>1. /\ m \in Machines /\ q.mrtd = m.mrtd /\ q.rtmr = m.rtmr /\ q.rtmr3 = m.rtmr3
        /\ q.cfg = m.cfg /\ q.owner = m.owner /\ q.attr = m.attr
        /\ \E len \in Nat : DOMAIN d.log = 1..len
    BY DEF Shows, Measurements
  <1> HIDE DEF m, q
  <1>2. CASE p.v3.present
    <2>1. Accepting(V3Checks(p.v3, d)) BY <1>2 DEF ReleaseChecks
    <2>2. \E t \in p.v3.tuples :
            /\ t.mrtd = q.mrtd /\ t.rtmr = q.rtmr /\ t.rtmr3 = q.rtmr3
            /\ t.cfg = q.cfg /\ t.attr = q.attr
            /\ IF t.rule = {} THEN q.owner = Zero ELSE q.owner # Zero
      BY <2>1, V3Passed DEF q
    <2>3. Measures(p, m) BY <1>1, <1>2, <2>2 DEF Measures
    <2>4. p.kind = "gcp" BY <1>2, FloorKinds
    <2>5. QED BY <2>3, <2>4 DEF m
  <1>3. CASE ~p.v3.present /\ p.kind = "gcp"
    <2>1. KindOf(p) = "gcp" BY <1>3 DEF KindOf, None
    <2>2. Accepting(NativeChecks(p, d, b)) BY <2>1 DEF MeasurementChecks
    <2>3. q.rtmr3 = <<>> /\ q.cfg = Zero /\ q.owner = Zero
      <3>1. /\ Require("rtmr3_unextended", q.rtmr3 = <<>>) \in NativeChecks(p, d, b)
            /\ Require("owner_config_registers_zero",
                  /\ q.cfg = Zero
                  /\ \/ q.owner = Zero
                     \/ p.v3.present /\ \E t \in p.v3.tuples : t.rule # {})
                 \in NativeChecks(p, d, b)
        BY DEF NativeChecks, q
      <3>2. q.rtmr3 = <<>> BY <2>2, <3>1, Demanded
      <3>3. /\ q.cfg = Zero
            /\ \/ q.owner = Zero
               \/ p.v3.present /\ \E t \in p.v3.tuples : t.rule # {}
        BY <2>2, <3>1, Demanded
      <3>4. QED BY <1>3, <3>2, <3>3
    <2>4. Accepting(TupleChecks(p, d, b, t0)) BY <1>3 DEF ReleaseChecks
    <2>5. \E t \in p.tuples : t.mrtd = q.mrtd /\ t.rtmr = q.rtmr /\ t.attr = q.attr
      BY <2>1, <2>4 DEF TupleChecks, Accepting, Require, Check, q
    <2>6. Measures(p, m) BY <1>1, <1>3, <2>3, <2>5 DEF Measures
    <2>7. QED BY <1>3, <2>6 DEF m
  <1>4. CASE ~p.v3.present /\ p.kind = "phala"
    <2>1. KindOf(p) = "phala" BY <1>4 DEF KindOf, None
    <2>2. Accepting(EventLogChecks(p, d, b))
      BY <2>1, AcceptingUnion DEF MeasurementChecks
    <2>3. /\ d.parses /\ ReplayRtmrs(d.log, 3) = m.rtmr3
          /\ Measured(d.log, "compose-hash") # None
          /\ Measured(d.log, "compose-hash") = b.compose
          /\ Measured(d.log, "app-id") # None /\ Measured(d.log, "app-id") = b.app
      BY <1>1, <2>2, EventLogPassed DEF HexEqual, q
    <2>4. Accepting(TupleChecks(p, d, b, t0)) BY <1>4 DEF ReleaseChecks
    <2>5. PICK t \in p.tuples :
            /\ t.app = b.app /\ t.compose = b.compose /\ t.mrtd = q.mrtd
            /\ t.rtmr = q.rtmr /\ t.cfg = q.cfg
            /\ t.os = Measured(d.log, "os-image-hash")
            /\ t.kp = Measured(d.log, "key-provider")
      BY <2>1, <2>3, <2>4 DEF TupleChecks, Accepting, Require, Check, q
    <2>6. None \notin {t.cfg, t.os, t.kp}
      BY <1>4, <2>5, FloorKinds DEF ValidTuples, ValidTuple
    <2>7. /\ Payload(m, "app-id") = t.app /\ m.compose = t.compose
          /\ Payload(m, "os-image-hash") = t.os /\ Payload(m, "key-provider") = t.kp
      <3>1. \A name \in IdentityEvents : Measured(d.log, name) # None =>
              /\ Payload(m, name) = Measured(d.log, name)
              /\ name = "compose-hash" => m.compose = Measured(d.log, name)
        BY <1>1, <2>3, MeasuredTruth
      <3>2. {"app-id", "compose-hash", "os-image-hash", "key-provider"} \subseteq IdentityEvents
        BY DEF IdentityEvents
      <3>3. QED BY <2>3, <2>5, <2>6, <3>1, <3>2
    <2>8. Measures(p, m) BY <1>1, <1>4, <2>5, <2>7 DEF Measures
    <2>9. QED BY <2>3, <2>5, <2>7, <2>8 DEF m
  <1>5. QED BY <1>2, <1>3, <1>4, FloorKinds

\* An accepting verdict under a pinned policy was made under that very policy, above
\* its floor, on a genuine, current TD that has measured one of its tuples and is
\* the one whose binding was read.
LEMMA AcceptedPinned ==
    ASSUME GatewayInv, Accepted, Pinned
    PROVE  LET p == call.was
               b == doc.binding
           IN  /\ p \in Supplied /\ TupleForm(p) /\ call.policy = p /\ Floor(p)
               /\ Shows(doc) /\ verdict.level = "hardware-verified"
               /\ Machine.genuine /\ ~Machine.debug /\ Machine.tcb = "UpToDate"
               /\ doc.quote.data = BindingHash(BindingHash(b)) /\ b.nonce = Nonce
               /\ b.transport = "in-tee-tls" /\ (RequiresRetained(p) => doc.observed = b.spki)
               /\ \E i \in doc.issued : verdict.at - i <= MaxAge
               /\ Measures(p, Machine)
               /\ p.kind = "phala" => /\ b.compose = Machine.compose
                                      /\ Manifests[b.compose].logs = "private"
  <1> DEFINE p == call.policy
             t == verdict.at
             b == NormalizeGatewayBinding(doc.binding)
  <1>1. PICK r \in BOOLEAN :
          /\ verdict = VerifyGatewayAttestation(p, doc, engine, Nonce, doc.observed, r, t)
          /\ VerifyGatewayAttestation(p, doc, engine, Nonce, doc.observed, r, t).ok
    BY AcceptedVerdict
  <1> DEFINE v == VerifyGatewayAttestation(p, doc, engine, Nonce, doc.observed, r, t)
  <1>2. /\ Shows(doc) /\ call.was \in Supplied /\ t \in Nat
        /\ p = call.was \/ (TupleForm(call.was) /\ p \in Changes(call.was))
    BY AcceptedVerdict
  <1>3. AsLoaded(call.was) BY <1>2, SuppliedAsLoaded
  <1>4. TupleForm(call.was) BY <1>3 DEF Pinned, AsLoaded, TupleForm, None
  <1>5. TupleForm(p) BY <1>2, <1>3, <1>4, ChangesKeep DEF TupleForm
  <1>6. v.ok /\ verdict = v BY <1>1
  <1> HIDE DEF p, t
  <1>7. /\ Accepting(FloorChecks(p)) /\ Accepting(QuoteChecks(doc, b, Nonce))
        /\ Accepting(MeasurementChecks(p, doc, b)) /\ Accepting(ReleaseChecks(p, doc, b, t))
        /\ Accepting(TransportChecks(p, b, doc.observed, r))
        /\ Accepting({RecentCheck(p, doc, t)}) /\ Accepting(ChainChecks(p, doc, engine))
    BY <1>6, AcceptedGroups
  <1>8. (\A c \in ChainChecks(p, doc, engine) : c.passed) => v.level = "hardware-verified"
    BY <1>6, AcceptedGroups
  <1> HIDE DEF v
  <1>9. Floor(p) BY <1>5, <1>7, FloorPassed
  <1>10. p = call.was BY <1>2, <1>3, <1>4, <1>9, FloorKept
  <1>11. /\ p.kind \in {"phala", "gcp"} /\ KindOf(p) = p.kind
         /\ p.req = Switches /\ p.age <= MaxAge /\ p.tcbs = {"UpToDate"}
    BY <1>5, <1>9, FloorKinds
  <1>12. /\ verdict.level = "hardware-verified" /\ doc.quote.genuine
         /\ doc.quote.tcb \in p.tcbs
    BY <1>5, <1>6, <1>7, <1>8, ChainPassed
  <1>13. ~doc.quote.debug /\ doc.quote.data = BindingHash(b) /\ b.nonce = Nonce
    BY <1>7, QuotePassed
  <1>14. /\ DOMAIN doc.binding = Fields /\ Machine \in Machines
         /\ Machine.genuine = doc.quote.genuine /\ Machine.debug = doc.quote.debug
         /\ Machine.tcb = doc.quote.tcb /\ doc.issued \subseteq Nat
    BY <1>2, BindingFields DEF Shows, Measurements, Machine
  <1>15. /\ b = BindingHash(doc.binding) /\ b.nonce = doc.binding.nonce
         /\ b.spki = doc.binding.spki /\ b.transport = doc.binding.transport
         /\ b.compose = doc.binding.compose
    BY <1>14, BindingFields
  <1> HIDE DEF b
  <1>16. /\ b.transport = "in-tee-tls" /\ (RequiresRetained(p) => doc.observed = b.spki)
    BY <1>7, <1>11, TransportPassed DEF Switches
  <1>17. \E i \in doc.issued : t - i <= MaxAge
    <2>1. PICK i \in doc.issued : t - i <= p.age
      BY <1>7, <1>11, RecentPassed DEF Switches
    <2>2. t \in Nat /\ i \in Nat /\ MaxAge \in Nat /\ p.age \in Nat
      BY <1>2, <1>3, <1>10, <1>14, NumbersAssumption DEF NumbersAssumption, AsLoaded
    <2>3. QED BY <1>11, <2>1, <2>2
  <1>18. Measures(p, Machine) /\ (p.kind = "phala" => b.compose = Machine.compose)
    BY <1>2, <1>5, <1>7, <1>9, MeasuresPassed DEF Machine
  <1>19. ASSUME p.kind = "phala" PROVE Manifests[b.compose].logs = "private"
    <2>1. Accepting(ManifestChecks(p, doc, b))
      BY <1>7, <1>11, <1>19, AcceptingUnion DEF MeasurementChecks
    <2>2. QED BY <1>11, <2>1, ManifestPassed DEF Switches
  <1>20. QED
    BY <1>2, <1>4, <1>9, <1>10, <1>11, <1>12, <1>13, <1>14, <1>15, <1>16, <1>17, <1>18, <1>19
    DEF p, t

----------------------------------------------------------------------------
(* What the document of a reviewed machine is accepted by                  *)

\* What HonestDoc says of a document, part by part.
Answers(d, m) ==
    LET q == d.quote IN
    /\ q.parsed /\ q.tdx /\ q.debug = m.debug /\ q.genuine = m.genuine /\ q.tcb = m.tcb
    /\ q.mrtd = m.mrtd /\ q.rtmr = m.rtmr /\ q.rtmr3 = m.rtmr3 /\ q.cfg = m.cfg
    /\ q.owner = m.owner /\ q.attr = m.attr /\ q.data = BindingHash(Truth(m, Nonce))
    /\ d.binding = Truth(m, Nonce) /\ d.log = GenuineLog(m) /\ d.parses = TRUE
    /\ d.compose = m.compose /\ d.os = Payload(m, "os-image-hash")
    /\ d.issued = {q.at} /\ d.observed = m.spki
    /\ d.pzid = IF m.owner \in DOMAIN Site THEN m.owner ELSE None

LEMMA HonestParts ==
    ASSUME HonestDoc
    PROVE  /\ Answers(doc, Machine)
           /\ Machine.honest /\ ~Machine.debug /\ Machine.genuine /\ Machine.tcb = "UpToDate"
  <1> DEFINE m == Machine
             x == doc.quote.at
             g == Document(m, Truth(m, Nonce), "genuine", m.compose, m.spki)
  <1>1. doc = [g EXCEPT !.quote.at = x, !.issued = {x}] BY DEF HonestDoc
  <1>2. /\ DOMAIN g = {"style", "quote", "binding", "log", "parses", "compose", "os", "issued",
                       "pzid", "observed"}
        /\ g.quote = Quote(m, now, BindingHash(Truth(m, Nonce)))
        /\ g.binding = Truth(m, Nonce) /\ g.log = ShownLog(m, "genuine", m.compose)
        /\ g.parses = TRUE /\ g.compose = m.compose /\ g.os = Payload(m, "os-image-hash")
        /\ g.pzid = (IF m.owner \in DOMAIN Site THEN m.owner ELSE None) /\ g.observed = m.spki
    BY DEF Document
  <1> HIDE DEF g, x
  <1>3. /\ doc.quote = [g.quote EXCEPT !.at = x] /\ doc.issued = {x}
        /\ doc.binding = g.binding /\ doc.log = g.log /\ doc.parses = g.parses
        /\ doc.compose = g.compose /\ doc.os = g.os /\ doc.pzid = g.pzid
        /\ doc.observed = g.observed
    BY <1>1, <1>2
  <1>4. g.log = GenuineLog(m) BY <1>2 DEF ShownLog
  <1> DEFINE f == g.quote
  <1>5. /\ f.parsed /\ f.tdx /\ f.debug = m.debug /\ f.genuine = m.genuine /\ f.tcb = m.tcb
        /\ f.mrtd = m.mrtd /\ f.rtmr = m.rtmr /\ f.rtmr3 = m.rtmr3 /\ f.cfg = m.cfg
        /\ f.owner = m.owner /\ f.attr = m.attr /\ f.data = BindingHash(Truth(m, Nonce))
        /\ DOMAIN f = {"parsed", "tdx", "debug", "mrtd", "rtmr", "rtmr3", "cfg", "owner",
                       "attr", "data", "genuine", "tcb", "by", "at"}
    BY <1>2 DEF Quote
  <1> HIDE DEF f, m
  <1>6. LET q == doc.quote IN
        /\ q.parsed /\ q.tdx /\ q.debug = m.debug /\ q.genuine = m.genuine /\ q.tcb = m.tcb
        /\ q.mrtd = m.mrtd /\ q.rtmr = m.rtmr /\ q.rtmr3 = m.rtmr3 /\ q.cfg = m.cfg
        /\ q.owner = m.owner /\ q.attr = m.attr /\ q.data = BindingHash(Truth(m, Nonce))
    BY <1>3, <1>5 DEF f
  <1>7. Answers(doc, m) BY <1>2, <1>3, <1>4, <1>6 DEF Answers, x
  <1>8. QED BY <1>7 DEF HonestDoc, m

\* What a reviewed program says of itself, as the verifier reads it.
LEMMA TruthFields ==
    ASSUME NEW m
    PROVE  LET b == NormalizeGatewayBinding(Truth(m, Nonce))
           IN  /\ b.nonce = Nonce /\ b.app = m.app /\ b.inst = m.inst /\ b.compose = m.compose
               /\ b.release = m.release /\ b.origin = CanonicalOrigin(Origin)
               /\ b.alg = "ed25519" /\ b.key = m.key /\ b.transport = "in-tee-tls"
               /\ b.spki = m.spki
               /\ BindingHash(b) = b /\ BindingHash(Truth(m, Nonce)) = b
               /\ CanonicalOrigin(Origin) # None /\ m.spki # None => WellFormed(Truth(m, Nonce))
  <1> DEFINE a == Truth(m, Nonce)
             b == NormalizeGatewayBinding(a)
  <1>1. /\ DOMAIN a = Fields /\ a.nonce = Nonce /\ a.app = m.app /\ a.inst = m.inst
        /\ a.compose = m.compose /\ a.release = m.release /\ a.origin = Origin
        /\ a.alg = "ed25519" /\ a.key = m.key /\ a.transport = "in-tee-tls" /\ a.spki = m.spki
        /\ a.strange = FALSE
    BY DEF Truth, Binding, Fields
  <1> HIDE DEF a
  <1>2. b = [a EXCEPT !.origin = CanonicalOrigin(Origin)]
    BY <1>1 DEF NormalizeGatewayBinding, Fields
  <1>3. b.origin = CanonicalOrigin(Origin) /\ DOMAIN b = Fields BY <1>1, <1>2 DEF Fields
  <1>4. [b EXCEPT !.origin = CanonicalOrigin(@)] = b
    BY <1>2, <1>3, SpellingsAssumption DEF SpellingsAssumption, Fields
  <1>5. BindingHash(b) = b /\ BindingHash(a) = b
    BY <1>4 DEF BindingHash, NormalizeGatewayBinding
  <1>6. CanonicalOrigin(Origin) # None /\ m.spki # None => WellFormed(a)
    BY <1>1 DEF WellFormed
  <1>7. QED BY <1>1, <1>2, <1>3, <1>5, <1>6 DEF a, Fields

\* A TD that measured nothing at run time has no event to show, and is a GCP image if
\* it was reviewed; one that measured something is a dstack image.
LEMMA Platforms ==
    ASSUME NEW m \in Machines, m.honest
    PROVE  /\ m.spki \notin {None, "unobserved"}
           /\ m.rtmr3 = <<>> => /\ NativeImage(m) /\ DOMAIN m.events = {}
                                /\ \A name : Payload(m, name) = None
           /\ (\E name : Payload(m, name) # None) => DstackImage(m)
  <1>1. m.spki \notin {None, "unobserved"} /\ (NativeImage(m) \/ DstackImage(m))
    BY ImagesAssumption DEF ImagesAssumption
  <1>2. m.rtmr3 = <<>> => DOMAIN m.events = {}
    <2>1. DOMAIN m.rtmr3 = DOMAIN m.events BY MachinesAssumption DEF MachinesAssumption
    <2>2. DOMAIN <<>> = {} OBVIOUS
    <2>3. QED BY <2>1, <2>2
  <1>3. DOMAIN m.events = {} => \A name : Payload(m, name) = None BY DEF Payload
  <1>4. DstackImage(m) => Payload(m, "app-id") # None BY DEF DstackImage
  <1>5. NativeImage(m) => m.rtmr3 = <<>> BY DEF NativeImage
  <1>6. QED BY <1>1, <1>2, <1>3, <1>4, <1>5

\* A check that passes, or need not, is accepted; checks are accepted one by one.
LEMMA Passed ==
    ASSUME NEW name, NEW x, NEW y, x \/ ~y
    PROVE  Accepting({Check(name, x, y)})
  BY DEF Accepting, Check

LEMMA Satisfied ==
    ASSUME NEW name, NEW x, x
    PROVE  Accepting({Require(name, x)})
  BY DEF Accepting, Require, Check

LEMMA AcceptEach ==
    ASSUME NEW S, \A c \in S : Accepting({c})
    PROVE  Accepting(S)
  BY DEF Accepting

LEMMA QuoteAccepted ==
    ASSUME NEW m \in Machines, NEW d, Answers(d, m), ~m.debug, CanonicalOrigin(Origin) # None
    PROVE  Accepting(QuoteChecks(d, NormalizeGatewayBinding(d.binding), Nonce))
  <1> DEFINE b == NormalizeGatewayBinding(Truth(m, Nonce))
  <1>1. /\ d.binding = Truth(m, Nonce) /\ d.quote.tdx /\ ~d.quote.debug
        /\ d.quote.data = BindingHash(Truth(m, Nonce))
    BY DEF Answers
  <1>2. /\ b.nonce = Nonce /\ b.origin = CanonicalOrigin(Origin)
        /\ BindingHash(b) = b /\ BindingHash(Truth(m, Nonce)) = b
    BY TruthFields
  <1> HIDE DEF b
  <1>3. Accepting(QuoteChecks(d, b, Nonce))
    <2>1. Accepting({Require("quote_is_tdx", d.quote.tdx)}) BY <1>1, Satisfied
    <2>2. Accepting({Require("quote_not_debug", ~d.quote.debug)}) BY <1>1, Satisfied
    <2>3. Accepting({Require("report_data_binds_binding", d.quote.data = BindingHash(b))})
      BY <1>1, <1>2, Satisfied
    <2>4. Accepting({Require("nonce_matches_request", b.nonce = Nonce)}) BY <1>2, Satisfied
    <2>5. HexEqual(CanonicalOrigin(Origin), b.origin) BY <1>2 DEF HexEqual
    <2>6. Accepting({Require("origin_matches_connection",
                             HexEqual(CanonicalOrigin(Origin), b.origin))})
      BY <2>5, Satisfied
    <2>7. QED BY <2>1, <2>2, <2>3, <2>4, <2>6, AcceptEach DEF QuoteChecks
  <1>4. QED BY <1>1, <1>3 DEF b

LEMMA NativeAccepted ==
    ASSUME NEW p, NEW m \in Machines, m.honest, NEW d, Answers(d, m), m.rtmr3 = <<>>,
           m.owner = Zero \/ (p.v3.present /\ \E t \in p.v3.tuples : t.rule # {})
    PROVE  Accepting(NativeChecks(p, d, NormalizeGatewayBinding(d.binding)))
  <1> DEFINE b == NormalizeGatewayBinding(Truth(m, Nonce))
  <1>1. /\ d.binding = Truth(m, Nonce) /\ d.quote.rtmr3 = m.rtmr3
        /\ d.quote.cfg = m.cfg /\ d.quote.owner = m.owner
    BY DEF Answers
  <1>2. b.alg = "ed25519" /\ b.inst = m.inst /\ b.key = m.key BY TruthFields
  <1>3. m.cfg = Zero /\ m.inst = m.key BY Platforms DEF NativeImage
  <1> HIDE DEF b
  <1>4. Accepting(NativeChecks(p, d, b))
    <2> DEFINE zero == /\ d.quote.cfg = Zero
                       /\ \/ d.quote.owner = Zero
                          \/ p.v3.present /\ \E t \in p.v3.tuples : t.rule # {}
    <2>1. zero BY <1>1, <1>3
    <2> HIDE DEF zero
    <2>2. Accepting({Require("rtmr3_unextended", d.quote.rtmr3 = <<>>)}) BY <1>1, Satisfied
    <2>3. Accepting({Require("owner_config_registers_zero", zero)}) BY <2>1, Satisfied
    <2>4. Accepting({Require("instance_id_derives_from_boot_key",
                             b.alg = "ed25519" /\ b.inst = b.key)})
      BY <1>2, <1>3, Satisfied
    <2>5. Accepting({Check("firmware_event_log_replayed", FALSE, FALSE)}) BY Passed
    <2>6. QED BY <2>2, <2>3, <2>4, <2>5, AcceptEach DEF NativeChecks, zero
  <1>5. QED BY <1>1, <1>4 DEF b

LEMMA EventLogAccepted ==
    ASSUME NEW p, TupleForm(p), NEW m \in Machines, DstackImage(m), NEW d, Answers(d, m),
           Payload(m, "key-provider") # None,
           \E t \in p.tuples : t.kp = Payload(m, "key-provider")
    PROVE  Accepting(EventLogChecks(p, d, NormalizeGatewayBinding(d.binding)))
  <1> DEFINE b == NormalizeGatewayBinding(Truth(m, Nonce))
             log == GenuineLog(m)
  <1>1. /\ d.binding = Truth(m, Nonce) /\ d.log = log /\ d.parses = TRUE
        /\ d.quote.rtmr = m.rtmr /\ d.quote.rtmr3 = m.rtmr3
        /\ d.os = Payload(m, "os-image-hash")
    BY DEF Answers
  <1>2. b.app = m.app /\ b.compose = m.compose /\ b.inst = m.inst BY TruthFields
  <1>3. /\ ReplayRtmrs(log, 0) = m.rtmr /\ ReplayRtmrs(log, 3) = m.rtmr3 /\ Committing(log)
    BY GenuineReplays DEF DstackImage
  <1>4. /\ EventLogRead(log)
        /\ Measured(log, "compose-hash") = Payload(m, "compose-hash")
        /\ Measured(log, "app-id") = Payload(m, "app-id")
        /\ Measured(log, "instance-id") = Payload(m, "instance-id")
        /\ Measured(log, "key-provider") = Payload(m, "key-provider")
        /\ Measured(log, "os-image-hash") = Payload(m, "os-image-hash")
    BY GenuineMeasured DEF IdentityEvents
  <1>5. /\ Payload(m, "compose-hash") = m.compose /\ Payload(m, "app-id") = m.app
        /\ Payload(m, "instance-id") \in {None, m.inst} /\ None \notin {m.app, m.compose}
    BY DEF DstackImage
  <1> HIDE DEF b, log
  <1>6. Accepting({KeyProviderCheck(p, log)})
    <2> DEFINE kp == Measured(log, "key-provider")
               pinned == kp # None /\ \E t \in p.tuples : t.kp = kp
    <2>1. pinned BY <1>4
    <2>2. KeyProviderCheck(p, log) = Require("key_provider_pinned", pinned)
      BY DEF KeyProviderCheck
    <2> HIDE DEF pinned
    <2>3. QED BY <2>1, <2>2, Satisfied
  <1>7. Accepting(EventLogChecks(p, d, b))
    <2> DEFINE event(x) == IF d.parses THEN Measured(log, x) ELSE None
               os == event("os-image-hash")
               replays == d.parses /\ ReplayRtmrs(log, 0) = d.quote.rtmr
                                   /\ ReplayRtmrs(log, 3) = d.quote.rtmr3
               commits == d.parses /\ Committing(log)
               instance == (d.parses /\ EventLogRead(log)) /\ event("instance-id") \in {None, b.inst}
               key == IF d.parses THEN KeyProviderCheck(p, log) ELSE KeyProviderCheck(p, <<>>)
               vm == IF os # None /\ d.os # None
                     THEN Require("vm_config_matches_measured_os_image", os = d.os)
                     ELSE Check("vm_config_matches_measured_os_image", FALSE, FALSE)
    <2>1. EventLogChecks(p, d, b) =
            {Require("event_log_replays_rtmrs", replays),
             Require("event_digests_commit_to_payloads", commits),
             Require("compose_hash_measured_in_rtmr3", HexEqual(event("compose-hash"), b.compose)),
             Require("instance_id_measured", instance),
             Require("app_id_measured", HexEqual(event("app-id"), b.app)), key, vm}
      BY <1>1 DEF EventLogChecks
    <2>2. replays /\ commits BY <1>1, <1>3
    <2>3. /\ HexEqual(event("compose-hash"), b.compose) /\ HexEqual(event("app-id"), b.app)
          /\ instance
      BY <1>1, <1>2, <1>4, <1>5 DEF HexEqual
    <2>4. Accepting({key}) BY <1>1, <1>6
    <2>5. Accepting({vm})
      <3>1. os = d.os BY <1>1, <1>4
      <3> HIDE DEF os, event
      <3>2. Accepting({Require("vm_config_matches_measured_os_image", os = d.os)})
        BY <3>1, Satisfied
      <3>3. Accepting({Check("vm_config_matches_measured_os_image", FALSE, FALSE)}) BY Passed
      <3>4. QED BY <3>2, <3>3
    <2> HIDE DEF event, replays, commits, instance, key, vm, os
    <2>6. /\ Accepting({Require("event_log_replays_rtmrs", replays)})
          /\ Accepting({Require("event_digests_commit_to_payloads", commits)})
          /\ Accepting({Require("instance_id_measured", instance)})
      BY <2>2, <2>3, Satisfied
    <2>7. /\ Accepting({Require("compose_hash_measured_in_rtmr3",
                                HexEqual(event("compose-hash"), b.compose))})
          /\ Accepting({Require("app_id_measured", HexEqual(event("app-id"), b.app))})
      BY <2>3, Satisfied
    <2>8. QED BY <2>1, <2>4, <2>5, <2>6, <2>7, AcceptEach
  <1>8. QED BY <1>1, <1>7 DEF b

LEMMA ManifestAccepted ==
    ASSUME NEW p, NEW m \in Machines, DstackImage(m), NEW d, Answers(d, m)
    PROVE  Accepting(ManifestChecks(p, d, NormalizeGatewayBinding(d.binding)))
  <1> DEFINE b == NormalizeGatewayBinding(Truth(m, Nonce))
  <1>1. d.binding = Truth(m, Nonce) /\ d.compose = m.compose BY DEF Answers
  <1>2. b.compose = m.compose BY TruthFields
  <1>3. /\ AppCompose(d.compose).hash = m.compose /\ AppCompose(d.compose).logs = "private"
        /\ AppCompose(d.compose).pinned /\ m.compose # None
    BY <1>1 DEF DstackImage, AppCompose
  <1> HIDE DEF b
  <1>4. Accepting(ManifestChecks(p, d, b))
    <2> DEFINE a == AppCompose(d.compose)
               read == {Require("app_compose_parsed", a.hash # None),
                        Require("app_compose_matches_measurement", HexEqual(a.hash, b.compose))}
               private == {Require("compose_public_logs_disabled", a.logs = "private")}
               pinned == {Require("compose_images_digest_pinned", a.pinned)}
               logs == When("privateLogs" \in p.req, private)
               images == When("pinnedImages" \in p.req, pinned)
    <2>1. a.hash # None /\ HexEqual(a.hash, b.compose) BY <1>2, <1>3 DEF HexEqual
    <2>2. a.logs = "private" /\ a.pinned BY <1>3
    <2>3. ManifestChecks(p, d, b) = (read \cup logs) \cup images BY DEF ManifestChecks
    <2> HIDE DEF a
    <2>4. Accepting(read)
      <3>1. Accepting({Require("app_compose_parsed", a.hash # None)}) BY <2>1, Satisfied
      <3>2. Accepting({Require("app_compose_matches_measurement", HexEqual(a.hash, b.compose))})
        BY <2>1, Satisfied
      <3>3. QED BY <3>1, <3>2, AcceptEach
    <2>5. Accepting(private) /\ Accepting(pinned) BY <2>2, Satisfied
    <2> HIDE DEF read, private, pinned
    <2>6. Accepting(logs) /\ Accepting(images) BY <2>5 DEF When, Accepting
    <2> HIDE DEF logs, images
    <2>7. QED BY <2>3, <2>4, <2>6, AcceptingUnion
  <1>5. QED BY <1>1, <1>4 DEF b

LEMMA IdentityAccepted ==
    ASSUME NEW p, NEW m, NEW d, Answers(d, m), CanonicalOrigin(Origin) \in p.origins,
           p.v3.present \/ (m.app \in p.apps /\ m.compose \in p.composes /\ m.release \in p.releases)
    PROVE  Accepting(IdentityChecks(p, NormalizeGatewayBinding(d.binding)))
  <1> DEFINE b == NormalizeGatewayBinding(Truth(m, Nonce))
  <1>1. d.binding = Truth(m, Nonce) BY DEF Answers
  <1>2. /\ b.app = m.app /\ b.compose = m.compose /\ b.release = m.release
        /\ b.origin = CanonicalOrigin(Origin)
    BY TruthFields
  <1> HIDE DEF b
  <1>3. Accepting(IdentityChecks(p, b))
    <2> DEFINE S == {Require("app_id_pinned", b.app \in p.apps),
                     Require("compose_hash_pinned", b.compose \in p.composes),
                     Require("release_pinned", b.release \in p.releases)}
    <2>1. ASSUME ~p.v3.present PROVE Accepting(S)
      <3>1. Accepting({Require("app_id_pinned", b.app \in p.apps)}) BY <1>2, <2>1, Satisfied
      <3>2. Accepting({Require("compose_hash_pinned", b.compose \in p.composes)})
        BY <1>2, <2>1, Satisfied
      <3>3. Accepting({Require("release_pinned", b.release \in p.releases)})
        BY <1>2, <2>1, Satisfied
      <3>4. QED BY <3>1, <3>2, <3>3, AcceptEach
    <2>2. Accepting({Require("origin_pinned", b.origin \in p.origins)}) BY <1>2, Satisfied
    <2> HIDE DEF S
    <2>3. Accepting(When(~p.v3.present, S)) BY <2>1 DEF When, Accepting
    <2>4. QED BY <2>2, <2>3, AcceptingUnion DEF IdentityChecks, S
  <1>4. QED BY <1>1, <1>3 DEF b

LEMMA TransportAccepted ==
    ASSUME NEW p, NEW m, NEW d, Answers(d, m), m.spki \notin {None, "unobserved"},
           NEW r, RequiresRetained(p) => r
    PROVE  Accepting(TransportChecks(p, NormalizeGatewayBinding(d.binding), d.observed, r))
  <1> DEFINE b == NormalizeGatewayBinding(Truth(m, Nonce))
  <1>1. d.binding = Truth(m, Nonce) /\ d.observed = m.spki BY DEF Answers
  <1>2. b.transport = "in-tee-tls" /\ b.spki = m.spki BY TruthFields
  <1> HIDE DEF b
  <1>3. Accepting(TransportChecks(p, b, d.observed, r))
    <2> DEFINE o == d.observed
               inTee == b.transport = "in-tee-tls"
               bound == o # "unobserved" /\ HexEqual(o, b.spki)
    <2>1. inTee /\ bound BY <1>1, <1>2 DEF HexEqual
    <2> HIDE DEF inTee, bound
    <2>2. Accepting({Require("transport_terminates_in_tee", inTee)}) BY <2>1, Satisfied
    <2>3. Accepting({Check("transport_terminates_in_tee", inTee, FALSE)}) BY <2>1, Passed
    <2>4. Accepting({Require("tls_certificate_bound_to_quote", bound)}) BY <2>1, Satisfied
    <2>5. Accepting({Check("tls_certificate_bound_to_quote", bound, o # "unobserved")})
      BY <2>1, Passed
    <2>6. RequiresRetained(p) => Accepting({Require("tls_observed_on_retained_connection", r)})
      BY Satisfied
    <2>7. TransportChecks(p, b, o, r) =
            IF RequiresRetained(p)
            THEN {Require("transport_terminates_in_tee", inTee),
                  Require("tls_certificate_bound_to_quote", bound),
                  Require("tls_observed_on_retained_connection", r)}
            ELSE IF "inTeeTls" \in p.req
            THEN {Require("transport_terminates_in_tee", inTee),
                  Check("tls_certificate_bound_to_quote", bound, o # "unobserved")}
            ELSE {Check("transport_terminates_in_tee", inTee, FALSE)}
      BY DEF TransportChecks, inTee, bound
    <2>8. QED BY <2>2, <2>3, <2>4, <2>5, <2>6, <2>7, AcceptEach
  <1>4. QED BY <1>1, <1>3 DEF b

LEMMA RecentAccepted ==
    ASSUME NEW p, p.age \in Nat, NEW m, NEW d, Answers(d, m), NEW t \in Nat,
           d.quote.at \in Nat, d.quote.at <= t, t - d.quote.at <= p.age
    PROVE  Accepting({RecentCheck(p, d, t)})
  <1>1. d.quote.at \in d.issued BY DEF Answers
  <1>2. d.quote.at <= t + Skew BY DEF Skew
  <1>3. QED BY <1>1, <1>2 DEF Accepting, RecentCheck, Check

LEMMA ChainAccepted ==
    ASSUME NEW p, p.tcbs = {"UpToDate"}, NEW m, m.genuine, m.tcb = "UpToDate",
           NEW d, Answers(d, m)
    PROVE  Accepting(ChainChecks(p, d, "works"))
  BY DEF Answers, ChainChecks, Accepting, Check

LEMMA FloorAccepted ==
    ASSUME NEW p, Floor(p), TupleForm(p)
    PROVE  Accepting(FloorChecks(p))
  <1>1. KindOf(p) \in Qualified BY FloorKinds DEF Qualified
  <1>2. QED BY <1>1 DEF FloorChecks, When, Accepting, Require, Check

\* A verdict accepts when every group of checks does.
LEMMA GroupsAccept ==
    ASSUME NEW p, NEW d, NEW e, NEW n, NEW o, NEW r, NEW t, WellFormed(d.binding),
           d.quote.parsed, Accepting(FloorChecks(p)),
           Accepting(QuoteChecks(d, NormalizeGatewayBinding(d.binding), n)),
           Accepting(MeasurementChecks(p, d, NormalizeGatewayBinding(d.binding))),
           Accepting(IdentityChecks(p, NormalizeGatewayBinding(d.binding))),
           Accepting(ReleaseChecks(p, d, NormalizeGatewayBinding(d.binding), t)),
           Accepting(TransportChecks(p, NormalizeGatewayBinding(d.binding), o, r)),
           Accepting({RecentCheck(p, d, t)}), Accepting(ChainChecks(p, d, e))
    PROVE  VerifyGatewayAttestation(p, d, e, n, o, r, t).ok
  <1> DEFINE b == NormalizeGatewayBinding(d.binding)
             v == VerifyGatewayAttestation(p, d, e, n, o, r, t)
             read == {Require("quote_parsed", TRUE)}
                      \cup QuoteChecks(d, b, n) \cup MeasurementChecks(p, d, b)
                      \cup IdentityChecks(p, b) \cup ReleaseChecks(p, d, b, t)
                      \cup TransportChecks(p, b, o, r)
                      \cup {RecentCheck(p, d, t)} \cup ChainChecks(p, d, e)
             quoted == IF ~d.quote.parsed THEN {Require("quote_parsed", FALSE)} ELSE read
             bound == IF ~WellFormed(d.binding) THEN {Require("binding_wellformed", FALSE)}
                      ELSE {Require("binding_wellformed", TRUE)} \cup quoted
             checks == FloorChecks(p) \cup bound
             chain == \A c \in ChainChecks(p, d, e) : c.passed
             identity == IF p.v3.present THEN MatchOf(p.v3, d).identity ELSE "not-applicable"
  <1>1. v = IF Accepting(checks)
            THEN Verdict(TRUE, IF chain THEN "hardware-verified" ELSE "provider-attested",
                         checks, identity, IF identity = "verified" THEN d.pzid ELSE None, t)
            ELSE Verdict(FALSE, "unverified", checks, None, None, t)
    BY DEF VerifyGatewayAttestation
  <1>2. \A name : Accepting({Require(name, TRUE)}) BY DEF Accepting, Require, Check
  <1>3. Accepting(read)
    <2> DEFINE quote == QuoteChecks(d, b, n)
               measurement == MeasurementChecks(p, d, b)
               ids == IdentityChecks(p, b)
               release == ReleaseChecks(p, d, b, t)
               transport == TransportChecks(p, b, o, r)
               recent == {RecentCheck(p, d, t)}
               hardware == ChainChecks(p, d, e)
    <2>1. /\ Accepting(quote) /\ Accepting(measurement) /\ Accepting(ids) /\ Accepting(release)
          /\ Accepting(transport) /\ Accepting(recent) /\ Accepting(hardware)
      OBVIOUS
    <2>2. read = {Require("quote_parsed", TRUE)} \cup quote \cup measurement \cup ids
                   \cup release \cup transport \cup recent \cup hardware
      OBVIOUS
    <2> HIDE DEF read, quote, measurement, ids, release, transport, recent, hardware
    <2>3. QED BY <1>2, <2>1, <2>2 DEF Accepting
  <1>4. Accepting(checks)
    <2>1. quoted = read OBVIOUS
    <2>2. bound = {Require("binding_wellformed", TRUE)} \cup quoted OBVIOUS
    <2> HIDE DEF read, quoted, bound
    <2>3. QED BY <1>2, <1>3, <2>1, <2>2, AcceptingUnion
  <1> HIDE DEF checks, chain, identity, v
  <1>5. QED BY <1>1, <1>4 DEF Verdict, v

\* Under a v3 policy that approves the machine, the quote matches that one tuple.
LEMMA V3Accepted ==
    ASSUME NEW p, p.v3.present, ValidV3(p.v3), NEW m \in Machines, NEW d, Answers(d, m),
           NEW t0, Approves(p, m, t0)
    PROVE  /\ Accepting(V3Checks(p.v3, d))
           /\ m.rtmr3 = <<>>
           /\ m.owner = Zero \/ \E t \in p.v3.tuples : t.rule # {}
  <1> DEFINE v3 == p.v3
             q == d.quote
             vm == GceInstanceFromMrOwner(d.pzid, q.owner)
  <1>1. PICK t \in v3.tuples : /\ Listing(v3, m) = {t} /\ m.rtmr3 = <<>>
                               /\ v3.pzid => t.rule # {}
                               /\ Registers(m) \notin v3.revoked
    BY DEF Approves
  <1>2. /\ q.mrtd = m.mrtd /\ q.rtmr = m.rtmr /\ q.rtmr3 = m.rtmr3 /\ q.cfg = m.cfg
        /\ q.owner = m.owner /\ q.attr = m.attr
        /\ d.pzid = IF m.owner \in DOMAIN Site THEN m.owner ELSE None
    BY DEF Answers
  <1>3. None \notin DOMAIN Site /\ Zero \notin DOMAIN Site
    BY SpellingsAssumption DEF SpellingsAssumption
  <1>4. d.pzid # None => vm # None
    BY <1>2, <1>3 DEF GceInstanceFromMrOwner
  <1>5. m.owner \in DOMAIN Site => vm = m.owner /\ m.owner # Zero
    BY <1>2, <1>3 DEF GceInstanceFromMrOwner
  <1> DEFINE same == {x \in v3.tuples : /\ x.mrtd = q.mrtd /\ x.rtmr = q.rtmr
                                       /\ x.cfg = q.cfg /\ x.rtmr3 = q.rtmr3 /\ x.attr = q.attr}
             identity(x) ==
                CASE x.rule = {} -> IF x.owner = Zero /\ q.owner = Zero
                                    THEN "not-applicable" ELSE None
                  [] x.rule # {} ->
                        IF x.owner # Zero \/ q.owner = Zero THEN None
                        ELSE IF vm # None
                        THEN IF GcePzidRuleAdmits(x.rule, vm) THEN "verified" ELSE None
                        ELSE IF d.pzid = None THEN "unverified" ELSE None
             found == IF t.rule = {} THEN "not-applicable" ELSE "verified"
  <1>6. Matches(v3, d) = {[tuple |-> x, identity |-> identity(x)] :
                            x \in {x \in same : identity(x) # None}}
    BY DEF Matches
  <1> HIDE DEF v3, q, vm, same, identity, found
  <1>7. /\ t \in Listing(v3, m) /\ t \in v3.tuples
        /\ (m.owner = Zero /\ t.rule = {}) \/ (m.owner \in DOMAIN Site /\ t.rule # {})
    <2>1. t \in v3.tuples /\ t \in Listing(v3, m) BY <1>1
    <2>2. IF t.rule = {} THEN m.owner = Zero ELSE m.owner \in DOMAIN Site BY <2>1 DEF Listing
    <2>3. CASE t.rule = {} BY <2>1, <2>2, <2>3
    <2>4. CASE t.rule # {} BY <2>1, <2>2, <2>4
    <2>5. QED BY <2>3, <2>4
  <1>8. {x \in same : identity(x) # None} = Listing(v3, m)
    <2>1. ASSUME NEW x \in same
          PROVE  identity(x) # None <=> x \in Listing(v3, m)
      <3>1. /\ x \in v3.tuples /\ x.mrtd = m.mrtd /\ x.rtmr = m.rtmr /\ x.cfg = m.cfg
            /\ x.attr = m.attr /\ x.rtmr3 = <<>>
        BY <1>1, <1>2 DEF same
      <3>2. x \in Listing(v3, m) <=>
              /\ x.owner = Zero
              /\ IF x.rule = {} THEN m.owner = Zero
                 ELSE m.owner \in DOMAIN Site /\ Site[m.owner] \in x.rule
        BY <3>1 DEF Listing
      <3>3. CASE x.rule = {}
        BY <1>2, <3>2, <3>3 DEF identity, None
      <3>4. CASE x.rule # {} /\ m.owner = Zero
        BY <1>2, <1>3, <3>2, <3>4 DEF identity
      <3>5. CASE x.rule # {} /\ m.owner \in DOMAIN Site
        <4>1. vm # None /\ q.owner # Zero /\ vm = m.owner BY <1>2, <1>3, <1>5, <3>5
        <4>2. identity(x) # None <=> x.owner = Zero /\ Site[m.owner] \in x.rule
          BY <3>5, <4>1 DEF identity, GcePzidRuleAdmits, None
        <4>3. QED BY <3>2, <3>5, <4>2
      <3>6. QED BY <1>7, <3>3, <3>4, <3>5
    <2>2. Listing(v3, m) \subseteq same
      BY <1>1, <1>2 DEF Listing, same
    <2>3. QED BY <2>1, <2>2
  <1>9. identity(t) = found
    <2>1. t.owner = Zero /\ (t.rule # {} => Site[m.owner] \in t.rule) BY <1>7 DEF Listing
    <2>2. CASE t.rule = {} BY <1>2, <1>3, <1>7, <2>1, <2>2 DEF identity, found
    <2>3. CASE t.rule # {}
      <3>1. vm # None /\ q.owner # Zero /\ vm = m.owner BY <1>2, <1>3, <1>5, <1>7, <2>3
      <3>2. QED BY <2>1, <2>3, <3>1 DEF identity, found, GcePzidRuleAdmits
    <2>4. QED BY <2>2, <2>3
  <1>10. Matches(v3, d) = {[tuple |-> t, identity |-> found]} BY <1>1, <1>6, <1>8, <1>9
  <1>11. MatchOf(v3, d) = [tuple |-> t, identity |-> found]
    <2>1. Cardinality(Matches(v3, d)) = 1 BY <1>10, FS_Singleton
    <2>2. QED BY <1>10, <2>1 DEF MatchOf
  <1> DEFINE match == MatchOf(v3, d)
             id == match.identity
             revoked == /\ Registers(q) \notin v3.revoked
                        /\ id # None => TupleDigest(match.tuple) \notin v3.revoked
             presented == When(d.pzid # None, {Require("gce_pzid_matches_mrowner", vm # None)})
             listed == {Require("release_tuple_not_revoked", revoked),
                        Require("release_tuple_matched", id # None)}
             shown == When(id \in {"verified", "unverified"},
                           {Check("gce_instance_identity", id = "verified",
                                  v3.pzid \/ id = "verified")})
             missing == When(v3.pzid /\ id \in {None, "not-applicable"},
                             {Require("gce_instance_identity", FALSE)})
  <1>12. /\ id = found /\ match.tuple = t /\ id # None /\ id # "unverified"
         /\ v3.pzid => id = "verified"
    BY <1>1, <1>11 DEF found, None
  <1>13. revoked
    <2>1. Registers(q) = Registers(m) BY <1>2 DEF Registers
    <2>2. TupleDigest(t) \notin v3.revoked BY <1>7 DEF ValidV3, v3
    <2>3. QED BY <1>1, <1>12, <2>1, <2>2
  <1>14. V3Checks(v3, d) = presented \cup listed \cup shown \cup missing
    BY DEF V3Checks, vm, q
  <1> HIDE DEF match, id, revoked, presented, listed, shown, missing
  <1>15. Accepting(presented)
    <2>1. CASE d.pzid # None
      <3>1. Accepting({Require("gce_pzid_matches_mrowner", vm # None)})
        BY <1>4, <2>1, Satisfied
      <3>2. QED BY <2>1, <3>1 DEF presented, When
    <2>2. CASE d.pzid = None BY <2>2 DEF presented, When, Accepting
    <2>3. QED BY <2>1, <2>2
  <1>16. Accepting(listed)
    <2>1. Accepting({Require("release_tuple_not_revoked", revoked)}) BY <1>13, Satisfied
    <2>2. Accepting({Require("release_tuple_matched", id # None)}) BY <1>12, Satisfied
    <2>3. QED BY <2>1, <2>2, AcceptEach DEF listed
  <1>17. Accepting(shown)
    <2>1. CASE id = "verified"
      <3>1. Accepting({Check("gce_instance_identity", id = "verified",
                             v3.pzid \/ id = "verified")})
        BY <2>1, Passed
      <3>2. QED BY <2>1, <3>1 DEF shown, When
    <2>2. CASE id # "verified"
      <3>1. id \notin {"verified", "unverified"} BY <1>12, <2>2
      <3>2. QED BY <3>1 DEF shown, When, Accepting
    <2>3. QED BY <2>1, <2>2
  <1>18. Accepting(missing)
    <2>1. ~(v3.pzid /\ id \in {None, "not-applicable"}) BY <1>12 DEF None
    <2>2. QED BY <2>1 DEF missing, When, Accepting
  <1>19. Accepting(V3Checks(v3, d)) BY <1>14, <1>15, <1>16, <1>17, <1>18, AcceptingUnion
  <1>20. QED BY <1>1, <1>7, <1>19 DEF v3

\* Under a tuple-form policy of dstack, what the checks compare with the quote and
\* the log is what the machine is.
LEMMA TupleJudged ==
    ASSUME NEW p, p.kind = "phala", ~p.v3.present, ValidTuples("phala", p.tuples),
           NEW m \in Machines, m.honest, NEW d, Answers(d, m), NEW t0
    PROVE  LET checks == TupleChecks(p, d, NormalizeGatewayBinding(d.binding), t0)
           IN  /\ Approves(p, m, t0) => /\ Accepting(checks) /\ DstackImage(m)
                                       /\ Payload(m, "key-provider") # None
                                       /\ \E t \in p.tuples : t.kp = Payload(m, "key-provider")
               /\ (\A c \in checks : c.passed) => Approves(p, m, t0)
  <1> DEFINE b == NormalizeGatewayBinding(Truth(m, Nonce))
             q == d.quote
             log == GenuineLog(m)
             event(n) == IF d.parses THEN Measured(d.log, n) ELSE None
             matches(t) ==
               /\ t.release = b.release /\ t.app = b.app /\ t.compose = b.compose
               /\ t.mrtd = q.mrtd /\ t.rtmr = q.rtmr
               /\ IF KindOf(p) = "gcp" THEN t.attr = q.attr
                  ELSE /\ d.parses /\ EventLogRead(d.log) /\ t.cfg = q.cfg
                       /\ t.os = event("os-image-hash") /\ t.kp = event("key-provider")
             matched == \E t \in p.tuples : matches(t) /\ t.from <= t0 /\ t0 < t.until
  <1>1. /\ d.binding = Truth(m, Nonce) /\ d.log = log /\ d.parses = TRUE
        /\ q.mrtd = m.mrtd /\ q.rtmr = m.rtmr /\ q.cfg = m.cfg
    BY DEF Answers
  <1>2. b.release = m.release /\ b.app = m.app /\ b.compose = m.compose BY TruthFields
  <1>3. KindOf(p) # "gcp" BY DEF KindOf, None
  <1>4. TupleChecks(p, d, b, t0) = {Require("release_tuple_matched", matched)}
    BY DEF TupleChecks
  <1>5. \A t \in p.tuples : None \notin {t.cfg, t.os, t.kp}
    BY DEF ValidTuples, ValidTuple
  <1>6. DstackImage(m) =>
          /\ EventLogRead(log)
          /\ Measured(log, "os-image-hash") = Payload(m, "os-image-hash")
          /\ Measured(log, "key-provider") = Payload(m, "key-provider")
    BY GenuineMeasured DEF IdentityEvents
  <1> HIDE DEF b, q, log
  <1>7. ASSUME Approves(p, m, t0)
        PROVE  /\ matched /\ DstackImage(m) /\ Payload(m, "key-provider") # None
               /\ \E t \in p.tuples : t.kp = Payload(m, "key-provider")
    <2>1. PICK t \in p.tuples :
            /\ t.mrtd = m.mrtd /\ t.rtmr = m.rtmr /\ t.release = m.release
            /\ t.app = m.app /\ t.compose = m.compose /\ t.from <= t0 /\ t0 < t.until
            /\ t.cfg = m.cfg /\ t.os = Payload(m, "os-image-hash")
            /\ t.kp = Payload(m, "key-provider")
      BY <1>7 DEF Approves
    <2>2. Payload(m, "key-provider") # None BY <1>5, <2>1
    <2>3. DstackImage(m) BY <2>2, Platforms
    <2>4. matches(t) BY <1>1, <1>2, <1>3, <1>6, <2>1, <2>3
    <2>5. matched BY <2>1, <2>4
    <2>6. QED BY <2>1, <2>2, <2>3, <2>5
  <1>8. ASSUME matched PROVE Approves(p, m, t0)
    <2>1. PICK t \in p.tuples : matches(t) /\ t.from <= t0 /\ t0 < t.until BY <1>8
    <2>2. /\ t.release = m.release /\ t.app = m.app /\ t.compose = m.compose
          /\ t.mrtd = m.mrtd /\ t.rtmr = m.rtmr /\ t.cfg = m.cfg
          /\ t.os = Measured(log, "os-image-hash") /\ t.kp = Measured(log, "key-provider")
      BY <1>1, <1>2, <1>3, <2>1
    <2>3. Measured(log, "os-image-hash") # None BY <1>5, <2>2
    <2>4. DstackImage(m)
      <3>1. CASE m.rtmr3 = <<>>
        <4>1. DOMAIN m.events = {} /\ \A name : Payload(m, name) = None BY <3>1, Platforms
        <4>2. ReplayRtmrs(log, 3) = m.rtmr3 BY <4>1, GenuineReplays DEF log
        <4>3. \E n \in Nat : DOMAIN log = 1..n
          <5>1. ShownLog(m, "genuine", None) = log BY DEF ShownLog, log
          <5>2. QED BY <5>1, LogListed
        <4>4. Payload(m, "os-image-hash") # None
          BY <2>3, <4>2, <4>3, MeasuredTruth DEF IdentityEvents
        <4>5. QED BY <4>1, <4>4
      <3>2. CASE m.rtmr3 # <<>>
        BY <3>2, ImagesAssumption DEF ImagesAssumption, NativeImage
      <3>3. QED BY <3>1, <3>2
    <2>5. t.os = Payload(m, "os-image-hash") /\ t.kp = Payload(m, "key-provider")
      BY <1>6, <2>2, <2>4
    <2>6. QED BY <2>1, <2>2, <2>5 DEF Approves
  <1> HIDE DEF matched
  <1>9. matched => Accepting(TupleChecks(p, d, b, t0)) BY <1>4, Satisfied
  <1>10. (\A c \in TupleChecks(p, d, b, t0) : c.passed) => matched
    BY <1>4 DEF Require, Check
  <1>11. QED BY <1>1, <1>7, <1>8, <1>9, <1>10 DEF b

\* Under a tuple-form policy of GCP, the tuple that approves the machine matches.
LEMMA NativeTupleAccepted ==
    ASSUME NEW p, p.kind = "gcp", ~p.v3.present, NEW m, NEW d, Answers(d, m),
           NEW t0, Approves(p, m, t0)
    PROVE  /\ Accepting(TupleChecks(p, d, NormalizeGatewayBinding(d.binding), t0))
           /\ m.rtmr3 = <<>> /\ m.owner = Zero
  <1> DEFINE b == NormalizeGatewayBinding(Truth(m, Nonce))
             q == d.quote
             event(n) == IF d.parses THEN Measured(d.log, n) ELSE None
             matches(t) ==
               /\ t.release = b.release /\ t.app = b.app /\ t.compose = b.compose
               /\ t.mrtd = q.mrtd /\ t.rtmr = q.rtmr
               /\ IF KindOf(p) = "gcp" THEN t.attr = q.attr
                  ELSE /\ d.parses /\ EventLogRead(d.log) /\ t.cfg = q.cfg
                       /\ t.os = event("os-image-hash") /\ t.kp = event("key-provider")
             matched == \E t \in p.tuples : matches(t) /\ t.from <= t0 /\ t0 < t.until
  <1>1. /\ d.binding = Truth(m, Nonce)
        /\ q.mrtd = m.mrtd /\ q.rtmr = m.rtmr /\ q.attr = m.attr
    BY DEF Answers
  <1>2. b.release = m.release /\ b.app = m.app /\ b.compose = m.compose BY TruthFields
  <1>3. KindOf(p) = "gcp" BY DEF KindOf, None
  <1>4. TupleChecks(p, d, b, t0) = {Require("release_tuple_matched", matched)}
    BY DEF TupleChecks
  <1>5. PICK t \in p.tuples :
          /\ t.mrtd = m.mrtd /\ t.rtmr = m.rtmr /\ t.release = m.release
          /\ t.app = m.app /\ t.compose = m.compose /\ t.from <= t0 /\ t0 < t.until
          /\ t.attr = m.attr /\ m.owner = Zero /\ m.rtmr3 = <<>>
    BY DEF Approves
  <1> HIDE DEF b, q
  <1>6. matches(t) BY <1>1, <1>2, <1>3, <1>5
  <1>7. matched BY <1>5, <1>6
  <1> HIDE DEF matched
  <1>8. Accepting(TupleChecks(p, d, b, t0)) BY <1>4, <1>7, Satisfied
  <1>9. QED BY <1>1, <1>5, <1>8 DEF b

\* The measurements, the identity and the release, of whichever form the policy is.
LEMMA PlatformAccepted ==
    ASSUME NEW p, AsLoaded(p), Floor(p), TupleForm(p), CanonicalOrigin(Origin) \in p.origins,
           NEW m \in Machines, m.honest, NEW d, Answers(d, m), NEW t0, Approves(p, m, t0)
    PROVE  LET b == NormalizeGatewayBinding(d.binding)
           IN  /\ Accepting(MeasurementChecks(p, d, b)) /\ Accepting(IdentityChecks(p, b))
               /\ Accepting(ReleaseChecks(p, d, b, t0))
  <1> DEFINE b == NormalizeGatewayBinding(d.binding)
  <1>1. /\ p.kind \in {"phala", "gcp"} /\ KindOf(p) = p.kind
        /\ p.v3.present => p.kind = "gcp" /\ ValidV3(p.v3)
        /\ ~p.v3.present => ValidTuples(p.kind, p.tuples) /\ Derived(p)
    BY FloorKinds DEF Floor, None
  <1>2. ASSUME ~p.v3.present
        PROVE  m.app \in p.apps /\ m.compose \in p.composes /\ m.release \in p.releases
    <2>1. \E t \in p.tuples : t.release = m.release /\ t.app = m.app /\ t.compose = m.compose
      BY <1>2 DEF Approves
    <2>2. QED BY <1>1, <1>2, <2>1 DEF Derived
  <1>3. Accepting(IdentityChecks(p, b)) BY <1>2, IdentityAccepted
  <1>4. CASE p.v3.present
    <2>1. /\ Accepting(V3Checks(p.v3, d)) /\ m.rtmr3 = <<>>
          /\ m.owner = Zero \/ \E t \in p.v3.tuples : t.rule # {}
      BY <1>1, <1>4, V3Accepted
    <2>2. Accepting(NativeChecks(p, d, b)) BY <1>4, <2>1, NativeAccepted
    <2>3. MeasurementChecks(p, d, b) = NativeChecks(p, d, b)
      BY <1>1, <1>4 DEF MeasurementChecks
    <2>4. ReleaseChecks(p, d, b, t0) = V3Checks(p.v3, d) BY <1>4 DEF ReleaseChecks
    <2>5. QED BY <1>3, <2>1, <2>2, <2>3, <2>4
  <1>5. CASE ~p.v3.present /\ p.kind = "gcp"
    <2>1. Accepting(TupleChecks(p, d, b, t0)) /\ m.rtmr3 = <<>> /\ m.owner = Zero
      BY <1>5, NativeTupleAccepted
    <2>2. Accepting(NativeChecks(p, d, b)) BY <2>1, NativeAccepted
    <2>3. MeasurementChecks(p, d, b) = NativeChecks(p, d, b)
      BY <1>1, <1>5 DEF MeasurementChecks
    <2>4. ReleaseChecks(p, d, b, t0) = TupleChecks(p, d, b, t0) BY <1>5 DEF ReleaseChecks
    <2>5. QED BY <1>3, <2>1, <2>2, <2>3, <2>4
  <1>6. CASE ~p.v3.present /\ p.kind = "phala"
    <2>1. ValidTuples("phala", p.tuples) BY <1>1, <1>6
    <2>2. /\ Accepting(TupleChecks(p, d, b, t0)) /\ DstackImage(m)
          /\ Payload(m, "key-provider") # None
          /\ \E t \in p.tuples : t.kp = Payload(m, "key-provider")
      BY <1>6, <2>1, TupleJudged
    <2>3. Accepting(EventLogChecks(p, d, b)) BY <2>2, EventLogAccepted
    <2>4. Accepting(ManifestChecks(p, d, b)) BY <2>2, ManifestAccepted
    <2>5. MeasurementChecks(p, d, b) = EventLogChecks(p, d, b) \cup ManifestChecks(p, d, b)
      BY <1>1, <1>6 DEF MeasurementChecks
    <2>6. ReleaseChecks(p, d, b, t0) = TupleChecks(p, d, b, t0) BY <1>6 DEF ReleaseChecks
    <2>7. QED BY <1>3, <2>2, <2>3, <2>4, <2>5, <2>6, AcceptingUnion
  <1>7. QED BY <1>1, <1>4, <1>5, <1>6

\* What a reviewed machine answers is accepted by every policy that approves it.
LEMMA HonestApproved ==
    ASSUME NEW p, AsLoaded(p), Floor(p), TupleForm(p), CanonicalOrigin(Origin) \in p.origins,
           NEW m \in Machines, m.honest, ~m.debug, m.genuine, m.tcb = "UpToDate",
           NEW d, Answers(d, m), NEW t0 \in Nat, d.quote.at \in Nat, d.quote.at <= t0,
           t0 - d.quote.at <= p.age, NEW r, RequiresRetained(p) => r, Approves(p, m, t0)
    PROVE  VerifyGatewayAttestation(p, d, "works", Nonce, d.observed, r, t0).ok
  <1>1. p.age \in Nat /\ CanonicalOrigin(Origin) # None BY DEF AsLoaded
  <1>2. m.spki \notin {None, "unobserved"} BY Platforms
  <1>3. WellFormed(d.binding) /\ d.quote.parsed BY <1>1, <1>2, TruthFields DEF Answers
  <1>4. Accepting(FloorChecks(p)) BY FloorAccepted
  <1>5. Accepting(QuoteChecks(d, NormalizeGatewayBinding(d.binding), Nonce))
    BY <1>1, QuoteAccepted
  <1>6. /\ Accepting(MeasurementChecks(p, d, NormalizeGatewayBinding(d.binding)))
        /\ Accepting(IdentityChecks(p, NormalizeGatewayBinding(d.binding)))
        /\ Accepting(ReleaseChecks(p, d, NormalizeGatewayBinding(d.binding), t0))
    BY PlatformAccepted
  <1>7. Accepting(TransportChecks(p, NormalizeGatewayBinding(d.binding), d.observed, r))
    BY <1>2, TransportAccepted
  <1>8. Accepting({RecentCheck(p, d, t0)}) BY <1>1, RecentAccepted
  <1>9. Accepting(ChainChecks(p, d, "works")) BY ChainAccepted DEF Floor
  <1>10. QED BY <1>3, <1>4, <1>5, <1>6, <1>7, <1>8, <1>9, GroupsAccept

\* A verdict shows the checks of the hardware chain and of the release it made.
LEMMA ChecksShown ==
    ASSUME NEW p, NEW d, NEW e, NEW n, NEW o, NEW r, NEW t, WellFormed(d.binding),
           d.quote.parsed
    PROVE  /\ ChainChecks(p, d, e) \subseteq VerifyGatewayAttestation(p, d, e, n, o, r, t).checks
           /\ ReleaseChecks(p, d, NormalizeGatewayBinding(d.binding), t)
                \subseteq VerifyGatewayAttestation(p, d, e, n, o, r, t).checks
  <1> DEFINE b == NormalizeGatewayBinding(d.binding)
             v == VerifyGatewayAttestation(p, d, e, n, o, r, t)
             read == {Require("quote_parsed", TRUE)}
                      \cup QuoteChecks(d, b, n) \cup MeasurementChecks(p, d, b)
                      \cup IdentityChecks(p, b) \cup ReleaseChecks(p, d, b, t)
                      \cup TransportChecks(p, b, o, r)
                      \cup {RecentCheck(p, d, t)} \cup ChainChecks(p, d, e)
             quoted == IF ~d.quote.parsed THEN {Require("quote_parsed", FALSE)} ELSE read
             bound == IF ~WellFormed(d.binding) THEN {Require("binding_wellformed", FALSE)}
                      ELSE {Require("binding_wellformed", TRUE)} \cup quoted
             checks == FloorChecks(p) \cup bound
             chain == \A c \in ChainChecks(p, d, e) : c.passed
             identity == IF p.v3.present THEN MatchOf(p.v3, d).identity ELSE "not-applicable"
  <1>1. v = IF Accepting(checks)
            THEN Verdict(TRUE, IF chain THEN "hardware-verified" ELSE "provider-attested",
                         checks, identity, IF identity = "verified" THEN d.pzid ELSE None, t)
            ELSE Verdict(FALSE, "unverified", checks, None, None, t)
    BY DEF VerifyGatewayAttestation
  <1>2. bound = {Require("binding_wellformed", TRUE)} \cup read OBVIOUS
  <1>3. /\ ChainChecks(p, d, e) \subseteq read
        /\ ReleaseChecks(p, d, b, t) \subseteq read
    <2> DEFINE quote == QuoteChecks(d, b, n)
               measurement == MeasurementChecks(p, d, b)
               ids == IdentityChecks(p, b)
               release == ReleaseChecks(p, d, b, t)
               transport == TransportChecks(p, b, o, r)
               recent == {RecentCheck(p, d, t)}
               hardware == ChainChecks(p, d, e)
               first == {Require("quote_parsed", TRUE)}
    <2>1. read = first \cup quote \cup measurement \cup ids
                   \cup release \cup transport \cup recent \cup hardware
      OBVIOUS
    <2> HIDE DEF first, read, quote, measurement, ids, release, transport, recent, hardware
    <2>2. hardware \subseteq read /\ release \subseteq read BY <2>1
    <2>3. QED BY <2>2 DEF hardware, release
  <1> HIDE DEF read, bound, chain, identity
  <1>4. checks = FloorChecks(p) \cup bound OBVIOUS
  <1> HIDE DEF checks, v
  <1>5. v.checks = checks BY <1>1 DEF Verdict
  <1>6. QED BY <1>2, <1>3, <1>4, <1>5 DEF v, b

\* A verdict that does not say the release moved, of what a genuine machine answers
\* on dstack, found its release among the approved ones.
LEMMA UnmovedApproved ==
    ASSUME NEW p, AsLoaded(p), Floor(p), TupleForm(p), p.kind = "phala",
           NEW m \in Machines, m.honest, m.genuine, NEW d, Answers(d, m), NEW t0,
           CanonicalOrigin(Origin) # None, NEW r,
           LET v == VerifyGatewayAttestation(p, d, "works", Nonce, d.observed, r, t0)
           IN  ~v.ok /\ ~Moved(v)
    PROVE  Approves(p, m, t0)
  <1> DEFINE v == VerifyGatewayAttestation(p, d, "works", Nonce, d.observed, r, t0)
             b == NormalizeGatewayBinding(d.binding)
             tuples == TupleChecks(p, d, b, t0)
  <1>1. m.spki # None BY Platforms
  <1>2. WellFormed(d.binding) /\ d.quote.parsed BY <1>1, TruthFields DEF Answers
  <1>3. ~p.v3.present /\ ValidTuples("phala", p.tuples) BY FloorKinds
  <1>4. ReleaseChecks(p, d, b, t0) = tuples BY <1>3 DEF ReleaseChecks
  <1>5. ChainChecks(p, d, "works") \subseteq v.checks /\ tuples \subseteq v.checks
    BY <1>2, <1>4, ChecksShown
  <1>6. \E c \in ChainChecks(p, d, "works") : c.name = "quote_signature_chain" /\ c.passed
    BY DEF Answers, ChainChecks, Check
  <1>7. \A c \in tuples : c.name \in IdentityNames
    BY DEF TupleChecks, Require, Check, IdentityNames
  <1>8. ~v.ok /\ ~Moved(v) OBVIOUS
  <1> HIDE DEF v
  <1>9. \A c \in v.checks : c.name \in IdentityNames => c.passed
    BY <1>5, <1>6, <1>8 DEF Moved
  <1>10. \A c \in tuples : c.passed BY <1>5, <1>7, <1>9
  <1>11. QED BY <1>3, <1>10, TupleJudged

\* One verification, from the policy it resolved to its verdict: what each phase
\* rests on, and that the verdict is that of the policy the call holds, made while
\* the approval was in force (verifyGatewayEvidence, verifyGatewayAttestation).
THEOREM GatewayInductive == VerdictSpec => []GatewayInv
  BY GatewayInit, GatewayStep, PTL DEF VerdictSpec

\* An approval that expired is never what a verdict rests on (verifyGatewayEvidence).
THEOREM AlwaysApprovalInForce == VerdictSpec => []ApprovalInForce
  <1>1. GatewayInv => ApprovalInForce
    BY NumbersAssumption
    DEF NumbersAssumption, GatewayInv, CallInv, PhaseInv, ApprovalInForce, Accepted
  <1>2. QED BY <1>1, GatewayInductive, PTL

\* What a verdict reports of the VM is what the quote says of it (the v3 part of
\* verifyGatewayAttestation).
THEOREM AlwaysInstanceTruth == VerdictSpec => []InstanceTruth
  <1>1. GatewayInv => InstanceTruth
    <2> SUFFICES ASSUME GatewayInv, Accepted, call.policy.v3.present PROVE InstanceTruth
      BY DEF InstanceTruth
    <2> DEFINE p == call.policy
    <2>1. PICK r \in BOOLEAN :
            /\ verdict = VerifyGatewayAttestation(p, doc, engine, Nonce, doc.observed, r, verdict.at)
            /\ VerifyGatewayAttestation(p, doc, engine, Nonce, doc.observed, r, verdict.at).ok
      BY AcceptedVerdict
    <2> DEFINE t == verdict.at
               v == VerifyGatewayAttestation(p, doc, engine, Nonce, doc.observed, r, t)
    <2>0. verdict = v /\ v.ok BY <2>1
    <2> HIDE DEF p, t
    <2>2. /\ Accepting(ReleaseChecks(p, doc, NormalizeGatewayBinding(doc.binding), t))
          /\ p.v3.present => verdict.identity = MatchOf(p.v3, doc).identity
          /\ verdict.instance = IF verdict.identity = "verified" THEN doc.pzid ELSE None
      <3>1. v.ok BY <2>0
      <3>2. /\ Accepting(ReleaseChecks(p, doc, NormalizeGatewayBinding(doc.binding), t))
            /\ p.v3.present => v.identity = MatchOf(p.v3, doc).identity
            /\ v.instance = IF v.identity = "verified" THEN doc.pzid ELSE None
        <4>1. Accepting(ReleaseChecks(p, doc, NormalizeGatewayBinding(doc.binding), t))
          BY <3>1, AcceptedGroups
        <4>2. p.v3.present => v.identity = MatchOf(p.v3, doc).identity
          BY <3>1, AcceptedIdentity
        <4>3. v.instance = IF v.identity = "verified" THEN doc.pzid ELSE None
          BY <3>1, AcceptedGroups
        <4>4. QED BY <4>1, <4>2, <4>3
      <3> HIDE DEF v
      <3>3. QED BY <2>0, <3>2
    <2>3. Accepting(V3Checks(p.v3, doc)) /\ verdict.identity = MatchOf(p.v3, doc).identity
      BY <2>2 DEF ReleaseChecks, p
    <2>4. doc.quote.owner = Machine.owner
      BY AcceptedVerdict DEF Shows, Measurements, Machine
    <2>5. QED BY <2>2, <2>3, <2>4, V3Passed DEF InstanceTruth, p
  <1>2. QED BY <1>1, GatewayInductive, PTL

\* What an accepting verdict under a pinned policy says of the TD behind it: one
\* genuine, current TD that runs a reviewed release as a whole, for this challenge
\* and, with a key per node, on this connection (verifyGatewayAttestation).
THEOREM AlwaysSoundVerdict == VerdictSpec => []SoundVerdict
  <1>1. GatewayInv => SoundVerdict
    <2> SUFFICES ASSUME GatewayInv, Accepted, Pinned PROVE SoundVerdict
      BY DEF SoundVerdict
    <2> DEFINE p == call.was
               b == doc.binding
    <2>1. /\ p \in Supplied /\ Floor(p) /\ Shows(doc) /\ verdict.level = "hardware-verified"
          /\ Machine.genuine /\ ~Machine.debug /\ Machine.tcb = "UpToDate"
          /\ doc.quote.data = BindingHash(BindingHash(b)) /\ b.nonce = Nonce
          /\ RequiresRetained(p) => doc.observed = b.spki
          /\ Measures(p, Machine)
      BY AcceptedPinned
    <2>2. Machine \in Machines BY <2>1 DEF Shows, Machine
    <2>3. Machine.honest BY <2>1, <2>2, ReviewedAssumption DEF ReviewedAssumption
    <2>4. DOMAIN b = Fields BY <2>1, BindingFields DEF Shows
    <2>5. DOMAIN BindingHash(b) = Fields BY <2>4 DEF BindingHash, NormalizeGatewayBinding
    <2>6. doc.quote.data.nonce = Nonce /\ doc.quote.data.spki = b.spki
      BY <2>1, <2>4, <2>5, BindingFields
    <2>7. doc.quote.data.spki = Machine.spki
      <3>1. PICK n \in {Nonce, "earlier"} : doc.quote.data = BindingHash(Truth(Machine, n))
        BY <2>1, <2>3 DEF Shows, Machine
      <3>2. Truth(Machine, n).spki = Machine.spki BY DEF Truth, Binding
      <3>3. QED BY <3>1, <3>2, BindingFields
    <2>8. QED BY <2>1, <2>3, <2>6, <2>7 DEF SoundVerdict
  <1>2. QED BY <1>1, GatewayInductive, PTL

\* No accepted verdict is under the floor of a policy in tuple form, whatever was
\* done to the object in between (assertGatewayPlatformSecurityFloor on every use).
THEOREM AlwaysFloorHolds == VerdictSpec => []FloorHolds
  <1>1. GatewayInv => FloorHolds
    <2> SUFFICES ASSUME GatewayInv, Accepted, TupleForm(call.was) PROVE FloorHolds
      BY DEF FloorHolds
    <2>1. Pinned BY DEF Pinned
    <2>2. QED BY <2>1, AcceptedPinned DEF FloorHolds
  <1>2. QED BY <1>1, GatewayInductive, PTL
\* No false refusal: a reviewed machine that answers in time is accepted by every
\* policy for this origin that approves it, and by the policy its source published by
\* the time it was judged (verifyGatewayEvidence and its refresh,
\* verifyGatewayAttestation).
THEOREM AlwaysHonestAccepted == VerdictSpec => []HonestAccepted
  <1>1. GatewayInv => HonestAccepted
    <2> DEFINE p == call.was
               t == verdict.at
               r == call.connection = "retained"
               v == VerifyGatewayAttestation(p, doc, "works", Nonce, doc.observed, r, t)
    <2> SUFFICES ASSUME GatewayInv, phase = "done", HonestDoc, engine = "works", Pinned,
                        call.policy = p, Floor(p), CanonicalOrigin(Origin) \in p.origins,
                        t - doc.quote.at <= p.age
                 PROVE  /\ Approves(p, Machine, t) => verdict.ok
                        /\ call.from \in DOMAIN Published /\ call.connection = "separate"
                           /\ (\A i \in call.since..serving :
                                 Approves(Published[call.from][i].policy, Machine, t))
                           => verdict.ok
      BY Zenon DEF HonestAccepted
    <2>1. call.from # None /\ call.was \in Supplied BY DEF GatewayInv, CallInv, PhaseInv
    <2>2. AsLoaded(p) /\ TupleForm(p)
      <3>1. AsLoaded(p) BY <2>1, SuppliedAsLoaded
      <3>2. p.v3.present => p.kind # None BY <3>1 DEF AsLoaded, None
      <3>3. QED BY <3>1, <3>2 DEF Pinned, TupleForm
    <2>3. /\ Answers(doc, Machine) /\ Machine.honest /\ ~Machine.debug /\ Machine.genuine
          /\ Machine.tcb = "UpToDate"
      BY HonestParts
    <2>4. /\ Shows(doc) /\ doc.quote.at \in Nat /\ doc.quote.at <= t /\ t \in Nat
          /\ call.since = serving /\ serving \in Nat
          /\ RequiresRetained(p) => r
          /\ verdict = VerifyGatewayAttestation(p, doc, engine, Nonce, doc.observed, r, t)
          /\ call.from \in DOMAIN Published /\ call.connection = "separate" =>
               call.seen = serving \/ ~Moved(verdict)
          /\ call.from \in DOMAIN Published => p = Published[call.from][call.seen].policy
      BY <2>1 DEF GatewayInv, CallInv, PhaseInv
    <2>5. verdict = v BY <2>4
    <2>6. Machine \in Machines BY <2>4 DEF Shows, Machine
    <2> HIDE DEF p, t, r
    <2>7. ASSUME Approves(p, Machine, t) PROVE verdict.ok
      <3>1. v.ok BY <2>2, <2>3, <2>4, <2>6, <2>7, HonestApproved
      <3>2. QED BY <2>5, <3>1
    <2>8. ASSUME call.from \in DOMAIN Published, call.connection = "separate",
                 \A i \in call.since..serving :
                    Approves(Published[call.from][i].policy, Machine, t)
          PROVE  verdict.ok
      <3>1. serving \in call.since..serving BY <2>4
      <3>2. Approves(Published[call.from][serving].policy, Machine, t) BY <2>8, <3>1
      <3>3. CASE call.seen = serving
        <4>1. p = Published[call.from][serving].policy BY <2>4, <2>8, <3>3
        <4>2. QED BY <2>7, <3>2, <4>1
      <3>4. CASE ~Moved(verdict)
        <4>1. ~r BY <2>8 DEF r
        <4>2. p.kind = "phala" BY <2>2, <2>4, <4>1, FloorKinds DEF RequiresRetained
        <4>3. CanonicalOrigin(Origin) # None BY <2>2 DEF AsLoaded
        <4>4. ASSUME ~v.ok PROVE Approves(p, Machine, t)
          <5>1. ~Moved(v) BY <2>5, <3>4
          <5>2. QED BY <2>2, <2>3, <2>6, <4>2, <4>3, <4>4, <5>1, UnmovedApproved
        <4>5. v.ok \/ Approves(p, Machine, t) BY <4>4
        <4>6. QED BY <2>5, <2>7, <4>5
      <3>5. QED BY <2>4, <2>8, <3>3, <3>4
    <2>9. QED BY <2>7, <2>8 DEF p, t
  <1>2. QED BY <1>1, GatewayInductive, PTL
=============================================================================
