------------------------- MODULE ClientCalls_proofs -------------------------
(* Proofs about ClientCalls, for every deployment, any number of calls and   *)
(* any sets of providers, models and keys.                                   *)
EXTENDS ClientCalls, TLAPS

\* The call goes on, or ends, without a request: nothing but its place, its hop
\* status and its local state change.
LEMMA WireSame ==
    ASSUME ClientInv, ClientTypeOK', PlaceInv', wire' = wire, deploy' = deploy,
           call'.n = call.n, call'.kind = call.kind, call'.gate = call.gate,
           accepted' = accepted \/ ~IsChat \/ call.pc \in Unpaid,
           call'.hop = call.hop \/ call.pc \in Early,
           call'.pc \in Early => call.pc \in Early,
           call'.pc \in Unpaid => call.pc \in Unpaid
    PROVE  ClientInv'
<1>1. Index' = Index
  BY DEF Index
<1>2. ASSUME NEW i \in Index PROVE GoodRequest(i)'
  BY <1>2 DEF ClientInv, GoodRequest, Sent, SplitOrigins
<1>3. ASSUME NEW i \in Index PROVE OwnRequest(i)'
  <2>1. OwnRequest(i)
    BY <1>3 DEF ClientInv
  <2>2. Sent(i)' = Sent(i) /\ IsChat' = IsChat /\ HopDue' = HopDue
    BY DEF Sent, IsChat, HopDue
  <2>3. IsChat /\ call.pc \notin Unpaid => accepted' = accepted /\ Trusting' = Trusting
    BY DEF Trusting
  <2> QED BY <2>1, <2>2, <2>3 DEF OwnRequest, Unpaid
<1> QED BY <1>1, <1>2, <1>3 DEF ClientInv

\* A call ends.
LEMMA SettleKeeps ==
    ASSUME ClientInv, NEW STATE c, c \in CallType,
           NEW STATE code, code \in Codes \cup OtherErrors, NEW STATE resp, resp \in {None, "live", "zeroized"},
           c.n = call.n, c.kind = call.kind, c.gate = call.gate,
           c.hop = call.hop \/ call.pc \in Early,
           accepted' \in FactsType,
           accepted' = accepted \/ ~IsChat \/ call.pc \in Unpaid,
           Settle(c, code, resp)
    PROVE  ClientInv'
<1> DEFINE s == IF c.session = "live" /\ Disposes(code) THEN "disposed" ELSE c.session
<1>0. s \in {None, "live", "disposed"}
  BY DEF CallType
<1>1. /\ call' \in CallType /\ call'.pc = "over" /\ call'.n = c.n
      /\ call'.kind = c.kind /\ call'.gate = c.gate /\ call'.hop = c.hop
  <2>1. call' = [c EXCEPT !.pc = "over", !.err = code, !.resp = resp, !.session = s]
    BY DEF Settle
  <2> HIDE DEF s
  <2> QED BY <1>0, <2>1 DEF CallType
<1>2. ClientTypeOK'
  BY <1>1 DEF Settle, ClientInv, ClientTypeOK
<1>3. PlaceInv'
  BY <1>1 DEF PlaceInv, Early, Unpaid, Paid
<1>4. wire' = wire /\ deploy' = deploy
  BY DEF Settle
<1> QED BY <1>1, <1>2, <1>3, <1>4, WireSame DEF Early, Unpaid

\* A call awaits something that is not a request.
LEMMA GotoKeeps ==
    ASSUME ClientInv, NEW STATE c, c \in CallType,
           NEW pc \in {"policy", "hopVerify", "hopRefresh", "gzip", "body"},
           c.n = call.n, c.kind = call.kind, c.gate = call.gate, c.hop = call.hop,
           accepted' = accepted,
           pc \in Early => call.pc \in Early /\ ~deploy.bound /\ ~IsMedia,
           pc \notin Early => call.pc \in Paid /\ c.key = call.key,
           pc = "gzip" => /\ IsChat /\ wire # <<>> /\ c.ticket = Len(wire)
                          /\ Latest.path = "ticket" /\ Latest.call = call.n,
           Goto(c, pc)
    PROVE  ClientInv'
<1>1. /\ call' \in CallType /\ call'.pc = pc /\ call'.n = c.n /\ call'.key = c.key
      /\ call'.kind = c.kind /\ call'.gate = c.gate /\ call'.hop = c.hop
      /\ call'.ticket = c.ticket
  BY DEF Goto, CallType, Unpaid, Early, Paid
<1>2. ClientTypeOK'
  BY <1>1 DEF Goto, ClientInv, ClientTypeOK
<1>3. wire' = wire /\ deploy' = deploy
  BY DEF Goto
<1>4. PlaceInv'
  BY <1>1, <1>3 DEF ClientInv, PlaceInv, Early, Paid, Unpaid, HopDue, IsChat, IsMedia,
                    Trusting, SplitOrigins, Latest
<1> QED BY <1>1, <1>2, <1>3, <1>4, WireSame DEF Early, Unpaid, Paid

\* A request is made, and leaves or not.
LEMMA RequestKeeps ==
    ASSUME ClientInv, NEW STATE c, c \in CallType, NEW STATE r, r \in RequestType,
           c.n = call.n, c.kind = call.kind, c.gate = call.gate,
           c.hop = call.hop \/ call.pc \in Early,
           r.call = call.n,
           IsMedia => SplitOrigins,
           r.path = "gateway" => /\ call.pc \in Early /\ ~deploy.bound /\ ~IsMedia
                                 /\ ~r.key /\ r.ticket = 0,
           r.path # "gateway" /\ HopDue => c.hop = "ok",
           r.path \in {"attTicket", "attestation", "keyGet"} =>
               ~IsMedia /\ call.pc \in Unpaid,
           r.path = "models" => IsChat,
           r.path \in Paid /\ IsChat =>
               /\ accepted'.nonces = {call.n} /\ accepted'.route
               /\ accepted'.opaque /\ c.key = accepted'.key,
           r.body = "cipher" => IsChat /\ r.seal = c.key,
           r.body = "plain" => IsMedia,
           r.body \in {"plain", "cipher"} => r.path = "content" /\ r.to = "inference",
           r.to = "control" => r.key,
           r.to = "inference" /\ r.key => ~deploy.split /\ r.path = "keyGet",
           r.path \in {"attestation", "content"} <=> r.ticket # 0,
           r.ticket # 0 =>
               /\ wire # <<>> /\ r.ticket = Len(wire) /\ Latest.call = call.n
               /\ Latest.path = IF r.path = "content" THEN "ticket" ELSE "attTicket",
           accepted' \in FactsType,
           accepted' = accepted \/ call.pc \in Unpaid,
           Request(c, r)
    PROVE  ClientInv'
<1>1. /\ call' \in CallType /\ call'.pc = r.path /\ call'.n = c.n
      /\ call'.kind = c.kind /\ call'.gate = c.gate /\ call'.hop = c.hop
      /\ call'.key = c.key
  BY DEF Request, CallType, RequestType, Unpaid, Early, Paid
<1>2. deploy' = deploy /\ signal' = signal /\ phase' = phase
  BY DEF Request, Channel!Send
<1>3. wire' = wire \/ wire' = Append(wire, r)
  BY DEF Request
<1>4. wire \in Seq(RequestType) /\ wire' \in Seq(RequestType)
  BY <1>3 DEF ClientInv, ClientTypeOK
<1>5. ClientTypeOK'
  BY <1>1, <1>2, <1>4 DEF ClientInv, ClientTypeOK
<1>6. r.path \in Unpaid \/ r.path \in Paid
  BY DEF RequestType, Unpaid, Early, Paid
<1>7. IsChat' = IsChat /\ IsMedia' = IsMedia /\ HopDue' = HopDue
      /\ SplitOrigins' = SplitOrigins
  BY <1>1, <1>2 DEF IsChat, IsMedia, HopDue, SplitOrigins
<1>8. PlaceInv'
  BY <1>1, <1>2, <1>7 DEF ClientInv, PlaceInv, RequestType, Early, Unpaid, Paid, Trusting,
                          IsMedia
<1>9. Len(wire) \in Nat /\ Index = 1..Len(wire) /\ call.n \in Nat
  BY <1>4 DEF Index, ClientInv, ClientTypeOK, CallType
<1>10. ASSUME NEW i \in Index, wire'[i] = wire[i],
              \A j \in Index : wire'[j] = wire[j]
       PROVE GoodRequest(i)' /\ OwnRequest(i)'
  <2>1. GoodRequest(i) /\ OwnRequest(i) /\ wire[i] \in RequestType /\ i \in Nat
    BY <1>4, <1>9, <1>10 DEF ClientInv
  <2>2. wire[i].ticket # 0 => wire[i].ticket \in Index
    BY <2>1, <1>9 DEF GoodRequest, Sent, RequestType
  <2>3. GoodRequest(i)'
    BY <2>1, <2>2, <1>1, <1>2, <1>7, <1>10 DEF GoodRequest, Sent
  <2>4. ASSUME wire[i].call = call.n, wire[i].key \/ wire[i].ticket # 0
        PROVE  call'.pc \notin Early /\ (HopDue => call'.hop = "ok")
    <3>1. call.pc \notin Early /\ (HopDue => call.hop = "ok")
      BY <2>1, <2>4 DEF OwnRequest, Sent
    <3> QED BY <3>1, <1>1 DEF Early, RequestType
  <2>5. ASSUME wire[i].call = call.n, IsChat,
               wire[i].path \in {"models", "ticket", "content"}
        PROVE  /\ call'.pc \notin Unpaid /\ Trusting'
               /\ wire[i].body = "cipher" => wire[i].seal = accepted'.key
    <3>1. /\ call.pc \notin Unpaid /\ Trusting
          /\ wire[i].body = "cipher" => wire[i].seal = accepted.key
      BY <2>1, <2>5 DEF OwnRequest, Sent
    <3>2. accepted' = accepted
      BY <3>1
    <3>3. r.path \notin Unpaid
      BY <3>1 DEF Unpaid, Early, RequestType
    <3> QED BY <3>1, <3>2, <3>3, <1>1 DEF Trusting
  <2>6. OwnRequest(i)'
    BY <2>4, <2>5, <1>1, <1>7, <1>10 DEF OwnRequest, Sent
  <2> QED BY <2>3, <2>6
<1>11. CASE wire' = wire
  <2>1. Index' = Index
    BY <1>11 DEF Index
  <2> QED BY <2>1, <1>11, <1>10, <1>5, <1>8 DEF ClientInv
<1>12. CASE wire' = Append(wire, r)
  <2>1. /\ Len(wire') = Len(wire) + 1 /\ wire'[Len(wire) + 1] = r
        /\ \A j \in Index : wire'[j] = wire[j]
    BY <1>12, <1>4, <1>9
  <2>2. Index' = Index \cup {Len(wire) + 1}
    BY <2>1, <1>9 DEF Index
  <2>3. ASSUME NEW k \in Nat, k = Len(wire) + 1 PROVE GoodRequest(k)'
    <3>1. r.ticket \in Nat /\ r.ticket < k
      BY <1>9, <2>3 DEF RequestType
    <3>2. r.ticket # 0 => r.ticket \in Index /\ wire'[r.ticket] = Latest
      BY <3>1, <1>9, <2>1 DEF Latest
    <3>3. r.to = "control" \/ r.to = "inference"
      BY DEF RequestType
    <3> QED BY <2>1, <2>3, <3>1, <3>2, <3>3, <1>1, <1>2, <1>7, <1>9 DEF GoodRequest, Sent
  <2>4. ASSUME NEW k \in Nat, k = Len(wire) + 1 PROVE OwnRequest(k)'
    <3>1. r.key \/ r.ticket # 0 => r.path # "gateway"
      OBVIOUS
    <3>2. r.path # "gateway" => r.path \notin Early
      BY DEF Early, RequestType
    <3>3. r.path \in {"models", "ticket", "content"} =>
              r.path \in Paid /\ r.path \notin Unpaid
      BY DEF Paid, Unpaid, Early
    <3> QED BY <2>1, <2>4, <3>1, <3>2, <3>3, <1>1, <1>7 DEF OwnRequest, Sent, Trusting
  <2>5. ASSUME NEW i \in Index' PROVE GoodRequest(i)' /\ OwnRequest(i)'
    BY <2>1, <2>2, <2>3, <2>4, <2>5, <1>9, <1>10
  <2> QED BY <2>5, <1>5, <1>8 DEF ClientInv
<1> QED BY <1>3, <1>11, <1>12

\* What a state of the invariant says of the call and its latest request.
LEMMA CallFacts ==
    ASSUME ClientInv
    PROVE  /\ call \in CallType /\ accepted \in FactsType /\ PlaceInv
           /\ Len(wire) \in Nat /\ call.n \in Nat /\ call.key \in Keys \cup {None}
           /\ wire = <<>> <=> Len(wire) = 0
BY DEF ClientInv, ClientTypeOK, CallType

\* The call throws.
LEMMA ThrowKeeps ==
    ASSUME ClientInv, NEW STATE code, code \in Codes \cup OtherErrors,
           accepted' \in FactsType, accepted' = accepted \/ ~IsChat, Throw(code)
    PROVE  ClientInv'
<1>1. call \in CallType /\ call.resp \in {None, "live", "zeroized"}
  BY CallFacts DEF CallType
<1> QED BY <1>1, SettleKeeps DEF Throw

LEMMA CatchKeeps ==
    ASSUME ClientInv, NEW STATE code, code \in Codes \cup OtherErrors,
           accepted' = accepted, CatchAs(code)
    PROVE  ClientInv'
<1> DEFINE told == IF Cancelled THEN "cancelled" ELSE code
<1>1. told \in Codes \cup OtherErrors /\ Throw(told) /\ accepted' \in FactsType
  BY CallFacts DEF CatchAs, Codes
<1> HIDE DEF told
<1> QED BY <1>1, ThrowKeeps

LEMMA RefuseKeeps ==
    ASSUME ClientInv, NEW STATE code, code \in Codes \cup OtherErrors,
           accepted' = accepted, Refuse(code) \/ RefuseAs(code)
    PROVE  ClientInv'
<1>1. ASSUME NEW STATE told, told \in Codes \cup OtherErrors, Refuse(told) PROVE ClientInv'
  <2>1. Reported(told) \in Codes \cup OtherErrors
    BY <1>1 DEF Reported, Codes
  <2>2. accepted' \in FactsType
    BY CallFacts
  <2> QED BY <1>1, <2>1, <2>2, ThrowKeeps DEF Refuse
<1>2. "cancelled" \in Codes
  BY DEF Codes
<1> QED BY <1>1, <1>2 DEF RefuseAs

\* The attestation ticket is asked for, once hop 1 is settled.
LEMMA MintAttestationKeeps ==
    ASSUME ClientInv, NEW STATE c, c \in CallType,
           c.n = call.n, c.kind = call.kind, c.gate = call.gate,
           call.pc \in Early, ~IsMedia, HopDue => c.hop = "ok",
           accepted' = accepted, MintAttestation(c)
    PROVE  ClientInv'
<1>1. accepted' \in FactsType /\ call.n \in Nat /\ c.resp \in {None, "live", "zeroized"}
  BY CallFacts DEF CallType
<1>2. /\ Reported("unsupported_request") \in Codes \cup OtherErrors
      /\ Reported("retained_error") \in Codes \cup OtherErrors
  BY DEF Reported, Codes, OtherErrors
<1>3. CASE Request(c, ToControl("attTicket", "route"))
  <2> DEFINE r == ToControl("attTicket", "route")
  <2>1. /\ r \in RequestType /\ r.call = call.n /\ r.path = "attTicket" /\ r.key
        /\ r.ticket = 0 /\ r.to = "control" /\ r.body = "route"
    BY <1>1 DEF ToControl, RequestType
  <2>2. Request(c, r)
    BY <1>3
  <2> HIDE DEF r
  <2> QED BY <1>1, <2>1, <2>2, RequestKeeps DEF Paid, Unpaid
<1>4. CASE Settle(c, Reported("unsupported_request"), c.resp)
  BY <1>1, <1>2, <1>4, SettleKeeps
<1>5. CASE Settle(c, Reported("retained_error"), c.resp)
  BY <1>1, <1>2, <1>5, SettleKeeps
<1> QED BY <1>3, <1>4, <1>5 DEF MintAttestation

\* Hop 1 has a result.
LEMMA HopDoneKeeps ==
    ASSUME ClientInv, NEW STATE status, status \in {"ok", "failed", "unpinned", "unavailable"},
           call.pc \in Early \ {"open", "run"}, ~IsMedia, accepted' = accepted,
           HopDone(status)
    PROVE  ClientInv'
<1> DEFINE c == [call EXCEPT !.hop = status]
<1>1. /\ c \in CallType /\ c.n = call.n /\ c.kind = call.kind /\ c.gate = call.gate
      /\ c.hop = status /\ c.resp \in {None, "live", "zeroized"}
  BY CallFacts DEF CallType
<1>2. accepted' \in FactsType /\ ~deploy.bound
  BY CallFacts DEF PlaceInv
<1>3. CASE HopRefused(status)
  <2>1. Settle(c, "attestation_untrusted", c.resp)
    BY <1>3 DEF HopDone
  <2>2. "attestation_untrusted" \in Codes
    BY DEF Codes
  <2> HIDE DEF c
  <2> QED BY <1>1, <1>2, <2>1, <2>2, SettleKeeps
<1>4. CASE ~HopRefused(status)
  <2>1. MintAttestation(c)
    BY <1>4 DEF HopDone
  <2>2. HopDue => c.hop = "ok"
    BY <1>1, <1>2, <1>4 DEF HopDue, HopRefused
  <2> HIDE DEF c
  <2> QED BY <1>1, <1>2, <2>1, <2>2, MintAttestationKeeps
<1> QED BY <1>3, <1>4

\* The paid ticket is asked for, after the attestation of this call.
LEMMA MintInferenceKeeps ==
    ASSUME ClientInv, NEW STATE c, c \in CallType,
           c.n = call.n, c.kind = call.kind, c.gate = call.gate, c.hop = call.hop,
           call.pc \in {"attestation", "models"}, IsChat,
           accepted' \in FactsType, accepted' = accepted \/ call.pc = "attestation",
           accepted'.nonces = {call.n}, accepted'.route, accepted'.opaque,
           c.key = accepted'.key,
           \/ Request(c, ToControl("models", "none"))
           \/ Request(c, ToControl("ticket", "route"))
    PROVE  ClientInv'
<1>1. call.n \in Nat /\ ~IsMedia /\ (HopDue => c.hop = "ok")
  BY CallFacts DEF PlaceInv, Early, IsChat, IsMedia
<1>2. ASSUME NEW STATE r, r \in RequestType, r.call = call.n,
             r.path \in {"models", "ticket"}, r.key, r.ticket = 0,
             r.to = "control", r.body \in {"none", "route"}, Request(c, r)
      PROVE  ClientInv'
  BY <1>1, <1>2, RequestKeeps DEF Paid, Unpaid
<1>3. CASE Request(c, ToControl("models", "none"))
  <2> DEFINE r == ToControl("models", "none")
  <2>1. /\ r \in RequestType /\ r.call = call.n /\ r.path = "models" /\ r.key
        /\ r.ticket = 0 /\ r.to = "control" /\ r.body = "none"
    BY <1>1 DEF ToControl, RequestType
  <2>2. Request(c, r)
    BY <1>3
  <2> HIDE DEF r
  <2> QED BY <1>2, <2>1, <2>2
<1>4. CASE Request(c, ToControl("ticket", "route"))
  <2> DEFINE r == ToControl("ticket", "route")
  <2>1. /\ r \in RequestType /\ r.call = call.n /\ r.path = "ticket" /\ r.key
        /\ r.ticket = 0 /\ r.to = "control" /\ r.body = "route"
    BY <1>1 DEF ToControl, RequestType
  <2>2. Request(c, r)
    BY <1>4
  <2> HIDE DEF r
  <2> QED BY <1>2, <2>1, <2>2
<1> QED BY <1>3, <1>4

\* A request that presents the ticket of the latest reply.
LEMMA PresentKeeps ==
    ASSUME ClientInv, NEW STATE c, c \in CallType,
           c.n = call.n, c.kind = call.kind, c.gate = call.gate, c.hop = call.hop,
           c.key = call.key, accepted' = accepted,
           NEW STATE path, path \in {"attestation", "content"},
           NEW STATE body, body \in {"nonce", "cipher", "plain"},
           NEW STATE seal, seal \in Keys \cup {None},
           body = "nonce" <=> path = "attestation",
           body = "cipher" => IsChat /\ seal = call.key,
           body = "plain" => IsMedia,
           wire # <<>>, Latest.call = call.n,
           Latest.path = IF path = "content" THEN "ticket" ELSE "attTicket",
           call.pc \in IF path = "content" THEN {"ticket", "gzip"} ELSE {"attTicket"},
           Request(c, ToInference(path, Len(wire), body, seal))
    PROVE  ClientInv'
<1> DEFINE r == ToInference(path, Len(wire), body, seal)
<1>1. /\ call.n \in Nat /\ Len(wire) \in Nat \ {0} /\ accepted' \in FactsType
      /\ IsMedia => SplitOrigins
      /\ HopDue => c.hop = "ok"
      /\ path = "attestation" => ~IsMedia /\ call.pc \in Unpaid
      /\ path = "content" /\ IsChat => Trusting /\ call.key = accepted.key
  BY CallFacts DEF PlaceInv, Early, Paid, Unpaid, IsMedia
<1>2. /\ r \in RequestType /\ r.call = call.n /\ r.path = path /\ ~r.key
      /\ r.ticket = Len(wire) /\ r.ticket # 0 /\ r.to = "inference" /\ r.body = body
      /\ r.seal = seal
  BY <1>1 DEF ToInference, RequestType
<1>3. Request(c, r)
  OBVIOUS
<1> HIDE DEF r
<1>4. path # "gateway" /\ path # "models" /\ path # "keyGet" /\ path # "attTicket"
  OBVIOUS
<1> QED BY <1>1, <1>2, <1>3, <1>4, RequestKeeps DEF Trusting, Paid

\* The legacy evidence request of a single-origin client.
LEMMA NoTicketKeeps ==
    ASSUME ClientInv, NEW STATE code, code \in Codes \cup OtherErrors,
           call.pc \in {"attTicket", "attestation"}, accepted' = accepted,
           NoTicket(code)
    PROVE  ClientInv'
<1>1. CASE ~deploy.split /\ Request(call, KeyGet)
  <2> DEFINE r == KeyGet
  <2>1. /\ call.n \in Nat /\ call \in CallType /\ accepted' \in FactsType /\ ~IsMedia
        /\ HopDue => call.hop = "ok"
    BY CallFacts DEF PlaceInv, Early, Unpaid
  <2>2. /\ r \in RequestType /\ r.call = call.n /\ r.path = "keyGet" /\ r.key
        /\ r.ticket = 0 /\ r.to = "inference" /\ r.body = "nonce"
    BY <2>1 DEF KeyGet, ToInference, RequestType
  <2>3. Request(call, r)
    BY <1>1
  <2> HIDE DEF r
  <2> QED BY <1>1, <2>1, <2>2, <2>3, RequestKeeps DEF Paid, Unpaid
<1>2. CASE Refuse(code)
  BY <1>2, RefuseKeeps
<1> QED BY <1>1, <1>2 DEF NoTicket, MayFallBack

\* What the relay answers is of the type of the history.
LEMMA FactsTyped ==
    ASSUME ClientInv, NEW STATE att, att \in Attestations
    PROVE  Facts(att) \in FactsType /\ att.evidence.key \in Keys
<1>1. Nonces \subseteq Nat /\ call.n \in Nat
  BY CallFacts, MaxCallsAssumption DEF Nonces
<1>2. PICK k \in Keys :
          \/ att \in Replies(Echoes, {HonestVerdict(k)}, {HonestEvidence(k)})
          \/ att \in Replies({HonestEcho}, Verdicts, {HonestEvidence(k)})
          \/ att \in Replies({HonestEcho}, {HonestVerdict(k)}, Evidences)
  BY DEF Attestations
<1>3. /\ att.verdict = HonestVerdict(k) \/ att.verdict \in Verdicts
      /\ att.evidence = HonestEvidence(k) \/ att.evidence \in Evidences
  BY <1>2 DEF Replies
<1>4. att.verdict.nonce \in Nat
  <2>1. HonestVerdict(k).nonce = call.n
    BY DEF HonestVerdict
  <2>2. \A v \in Verdicts : v.nonce \in Nonces
    BY DEF Verdicts
  <2> QED BY <2>1, <2>2, <1>1, <1>3
<1>5. att.evidence.nonce \in Nat /\ att.evidence.key \in Keys
  <2>1. HonestEvidence(k).nonce = call.n /\ HonestEvidence(k).key = k
    BY DEF HonestEvidence
  <2>2. \A d \in Evidences : d.nonce \in Nonces /\ d.key \in Keys
    BY DEF Evidences
  <2> QED BY <2>1, <2>2, <1>1, <1>2, <1>3
<1>6. {att.verdict.nonce, att.evidence.nonce} \in SUBSET Nat
  BY <1>4, <1>5
<1>7. att.evidence.fault \in Faults
  <2>1. HonestEvidence(k).fault = None /\ None \in Faults
    BY DEF HonestEvidence, Faults
  <2>2. \A d \in Evidences : d.fault \in Faults
    BY DEF Evidences
  <2> QED BY <2>1, <2>2, <1>3
<1> QED BY <1>5, <1>6, <1>7 DEF Facts, FactsType

\* One lemma per action.
LEMMA BeginKeeps ==
    ASSUME ClientInv, Begin PROVE ClientInv'
<1>1. PICK kind \in {"chat", "verify", "verifyRoute", "media"}, prov \in Providers,
           model \in Models, valid \in BOOLEAN, gate \in {"unset", "on", "off"} :
           LET c == NewCall(call.n + 1, kind, prov, model, gate, valid)
           IN  /\ kind = "media" => gate = "unset"
               /\ call' = IF \/ ReplacesBinding(gate)
                             \/ kind = "media" /\ ~SplitOrigins
                          THEN [c EXCEPT !.pc = "over", !.err = "unsupported_request"]
                          ELSE IF deploy.bound THEN [c EXCEPT !.pc = "open"] ELSE c
  BY Zenon DEF Begin
<1> DEFINE c == NewCall(call.n + 1, kind, prov, model, gate, valid)
<1>2. call.n \in Nat
  BY CallFacts
<1>3. c \in CallType /\ c.n = call.n + 1 /\ c.kind = kind /\ c.pc = "run"
  BY <1>2 DEF NewCall, CallType, Unpaid, Early, Codes
<1>4. \/ call' = [c EXCEPT !.pc = "over", !.err = "unsupported_request"]
      \/ call' = [c EXCEPT !.pc = "open"] /\ (kind = "media" => SplitOrigins)
      \/ call' = c /\ ~deploy.bound /\ (kind = "media" => SplitOrigins)
  BY <1>1
<1> HIDE DEF c
<1>5. /\ call' \in CallType /\ call'.n = call.n + 1 /\ call'.kind = kind
      /\ call'.pc \in {"over", "open", "run"}
      /\ call'.pc # "over" => (kind = "media" => SplitOrigins)
      /\ call'.pc = "run" => ~deploy.bound
  <2>1. CASE call' = [c EXCEPT !.pc = "over", !.err = "unsupported_request"]
    <3>1. "unsupported_request" \in Codes BY DEF Codes
    <3>2. QED BY <1>3, <2>1, <3>1 DEF CallType
  <2>2. CASE call' = [c EXCEPT !.pc = "open"] /\ (kind = "media" => SplitOrigins)
    <3>1. "open" \in Unpaid BY DEF Unpaid, Early
    <3>2. QED BY <1>3, <2>2, <3>1 DEF CallType
  <2>3. CASE call' = c /\ ~deploy.bound /\ (kind = "media" => SplitOrigins)
    BY <1>3, <2>3
  <2>4. QED BY <1>4, <2>1, <2>2, <2>3
<1>6. /\ deploy' = deploy /\ wire' = wire /\ signal' = "live"
      /\ phase' = "unverified" /\ accepted' = NoAtt
  BY DEF Begin
<1>7. NoAtt \in FactsType
  BY DEF NoAtt, FactsType, Faults
<1>8. ClientTypeOK'
  BY <1>5, <1>6, <1>7 DEF ClientInv, ClientTypeOK
<1>9. PlaceInv'
  BY <1>5, <1>6 DEF PlaceInv, Early, Paid, Unpaid, SplitOrigins
<1>10. Index' = Index
  BY <1>6 DEF Index
<1>11. ASSUME NEW i \in Index PROVE GoodRequest(i)' /\ OwnRequest(i)'
  <2>1. GoodRequest(i) /\ wire[i] \in RequestType
    BY <1>11 DEF ClientInv, ClientTypeOK, Index
  <2>2. wire[i].call \in Nat /\ wire[i].call <= call.n
    BY <2>1 DEF GoodRequest, Sent, RequestType
  <2>3. wire[i].call <= call'.n /\ wire[i].call # call'.n
    BY <2>2, <1>2, <1>5
  <2> QED BY <2>1, <2>3, <1>6 DEF GoodRequest, OwnRequest, Sent, SplitOrigins
<1> QED BY <1>8, <1>9, <1>10, <1>11 DEF ClientInv

LEMMA OpenKeeps ==
    ASSUME ClientInv, Opened \/ OpenThrows PROVE ClientInv'
<1>1. CASE Opened
  <2>1. call' = [call EXCEPT !.pc = "run", !.hop = "ok"] /\ call.pc = "open"
    BY <1>1 DEF Opened
  <2>2. /\ call' \in CallType /\ call'.pc = "run" /\ call'.hop = "ok"
        /\ call'.n = call.n /\ call'.kind = call.kind /\ call'.gate = call.gate
    BY <2>1, CallFacts DEF CallType, Unpaid, Early
  <2>3. /\ deploy' = deploy /\ wire' = wire /\ signal' = signal
        /\ phase' = "attested" /\ accepted' = accepted
    BY <1>1 DEF Opened, Channel!Attest
  <2>4. ClientTypeOK'
    BY <2>2, <2>3 DEF ClientInv, ClientTypeOK
  <2>5. PlaceInv'
    BY <2>1, <2>2, <2>3, CallFacts DEF PlaceInv, Early, Paid, Unpaid, SplitOrigins
  <2> QED BY <2>1, <2>2, <2>3, <2>4, <2>5, WireSame DEF Early, Unpaid
<1>2. CASE OpenThrows
  <2>1. /\ accepted' = accepted /\ accepted' \in FactsType
        /\ \E code \in Codes \cup OtherErrors : Throw(code)
    BY <1>2, CallFacts DEF OpenThrows, PolicyErrors, Codes, OtherErrors
  <2> QED BY <2>1, ThrowKeeps
<1> QED BY <1>1, <1>2

LEMMA RunKeeps ==
    ASSUME ClientInv, Run PROVE ClientInv'
<1>1. accepted' = accepted /\ accepted' \in FactsType /\ call \in CallType
      /\ call.pc = "run" /\ ~IsMedia
  BY CallFacts DEF Run
<1>2. ASSUME NEW STATE code, code \in {"provider_unsupported", "unsupported_request"}, Throw(code)
      PROVE  ClientInv'
  BY <1>1, <1>2, ThrowKeeps DEF Codes
<1>3. CASE call.gate = "on" /\ ~deploy.bound /\ Goto(call, "policy")
  BY <1>1, <1>3, GotoKeeps DEF Early
<1>4. CASE ~(call.gate = "on" /\ ~deploy.bound) /\ MintAttestation(call)
  <2>1. HopDue => call.hop = "ok"
    BY <1>1, <1>4, CallFacts DEF PlaceInv, HopDue
  <2> QED BY <1>1, <1>4, <2>1, MintAttestationKeeps DEF Early
<1> QED BY <1>2, <1>3, <1>4 DEF Run

LEMMA HopKeeps ==
    ASSUME ClientInv, Hop PROVE ClientInv'
<1>1. /\ accepted' = accepted /\ accepted' \in FactsType /\ call \in CallType
      /\ call.pc \in Early \ {"open", "run"}
      /\ ~deploy.bound /\ ~IsMedia
  BY CallFacts DEF Hop, HopPolicy, HopEvidence, HopVerify, PlaceInv, Early, Unpaid
<1>2. ASSUME NEW STATE code, code \in PolicyErrors \cup {"attestation_failed", "evidence_invalid"},
             Throw(code) \/ CatchAs(code)
      PROVE  ClientInv'
  BY <1>1, <1>2, ThrowKeeps, CatchKeeps DEF PolicyErrors, Codes, OtherErrors
<1>3. ASSUME NEW STATE pc, pc \in {"hopVerify", "hopRefresh"}, Goto(call, pc)
      PROVE  ClientInv'
  BY <1>1, <1>3, GotoKeeps DEF Early
<1>4. CASE Request(call, GatewayGet)
  <2> DEFINE r == GatewayGet
  <2>1. call.n \in Nat /\ (IsMedia => SplitOrigins)
    BY <1>1, CallFacts DEF PlaceInv, Early, IsMedia
  <2>2. /\ r \in RequestType /\ r.call = call.n /\ r.path = "gateway" /\ ~r.key
        /\ r.ticket = 0 /\ r.to = "inference" /\ r.body = "nonce"
    BY <2>1 DEF GatewayGet, ToInference, RequestType
  <2>3. Request(call, r)
    BY <1>4
  <2> HIDE DEF r
  <2> QED BY <1>1, <2>1, <2>2, <2>3, RequestKeeps DEF Paid
<1>5. ASSUME NEW STATE status, status \in {"ok", "failed", "unpinned", "unavailable"},
             HopDone(status)
      PROVE  ClientInv'
  BY <1>1, <1>5, HopDoneKeeps
<1>6. CASE HopPolicy
  BY <1>2, <1>4, <1>5, <1>6 DEF HopPolicy
<1>7. CASE HopEvidence
  BY <1>2, <1>3, <1>5, <1>7 DEF HopEvidence
<1>8. CASE HopVerify
  BY <1>2, <1>3, <1>5, <1>8 DEF HopVerify
<1> QED BY <1>6, <1>7, <1>8 DEF Hop

LEMMA ProveKeeps ==
    ASSUME ClientInv, Prove PROVE ClientInv'
<1>1. /\ call \in CallType /\ accepted \in FactsType /\ Len(wire) \in Nat
      /\ call.pc \in {"attTicket", "attestation", "keyGet"}
      /\ ~IsMedia
  BY CallFacts DEF Prove, AttestationTicket, AttestationTicketFails,
                   AttestationFails, TicketRejected, VerifyReply, PlaceInv, Unpaid
<1>2. ASSUME NEW STATE code, code \in {"cancelled", "attestation_ticket_failed", "json_error",
                                 "attestation_failed", "evidence_invalid"},
             accepted' = accepted,
             Throw(code) \/ CatchAs(code) \/ Refuse(code) \/ RefuseAs(code)
      PROVE  ClientInv'
  BY <1>1, <1>2, ThrowKeeps, CatchKeeps, RefuseKeeps DEF Codes, OtherErrors
<1>3. ASSUME NEW STATE code, code \in {"attestation_ticket_failed", "json_error",
                                 "attestation_failed"},
             accepted' = accepted, call.pc # "keyGet", NoTicket(code)
      PROVE  ClientInv'
  BY <1>1, <1>3, NoTicketKeeps DEF Codes, OtherErrors
<1>4. CASE AttestationTicket
  <2> DEFINE c == [call EXCEPT !.ticket = Len(wire)]
  <2>1. /\ accepted' = accepted /\ call.pc = "attTicket" /\ Answered
        /\ \/ Throw("cancelled")
           \/ Request(c, ToInference("attestation", Len(wire), "nonce", None))
    BY <1>4 DEF AttestationTicket
  <2>2. /\ c \in CallType /\ c.n = call.n /\ c.kind = call.kind /\ c.gate = call.gate
        /\ c.hop = call.hop /\ c.key = call.key
    BY <1>1 DEF CallType
  <2>3. wire # <<>> /\ Latest.call = call.n /\ Latest.path = "attTicket"
    BY <2>1 DEF Answered
  <2> HIDE DEF c
  <2>4. CASE Request(c, ToInference("attestation", Len(wire), "nonce", None))
    BY <2>1, <2>2, <2>3, <2>4, PresentKeeps
  <2> QED BY <1>2, <2>1, <2>4
<1>5. CASE AttestationTicketFails
  BY <1>2, <1>3, <1>5 DEF AttestationTicketFails
<1>6. CASE AttestationFails
  BY <1>2, <1>6 DEF AttestationFails
<1>7. CASE TicketRejected
  BY <1>3, <1>7 DEF TicketRejected
<1>8. CASE VerifyReply
  <2>1. PICK att \in Attestations :
            /\ \/ Throw("attestation_untrusted")
               \/ Settle([call EXCEPT !.trusted = RouteTrusted(att)], None, None)
            /\ accepted' = Facts(att)
    BY <1>8 DEF VerifyReply
  <2>2. accepted' \in FactsType /\ ~IsChat
    BY <1>8, <2>1, FactsTyped DEF VerifyReply, Verifies, IsChat
  <2>3. RouteTrusted(att) \in BOOLEAN
    BY DEF RouteTrusted, VerifyRawEvidence, NamesModel, RouteEchoed, Differs
  <2> DEFINE c == [call EXCEPT !.trusted = RouteTrusted(att)]
  <2>4. /\ c \in CallType /\ c.n = call.n /\ c.kind = call.kind /\ c.gate = call.gate
        /\ c.hop = call.hop
    BY <1>1, <2>3 DEF CallType
  <2>5. Throw("attestation_untrusted") \/ Settle(c, None, None)
    BY <2>1
  <2> HIDE DEF c
  <2>6. None \in Codes /\ "attestation_untrusted" \in Codes
    BY DEF Codes
  <2> QED BY <2>2, <2>4, <2>5, <2>6, SettleKeeps, ThrowKeeps
<1> QED BY <1>4, <1>5, <1>6, <1>7, <1>8 DEF Prove

\* The paid ticket of a session is asked for.
LEMMA MintsInference ==
    ASSUME ClientInv, NEW STATE c, c \in CallType,
           c.n = call.n, c.kind = call.kind, c.gate = call.gate, c.hop = call.hop,
           call.pc \in {"attestation", "models"}, IsChat,
           accepted' \in FactsType, accepted' = accepted \/ call.pc = "attestation",
           accepted'.nonces = {call.n}, accepted'.route, accepted'.opaque,
           c.key = accepted'.key,
           MintInference(c) \/ Reserve(c)
    PROVE  ClientInv'
<1>1. c.resp \in {None, "live", "zeroized"} /\ "retained_error" \in OtherErrors
  BY DEF CallType, OtherErrors
<1>2. \/ Request(c, ToControl("models", "none"))
      \/ Request(c, ToControl("ticket", "route"))
      \/ ~DispatchAllowed /\ Settle(c, "retained_error", c.resp)
  BY DEF MintInference, Reserve
<1>3. CASE ~DispatchAllowed /\ Settle(c, "retained_error", c.resp)
  BY <1>1, <1>3, SettleKeeps DEF Unpaid
<1> QED BY <1>2, <1>3, MintInferenceKeeps

LEMMA ChatReplyKeeps ==
    ASSUME ClientInv, ChatReply PROVE ClientInv'
<1>1. /\ call \in CallType /\ accepted \in FactsType /\ call.pc = "attestation"
      /\ IsChat
  BY CallFacts DEF ChatReply
<1>2. ASSUME NEW STATE att, NEW STATE code, code \in ChatRefusals(att), CatchAs(code),
             accepted' = accepted
      PROVE  ClientInv'
  BY <1>2, CatchKeeps DEF ChatRefusals, Codes
<1>3. ASSUME NEW STATE att, att \in Attestations,
             RouteEchoed(att), att.echo.class # "tee", att.echo.protocol # "wrong",
             GateGatewayVerdict(att), CreateSession(att), accepted' = Facts(att),
             Reserve([call EXCEPT !.session = "live", !.key = att.evidence.key])
      PROVE  ClientInv'
  <2> DEFINE c == [call EXCEPT !.session = "live", !.key = att.evidence.key]
  <2>1. accepted' \in FactsType /\ att.evidence.key \in Keys
    BY <1>3, FactsTyped
  <2>2. /\ c \in CallType /\ c.n = call.n /\ c.kind = call.kind /\ c.gate = call.gate
        /\ c.hop = call.hop /\ c.key = att.evidence.key
    BY <1>1, <2>1 DEF CallType
  <2>3. att.verdict.nonce = call.n /\ att.evidence.nonce = call.n
    BY <1>3 DEF GateGatewayVerdict, CreateSession
  <2>4. att.echo.prov \in {None, call.prov} /\ att.echo.model \in {None, call.model}
    BY <1>3 DEF RouteEchoed, Differs
  <2>5. /\ accepted'.nonces = {call.n} /\ accepted'.route /\ accepted'.opaque
        /\ accepted'.key = att.evidence.key
    BY <1>3, <2>3, <2>4 DEF Facts
  <2>6. Reserve(c)
    BY <1>3
  <2> HIDE DEF c
  <2> QED BY <1>1, <2>1, <2>2, <2>5, <2>6, MintsInference
<1> QED BY <1>2, <1>3 DEF ChatReply

LEMMA PaidKeeps ==
    ASSUME ClientInv, CeilingReply \/ InferenceTicket \/ InferenceTicketFails \/ Gzipped
    PROVE  ClientInv'
<1>1. /\ call \in CallType /\ accepted \in FactsType /\ accepted' = accepted
      /\ IsChat /\ Trusting /\ call.key = accepted.key /\ Len(wire) \in Nat
      /\ call.pc \in {"models", "ticket", "gzip"}
      /\ call.key \in Keys \cup {None} /\ call.resp \in {None, "live", "zeroized"}
  BY CallFacts DEF CeilingReply, InferenceTicket, InferenceTicketFails, Gzipped,
                   PlaceInv, Paid, CallType
<1>2. ASSUME NEW STATE code, code \in {"cancelled", "unsupported_request", "json_error",
                                 "inference_ticket_failed", "encrypt_failed"},
             Throw(code) \/ CatchAs(code)
      PROVE  ClientInv'
  BY <1>1, <1>2, ThrowKeeps, CatchKeeps DEF Codes, OtherErrors
<1>3. CASE CeilingReply
  <2>1. CASE MintInference(call)
    BY <1>1, <1>3, <2>1, MintsInference DEF Trusting, CeilingReply
  <2> QED BY <1>2, <1>3, <2>1 DEF CeilingReply
<1>4. CASE InferenceTicket
  <2> DEFINE c == [call EXCEPT !.ticket = PaidTicket]
             live == [c EXCEPT !.resp = "live"]
  <2>1. /\ wire # <<>> /\ Latest.call = call.n /\ Latest.path = "ticket"
        /\ call.pc = "ticket"
    BY <1>4 DEF InferenceTicket, Answered
  <2>2. /\ c \in CallType /\ c.n = call.n /\ c.kind = call.kind /\ c.gate = call.gate
        /\ c.hop = call.hop /\ c.key = call.key /\ c.ticket = Len(wire)
    BY <1>1 DEF CallType, PaidTicket
  <2>3. /\ live \in CallType /\ live.n = call.n /\ live.kind = call.kind
        /\ live.gate = call.gate /\ live.hop = call.hop /\ live.key = call.key
        /\ live.ticket = Len(wire)
    BY <1>1 DEF CallType, PaidTicket
  <2>4. \/ Throw("cancelled")
        \/ Goto(live, "gzip")
        \/ Settle(c, "encrypt_error", "live")
        \/ Request(c, CipherRequest(c))
        \/ Throw("encrypt_failed")
    BY <1>4 DEF InferenceTicket
  <2> HIDE DEF c, live
  <2>5. CASE Goto(live, "gzip")
    BY <1>1, <2>1, <2>3, <2>5, GotoKeeps DEF Early, Paid
  <2>6. CASE Settle(c, "encrypt_error", "live")
    BY <1>1, <2>2, <2>6, SettleKeeps DEF OtherErrors
  <2>7. CASE Request(c, CipherRequest(c))
    <3>1. Request(c, ToInference("content", Len(wire), "cipher", call.key))
      BY <2>2, <2>7 DEF CipherRequest
    <3> QED BY <1>1, <2>1, <2>2, <3>1, PresentKeeps
  <2> QED BY <1>2, <2>4, <2>5, <2>6, <2>7
<1>5. CASE InferenceTicketFails
  BY <1>2, <1>5 DEF InferenceTicketFails
<1>6. CASE Gzipped
  <2>1. /\ wire # <<>> /\ call.ticket = Len(wire) /\ Latest.path = "ticket"
        /\ Latest.call = call.n /\ call.pc = "gzip"
    BY <1>6, CallFacts DEF PlaceInv, Gzipped
  <2>2. CASE Request(call, CipherRequest(call))
    <3>1. Request(call, ToInference("content", Len(wire), "cipher", call.key))
      BY <2>1, <2>2 DEF CipherRequest
    <3> QED BY <1>1, <2>1, <3>1, PresentKeeps
  <2>3. CASE Settle(call, "encrypt_failed", "zeroized")
    BY <1>1, <2>3, SettleKeeps DEF Codes
  <2> QED BY <1>6, <2>2, <2>3 DEF Gzipped
<1> QED BY <1>3, <1>4, <1>5, <1>6

LEMMA RelayKeeps ==
    ASSUME ClientInv, RelayReply \/ StreamBody \/ WholeBody PROVE ClientInv'
<1>1. /\ call \in CallType /\ accepted \in FactsType /\ accepted' = accepted
      /\ call.pc \in {"content", "body"}
      /\ Zeroized \in {None, "live", "zeroized"}
  BY CallFacts DEF RelayReply, StreamBody, WholeBody, CallType, Zeroized
<1>2. ASSUME NEW STATE code, code \in {None, "transport_failed", "response_too_large", "cancelled",
                                 "callback_error"},
             Settle(call, code, Zeroized)
      PROVE  ClientInv'
  BY <1>1, <1>2, SettleKeeps DEF Codes, OtherErrors
<1>3. ASSUME NEW STATE code, code \in {None, "cancelled", "decrypt_failed", "response_invalid",
                                 "response_too_large", "transport_failed",
                                 "callback_error", "body_error"}, Throw(code)
      PROVE  ClientInv'
  BY <1>1, <1>3, ThrowKeeps DEF Codes, OtherErrors
<1>4. CASE RelayReply
  <2>1. CASE Goto(call, "body")
    BY <1>1, <2>1, GotoKeeps DEF Early, Paid
  <2>2. (IF Cancelled THEN "cancelled" ELSE "transport_failed")
           \in {"transport_failed", "cancelled"}
    OBVIOUS
  <2> QED BY <1>2, <1>4, <2>1, <2>2 DEF RelayReply
<1>5. CASE StreamBody
  BY <1>3, <1>5 DEF StreamBody
<1>6. CASE WholeBody
  BY <1>2, <1>3, <1>6 DEF WholeBody
<1> QED BY <1>4, <1>5, <1>6

LEMMA MediaKeeps ==
    ASSUME ClientInv, Media PROVE ClientInv'
<1>1. /\ call \in CallType /\ accepted \in FactsType /\ accepted' = accepted
      /\ IsMedia /\ ~IsChat /\ Len(wire) \in Nat /\ call.n \in Nat
      /\ call.pc \in {"run", "ticket", "content", "body"} /\ SplitOrigins
  BY CallFacts DEF Media, MediaRun, MediaTicket, MediaReply, MediaBody, PlaceInv,
                   IsMedia, IsChat
<1>2. ASSUME NEW STATE code, code \in {None, "timeout", "cancelled", "unsupported_request",
                                 "media_ticket_failed", "ticket_binding_mismatch",
                                 "transport_failed", "ticket_rejected",
                                 "relay_refused", "provider_failed",
                                 "response_invalid"}, Throw(code)
      PROVE  ClientInv'
  BY <1>1, <1>2, ThrowKeeps DEF Codes
<1>3. ASSUME NEW STATE code, code \in {"media_ticket_failed", "transport_failed"},
             NEW STATE retained, retained \in BOOLEAN
      PROVE  AbortKind(code, retained)
                \in {"media_ticket_failed", "transport_failed", "timeout", "cancelled"}
  BY <1>3 DEF AbortKind
<1>4. CASE MediaRun
  <2>1. CASE Request(call, ToControl("ticket", "shape"))
    <3> DEFINE r == ToControl("ticket", "shape")
    <3>1. /\ r \in RequestType /\ r.call = call.n /\ r.path = "ticket" /\ r.key
          /\ r.ticket = 0 /\ r.to = "control" /\ r.body = "shape"
      BY <1>1 DEF ToControl, RequestType
    <3>2. HopDue => call.hop = "ok"
      BY <1>1, <1>4, CallFacts DEF PlaceInv, HopDue, MediaRun
    <3>3. Request(call, r)
      BY <2>1
    <3> HIDE DEF r
    <3> QED BY <1>1, <3>1, <3>2, <3>3, RequestKeeps
  <2> QED BY <1>2, <1>3, <1>4, <2>1 DEF MediaRun
<1>5. CASE MediaTicket
  <2>1. CASE Answered /\ Request(call, ToInference("content", Len(wire), "plain", None))
    <3>1. wire # <<>> /\ Latest.call = call.n /\ Latest.path = "ticket"
          /\ call.pc = "ticket"
      BY <1>5, <2>1 DEF MediaTicket, Answered
    <3> QED BY <1>1, <2>1, <3>1, PresentKeeps
  <2> QED BY <1>2, <1>3, <1>5, <2>1 DEF MediaTicket
<1>6. CASE MediaReply
  <2>1. CASE Goto(call, "body")
    BY <1>1, <1>6, <2>1, GotoKeeps DEF Early, Paid, MediaReply
  <2>2. deploy.bound \in BOOLEAN
    BY DeploymentsAssumption DEF ClientInv, ClientTypeOK
  <2> QED BY <1>2, <1>3, <1>6, <2>1, <2>2 DEF MediaReply, PostFailed
<1>7. CASE MediaBody
  BY <1>2, <1>7 DEF MediaBody
<1> QED BY <1>4, <1>5, <1>6, <1>7 DEF Media

\* The initial state, and every step.
LEMMA InitInv ==
    ASSUME Init PROVE ClientInv
<1>1. call.n = 0 /\ call.kind = None /\ call.pc = "idle" /\ call \in CallType
  BY DEF Init, NewCall, CallType, Codes
<1>2. Index = {} /\ accepted \in FactsType /\ wire \in Seq(RequestType)
  BY DEF Init, Index, NoAtt, FactsType, Faults
<1>3. ClientTypeOK
  BY <1>1, <1>2 DEF Init, ClientTypeOK
<1>4. PlaceInv
  BY <1>1 DEF PlaceInv, Early, Unpaid, Paid, None
<1> QED BY <1>2, <1>3, <1>4 DEF ClientInv

LEMMA NextInv ==
    ASSUME ClientInv, [Next]_vars PROVE ClientInv'
<1>1. CASE Begin
  BY <1>1, BeginKeeps
<1>2. CASE Opened \/ OpenThrows
  BY <1>2, OpenKeeps
<1>3. CASE Run
  BY <1>3, RunKeeps
<1>4. CASE Hop
  BY <1>4, HopKeeps
<1>5. CASE Prove
  BY <1>5, ProveKeeps
<1>6. CASE Chat
  BY <1>6, ChatReplyKeeps, PaidKeeps, RelayKeeps DEF Chat
<1>7. CASE Media
  BY <1>7, MediaKeeps
<1>8. CASE Abort \/ ConnectionEnds \/ UNCHANGED vars
  <2>1. /\ deploy' = deploy /\ call' = call /\ wire' = wire /\ accepted' = accepted
        /\ signal' \in {"live", "abort", "timeout"}
        /\ phase' \in {"unverified", "attested", "ended"}
    BY <1>8 DEF Abort, ConnectionEnds, Channel!End, vars, ClientInv, ClientTypeOK
  <2>2. ClientTypeOK'
    BY <2>1 DEF ClientInv, ClientTypeOK
  <2>3. PlaceInv'
    BY <2>1 DEF ClientInv, PlaceInv, Trusting, Latest, SplitOrigins, HopDue, IsMedia,
                IsChat
  <2> QED BY <2>1, <2>2, <2>3, WireSame
<1> QED BY <1>1, <1>2, <1>3, <1>4, <1>5, <1>6, <1>7, <1>8 DEF Next, Step

\* Over any number of calls of any client, with any providers, models and keys,
\* the types, the history of requests and the place of the call fit together
\* (chatOperation, attestRoute and the media calls, with every failure path).
THEOREM AlwaysClientInv == Spec => []ClientInv
<1>1. Init => ClientInv
  BY InitInv
<1>2. ClientInv /\ [Next]_vars => ClientInv'
  BY NextInv
<1> QED BY <1>1, <1>2, PTL DEF Spec

\* The privacy split of createClient's two origins holds in every deployment: a
\* host that is shown the API key is never shown a prompt in the clear.
THEOREM AlwaysCredentialIsolation == Spec => []CredentialIsolation
<1>1. ASSUME ClientInv PROVE CredentialIsolation
  <2>1. ASSUME NEW i \in Index
        PROVE  GoodRequest(i) /\ Sent(i) \in RequestType
    BY <1>1, <2>1 DEF ClientInv, ClientTypeOK, Index, Sent
  <2>2. ASSUME NEW i \in Index, NEW j \in Index, ~deploy.loopback,
               Sent(i).key, Sent(j).body = "plain"
        PROVE  Host(Sent(i)) # Host(Sent(j))
    <3>1. Sent(j).to = "inference" /\ deploy.split
      BY <2>1, <2>2 DEF GoodRequest, SplitOrigins
    <3>2. Sent(i).to = "control"
      BY <2>1, <2>2, <3>1 DEF GoodRequest, RequestType
    <3> QED BY <3>1, <3>2 DEF Host
  <2>3. ASSUME NEW i \in Index, deploy.split
        PROVE  /\ Sent(i).key <=> Sent(i).to = "control"
               /\ Sent(i).body \in {"plain", "cipher"} => ~Sent(i).key
    <3>1. Sent(i).to = "control" \/ Sent(i).to = "inference"
      BY <2>1, <2>3 DEF RequestType
    <3>2. Sent(i).body \in {"plain", "cipher"} => Sent(i).to = "inference"
      BY <2>1, <2>3 DEF GoodRequest
    <3> QED BY <2>1, <2>3, <3>1, <3>2 DEF GoodRequest
  <2> QED BY <2>2, <2>3 DEF CredentialIsolation
<1> QED BY <1>1, AlwaysClientInv, PTL

\* A ticket of mintTicket, postJson or attestRoute is presented once, by the
\* call that asked for it, for what it was minted for.
THEOREM AlwaysTicketOnce == Spec => []TicketOnce
<1>1. ASSUME ClientInv PROVE TicketOnce
  <2>1. ASSUME NEW i \in Index PROVE GoodRequest(i) /\ i \in Nat
    BY <1>1, <2>1, CallFacts DEF ClientInv, Index
  <2>2. ASSUME NEW i \in Index, NEW j \in Index, Sent(i).ticket = Sent(j).ticket,
               Sent(i).ticket # 0
        PROVE  i = j
    <3>1. Sent(i).ticket = i - 1 /\ Sent(j).ticket = j - 1 /\ i \in Nat /\ j \in Nat
      BY <2>1, <2>2 DEF GoodRequest
    <3>2. i - 1 = j - 1
      BY <2>2, <3>1
    <3> QED BY <3>1, <3>2
  <2> QED BY <2>1, <2>2 DEF TicketOnce, GoodRequest
<1> QED BY <1>1, AlwaysClientInv, PTL

\* chatOperation reserves money and sends ciphertext only after a verdict and
\* evidence made for this call's nonce, sealed to the key of that evidence.
THEOREM AlwaysPaidAfterTrust == Spec => []PaidAfterTrust
<1>1. ASSUME ClientInv PROVE PaidAfterTrust
  BY <1>1 DEF ClientInv, OwnRequest, PaidAfterTrust, Trusting
<1> QED BY <1>1, AlwaysClientInv, PTL

\* Where hop 1 is required, no credential leaves before gatewayHop or
\* openBoundOperation found it in order.
THEOREM AlwaysGatewayFirst == Spec => []GatewayFirst
<1>1. ASSUME ClientInv PROVE GatewayFirst
  BY <1>1 DEF ClientInv, OwnRequest, GatewayFirst, HopDue
<1> QED BY <1>1, AlwaysClientInv, PTL

\* A request of a bound client that goes to the gateway, or that the guard let
\* through, leaves while the connection is attested.
Guarded == deploy.bound /\ wire' # wire /\ Latest'.path # "models" => phase = "attested"

LEMMA RequestGuarded ==
    ASSUME ClientInv, NEW STATE c, NEW STATE r, r \in RequestType, Request(c, r),
           r.to = "inference" \/ DispatchAllowed \/ r.path = "models"
    PROVE  Guarded
<1>1. wire \in Seq(RequestType)
  BY DEF ClientInv, ClientTypeOK
<1>2. wire' = wire \/ (wire' = Append(wire, r) /\ Reaches(r))
  BY DEF Request
<1>3. wire' = Append(wire, r) => Latest' = r
  BY <1>1 DEF Latest
<1> QED BY <1>2, <1>3 DEF Guarded, Reaches, Retained, DispatchAllowed

LEMMA RequestsTyped ==
    ASSUME ClientInv,
           NEW STATE ticket, ticket \in Nat, NEW STATE seal, seal \in Keys \cup {None},
           NEW STATE toInf, toInf \in {"attestation", "content", "gateway"},
           NEW STATE body, body \in {"nonce", "cipher", "plain"},
           NEW STATE toCtl, toCtl \in {"attTicket", "models", "ticket"},
           NEW STATE ask, ask \in {"none", "route", "shape"}
    PROVE  /\ ToInference(toInf, ticket, body, seal) \in RequestType
           /\ ToInference(toInf, ticket, body, seal).to = "inference"
           /\ ToControl(toCtl, ask) \in RequestType
           /\ ToControl(toCtl, ask).path = toCtl
           /\ KeyGet \in RequestType /\ KeyGet.to = "inference"
<1>1. call.n \in Nat
  BY CallFacts
<1> QED BY <1>1 DEF ToInference, ToControl, KeyGet, RequestType

LEMMA StepGuarded ==
    ASSUME ClientInv, Step PROVE Guarded
<1>1. ASSUME NEW STATE c, NEW STATE path, path \in {"attTicket", "models", "ticket"},
             NEW STATE ask, ask \in {"none", "route", "shape"},
             DispatchAllowed \/ path = "models", Request(c, ToControl(path, ask))
      PROVE  Guarded
  <2>1. ToControl(path, ask) \in RequestType /\ ToControl(path, ask).path = path
    BY <1>1, RequestsTyped, CallFacts
  <2> QED BY <1>1, <2>1, RequestGuarded
<1>2. ASSUME NEW STATE c, NEW STATE path, path \in {"attestation", "content", "gateway"},
             NEW STATE ticket, ticket \in Nat, NEW STATE body, body \in {"nonce", "cipher", "plain"},
             NEW STATE seal, seal \in Keys \cup {None},
             Request(c, ToInference(path, ticket, body, seal))
      PROVE  Guarded
  <2>1. /\ ToInference(path, ticket, body, seal) \in RequestType
        /\ ToInference(path, ticket, body, seal).to = "inference"
    BY <1>2, RequestsTyped
  <2> QED BY <1>2, <2>1, RequestGuarded
<1>3. CASE wire' = wire
  BY <1>3 DEF Guarded
<1>4. ASSUME NEW STATE c, MintAttestation(c) \/ MintInference(c) \/ Reserve(c)
      PROVE  Guarded
  BY <1>1, <1>3, <1>4 DEF MintAttestation, MintInference, Reserve, Settle
<1>5. ASSUME NEW STATE code, NoTicket(code) PROVE Guarded
  <2>1. KeyGet \in RequestType /\ KeyGet.to = "inference"
    <3>1. call.n \in Nat
      BY CallFacts
    <3> QED BY <3>1 DEF KeyGet, ToInference, RequestType
  <2> QED BY <1>3, <1>5, <2>1, RequestGuarded DEF NoTicket, Refuse, Throw, Settle
<1>6. CASE Opened \/ OpenThrows
  BY <1>3, <1>6 DEF Opened, OpenThrows, CatchAs, Throw, Settle
<1>7. CASE Run
  BY <1>3, <1>4, <1>7 DEF Run, Throw, Settle, Goto
<1>8. CASE Hop
  <2>1. ASSUME NEW STATE status, HopDone(status) PROVE Guarded
    BY <1>3, <1>4, <2>1 DEF HopDone, Settle
  <2>2. CASE Request(call, GatewayGet)
    BY <1>2, <2>2 DEF GatewayGet
  <2> QED BY <1>3, <1>8, <2>1, <2>2 DEF Hop, HopPolicy, HopEvidence, HopVerify, CatchAs,
                                       Throw, Settle, Goto
<1>9. CASE Prove
  <2>1. CASE AttestationTicket
    BY <1>2, <1>3, <2>1, CallFacts DEF AttestationTicket, Throw, Settle
  <2>2. CASE AttestationTicketFails
    BY <1>3, <1>5, <2>2 DEF AttestationTicketFails, CatchAs, Refuse, Throw, Settle
  <2>3. CASE AttestationFails
    BY <1>3, <2>3 DEF AttestationFails, RefuseAs, Refuse, Throw, Settle
  <2>4. CASE TicketRejected
    BY <1>5, <2>4 DEF TicketRejected
  <2>5. CASE VerifyReply
    BY <1>3, <2>5 DEF VerifyReply, Throw, Settle
  <2> QED BY <1>9, <2>1, <2>2, <2>3, <2>4, <2>5 DEF Prove
<1>10. CASE Chat
  <2>1. CASE ChatReply
    BY <1>3, <1>4, <2>1 DEF ChatReply, CatchAs, Throw, Settle
  <2>2. CASE CeilingReply
    BY <1>3, <1>4, <2>2 DEF CeilingReply, CatchAs, Throw, Settle
  <2>3. CASE InferenceTicket
    <3> DEFINE c == [call EXCEPT !.ticket = PaidTicket]
    <3>1. c.ticket \in Nat /\ c.key \in Keys \cup {None}
      BY CallFacts DEF PaidTicket, CallType
    <3>2. wire' = wire \/ Request(c, ToInference("content", c.ticket, "cipher", c.key))
      BY <2>3 DEF InferenceTicket, Throw, Settle, Goto, CipherRequest
    <3> HIDE DEF c
    <3> QED BY <1>2, <1>3, <3>1, <3>2
  <2>4. CASE InferenceTicketFails
    BY <1>3, <2>4 DEF InferenceTicketFails, CatchAs, Throw, Settle
  <2>5. CASE Gzipped
    <3>1. call.ticket \in Nat /\ call.key \in Keys \cup {None}
      BY CallFacts DEF CallType
    <3> QED BY <1>2, <1>3, <2>5, <3>1 DEF Gzipped, Settle, CipherRequest
  <2>6. CASE RelayReply \/ StreamBody \/ WholeBody
    BY <1>3, <2>6 DEF RelayReply, StreamBody, WholeBody, CatchAs, Throw, Settle, Goto
  <2> QED BY <1>10, <2>1, <2>2, <2>3, <2>4, <2>5, <2>6 DEF Chat
<1>11. CASE Media
  <2>1. CASE MediaRun
    BY <1>1, <1>3, <2>1 DEF MediaRun, Throw, Settle
  <2>2. CASE MediaTicket
    BY <1>2, <1>3, <2>2, CallFacts DEF MediaTicket, Throw, Settle
  <2>3. CASE MediaReply \/ MediaBody
    BY <1>3, <2>3 DEF MediaReply, MediaBody, Throw, Settle, Goto
  <2> QED BY <1>11, <2>1, <2>2, <2>3 DEF Media
<1> QED BY <1>6, <1>7, <1>8, <1>9, <1>10, <1>11 DEF Step

LEMMA NextGuarded ==
    ASSUME ClientInv, [Next]_vars PROVE Guarded
<1>1. CASE Begin \/ Abort \/ ConnectionEnds \/ UNCHANGED vars
  BY <1>1 DEF Begin, Abort, ConnectionEnds, vars, Guarded
<1> QED BY <1>1, StepGuarded DEF Next

\* A bound client mints tickets and reaches the gateway only over a connection
\* that is attested at that moment (assertDispatchAllowed before every mint).
THEOREM AlwaysTicketsWhileAttested == Spec => TicketsWhileAttested
<1>1. ASSUME ClientInv, [Next]_vars
      PROVE  [deploy.bound /\ wire' # wire /\ Latest'.path # "models"
                => phase = "attested"]_vars
  BY <1>1, NextGuarded DEF Guarded
<1> QED BY <1>1, AlwaysClientInv, PTL DEF Spec, TicketsWhileAttested

----------------------------------------------------------------------------
(* What the caller is told                                                 *)

\* A call's local state, as an action passes it on: the call, its gate and its
\* verdict, with the hop status h.
Same(c) == /\ c \in CallType /\ c.n = call.n /\ c.kind = call.kind
           /\ c.trusted = call.trusted /\ c.gate = call.gate

\* Hop 1 is not yet due, or has a result, or was not asked for, or it had its
\* result before.
Asked(h) == \/ h # "not-requested" \/ call.gate # "on" \/ deploy.bound
            \/ ~Verifies
            \/ call.pc \notin Early /\ h = call.hop

\* A step that gives no verdict: content is sent and read, or the call ends with
\* an error that does not claim the contrary, or no content has been sent.
Routine ==
    /\ call'.n = call.n /\ call'.trusted = call.trusted /\ call'.gate = call.gate
    /\ call'.kind = call.kind /\ deploy' = deploy
    /\ call'.pc \in Early \cup {"over"} \/ Asked(call'.hop)
    /\ \/ call'.pc = "content"
       \/ call.pc = "content" /\ call'.pc = "body"
       \/ wire' = wire /\ call'.pc = "over" /\ call'.err \notin ContentFreeCodes
       \/ /\ call.pc \notin {"content", "body", "over"} /\ call'.pc # "body"
          /\ wire' = wire \/ \E r \in RequestType : /\ wire' = Append(wire, r)
                                                    /\ r.path # "content"

LEMMA SettleRoutine ==
    ASSUME NEW STATE c, Same(c), NEW STATE code, NEW STATE resp, Settle(c, code, resp),
           code \notin ContentFreeCodes \/ call.pc \notin {"content", "body", "over"}
    PROVE  Routine
<1>1. /\ call'.pc = "over" /\ call'.err = code /\ call'.n = c.n
      /\ call'.trusted = c.trusted /\ call'.gate = c.gate /\ wire' = wire
      /\ call'.kind = c.kind /\ deploy' = deploy
  BY DEF Same, Settle, CallType
<1> QED BY <1>1 DEF Same, Routine

LEMMA GotoRoutine ==
    ASSUME NEW STATE c, Same(c), NEW pc, Goto(c, pc),
           pc \in Early \/ Asked(c.hop),
           \/ call.pc = "content" /\ pc = "body"
           \/ call.pc \notin {"content", "body", "over"} /\ pc # "body"
    PROVE  Routine
<1>1. /\ call'.pc = pc /\ call'.n = c.n /\ call'.trusted = c.trusted
      /\ call'.gate = c.gate /\ call'.hop = c.hop /\ wire' = wire
      /\ call'.kind = c.kind /\ deploy' = deploy
  BY DEF Same, Goto, CallType
<1> QED BY <1>1 DEF Same, Routine

LEMMA RequestRoutine ==
    ASSUME NEW STATE c, Same(c), NEW STATE r, r \in RequestType, Request(c, r),
           r.path \in Early \/ Asked(c.hop),
           call.pc \notin {"content", "body", "over"}
    PROVE  Routine
<1>1. /\ call'.pc = r.path /\ call'.n = c.n /\ call'.trusted = c.trusted
      /\ call'.gate = c.gate /\ call'.hop = c.hop
      /\ wire' = wire \/ wire' = Append(wire, r)
      /\ call'.kind = c.kind /\ deploy' = deploy
  BY DEF Same, Request, CallType
<1>2. r.path # "body"
  BY DEF RequestType
<1> QED BY <1>1, <1>2 DEF Same, Routine

\* A catch, a refusal, a fallback.
LEMMA RefusalRoutine ==
    ASSUME ClientInv, NEW STATE code,
           Throw(code) \/ CatchAs(code) \/ Refuse(code) \/ RefuseAs(code),
           call.pc \notin {"content", "body", "over"}
    PROVE  Routine
<1>1. Same(call)
  BY CallFacts DEF Same
<1> QED BY <1>1, SettleRoutine DEF Throw, CatchAs, Refuse, RefuseAs

LEMMA MintRoutine ==
    ASSUME ClientInv, NEW STATE c, Same(c), Asked(c.hop),
           MintAttestation(c) \/ MintInference(c) \/ Reserve(c),
           call.pc \notin {"content", "body", "over"}
    PROVE  Routine
<1>1. ASSUME NEW STATE path, path \in {"attTicket", "models", "ticket"},
             NEW STATE ask, ask \in {"none", "route", "shape"},
             Request(c, ToControl(path, ask))
      PROVE  Routine
  <2>1. ToControl(path, ask) \in RequestType
    BY <1>1, CallFacts DEF ToControl, RequestType
  <2> QED BY <1>1, <2>1, RequestRoutine
<1> QED BY <1>1, SettleRoutine DEF MintAttestation, MintInference, Reserve

LEMMA NoTicketRoutine ==
    ASSUME ClientInv, NEW STATE code, NoTicket(code), Asked(call.hop),
           call.pc \notin {"content", "body", "over"}
    PROVE  Routine
<1>1. Same(call) /\ KeyGet \in RequestType
  BY CallFacts DEF Same, KeyGet, ToInference, RequestType
<1> QED BY <1>1, RequestRoutine, RefusalRoutine DEF NoTicket

LEMMA HopDoneRoutine ==
    ASSUME ClientInv, NEW STATE status,
           status \in {"ok", "failed", "unpinned", "unavailable"}, HopDone(status),
           call.pc \notin {"content", "body", "over"}
    PROVE  Routine
<1> DEFINE c == [call EXCEPT !.hop = status]
<1>1. c.hop = status /\ Same(c)
  BY CallFacts DEF Same, CallType
<1>2. Asked(c.hop)
  BY <1>1 DEF Asked
<1>3. Settle(c, "attestation_untrusted", c.resp) \/ MintAttestation(c)
  BY DEF HopDone
<1> HIDE DEF c
<1> QED BY <1>1, <1>2, <1>3, SettleRoutine, MintRoutine

\* Every step but the verdict of verify and verifyRoute is routine.
LEMMA StepRoutine ==
    ASSUME ClientInv, Step, ~VerifyReply PROVE Routine
<1>s. Same(call)
  BY CallFacts DEF Same
<1>a. call.pc \notin Early => Asked(call.hop)
  BY DEF Asked
<1>e. /\ "cancelled" \notin ContentFreeCodes /\ "timeout" \notin ContentFreeCodes
      /\ "transport_failed" \notin ContentFreeCodes
      /\ "response_too_large" \notin ContentFreeCodes /\ None \notin ContentFreeCodes
      /\ {"ticket_rejected", "relay_refused", "provider_failed", "decrypt_failed",
          "response_invalid", "callback_error", "body_error"} \cap ContentFreeCodes = {}
  BY DEF ContentFreeCodes, None
<1>0. ASSUME NEW STATE code, code \notin ContentFreeCodes, Throw(code) PROVE Routine
  BY <1>0, <1>s, SettleRoutine DEF Throw
<1>1. ASSUME NEW STATE c, Same(c), Asked(c.hop),
             NEW STATE path, path \in {"attestation", "content"},
             NEW STATE ticket, ticket \in Nat, NEW STATE body, body \in {"nonce", "cipher", "plain"},
             NEW STATE seal, seal \in Keys \cup {None},
             call.pc \notin {"content", "body", "over"},
             Request(c, ToInference(path, ticket, body, seal))
      PROVE  Routine
  <2>1. ToInference(path, ticket, body, seal) \in RequestType
    BY <1>1, RequestsTyped
  <2> QED BY <1>1, <2>1, RequestRoutine
<1>2. CASE Opened
  <2>1. call' = [call EXCEPT !.pc = "run", !.hop = "ok"] /\ call \in CallType
        /\ call.pc = "open" /\ wire' = wire
    BY <1>2, CallFacts DEF Opened
  <2>2. /\ call'.pc = "run" /\ call'.n = call.n /\ call'.trusted = call.trusted
        /\ call'.gate = call.gate /\ call'.kind = call.kind /\ deploy' = deploy
    BY <1>2, <2>1 DEF CallType, Opened
  <2> QED BY <2>1, <2>2 DEF Routine, Early
<1>3. CASE OpenThrows
  BY <1>3, RefusalRoutine DEF OpenThrows
<1>4. CASE Run
  <2>1. call.pc = "run"
    BY <1>4 DEF Run
  <2>2. CASE Goto(call, "policy")
    BY <1>s, <2>1, <2>2, GotoRoutine DEF Early
  <2>3. CASE \E code \in {"provider_unsupported", "unsupported_request"} : Throw(code)
    BY <2>1, <2>3, RefusalRoutine
  <2>4. CASE MintAttestation(call) /\ ~(call.gate = "on" /\ ~deploy.bound)
    BY <1>s, <2>1, <2>4, MintRoutine DEF Asked
  <2> QED BY <1>4, <2>2, <2>3, <2>4 DEF Run
<1>5. CASE Hop
  <2>1. call.pc \in Early /\ call.pc \notin {"content", "body", "over"}
    BY <1>5 DEF Hop, HopPolicy, HopEvidence, HopVerify, Early
  <2>2. CASE Request(call, GatewayGet)
    <3>1. GatewayGet \in RequestType /\ GatewayGet.path = "gateway"
      BY CallFacts DEF GatewayGet, ToInference, RequestType
    <3> QED BY <1>s, <2>1, <2>2, <3>1, RequestRoutine DEF Early
  <2>3. ASSUME NEW pc \in {"hopVerify", "hopRefresh"}, Goto(call, pc) PROVE Routine
    BY <1>s, <2>1, <2>3, GotoRoutine DEF Early
  <2>4. ASSUME NEW status \in {"ok", "failed", "unpinned", "unavailable"}, HopDone(status)
        PROVE  Routine
    BY <2>1, <2>4, HopDoneRoutine
  <2>5. ASSUME NEW code, Throw(code) \/ CatchAs(code) PROVE Routine
    BY <2>1, <2>5, RefusalRoutine
  <2> QED BY <1>5, <2>2, <2>3, <2>4, <2>5 DEF Hop, HopPolicy, HopEvidence, HopVerify
<1>6. CASE Prove
  <2>1. call.pc \in {"attTicket", "attestation", "keyGet"}
        /\ call.pc \notin {"content", "body", "over"} /\ Asked(call.hop)
    BY <1>6, <1>a DEF Prove, AttestationTicket, AttestationTicketFails, AttestationFails,
                      TicketRejected, VerifyReply, Early
  <2>2. CASE AttestationTicket
    <3> DEFINE c == [call EXCEPT !.ticket = Len(wire)]
    <3>1. Same(c) /\ c.hop = call.hop
      BY CallFacts DEF Same, CallType
    <3>2. Throw("cancelled") \/ Request(c, ToInference("attestation", Len(wire), "nonce", None))
      BY <2>2 DEF AttestationTicket
    <3> HIDE DEF c
    <3> QED BY <1>1, <2>1, <3>1, <3>2, CallFacts, RefusalRoutine
  <2>3. ASSUME NEW code, Throw(code) \/ CatchAs(code) \/ Refuse(code) \/ RefuseAs(code)
        PROVE  Routine
    BY <2>1, <2>3, RefusalRoutine
  <2>4. ASSUME NEW code, NoTicket(code) PROVE Routine
    BY <2>1, <2>4, NoTicketRoutine
  <2> QED BY <1>6, <2>2, <2>3, <2>4 DEF Prove, AttestationTicketFails, AttestationFails,
                                        TicketRejected
<1>7. CASE ChatReply
  <2>1. call.pc = "attestation" /\ Asked(call.hop)
    BY <1>7, <1>a DEF ChatReply, Early
  <2>2. PICK att \in Attestations :
           \/ Reserve([call EXCEPT !.session = "live", !.key = att.evidence.key])
           \/ \E code \in ChatRefusals(att) : CatchAs(code)
    BY <1>7 DEF ChatReply
  <2>3. CASE \E code \in ChatRefusals(att) : CatchAs(code)
    BY <2>1, <2>3, RefusalRoutine
  <2>4. CASE Reserve([call EXCEPT !.session = "live", !.key = att.evidence.key])
    <3> DEFINE c == [call EXCEPT !.session = "live", !.key = att.evidence.key]
    <3>1. Same(c) /\ c.hop = call.hop
      BY FactsTyped, CallFacts DEF Same, CallType
    <3> HIDE DEF c
    <3> QED BY <2>1, <2>4, <3>1, MintRoutine DEF c
  <2> QED BY <2>2, <2>3, <2>4
<1>8. CASE CeilingReply \/ InferenceTicketFails
  <2>1. call.pc \in {"models", "ticket"} /\ Asked(call.hop)
    BY <1>8, <1>a DEF CeilingReply, InferenceTicketFails, Early
  <2> QED BY <1>8, <1>s, <2>1, MintRoutine, RefusalRoutine DEF CeilingReply, InferenceTicketFails
<1>9. CASE InferenceTicket
  <2> DEFINE c == [call EXCEPT !.ticket = PaidTicket]
             d == [c EXCEPT !.resp = "live"]
  <2>1. call.pc = "ticket" /\ Asked(call.hop)
    BY <1>9, <1>a DEF InferenceTicket, Early
  <2>2. /\ Same(c) /\ c.hop = call.hop /\ Same(d) /\ d.hop = call.hop
        /\ c.ticket \in Nat /\ c.key \in Keys \cup {None}
    BY CallFacts DEF Same, CallType, PaidTicket
  <2>3. \/ Throw("cancelled") \/ Throw("encrypt_failed") \/ Goto(d, "gzip")
        \/ Settle(c, "encrypt_error", "live")
        \/ Request(c, ToInference("content", c.ticket, "cipher", c.key))
    BY <1>9 DEF InferenceTicket, CipherRequest
  <2> HIDE DEF c, d
  <2>4. CASE Goto(d, "gzip") BY <2>1, <2>2, <2>4, GotoRoutine
  <2>5. CASE Settle(c, "encrypt_error", "live") BY <2>1, <2>2, <2>5, SettleRoutine
  <2>6. CASE Request(c, ToInference("content", c.ticket, "cipher", c.key))
    BY <1>1, <2>1, <2>2, <2>6
  <2> QED BY <2>1, <2>3, <2>4, <2>5, <2>6, RefusalRoutine
<1>10. CASE Gzipped
  <2>1. call.pc = "gzip" /\ Asked(call.hop) /\ call.ticket \in Nat /\ call.key \in Keys \cup {None}
    BY <1>10, <1>a, CallFacts DEF Gzipped, Early, CallType
  <2>2. \/ Settle(call, "encrypt_failed", "zeroized")
        \/ Request(call, ToInference("content", call.ticket, "cipher", call.key))
    BY <1>10 DEF Gzipped, CipherRequest
  <2> QED BY <1>1, <1>s, <2>1, <2>2, SettleRoutine
<1>11. CASE RelayReply
  <2>1. call.pc = "content" /\ Asked(call.hop)
    BY <1>11, <1>a DEF RelayReply, Early
  <2>2. CASE Goto(call, "body") BY <1>s, <2>1, <2>2, GotoRoutine
  <2>3. ASSUME NEW STATE code, code \notin ContentFreeCodes, Settle(call, code, Zeroized)
        PROVE  Routine
    BY <1>s, <2>3, SettleRoutine
  <2> QED BY <1>11, <1>e, <2>2, <2>3 DEF RelayReply
<1>12. CASE StreamBody
  BY <1>12, <1>e, <1>0 DEF StreamBody
<1>13. CASE WholeBody
  <2>1. ASSUME NEW STATE code, code \notin ContentFreeCodes, Settle(call, code, Zeroized)
        PROVE  Routine
    BY <1>s, <2>1, SettleRoutine
  <2> QED BY <1>13, <1>e, <1>0, <2>1 DEF WholeBody
<1>14. CASE MediaRun
  <2>1. call.pc = "run" /\ Asked(call.hop)
    BY <1>14 DEF MediaRun, IsMedia, Asked, Verifies
  <2>2. CASE Request(call, ToControl("ticket", "shape"))
    <3>1. ToControl("ticket", "shape") \in RequestType
      BY CallFacts DEF ToControl, RequestType
    <3> QED BY <1>s, <2>1, <2>2, <3>1, RequestRoutine
  <2> QED BY <1>14, <2>1, <2>2, RefusalRoutine DEF MediaRun
<1>15. CASE MediaTicket
  <2>1. call.pc = "ticket" /\ Asked(call.hop)
    BY <1>15, <1>a DEF MediaTicket, Early
  <2>2. CASE Request(call, ToInference("content", Len(wire), "plain", None))
    BY <1>1, <1>s, <2>1, <2>2, CallFacts
  <2> QED BY <1>15, <2>1, <2>2, RefusalRoutine DEF MediaTicket
<1>16. CASE MediaReply
  <2>1. call.pc = "content" /\ Asked(call.hop)
    BY <1>16, <1>a DEF MediaReply, Early
  <2>2. CASE Goto(call, "body") BY <1>s, <2>1, <2>2, GotoRoutine
  <2>3. AbortKind(PostFailed, deploy.bound) \notin ContentFreeCodes
    BY <1>e DEF AbortKind, PostFailed
  <2> QED BY <1>16, <1>e, <1>0, <2>2, <2>3 DEF MediaReply
<1>17. CASE MediaBody
  BY <1>17, <1>e, <1>0 DEF MediaBody
<1> QED BY <1>2, <1>3, <1>4, <1>5, <1>6, <1>7, <1>8, <1>9, <1>10, <1>11, <1>12, <1>13,
           <1>14, <1>15, <1>16, <1>17 DEF Step, Chat, Media

\* A routine step leaves no verdict, and no content behind a claim that there is
\* none.
LEMMA RoutineKeeps ==
    ASSUME ClientInv, AnswerInv, ClientInv', Routine, call.pc \notin {"idle", "over"}
    PROVE  AnswerInv'
<1>1. ~call'.trusted
  BY DEF AnswerInv, Routine
<1>2. Verifies' /\ call'.gate = "on" /\ call'.pc \notin Early \cup {"idle", "over"}
          => call'.hop # "not-requested"
  <2>1. deploy'.bound /\ call'.pc \notin Early \cup {"idle", "over"} => call'.hop = "ok"
    BY DEF ClientInv, PlaceInv, HopDue
  <2> QED BY <2>1 DEF AnswerInv, Routine, Asked, Verifies
<1>3. ASSUME call.pc \notin {"content", "body", "over"}, call'.pc \notin {"content", "body"},
             wire' = wire \/ \E r \in RequestType : wire' = Append(wire, r) /\ r.path # "content"
      PROVE  ~ContentSent'
  <2>0. ~ContentSent /\ wire \in Seq(RequestType) /\ call'.n = call.n
    BY <1>3 DEF AnswerInv, ClientInv, ClientTypeOK, Routine
  <2>1. CASE wire' = wire BY <2>0, <2>1 DEF ContentSent, Index, Sent
  <2>2. ASSUME NEW r \in RequestType, wire' = Append(wire, r), r.path # "content"
        PROVE  ~ContentSent'
    <3>1. /\ Len(wire) \in Nat /\ Len(wire') = Len(wire) + 1 /\ wire'[Len(wire) + 1] = r
          /\ \A j \in 1..Len(wire) : wire'[j] = wire[j]
      BY <2>0, <2>2
    <3>2. \A j \in Index' : j \in Index \/ j = Len(wire) + 1
      BY <3>1 DEF Index
    <3> QED BY <2>0, <2>2, <3>1, <3>2 DEF ContentSent, Index, Sent
  <2> QED BY <1>3, <2>1, <2>2
<1>4. ContentFreeErrors' /\ (call'.pc \notin {"content", "body", "over"} => ~ContentSent')
  BY <1>3 DEF Routine, ContentFreeErrors, ContentSent
<1> QED BY <1>1, <1>2, <1>4 DEF AnswerInv, TrustedTruth

\* A verdict is given for this call's own evidence.
LEMMA VerdictKeeps ==
    ASSUME ClientInv, AnswerInv, VerifyReply PROVE AnswerInv'
<1>1. /\ call \in CallType /\ call.pc \in {"attestation", "keyGet"} /\ Verifies
      /\ call.pc \notin Early \cup {"idle", "over", "content", "body"}
  BY CallFacts DEF VerifyReply, Early
<1>2. PICK att \in Attestations :
         /\ \/ Throw("attestation_untrusted")
            \/ Settle([call EXCEPT !.trusted = RouteTrusted(att)], None, None)
         /\ accepted' = Facts(att)
  BY DEF VerifyReply
<1>3. /\ call'.pc = "over" /\ call'.n = call.n /\ call'.gate = call.gate
      /\ call'.hop = call.hop /\ wire' = wire /\ deploy' = deploy
      /\ call'.prov = call.prov
      /\ call'.trusted => call.trusted \/ RouteTrusted(att)
  <2>1. CASE Throw("attestation_untrusted") BY <1>1, <2>1 DEF Throw, Settle, CallType
  <2>2. CASE Settle([call EXCEPT !.trusted = RouteTrusted(att)], None, None)
    BY <1>1, <2>2 DEF Settle, CallType
  <2> QED BY <1>2, <2>1, <2>2
<1>4. ~call.trusted /\ ~ContentSent
  BY <1>1 DEF AnswerInv
<1>5. TrustedTruth'
  <2> SUFFICES ASSUME call'.trusted
               PROVE  /\ accepted'.own = call.n /\ accepted'.route
                      /\ accepted'.fault \in {None} \cup Unlooked(call.prov)
                      /\ call.prov # "chutes" => accepted'.named
                      /\ call.gate = "on" \/ deploy.bound => call.hop = "ok"
    BY <1>3 DEF TrustedTruth
  <2>1. RouteTrusted(att) BY <1>3, <1>4
  <2>2. accepted'.own = call.n
    BY <1>2, <2>1 DEF Facts, RouteTrusted, VerifyRawEvidence
  <2>3. accepted'.route
    BY <1>2, <2>1 DEF Facts, RouteTrusted, RouteEchoed, Differs
  <2>4. accepted'.fault \in {None} \cup Unlooked(call.prov)
    <3>1. accepted'.fault = att.evidence.fault
      BY <1>2 DEF Facts
    <3>2. accepted'.fault \in Faults
      BY <1>2, FactsTyped DEF FactsType
    <3>3. accepted'.fault \notin VerifierFaults(call.prov)
      BY <2>1, <3>1 DEF RouteTrusted, VerifyRawEvidence
    <3> QED BY <3>2, <3>3 DEF VerifierFaults, Faults, Unlooked
  <2>5. call.prov # "chutes" => accepted'.named
    BY <1>2, <2>1 DEF Facts, RouteTrusted, VerifyRawEvidence, NamesModel
  <2>6. call.gate = "on" => call.hop = "ok"
    BY <1>1, <2>1 DEF AnswerInv, RouteTrusted
  <2>7. deploy.bound => call.hop = "ok"
    BY <1>1 DEF ClientInv, PlaceInv, HopDue
  <2> QED BY <2>2, <2>3, <2>4, <2>5, <2>6, <2>7
<1>6. ~ContentSent'
  BY <1>3, <1>4 DEF ContentSent, Index, Sent
<1> QED BY <1>3, <1>5, <1>6 DEF AnswerInv, ContentFreeErrors, ContentSent

\* A call that begins has sent nothing and learned nothing.
LEMMA BeginAnswers ==
    ASSUME ClientInv, Begin PROVE AnswerInv'
<1>1. /\ call'.trusted = FALSE /\ call'.n = call.n + 1 /\ wire' = wire
      /\ call'.pc \in {"over", "open", "run"}
  BY DEF Begin, NewCall
<1>2. ~ContentSent'
  <2>1. ASSUME NEW i \in Index' PROVE Sent(i)'.call # call'.n
    <3>1. i \in Index /\ Sent(i)' = Sent(i)
      BY <1>1 DEF Index, Sent
    <3>2. Sent(i).call <= call.n /\ Sent(i).call \in Nat /\ call.n \in Nat
      <4>1. Sent(i).call <= call.n /\ call.n \in Nat
        BY <3>1, CallFacts DEF ClientInv, GoodRequest
      <4>2. wire \in Seq(RequestType) /\ i \in 1..Len(wire)
        BY <3>1 DEF ClientInv, ClientTypeOK, Index
      <4>3. wire[i] \in RequestType BY <4>2
      <4> QED BY <4>1, <4>3 DEF Sent, RequestType
    <3> QED BY <1>1, <3>1, <3>2
  <2> QED BY <2>1 DEF ContentSent
<1> QED BY <1>1, <1>2 DEF AnswerInv, TrustedTruth, ContentFreeErrors, ContentSent, Early

LEMMA AnswerNext ==
    ASSUME ClientInv, AnswerInv, ClientInv', [Next]_vars PROVE AnswerInv'
<1>1. CASE Abort \/ ConnectionEnds \/ UNCHANGED vars
  <2>1. UNCHANGED <<deploy, call, wire, accepted>>
    BY <1>1 DEF Abort, ConnectionEnds, vars
  <2> QED BY <2>1 DEF AnswerInv, TrustedTruth, ContentFreeErrors, ContentSent, Index, Sent,
                      Verifies
<1>2. CASE Step /\ ~VerifyReply
  <2>1. call.pc \notin {"idle", "over"}
    BY <1>2 DEF Step, Opened, OpenThrows, Run, Hop, HopPolicy, HopEvidence, HopVerify,
       Prove, AttestationTicket, AttestationTicketFails, AttestationFails, TicketRejected,
       Chat, ChatReply, CeilingReply, InferenceTicket, InferenceTicketFails, Gzipped,
       RelayReply, StreamBody, WholeBody, Media, MediaRun, MediaTicket, MediaReply, MediaBody
  <2> QED BY <1>2, <2>1, StepRoutine, RoutineKeeps
<1> QED BY <1>1, <1>2, VerdictKeeps, BeginAnswers DEF Next

LEMMA AnswerInit == Init => AnswerInv
<1> SUFFICES ASSUME Init PROVE AnswerInv OBVIOUS
<1>1. call.pc = "idle" /\ ~call.trusted /\ Index = {}
  BY DEF Init, NewCall, Index
<1> QED BY <1>1 DEF AnswerInv, TrustedTruth, ContentFreeErrors, ContentSent

\* The invariant of what callers are told, over that of what is sent.
THEOREM AlwaysAnswerInv == Spec => []AnswerInv
<1>1. ClientInv /\ ClientInv' /\ AnswerInv /\ [Next]_vars => AnswerInv'
  BY AnswerNext
<1> QED BY <1>1, AnswerInit, AlwaysClientInv, PTL DEF Spec

\* A report of verify or verifyRoute that says "trusted" is about evidence made for
\* this call, in which no required check of the provider's verifier finds a fault, on
\* the route that was asked for, through a gateway that held if the caller asked for
\* that or the client is bound.
THEOREM AlwaysTrustedTruth == Spec => []TrustedTruth
<1>1. AnswerInv => TrustedTruth BY DEF AnswerInv
<1> QED BY <1>1, AlwaysAnswerInv, PTL

\* An error whose code says that no content was sent is true of the whole call,
\* whichever fallback or deadline it met.
THEOREM AlwaysContentFreeErrors == Spec => []ContentFreeErrors
<1>1. AnswerInv => ContentFreeErrors BY DEF AnswerInv
<1> QED BY <1>1, AlwaysAnswerInv, PTL
=============================================================================
