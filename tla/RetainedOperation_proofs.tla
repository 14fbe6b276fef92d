---------------------- MODULE RetainedOperation_proofs ----------------------
(* Proofs about RetainedOperation, for every value of its constants.       *)
EXTENDS RetainedOperation, TLAPS

----------------------------------------------------------------------------
(* Types of the shared endings                                             *)

\* The closed sets of codes and errors.
LEMMA ErrorTypes ==
    /\ NoErr \in Errors
    /\ \A c \in Codes \cup {"none"} : Early(c) \in Errors /\ Late(c) \in Errors
    /\ \A c \in Codes, p \in Phases : Error(c, p) \in Errors
    /\ NoReq \in Reqs
  BY DEF NoErr, Early, Late, Error, Errors, Codes, Phases, NoReq, Reqs, Kinds

\* guard throws one of its four codes or returns.
LEMMA GuardCodes ==
    ASSUME TypeOK, NEW m, NEW w, NEW e, NEW a
    PROVE  GuardAt(m, w, e, a) \in {"cancelled", "expired", "connection_lost",
                                    "ok"}
  BY DEF GuardAt, TypeOK, States

\* agent.destroy() leaves a well-formed socket.
LEMMA DestroyedType == ASSUME TypeOK PROVE Destroyed \in Nets
  BY DEF TypeOK, Nets, Destroyed

\* Preparation's catch keeps the types of what it changes.
LEMMA FailOpenType ==
    ASSUME TypeOK, NEW e \in Errors, FailOpen(e)
    PROVE  state' \in States /\ net' \in Nets /\ req' \in Reqs /\ op' \in Ops
           /\ last' \in Lasts
  <1>1. state' \in States BY DEF TypeOK, FailOpen, States
  <1>2. op' \in Ops BY DEF TypeOK, FailOpen, Ops
  <1>3. QED BY <1>1, <1>2, DestroyedType, ErrorTypes DEF FailOpen, TypeOK

\* exchange's terminate keeps the types of what it changes.
LEMMA TerminateType ==
    ASSUME TypeOK, NEW e \in Errors, terminate(e)
    PROVE  state' \in States /\ net' \in Nets /\ req' \in Reqs /\ op' \in Ops
           /\ last' \in Lasts
  <1>1. CASE FailOpen(e) BY <1>1, FailOpenType
  <1>2. CASE ~FailOpen(e)
    <2>1. state' \in States BY <1>2 DEF TypeOK, terminate, States
    <2>2. last' \in Lasts
      BY <1>2 DEF TypeOK, terminate, Lasts, Errors, Reqs
    <2>3. QED
      BY <1>2, <2>1, <2>2, DestroyedType, ErrorTypes DEF terminate, TypeOK
  <1>3. QED BY <1>1, <1>2

\* close() keeps the types of what it changes.
LEMMA CloseReadyType ==
    ASSUME TypeOK, CloseReady
    PROVE  state' \in States /\ net' \in Nets /\ req' \in Reqs /\ op' \in Ops
           /\ last' \in Lasts
  <1>1. state' \in States BY DEF TypeOK, CloseReady, States
  <1>2. last' \in Lasts
    BY DEF TypeOK, CloseReady, Lasts, Reqs, Codes, Phases
  <1>3. QED BY <1>1, <1>2, DestroyedType, ErrorTypes DEF CloseReady, TypeOK

----------------------------------------------------------------------------
(* Type correctness                                                        *)

\* A new operation is well-formed.
LEMMA InitType == Init => TypeOK
  <1> SUFFICES ASSUME Init PROVE TypeOK OBVIOUS
  <1>1. state \in States BY DEF Init, NewState, States
  <1>2. net \in Nets BY DEF Init, NewNet, Nets
  <1>3. op \in Ops
    BY ErrorTypes, ConstantsAssumption DEF Init, NewOp, Ops, NoExpiry
  <1>4. last \in Lasts BY DEF Init, Lasts, Phases
  <1>5. QED BY <1>1, <1>2, <1>3, <1>4, ErrorTypes DEF Init, TypeOK

\* Every step of the socket's and the agent's events keeps the types.
LEMMA SocketStepType == ASSUME TypeOK, SocketStep PROVE TypeOK'
  <1>1. CASE LookupDone
    <2>1. net' \in Nets BY <1>1 DEF LookupDone, TypeOK, Nets
    <2>2. QED BY <1>1, <2>1 DEF LookupDone, TypeOK, clocks, history
  <1>2. ASSUME NEW c \in Codes, NEW b \in BOOLEAN,
               NEW s \in {"destroyed", "closed"},
               state' \in States, RefuseConnection(c, b, s)
        PROVE  TypeOK'
    <2>1. net' \in Nets BY <1>2 DEF RefuseConnection, TypeOK, Nets
    <2>2. req' \in Reqs
      BY <1>2 DEF RefuseConnection, TypeOK, Reqs, Errors, Phases
    <2>3. QED
      BY <1>2, <2>1, <2>2 DEF RefuseConnection, TypeOK, clocks, history
  <1>3. CASE SecureConnect
    <2>1. state' \in States
      <3>1. state \in States BY DEF TypeOK
      <3>2. \/ state' = [state EXCEPT !.handshakeComplete = TRUE, !.lost = TRUE]
            \/ \E pin \in Pins :
                 \/ state' = [state EXCEPT !.handshakeComplete = TRUE, !.lost = TRUE,
                                            !.observedPin = pin]
                 \/ state' = [state EXCEPT !.handshakeComplete = TRUE,
                                            !.observedPin = pin]
        BY <1>3 DEF SecureConnect
      <3>3. QED BY <3>1, <3>2 DEF States
    <2>2. guard # "ok" => guard \in Codes
      BY GuardCodes DEF guard, Codes
    <2>3. CASE net' = [net EXCEPT !.sock = "secure", !.pool = "active"]
      <3>1. net' \in Nets BY <2>3 DEF TypeOK, Nets
      <3>2. UNCHANGED <<clocks, aborted, op, calls, history>>
        BY <1>3 DEF SecureConnect, RefuseConnection
      <3>3. CASE req' = [req EXCEPT !.at = "assigned"]
        <4>1. req' \in Reqs BY <3>3 DEF TypeOK, Reqs
        <4>2. QED
          BY <2>1, <3>1, <3>2, <4>1 DEF TypeOK, clocks, history
      <3>4. QED
        BY <1>2, <1>3, <2>1, <2>2, <3>3 DEF SecureConnect, Codes
    <2>4. QED BY <1>2, <1>3, <2>1, <2>2, <2>3 DEF SecureConnect, Codes
  <1>4. CASE ConnectionFails
    <2>1. state' \in States BY <1>4 DEF ConnectionFails, TypeOK, States
    <2>2. QED BY <1>2, <1>4, <2>1 DEF ConnectionFails, Codes
  <1>5. CASE SocketClose
    <2>1. state' \in States BY <1>5 DEF SocketClose, TypeOK, States
    <2>2. CASE net' = [net EXCEPT !.sock = "closed", !.pool = "none"]
               /\ UNCHANGED <<clocks, aborted, req, op, calls, history>>
      <3>1. net' \in Nets BY <2>2 DEF TypeOK, Nets
      <3>2. QED BY <2>1, <2>2, <3>1 DEF TypeOK, clocks, history
    <2>3. QED BY <1>2, <1>5, <2>1, <2>2 DEF SocketClose, Codes
  <1>6. CASE FreeSocket
    <2>1. net' \in Nets BY <1>6 DEF FreeSocket, TypeOK, Nets
    <2>2. req' \in Reqs BY <1>6 DEF FreeSocket, TypeOK, Reqs
    <2>3. QED BY <1>6, <2>1, <2>2 DEF FreeSocket, TypeOK, clocks, history
  <1>7. CASE QueuedReconnect
    <2>1. Early("connection_lost") \in Errors BY ErrorTypes DEF Codes
    <2>2. connects' \in Nat BY <1>7 DEF QueuedReconnect, TypeOK
    <2>3. QED
      BY <1>7, <2>1, <2>2, TerminateType DEF QueuedReconnect, TypeOK, clocks
  <1>8. QED BY <1>1, <1>3, <1>4, <1>5, <1>6, <1>7 DEF SocketStep

\* An ending with a well-formed error keeps the types.
LEMMA EndingType ==
    ASSUME TypeOK, UNCHANGED <<endFrame>>, aborted' \in BOOLEAN,
           \/ \E e \in Errors : terminate(e)
           \/ \E e \in Errors : FailOpen(e)
           \/ CloseReady
    PROVE  TypeOK'
  BY TerminateType, FailOpenType, CloseReadyType DEF TypeOK, endFrame, clocks

\* The errors the handlers build are well-formed.
LEMMA HandlerErrors ==
    ASSUME TypeOK, NEW c \in Codes
    PROVE  /\ Early(c) \in Errors /\ Late(c) \in Errors
           /\ Error(c, ReqPhase) \in Errors
           /\ guard # "ok" => Early(guard) \in Errors
  <1>1. guard # "ok" => guard \in Codes BY GuardCodes DEF guard, Codes
  <1>2. ReqPhase \in Phases BY DEF ReqPhase, Phases
  <1>3. QED BY <1>1, <1>2, ErrorTypes

\* Every step of a request's events keeps the types.
LEMMA RequestStepType == ASSUME TypeOK, RequestStep PROVE TypeOK'
  <1> DEFINE End(e) == /\ terminate(e) \/ FailOpen(e)
                       /\ UNCHANGED <<endFrame, aborted>>
  <1>0. ASSUME NEW e \in Errors, End(e) PROVE TypeOK'
    BY <1>0, EndingType DEF TypeOK
  <1>1. CASE SocketEvent
    <2>1. CASE Handover # "ok"
      BY <1>0, <1>1, <2>1, HandlerErrors DEF SocketEvent, Handover, Codes
    <2>2. CASE Handover = "ok"
      <3>1. req' \in Reqs BY <1>1, <2>2 DEF SocketEvent, TypeOK, Reqs
      <3>2. state' \in States BY <1>1, <2>2 DEF SocketEvent, TypeOK, States
      <3>3. wire' \subseteq Writes
        BY <1>1, <2>2 DEF SocketEvent, TypeOK, Writes, Reqs
      <3>4. QED
        BY <1>1, <2>2, <3>1, <3>2, <3>3 DEF SocketEvent, TypeOK, clocks
    <2>3. QED BY <2>1, <2>2
  <1>2. CASE RequestError
    <2>1. req.err \in Errors BY DEF TypeOK, Reqs
    <2>2. Error("transport", ReqPhase) \in Errors BY HandlerErrors DEF Codes
    <2>3. QED BY <1>0, <1>2, <2>1, <2>2 DEF RequestError
  <1>3. CASE ResponseRefused
    <2>1. \A c \in {"redirect", "transport", "connection_lost", "untrusted"} :
             Early(c) \in Errors /\ Late(c) \in Errors
      BY HandlerErrors DEF Codes
    <2>2. QED BY <1>0, <1>3, <2>1 DEF ResponseRefused
  <1>4. CASE Response
    <2>1. req' \in Reqs BY <1>4 DEF Response, TypeOK, Reqs
    <2>2. state' \in States BY <1>4 DEF Response, TypeOK, States
    <2>3. op' \in Ops BY <1>4 DEF Response, TypeOK, Ops
    <2>4. QED
      BY <1>4, <2>1, <2>2, <2>3 DEF Response, TypeOK, clocks, history
  <1>5. CASE BodyEnd
    <2>1. state' \in States BY <1>5 DEF BodyEnd, TypeOK, States
    <2>2. last' \in Lasts BY <1>5 DEF BodyEnd, TypeOK, Lasts, Reqs, Phases
    <2>3. QED
      BY <1>5, <2>1, <2>2, DestroyedType, ErrorTypes DEF BodyEnd, TypeOK, clocks
  <1>6. CASE BodyFails
    <2>1. /\ Late("transport") \in Errors /\ Late("cancelled") \in Errors
          /\ Early("untrusted") \in Errors
      BY HandlerErrors DEF Codes
    <2>2. QED BY <1>0, <1>6, <2>1 DEF BodyFails
  <1>7. CASE ExchangeTimeout
    <2>1. Error("timeout", ReqPhase) \in Errors BY HandlerErrors DEF Codes
    <2>2. QED BY <1>0, <1>7, <2>1 DEF ExchangeTimeout
  <1>8. CASE RequestClosed
    <2>1. net' \in Nets BY <1>8 DEF RequestClosed, TypeOK, Nets
    <2>2. QED BY <1>8, <2>1 DEF RequestClosed, TypeOK, clocks, history
  <1>9. QED
    BY <1>1, <1>2, <1>3, <1>4, <1>5, <1>6, <1>7, <1>8 DEF RequestStep

\* Authorize keeps the types when its policy and expiry are well-formed.
LEMMA AuthorizeType ==
    ASSUME TypeOK, NEW pol \in Policies, NEW x \in Nat, Authorize(pol, x),
           op.evidence \in Evidences
    PROVE  TypeOK'
  <1> DEFINE evExpiry == op.evidence.issued + MaxAge[pol]
             verdict  == GuardAt(mono, wall, evExpiry, x)
  <1>1. evExpiry \in Nat BY ConstantsAssumption
  <1>2. verdict # "ok" => Early(verdict) \in Errors
    BY GuardCodes, ErrorTypes DEF Codes
  <1>3. state' \in States BY DEF Authorize, TypeOK, States
  <1>4. net' \in Nets BY DestroyedType DEF Authorize, TypeOK
  <1>5. op' \in Ops
    <2>1. CASE verdict = "ok" BY <1>1, <2>1 DEF Authorize, TypeOK, Ops
    <2>2. CASE verdict # "ok" BY <1>1, <1>2, <2>2 DEF Authorize, TypeOK, Ops
    <2>3. QED BY <2>1, <2>2
  <1>6. QED BY <1>3, <1>4, <1>5 DEF Authorize, TypeOK, clocks, history

\* Every step of the preparation keeps the types.
LEMMA PrepareStepType == ASSUME TypeOK, StageInv, PrepareStep PROVE TypeOK'
  <1> DEFINE End(e) == FailOpen(e) /\ UNCHANGED <<endFrame, aborted>>
  <1>0. ASSUME NEW e \in Errors, End(e) PROVE TypeOK'
    BY <1>0, EndingType DEF TypeOK
  <1>1. CASE Open
    <2>1. CASE guard # "ok"
      BY <1>0, <1>1, <2>1, HandlerErrors DEF Open, Codes
    <2>2. CASE guard = "ok"
      <3>1. state' \in States BY <1>1, <2>2 DEF Open, TypeOK, States
      <3>2. net' \in Nets BY <1>1, <2>2 DEF Open, TypeOK, Nets
      <3>3. op' \in Ops BY <1>1, <2>2 DEF Open, TypeOK, Ops
      <3>4. req' \in Reqs
        BY <1>1, <2>2, ErrorTypes DEF Open, Reqs
      <3>5. QED
        BY <1>1, <2>2, <3>1, <3>2, <3>3, <3>4 DEF Open, TypeOK, clocks
    <2>3. QED BY <2>1, <2>2
  <1>2. CASE ChallengeEnd
    <2>1. Early("untrusted") \in Errors BY HandlerErrors DEF Codes
    <2>2. guard # "ok" => Early(guard) \in Errors BY HandlerErrors DEF Codes
    <2>3. CASE \E e \in Errors : End(e) BY <1>0, <2>3
    <2>4. CASE ~\E e \in Errors : End(e)
      <3>1. state' \in States
        BY <1>2, <2>1, <2>2, <2>4 DEF ChallengeEnd, TypeOK, States
      <3>2. op' \in Ops
        BY <1>2, <2>1, <2>2, <2>4 DEF ChallengeEnd, TypeOK, Ops
      <3>3. QED
        BY <1>2, <2>1, <2>2, <2>4, <3>1, <3>2, ErrorTypes
        DEF ChallengeEnd, TypeOK, clocks, history
    <2>5. QED BY <2>3, <2>4
  <1>3. CASE PrepareFails
    <2>1. Early("timeout") \in Errors /\ Early("untrusted") \in Errors
      BY HandlerErrors DEF Codes
    <2>2. QED BY <1>0, <1>3, <2>1 DEF PrepareFails
  <1>4. CASE PrepareDone
    <2>1. Early("untrusted") \in Errors BY HandlerErrors DEF Codes
    <2>2. guard # "ok" => Early(guard) \in Errors BY HandlerErrors DEF Codes
    <2>3. CASE Authorize(op.policy, op.approvalExpiry)
      BY <1>4, <2>3, AuthorizeType DEF PrepareDone, StageInv, TypeOK, Ops
    <2>4. CASE \E e \in Errors : End(e) BY <1>0, <2>4
    <2>5. CASE /\ op' = [op EXCEPT !.pc = "refresh"]
               /\ UNCHANGED <<clocks, aborted, state, net, req, calls, history>>
      <3>1. op' \in Ops BY <2>5 DEF TypeOK, Ops
      <3>2. QED BY <2>5, <3>1 DEF TypeOK, clocks, history
    <2>6. QED BY <1>4, <2>1, <2>2, <2>3, <2>4, <2>5 DEF PrepareDone
  <1>5. ASSUME NEW pol \in Policies, NEW x \in Expiries, RefreshDone(pol, x)
        PROVE  TypeOK'
    <2>1. \/ Authorize(pol, x)
          \/ End(Early("configuration")) \/ End(Early("untrusted"))
          \/ LET v == GuardAt(mono, wall, op.evidenceExpiry, x)
             IN v # "ok" /\ End(Early(v))
      BY <1>5 DEF RefreshDone
    <2>2. CASE Authorize(pol, x)
      BY <1>5, <2>2, AuthorizeType, ConstantsAssumption
      DEF RefreshDone, StageInv, TypeOK
    <2>3. Early("configuration") \in Errors /\ Early("untrusted") \in Errors
      BY HandlerErrors DEF Codes
    <2>4. CASE LET v == GuardAt(mono, wall, op.evidenceExpiry, x)
               IN v # "ok" /\ End(Early(v))
      <3> DEFINE v == GuardAt(mono, wall, op.evidenceExpiry, x)
      <3>1. v # "ok" => Early(v) \in Errors
        BY GuardCodes, ErrorTypes DEF Codes
      <3>2. QED BY <1>0, <2>4, <3>1
    <2>5. QED BY <1>0, <2>1, <2>2, <2>3, <2>4
  <1>6. CASE JoinClosed
    <2>1. state' \in States BY <1>6 DEF JoinClosed, TypeOK, States
    <2>2. op' \in Ops BY <1>6 DEF JoinClosed, TypeOK, Ops
    <2>3. QED
      BY <1>6, <2>1, <2>2 DEF JoinClosed, TypeOK, clocks, history
  <1>7. QED BY <1>1, <1>2, <1>3, <1>4, <1>5, <1>6 DEF PrepareStep

\* Every step of the caller keeps the types.
LEMMA CallerStepType == ASSUME TypeOK, CallerStep PROVE TypeOK'
  <1>1. CASE Abort
    <2>1. Late("cancelled") \in Errors /\ Early("cancelled") \in Errors
      BY HandlerErrors DEF Codes
    <2>2. CASE UNCHANGED <<state, net, req, op, last>>
      BY <1>1, <2>2 DEF Abort, TypeOK, endFrame, clocks
    <2>3. QED BY <1>1, <2>1, <2>2, EndingType DEF Abort
  <1>2. CASE close BY <1>2, EndingType DEF close, TypeOK
  <1>3. CASE CallAbort
    <2>1. Error("cancelled", ReqPhase) \in Errors BY HandlerErrors DEF Codes
    <2>2. QED BY <1>3, <2>1, EndingType DEF CallAbort, TypeOK
  <1>4. ASSUME NEW kind \in Content, Fetch(kind) PROVE TypeOK'
    <2>1. state' \in States BY <1>4 DEF Fetch, TypeOK, States, Spends
    <2>2. net' \in Nets BY <1>4 DEF Fetch, TypeOK, Nets
    <2>3. req' \in Reqs
      <3>1. req' = [n |-> calls + 1, kind |-> kind, dispatched |-> FALSE,
                    at |-> IF net.pool = "free" THEN "assigned" ELSE "queued",
                    err |-> NoErr]
        BY <1>4 DEF Fetch, NoReq
      <3>2. calls + 1 \in Nat /\ kind \in Kinds BY DEF TypeOK, Kinds
      <3>3. QED BY <3>1, <3>2, ErrorTypes DEF Reqs
    <2>4. QED
      BY <1>4, <2>1, <2>2, <2>3 DEF Fetch, Call, TypeOK, clocks, history
  <1>5. ASSUME NEW kind \in Content, FetchExpires(kind) PROVE TypeOK'
    <2>1. state' \in States BY <1>5 DEF FetchExpires, TypeOK, States, Spends
    <2>2. last' \in Lasts
      BY <1>5 DEF FetchExpires, TypeOK, Lasts, Codes, Phases
    <2>3. mono' \in Nat /\ wall' \in Nat
      BY <1>5 DEF FetchExpires, Advance, TypeOK
    <2>4. QED
      BY <1>5, <2>1, <2>2, <2>3, DestroyedType DEF FetchExpires, Call, TypeOK
  <1>6. ASSUME NEW kind, FetchRefused(kind) PROVE TypeOK'
    <2>1. Refusal(kind) \in Codes \cup {"ok"}
      BY GuardCodes DEF Refusal, guard, Codes
    <2>2. last' \in Lasts BY <1>6, <2>1 DEF FetchRefused, TypeOK, Lasts, Phases
    <2>3. QED BY <1>6, <2>2 DEF FetchRefused, Call, TypeOK, clocks
  <1>7. QED BY <1>1, <1>2, <1>3, <1>4, <1>5, <1>6 DEF CallerStep

----------------------------------------------------------------------------
(* The inductive invariant                                                 *)

\* What holds besides the types.
Rest == StageInv /\ AuthorizedInv /\ WireInv /\ SocketInv /\ PaidOnce
          /\ PhaseTruth

\* A new operation satisfies the invariant.
LEMMA InitRest == Init => Rest
  <1> SUFFICES ASSUME Init PROVE Rest OBVIOUS
  <1> USE DEF Init, NewState, NewNet, NewOp, NoReq, NoErr
  <1>1. StageInv BY DEF StageInv, Content
  <1>2. AuthorizedInv BY DEF AuthorizedInv
  <1>3. WireInv BY DEF WireInv, Content
  <1>4. SocketInv BY DEF SocketInv, Joined
  <1>5. QED BY <1>1, <1>2, <1>3, <1>4 DEF Rest, PaidOnce, PhaseTruth

\* Preparation's failure keeps the invariant.
LEMMA FailOpenRest ==
    ASSUME TypeOK, Rest, NEW e \in Errors, FailOpen(e), UNCHANGED endFrame,
           e.cap => state.opened
    PROVE  Rest'
  <1>1. /\ req' = NoReq /\ net' = Destroyed /\ last' = last
        /\ wire' = wire /\ calls' = calls /\ connects' = connects
    BY DEF FailOpen, endFrame, clocks
  <1>2. /\ op'.pc = "failing" /\ op'.err = e /\ op'.policy = op.policy
        /\ op'.evidence = op.evidence
        /\ op'.approvalExpiry = op.approvalExpiry
        /\ op'.evidenceExpiry = op.evidenceExpiry
    BY DEF FailOpen, TypeOK, Ops
  <1>3. /\ state'.opened = state.opened
        /\ state'.authorized = state.authorized
        /\ state'.handshakeComplete = state.handshakeComplete
        /\ state'.httpWritten = state.httpWritten
        /\ state'.observedPin = state.observedPin
        /\ state'.paidAttempted = state.paidAttempted
        /\ state'.busy = FALSE
    BY DEF FailOpen, TypeOK, States
  <1>4. /\ net'.sock # "connecting" /\ net'.challenge = net.challenge
        /\ net.sock # "none" => net'.sock # "none"
    BY <1>1 DEF Destroyed, TypeOK, Nets
  <1>5. StageInv' BY <1>1, <1>2, <1>3, <1>4 DEF StageInv, NoReq, Content
  <1>6. AuthorizedInv' BY <1>2, <1>3 DEF Rest, AuthorizedInv
  <1>7. WireInv'
    BY <1>1, <1>2, <1>3 DEF Rest, WireInv, NoReq, Content, Passed
  <1>8. SocketInv'
    BY <1>1, <1>2, <1>3, <1>4 DEF Rest, SocketInv, NoReq, NoErr
  <1>9. QED BY <1>1, <1>5, <1>6, <1>7, <1>8 DEF Rest, PaidOnce, PhaseTruth

\* terminate keeps the invariant when the phase it reports is the exchange's.
LEMMA TerminateRest ==
    ASSUME TypeOK, Rest, NEW e \in Errors, terminate(e),
           clocks' = clocks, calls' = calls, wire' = wire,
           connects' = connects,
           req.at # "none",
           e.cap => state.opened,
           req.kind \in Content /\ e.phase = "before_http" => ~req.dispatched
    PROVE  Rest'
  <1>0. CASE FailOpen(e)
    BY <1>0, FailOpenRest DEF endFrame
  <1>1. CASE ~FailOpen(e)
    <2>1. /\ req.kind \in Content
          /\ last' = [n |-> req.n, code |-> e.code, phase |-> e.phase]
          /\ req' = NoReq /\ net' = Destroyed /\ op' = op
      BY <1>1 DEF terminate
    <2>2. /\ state'.opened = state.opened
          /\ state'.authorized = state.authorized
          /\ state'.handshakeComplete = state.handshakeComplete
          /\ state'.httpWritten = state.httpWritten
          /\ state'.observedPin = state.observedPin
          /\ state'.paidAttempted = state.paidAttempted
          /\ state'.busy = FALSE
      BY <1>1 DEF terminate, TypeOK, States
    <2>3. /\ net'.sock # "connecting" /\ net'.challenge = net.challenge
          /\ net.sock # "none" => net'.sock # "none"
      BY <2>1 DEF Destroyed, TypeOK, Nets
    <2>4. op.pc = "ready" /\ req.n <= calls BY <2>1 DEF Rest, StageInv
    <2>5. StageInv' BY <2>1, <2>2, <2>3, <2>4 DEF StageInv, NoReq, Content
    <2>6. AuthorizedInv' BY <2>1, <2>2 DEF Rest, AuthorizedInv
    <2>7. WireInv'
      BY <2>1, <2>2, <2>4 DEF Rest, WireInv, NoReq, Content, Passed
    <2>8. SocketInv'
      BY <2>1, <2>2, <2>3, <2>4 DEF Rest, SocketInv, NoReq, NoErr
    <2>9. PhaseTruth'
      BY <2>1 DEF Rest, WireInv, PhaseTruth
    <2>10. QED BY <2>5, <2>6, <2>7, <2>8, <2>9 DEF Rest, PaidOnce
  <1>2. QED BY <1>0, <1>1

\* close() of a returned operation keeps the invariant.
LEMMA CloseReadyRest ==
    ASSUME TypeOK, Rest, CloseReady, UNCHANGED endFrame, op.pc = "ready"
    PROVE  Rest'
  <1>1. /\ req' = NoReq /\ net' = Destroyed /\ op' = op
        /\ wire' = wire /\ calls' = calls /\ connects' = connects
    BY DEF CloseReady, endFrame, clocks
  <1>2. /\ state'.opened = state.opened
        /\ state'.authorized = state.authorized
        /\ state'.handshakeComplete = state.handshakeComplete
        /\ state'.httpWritten = state.httpWritten
        /\ state'.observedPin = state.observedPin
        /\ state'.paidAttempted = state.paidAttempted
        /\ state'.busy = FALSE
    BY DEF CloseReady, TypeOK, States
  <1>3. /\ net'.sock # "connecting" /\ net'.challenge = net.challenge
        /\ net.sock # "none" => net'.sock # "none"
    BY <1>1 DEF Destroyed, TypeOK, Nets
  <1>4. /\ last'.n <= calls
        /\ last' # last => last'.phase = "may_have_dispatched"
    <2>1. state.busy => req.kind \in Content
      BY DEF Rest, StageInv, TypeOK, Reqs, Kinds
    <2>2. QED BY <2>1 DEF CloseReady, Rest, StageInv, WireInv
  <1>5. StageInv' BY <1>1, <1>2, <1>3 DEF StageInv, NoReq, Content
  <1>6. AuthorizedInv' BY <1>1, <1>2 DEF Rest, AuthorizedInv
  <1>7. WireInv'
    BY <1>1, <1>2, <1>4 DEF Rest, WireInv, NoReq, Content, Passed
  <1>8. SocketInv'
    BY <1>1, <1>2, <1>3 DEF Rest, SocketInv, NoReq, NoErr
  <1>9. PhaseTruth' BY <1>1, <1>4 DEF Rest, PhaseTruth
  <1>10. QED BY <1>1, <1>5, <1>6, <1>7, <1>8, <1>9 DEF Rest, PaidOnce

\* While the handshake runs, the challenge waits for it and nothing else has
\* happened.
LEMMA Connecting ==
    ASSUME TypeOK, Rest, net.sock = "connecting"
    PROVE  /\ op.pc = "challenge" /\ ~state.authorized /\ state.opened
           /\ req.kind = "challenge" /\ req.at = "connecting" /\ state.busy
           /\ \A w \in wire : w.kind \notin Content
  <1>1. op.pc = "challenge" /\ req.at = "connecting"
    BY DEF Rest, StageInv
  <1>2. req.kind = "challenge" /\ state.busy BY <1>1 DEF Rest, StageInv
  <1>3. ~state.authorized BY <1>1 DEF Rest, AuthorizedInv
  <1>4. \A w \in wire : w.kind \notin Content BY <1>3 DEF Rest, WireInv
  <1>5. state.opened BY <1>1 DEF Rest, SocketInv
  <1>6. QED BY <1>1, <1>2, <1>3, <1>4, <1>5

\* A refused connection keeps the invariant.
LEMMA RefuseConnectionRest ==
    ASSUME TypeOK, Rest, net.sock = "connecting",
           NEW c, NEW b, NEW s \in {"destroyed", "closed"},
           RefuseConnection(c, b, s),
           state'.busy = state.busy, state'.opened = state.opened,
           state'.authorized = state.authorized,
           state'.paidAttempted = state.paidAttempted,
           state'.httpWritten = state.httpWritten,
           ~state'.handshakeComplete => state'.observedPin = "none"
    PROVE  Rest'
  <1>1. /\ op' = op /\ wire' = wire /\ calls' = calls /\ last' = last
        /\ connects' = connects
    BY DEF RefuseConnection, history, clocks
  <1>2. /\ req'.at = "refused" /\ req'.kind = req.kind /\ req'.n = req.n
        /\ req'.dispatched = req.dispatched
    BY DEF RefuseConnection, TypeOK, Reqs
  <1>3. net'.sock = s /\ net'.challenge = net.challenge
    BY DEF RefuseConnection, TypeOK, Nets
  <1> USE Connecting
  <1>4. StageInv' BY <1>1, <1>2, <1>3 DEF StageInv, Content
  <1>5. AuthorizedInv' BY <1>1 DEF Rest, AuthorizedInv
  <1>6. WireInv' BY <1>1, <1>2 DEF Rest, WireInv, Content
  <1>7. SocketInv' BY <1>1, <1>2, <1>3 DEF Rest, SocketInv
  <1>8. QED
    BY <1>1, <1>4, <1>5, <1>6, <1>7 DEF Rest, PaidOnce, PhaseTruth

\* Every step of the socket's and the agent's events keeps the invariant.
LEMMA SocketStepRest == ASSUME TypeOK, Rest, SocketStep PROVE Rest'
  <1>1. CASE LookupDone
    <2>1. /\ net'.sock = net.sock /\ net'.challenge = net.challenge
          /\ net.lookup = "pending"
      BY <1>1 DEF LookupDone, TypeOK, Nets
    <2>2. UNCHANGED <<state, req, op, calls, connects, wire, last>>
      BY <1>1 DEF LookupDone, history
    <2>3. StageInv' BY <2>1, <2>2 DEF Rest, StageInv
    <2>4. AuthorizedInv' BY <2>2 DEF Rest, AuthorizedInv
    <2>5. WireInv' BY <2>2 DEF Rest, WireInv
    <2>6. SocketInv' BY <2>1, <2>2 DEF Rest, SocketInv, Joined
    <2>7. QED
      BY <2>2, <2>3, <2>4, <2>5, <2>6 DEF Rest, PaidOnce, PhaseTruth
  <1>2. CASE SecureConnect
    <2>1. net.sock = "connecting" BY <1>2 DEF SecureConnect
    <2>2. /\ state'.busy = state.busy /\ state'.opened = state.opened
          /\ state'.authorized = state.authorized
          /\ state'.paidAttempted = state.paidAttempted
          /\ state'.httpWritten = state.httpWritten
          /\ state'.handshakeComplete
      BY <1>2 DEF SecureConnect, TypeOK, States
    <2>3. CASE \E c : RefuseConnection(c, FALSE, "destroyed")
      BY <2>1, <2>2, <2>3, RefuseConnectionRest
    <2>4. CASE /\ net' = [net EXCEPT !.sock = "secure", !.pool = "active"]
               /\ req' = [req EXCEPT !.at = "assigned"]
               /\ UNCHANGED <<clocks, aborted, op, calls, history>>
      <3>1. /\ req'.at = "assigned" /\ req'.kind = req.kind
            /\ req'.n = req.n /\ req'.dispatched = req.dispatched
            /\ req'.err = req.err
        BY <2>4 DEF TypeOK, Reqs
      <3>2. net'.sock = "secure" /\ net'.challenge = net.challenge
        BY <2>4 DEF TypeOK, Nets
      <3>3. UNCHANGED <<op, calls, connects, wire, last>> BY <2>4 DEF history
      <3> USE <2>1, Connecting
      <3>4. StageInv'
        BY <2>2, <3>1, <3>2, <3>3 DEF Rest, StageInv, Content
      <3>5. AuthorizedInv' BY <2>2, <3>3 DEF Rest, AuthorizedInv
      <3>6. WireInv' BY <2>2, <3>1, <3>3 DEF Rest, WireInv, Content
      <3>7. SocketInv' BY <2>2, <3>1, <3>2, <3>3 DEF Rest, SocketInv
      <3>8. QED
        BY <3>3, <3>4, <3>5, <3>6, <3>7 DEF Rest, PaidOnce, PhaseTruth
    <2>5. QED BY <1>2, <2>3, <2>4 DEF SecureConnect
  <1>3. ASSUME state' = [state EXCEPT !.lost = TRUE]
        PROVE  /\ state'.busy = state.busy /\ state'.opened = state.opened
               /\ state'.authorized = state.authorized
               /\ state'.paidAttempted = state.paidAttempted
               /\ state'.httpWritten = state.httpWritten
               /\ state'.handshakeComplete = state.handshakeComplete
               /\ state'.observedPin = state.observedPin
    BY <1>3 DEF TypeOK, States
  <1>4. CASE ConnectionFails
    <2>1. ~state'.handshakeComplete => state'.observedPin = "none"
      BY <1>3, <1>4 DEF ConnectionFails, Rest, SocketInv
    <2>2. QED
      BY <1>3, <1>4, <2>1, RefuseConnectionRest DEF ConnectionFails
  <1>5. CASE SocketClose
    <2>0. state' = [state EXCEPT !.lost = TRUE] BY <1>5 DEF SocketClose
    <2>1. CASE /\ net.sock = "connecting"
               /\ RefuseConnection("connection_lost", FALSE, "closed")
      <3>1. ~state'.handshakeComplete => state'.observedPin = "none"
        BY <1>3, <2>0 DEF Rest, SocketInv
      <3>2. QED BY <1>3, <2>0, <2>1, <3>1, RefuseConnectionRest
    <2>2. CASE /\ net.sock \in {"secure", "destroyed"}
               /\ net' = [net EXCEPT !.sock = "closed", !.pool = "none"]
               /\ UNCHANGED <<clocks, aborted, req, op, calls, history>>
      <3>1. /\ net'.sock = "closed" /\ net'.challenge = net.challenge
        BY <2>2 DEF TypeOK, Nets
      <3>2. UNCHANGED <<req, op, calls, connects, wire, last>>
        BY <2>2 DEF history
      <3> USE <1>3, <2>0
      <3>3. StageInv' BY <3>1, <3>2 DEF Rest, StageInv
      <3>4. AuthorizedInv' BY <3>2 DEF Rest, AuthorizedInv
      <3>5. WireInv' BY <3>2 DEF Rest, WireInv
      <3>6. SocketInv'
        BY <2>2, <3>1, <3>2 DEF Rest, SocketInv, Joined
      <3>7. QED
        BY <3>2, <3>3, <3>4, <3>5, <3>6 DEF Rest, PaidOnce, PhaseTruth
    <2>3. QED BY <1>5, <2>1, <2>2 DEF SocketClose
  <1>6. CASE FreeSocket
    <2>1. /\ net.sock = "secure"
          /\ net'.sock = net.sock /\ net'.challenge = net.challenge
      BY <1>6 DEF FreeSocket, TypeOK, Nets
    <2>2. UNCHANGED <<state, op, calls, connects, wire, last>>
      BY <1>6 DEF FreeSocket, history
    <2>3. /\ req'.kind = req.kind /\ req'.n = req.n /\ req'.err = req.err
          /\ req'.dispatched = req.dispatched
          /\ req'.at # req.at => req.at = "queued" /\ req'.at = "assigned"
      BY <1>6 DEF FreeSocket, TypeOK, Reqs
    <2>4. StageInv' BY <2>1, <2>2, <2>3 DEF Rest, StageInv
    <2>5. AuthorizedInv' BY <2>2 DEF Rest, AuthorizedInv
    <2>6. WireInv' BY <2>2, <2>3 DEF Rest, WireInv
    <2>7. SocketInv' BY <2>1, <2>2, <2>3 DEF Rest, SocketInv, Joined
    <2>8. QED
      BY <2>2, <2>4, <2>5, <2>6, <2>7 DEF Rest, PaidOnce, PhaseTruth
  <1>7. CASE QueuedReconnect
    <2>1. Early("connection_lost") \in Errors /\ ~Early("connection_lost").cap
      BY HandlerErrors DEF Codes, Early, Error
    <2>2. ~req.dispatched /\ req.at # "none"
      BY <1>7 DEF QueuedReconnect, Rest, StageInv
    <2>3. state.opened
      <3>1. req.kind \in Content \/ op.pc \in {"challenge", "body"}
        BY <1>7 DEF QueuedReconnect, Rest, StageInv, TypeOK, Reqs, Kinds
      <3>2. op.pc \notin {"init", "failing", "failed"}
        BY <3>1 DEF Rest, StageInv
      <3>3. QED BY <3>2 DEF Rest, SocketInv
    <2>4. connects' = connects
      BY <1>7, <2>3 DEF QueuedReconnect, ConnectRefused, TypeOK
    <2>5. QED
      BY <1>7, <2>1, <2>2, <2>4, TerminateRest DEF QueuedReconnect
  <1>8. QED BY <1>1, <1>2, <1>4, <1>5, <1>6, <1>7 DEF SocketStep

\* Every step of a request's events keeps the invariant.
LEMMA RequestStepRest == ASSUME TypeOK, Rest, RequestStep PROVE Rest'
  <1> DEFINE Clean(e) == /\ e \in Errors /\ ~e.cap
                         /\ e.phase = "before_http" => ~req.dispatched
  <1>0. ASSUME NEW e, Clean(e), req.at # "none", terminate(e),
               UNCHANGED endFrame
        PROVE  Rest'
    BY <1>0, TerminateRest DEF endFrame
  <1>a. ASSUME NEW e \in Errors, ~e.cap, req.at # "none",
               req.kind = "challenge", FailOpen(e), UNCHANGED endFrame
        PROVE  Rest'
    BY <1>a, FailOpenRest
  <1>b. ASSUME NEW c \in Codes
        PROVE  /\ Late(c) \in Errors /\ ~Late(c).cap
               /\ Late(c).phase = "may_have_dispatched"
               /\ Early(c) \in Errors /\ ~Early(c).cap
               /\ Error(c, ReqPhase) \in Errors /\ ~Error(c, ReqPhase).cap
               /\ Error(c, ReqPhase).phase = "before_http" => ~req.dispatched
    BY HandlerErrors DEF Late, Early, Error, ReqPhase
  <1>1. CASE SocketEvent
    <2>0. req.at = "assigned" /\ ~req.dispatched
      BY <1>1 DEF SocketEvent, Rest, StageInv
    <2>1. CASE Handover # "ok"
      <3>1. guard \in Codes
        BY <2>1, GuardCodes DEF guard, Codes, Handover
      <3>2. Clean(Early(guard)) BY <1>b, <2>0, <3>1
      <3>3. QED
        BY <1>0, <1>1, <2>0, <2>1, <3>2 DEF SocketEvent, Handover
    <2>2. CASE Handover = "ok"
      <3> DEFINE new == [n |-> req.n, kind |-> req.kind,
                         mono |-> mono, wall |-> wall]
      <3>1. wire' = wire \cup {new} BY <1>1, <2>2 DEF SocketEvent
      <3>2. UNCHANGED <<mono, wall, aborted, net, op, calls, connects, last>>
        BY <1>1, <2>2 DEF SocketEvent, clocks
      <3>3. /\ req'.at = "written" /\ req'.dispatched
            /\ req'.kind = req.kind /\ req'.n = req.n /\ req'.err = req.err
        BY <1>1, <2>2 DEF SocketEvent, TypeOK, Reqs
      <3>4. /\ state'.busy = state.busy /\ state'.opened = state.opened
            /\ state'.authorized = state.authorized
            /\ state'.paidAttempted = state.paidAttempted
            /\ state'.httpWritten
            /\ state'.handshakeComplete = state.handshakeComplete
            /\ state'.observedPin = state.observedPin
        BY <1>1, <2>2 DEF SocketEvent, TypeOK, States
      <3>5. /\ mono < Deadline /\ ~Passed(wall, op.evidenceExpiry)
            /\ ~Passed(wall, op.approvalExpiry)
        BY <2>2, ConstantsAssumption DEF Handover, guard, GuardAt, TypeOK, States
      <3>6. req.kind \in Content => state.authorized
        BY DEF Rest, StageInv, AuthorizedInv
      <3>7. StageInv' BY <2>0, <3>2, <3>3, <3>4 DEF Rest, StageInv
      <3>8. AuthorizedInv' BY <3>2, <3>4 DEF Rest, AuthorizedInv
      <3>9. WireInv'
        <4> USE <3>2, <3>3, <3>4
        <4>1. ASSUME NEW w \in wire', w.kind \in Content
              PROVE  /\ state'.authorized
                     /\ w.n <= calls'
                     /\ w.mono < Deadline
                     /\ ~Passed(w.wall, op'.evidenceExpiry)
                     /\ ~Passed(w.wall, op'.approvalExpiry)
                     /\ w.kind = "paid" => state'.paidAttempted
          <5>1. CASE w \in wire
            BY <4>1, <5>1 DEF Rest, WireInv
          <5>2. CASE w = new
            BY <4>1, <5>2, <3>5, <3>6 DEF Rest, WireInv, StageInv
          <5>3. QED BY <3>1, <5>1, <5>2
        <4>2. QED BY <4>1 DEF Rest, WireInv
      <3>10. SocketInv' BY <3>2, <3>3, <3>4 DEF Rest, SocketInv, Joined
      <3>11. PaidOnce'
        BY <2>0, <3>1 DEF Rest, PaidOnce, WireInv, Content
      <3>12. PhaseTruth'
        BY <3>1, <3>2 DEF Rest, PhaseTruth, WireInv
      <3>13. QED
        BY <3>7, <3>8, <3>9, <3>10, <3>11, <3>12 DEF Rest
    <2>3. QED BY <2>1, <2>2
  <1>2. CASE RequestError
    <2>1. CASE req.at = "refused" /\ terminate(req.err)
      <3>1. req.kind = "challenge" /\ req.err \in Errors
        BY <2>1 DEF Rest, StageInv, TypeOK, Reqs
      <3>2. req.err.cap => state.opened BY DEF Rest, SocketInv
      <3>3. req.kind \notin Content BY <3>1 DEF Content
      <3>4. QED
        BY <1>2, <2>1, <3>1, <3>2, <3>3, TerminateRest
        DEF RequestError, endFrame
    <2>2. CASE req.at = "written" /\ terminate(Error("transport", ReqPhase))
      <3>1. Clean(Error("transport", ReqPhase)) BY <1>b DEF Codes
      <3>2. QED BY <1>0, <1>2, <2>2, <3>1 DEF RequestError
    <2>3. QED BY <1>2, <2>1, <2>2 DEF RequestError
  <1>3. CASE ResponseRefused
    <2>1. \A c \in {"redirect", "transport", "connection_lost"} : Clean(Late(c))
      BY <1>b DEF Codes
    <2>2. Early("untrusted") \in Errors /\ ~Early("untrusted").cap
      BY <1>b DEF Codes
    <2>3. QED BY <1>0, <1>3, <1>a, <2>1, <2>2 DEF ResponseRefused
  <1>4. CASE Response
    <2>1. /\ req.at = "written" /\ req'.at = "body" /\ req'.kind = req.kind
          /\ req'.n = req.n /\ req'.err = req.err
          /\ req'.dispatched = req.dispatched
      BY <1>4 DEF Response, TypeOK, Reqs
    <2>2. /\ state'.busy = state.busy /\ state'.opened = state.opened
          /\ state'.authorized = state.authorized
          /\ state'.paidAttempted = state.paidAttempted
          /\ state'.httpWritten = state.httpWritten
          /\ state'.handshakeComplete = state.handshakeComplete
          /\ state'.observedPin = state.observedPin
      BY <1>4 DEF Response, TypeOK, States
    <2>3. UNCHANGED <<net, calls, connects, wire, last>>
      BY <1>4 DEF Response, history
    <2>4. /\ op'.policy = op.policy /\ op'.evidence = op.evidence
          /\ op'.approvalExpiry = op.approvalExpiry
          /\ op'.evidenceExpiry = op.evidenceExpiry /\ op'.err = op.err
          /\ op'.pc = IF req.kind = "challenge" THEN "body" ELSE op.pc
      BY <1>4 DEF Response, TypeOK, Ops
    <2>5. req.kind = "challenge" => op.pc \in {"challenge", "body"}
      BY <2>1 DEF Rest, StageInv
    <2>6. StageInv'
      BY <1>4, <2>1, <2>2, <2>3, <2>4, <2>5
      DEF Response, Rest, StageInv, Content
    <2>7. AuthorizedInv' BY <2>2, <2>4, <2>5 DEF Rest, AuthorizedInv
    <2>8. WireInv' BY <2>1, <2>2, <2>3, <2>4 DEF Rest, WireInv
    <2>9. SocketInv'
      BY <2>1, <2>2, <2>3, <2>4, <2>5 DEF Rest, SocketInv, Joined
    <2>10. QED
      BY <2>3, <2>6, <2>7, <2>8, <2>9 DEF Rest, PaidOnce, PhaseTruth
  <1>5. CASE BodyEnd
    <2>1. /\ req.kind \in Content /\ req' = NoReq
          /\ last' = [n |-> req.n, code |-> "ok",
                      phase |-> "may_have_dispatched"]
          /\ net' = IF state.lost THEN Destroyed ELSE net
          /\ UNCHANGED <<op, calls, connects, wire>>
          /\ req.at = "body"
      BY <1>5 DEF BodyEnd
    <2>2. /\ state'.busy = FALSE /\ state'.opened = state.opened
          /\ state'.authorized = state.authorized
          /\ state'.paidAttempted = state.paidAttempted
          /\ state'.httpWritten = state.httpWritten
          /\ state'.handshakeComplete = state.handshakeComplete
          /\ state'.observedPin = state.observedPin
      BY <1>5 DEF BodyEnd, TypeOK, States
    <2>3. /\ net'.sock = "connecting" => net.sock = "connecting"
          /\ net'.challenge = net.challenge
          /\ net.sock # "none" => net'.sock # "none"
      BY <2>1 DEF Destroyed, TypeOK, Nets
    <2>4. op.pc = "ready" /\ req.n <= calls /\ net.sock # "connecting"
      BY <2>1 DEF Rest, StageInv
    <2>5. StageInv' BY <2>1, <2>2, <2>3, <2>4 DEF StageInv, NoReq, Content
    <2>6. AuthorizedInv' BY <2>1, <2>2 DEF Rest, AuthorizedInv
    <2>7. WireInv' BY <2>1, <2>2, <2>4 DEF Rest, WireInv, NoReq, Content
    <2>8. SocketInv'
      BY <2>1, <2>2, <2>3, <2>4 DEF Rest, SocketInv, NoReq, NoErr
    <2>9. QED
      BY <2>1, <2>5, <2>6, <2>7, <2>8 DEF Rest, PaidOnce, PhaseTruth
  <1>6. CASE BodyFails
    <2>1. \A c \in {"transport", "cancelled"} : Clean(Late(c))
      BY <1>b DEF Codes
    <2>2. Early("untrusted") \in Errors /\ ~Early("untrusted").cap
      BY <1>b DEF Codes
    <2>3. QED BY <1>0, <1>6, <1>a, <2>1, <2>2 DEF BodyFails
  <1>7. CASE ExchangeTimeout
    <2>1. Clean(Error("timeout", ReqPhase)) BY <1>b DEF Codes
    <2>2. req.at # "none"
      BY <1>7 DEF ExchangeTimeout, TimerArmed, Rest, StageInv
    <2>3. QED BY <1>0, <1>7, <2>1, <2>2 DEF ExchangeTimeout
  <1>8. CASE RequestClosed
    <2>1. /\ net'.sock = net.sock /\ net'.lookup = net.lookup
          /\ net.challenge = "open" /\ net'.challenge = "closed"
      BY <1>8 DEF RequestClosed, TypeOK, Nets
    <2>2. UNCHANGED <<state, req, op, calls, connects, wire, last>>
      BY <1>8 DEF RequestClosed, history
    <2>3. StageInv' BY <2>1, <2>2 DEF Rest, StageInv
    <2>4. AuthorizedInv' BY <2>2 DEF Rest, AuthorizedInv
    <2>5. WireInv' BY <2>2 DEF Rest, WireInv
    <2>6. SocketInv' BY <2>1, <2>2 DEF Rest, SocketInv, Joined
    <2>7. QED
      BY <2>2, <2>3, <2>4, <2>5, <2>6 DEF Rest, PaidOnce, PhaseTruth
  <1>9. QED
    BY <1>1, <1>2, <1>3, <1>4, <1>5, <1>6, <1>7, <1>8 DEF RequestStep

\* An accepted verdict keeps the invariant: from here on the operation is
\* authorized, by the evidence it was verified with.
LEMMA AuthorizeRest ==
    ASSUME TypeOK, Rest, op.pc \in {"prepare", "refresh"},
           NEW pol \in Policies, NEW x \in Nat, Authorize(pol, x),
           Accepts(op.evidence, pol, state.observedPin)
    PROVE  Rest'
  <1>1. UNCHANGED <<req, calls, connects, wire, last>>
    BY DEF Authorize, history
  <1>2. /\ op'.pc \in {"ready", "failing"} /\ op'.policy = pol
        /\ op'.evidence = op.evidence /\ op'.approvalExpiry = x
        /\ op'.evidenceExpiry = op.evidence.issued + MaxAge[pol]
        /\ op'.err = op.err \/ ~op'.err.cap
    <2> DEFINE held == [op EXCEPT !.policy = pol, !.approvalExpiry = x,
                          !.evidenceExpiry = op.evidence.issued + MaxAge[pol]]
    <2>1. CASE op' = [held EXCEPT !.pc = "ready"]
      BY <2>1 DEF TypeOK, Ops
    <2>2. CASE \E c : op' = [held EXCEPT !.pc = "failing", !.err = Early(c)]
      <3>1. PICK c : op' = [held EXCEPT !.pc = "failing", !.err = Early(c)]
        BY <2>2
      <3>2. op'.err = Early(c) /\ ~Early(c).cap
        BY <3>1 DEF TypeOK, Ops, Early, Error
      <3>3. QED BY <3>1, <3>2 DEF TypeOK, Ops
    <2>3. QED BY <2>1, <2>2 DEF Authorize
  <1>3. /\ state'.authorized /\ state'.opened = state.opened
        /\ state'.busy = state.busy
        /\ state'.handshakeComplete = state.handshakeComplete
        /\ state'.httpWritten = state.httpWritten
        /\ state'.observedPin = state.observedPin
        /\ state'.paidAttempted = state.paidAttempted
    BY DEF Authorize, TypeOK, States
  <1>4. /\ net'.sock = "connecting" => net.sock = "connecting"
        /\ net'.challenge = net.challenge
        /\ net.sock # "none" => net'.sock # "none"
    BY DEF Authorize, Destroyed, TypeOK, Nets
  <1>5. /\ net.sock # "connecting" /\ req.kind = "challenge"
        /\ req.at = "none" /\ op.evidence \in Evidences /\ state.opened
        /\ ~state.authorized
    BY DEF Rest, StageInv, SocketInv, AuthorizedInv, TypeOK, Reqs, Kinds
  <1>6. \A w \in wire : w.kind \notin Content BY <1>5 DEF Rest, WireInv
  <1>7. StageInv' BY <1>1, <1>2, <1>3, <1>4, <1>5 DEF Rest, StageInv, Content
  <1>8. AuthorizedInv' BY <1>2, <1>3, <1>5 DEF AuthorizedInv, Accepts
  <1>9. WireInv' BY <1>1, <1>5, <1>6 DEF Rest, WireInv, Content
  <1>10. SocketInv' BY <1>1, <1>2, <1>3, <1>4, <1>5 DEF Rest, SocketInv
  <1>11. QED
    BY <1>1, <1>7, <1>8, <1>9, <1>10 DEF Rest, PaidOnce, PhaseTruth

\* Every step of the preparation keeps the invariant.
LEMMA PrepareStepRest == ASSUME TypeOK, Rest, PrepareStep PROVE Rest'
  <1>0. ASSUME NEW c \in Codes, FailOpen(Early(c)), UNCHANGED endFrame
        PROVE  Rest'
    <2>1. Early(c) \in Errors /\ ~Early(c).cap
      BY HandlerErrors DEF Early, Error
    <2>2. QED BY <1>0, <2>1, FailOpenRest
  <1>g. guard # "ok" => guard \in Codes BY GuardCodes DEF guard, Codes
  <1>1. CASE Open
    <2>1. CASE guard # "ok"
      BY <1>0, <1>1, <1>g, <2>1 DEF Open
    <2>2. CASE guard = "ok"
      <3>1. /\ op.pc = "init" /\ op'.pc = "challenge" /\ op'.err = op.err
            /\ op'.evidence = op.evidence /\ op'.policy = op.policy
            /\ op'.approvalExpiry = op.approvalExpiry
            /\ op'.evidenceExpiry = op.evidenceExpiry
        BY <1>1, <2>2 DEF Open, TypeOK, Ops
      <3>2. /\ state'.busy /\ state'.opened
            /\ state'.authorized = state.authorized
            /\ state'.handshakeComplete = state.handshakeComplete
            /\ state'.httpWritten = state.httpWritten
            /\ state'.observedPin = state.observedPin
            /\ state'.paidAttempted = state.paidAttempted
        BY <1>1, <2>2 DEF Open, TypeOK, States
      <3>3. req' = [n |-> 0, kind |-> "challenge", at |-> "connecting",
                    dispatched |-> FALSE, err |-> NoErr]
        BY <1>1, <2>2 DEF Open, NoReq
      <3>4. net'.sock = "connecting" /\ net'.challenge = "open"
        BY <1>1, <2>2 DEF Open, TypeOK, Nets
      <3>5. connects' = connects + 1 /\ UNCHANGED <<calls, wire, last>>
        BY <1>1, <2>2 DEF Open
      <3>6. ~state.opened /\ ~state.authorized
        BY <3>1 DEF Rest, SocketInv, AuthorizedInv
      <3>7. StageInv' BY <3>1, <3>2, <3>3, <3>4 DEF StageInv, Content
      <3>8. AuthorizedInv' BY <3>1, <3>2, <3>6 DEF AuthorizedInv
      <3>9. WireInv'
        BY <3>2, <3>3, <3>5, <3>6 DEF Rest, WireInv, Content
      <3>10. SocketInv'
        BY <3>1, <3>2, <3>3, <3>4, <3>5, <3>6
        DEF Rest, SocketInv, NoErr, TypeOK
      <3>11. QED
        BY <3>5, <3>7, <3>8, <3>9, <3>10 DEF Rest, PaidOnce, PhaseTruth
    <2>3. QED BY <2>1, <2>2
  <1>2. CASE ChallengeEnd
    <2>1. CASE \E c \in Codes : FailOpen(Early(c)) /\ UNCHANGED endFrame
      BY <1>0, <2>1
    <2>2. CASE /\ \E ev \in Evidences :
                     op' = [op EXCEPT !.pc = "prepare", !.evidence = ev]
               /\ state' = [state EXCEPT !.busy = FALSE]
               /\ req' = NoReq
               /\ UNCHANGED <<net, calls, history>>
      <3>1. /\ op'.pc = "prepare" /\ op'.err = op.err
            /\ op'.evidence \in Evidences
        BY <2>2 DEF TypeOK, Ops
      <3>2. /\ state'.busy = FALSE /\ state'.opened = state.opened
            /\ state'.authorized = state.authorized
            /\ state'.handshakeComplete = state.handshakeComplete
            /\ state'.httpWritten = state.httpWritten
            /\ state'.observedPin = state.observedPin
            /\ state'.paidAttempted = state.paidAttempted
        BY <2>2 DEF TypeOK, States
      <3>3. /\ op.pc \in {"challenge", "body"} /\ req.at = "body"
            /\ net.sock # "connecting"
        BY <1>2 DEF ChallengeEnd, Rest, StageInv
      <3>4. ~state.authorized BY <3>3 DEF Rest, AuthorizedInv
      <3>5. req' = NoReq /\ UNCHANGED <<net, calls, connects, wire, last>>
        BY <2>2 DEF history
      <3>6. StageInv' BY <3>1, <3>2, <3>3, <3>5 DEF StageInv, NoReq, Content
      <3>7. AuthorizedInv' BY <3>1, <3>2, <3>4 DEF AuthorizedInv
      <3>8. WireInv'
        BY <3>2, <3>4, <3>5 DEF Rest, WireInv, NoReq, Content
      <3>9. SocketInv'
        BY <3>1, <3>2, <3>3, <3>5 DEF Rest, SocketInv, NoReq, NoErr
      <3>10. QED
        BY <3>5, <3>6, <3>7, <3>8, <3>9 DEF Rest, PaidOnce, PhaseTruth
    <2>3. QED BY <1>2, <1>g, <2>1, <2>2 DEF ChallengeEnd, Codes
  <1>3. CASE PrepareFails
    BY <1>0, <1>3 DEF PrepareFails, Codes
  <1>4. CASE PrepareDone
    <2>1. CASE /\ Accepts(op.evidence, op.policy, state.observedPin)
               /\ Authorize(op.policy, op.approvalExpiry)
      BY <1>4, <2>1, AuthorizeRest DEF PrepareDone, TypeOK, Ops
    <2>2. CASE \E c \in Codes : FailOpen(Early(c)) /\ UNCHANGED endFrame
      BY <1>0, <2>2
    <2>3. CASE /\ op' = [op EXCEPT !.pc = "refresh"]
               /\ UNCHANGED <<state, net, req, calls, history>>
      <3>1. /\ op.pc = "prepare" /\ op'.pc = "refresh" /\ op'.err = op.err
            /\ op'.evidence = op.evidence
        BY <1>4, <2>3 DEF PrepareDone, TypeOK, Ops
      <3>2. UNCHANGED <<state, net, req, calls, connects, wire, last>>
        BY <2>3 DEF history
      <3>3. ~state.authorized BY <3>1 DEF Rest, AuthorizedInv
      <3>4. StageInv' BY <3>1, <3>2 DEF Rest, StageInv
      <3>5. AuthorizedInv' BY <3>1, <3>2, <3>3 DEF AuthorizedInv
      <3>6. WireInv' BY <3>2, <3>3 DEF Rest, WireInv
      <3>7. SocketInv' BY <3>1, <3>2 DEF Rest, SocketInv, Joined
      <3>8. QED
        BY <3>2, <3>4, <3>5, <3>6, <3>7 DEF Rest, PaidOnce, PhaseTruth
    <2>4. QED BY <1>4, <1>g, <2>1, <2>2, <2>3 DEF PrepareDone, Codes
  <1>5. ASSUME NEW pol \in Policies, NEW x \in Expiries, RefreshDone(pol, x)
        PROVE  Rest'
    <2>1. \/ /\ Accepts(op.evidence, pol, state.observedPin)
             /\ Authorize(pol, x)
          \/ /\ \/ FailOpen(Early("configuration"))
                \/ FailOpen(Early("untrusted"))
                \/ LET v == GuardAt(mono, wall, op.evidenceExpiry, x)
                   IN v # "ok" /\ FailOpen(Early(v))
             /\ UNCHANGED endFrame
      BY <1>5 DEF RefreshDone
    <2>2. CASE /\ Accepts(op.evidence, pol, state.observedPin)
               /\ Authorize(pol, x)
      BY <1>5, <2>2, AuthorizeRest, ConstantsAssumption DEF RefreshDone
    <2>3. CASE \E c \in Codes : FailOpen(Early(c)) /\ UNCHANGED endFrame
      BY <1>0, <2>3
    <2>4. GuardAt(mono, wall, op.evidenceExpiry, x) \in Codes \cup {"ok"}
      BY GuardCodes DEF Codes
    <2>5. QED BY <2>1, <2>2, <2>3, <2>4 DEF Codes
  <1>6. CASE JoinClosed
    <2>1. /\ op.pc = "failing" /\ Joined /\ op'.pc = "failed"
          /\ op'.err = op.err /\ op'.evidence = op.evidence
          /\ op'.policy = op.policy /\ op'.approvalExpiry = op.approvalExpiry
          /\ op'.evidenceExpiry = op.evidenceExpiry
      BY <1>6 DEF JoinClosed, TypeOK, Ops
    <2>2. /\ state'.busy = state.busy /\ state'.opened = state.opened
          /\ state'.authorized = state.authorized
          /\ state'.paidAttempted = state.paidAttempted
          /\ state'.httpWritten = state.httpWritten
          /\ state'.handshakeComplete = state.handshakeComplete
          /\ state'.observedPin = state.observedPin
      BY <1>6 DEF JoinClosed, TypeOK, States
    <2>3. UNCHANGED <<net, req, calls, connects, wire, last>>
      BY <1>6 DEF JoinClosed, history
    <2>4. StageInv' BY <2>1, <2>2, <2>3 DEF Rest, StageInv
    <2>5. AuthorizedInv' BY <2>1, <2>2 DEF Rest, AuthorizedInv
    <2>6. WireInv' BY <2>1, <2>2, <2>3 DEF Rest, WireInv
    <2>7. SocketInv' BY <2>1, <2>2, <2>3 DEF Rest, SocketInv, Joined
    <2>8. QED
      BY <2>3, <2>4, <2>5, <2>6, <2>7 DEF Rest, PaidOnce, PhaseTruth
  <1>7. QED BY <1>1, <1>2, <1>3, <1>4, <1>5, <1>6 DEF PrepareStep

\* Every step of the caller keeps the invariant.
LEMMA CallerStepRest == ASSUME TypeOK, Rest, CallerStep PROVE Rest'
  <1>1. CASE Abort
    <2>1. /\ Late("cancelled") \in Errors /\ Early("cancelled") \in Errors
          /\ ~Late("cancelled").cap /\ ~Early("cancelled").cap
      BY HandlerErrors DEF Codes, Late, Early, Error
    <2>2. CASE UNCHANGED <<state, net, req, op, last>>
      <3>1. UNCHANGED <<state, net, req, op, calls, connects, wire, last>>
        BY <1>1, <2>2 DEF Abort, endFrame
      <3>2. StageInv' /\ AuthorizedInv'
        BY <3>1 DEF Rest, StageInv, AuthorizedInv
      <3>3. WireInv' BY <3>1 DEF Rest, WireInv
      <3>4. SocketInv' BY <3>1 DEF Rest, SocketInv, Joined
      <3>5. QED BY <3>1, <3>2, <3>3, <3>4 DEF Rest, PaidOnce, PhaseTruth
    <2>3. QED
      BY <1>1, <2>1, <2>2, FailOpenRest, CloseReadyRest DEF Abort
  <1>2. CASE close BY <1>2, CloseReadyRest DEF close
  <1>3. CASE CallAbort
    <2>1. /\ Error("cancelled", ReqPhase) \in Errors
          /\ ~Error("cancelled", ReqPhase).cap
          /\ Error("cancelled", ReqPhase).phase = "before_http"
                => ~req.dispatched
      BY HandlerErrors DEF Codes, Error, ReqPhase
    <2>2. req.at # "none" BY <1>3 DEF CallAbort, Rest, StageInv
    <2>3. QED
      BY <1>3, <2>1, <2>2, TerminateRest DEF CallAbort, endFrame
  <1>r. ASSUME NEW kind \in Content, Refusal(kind) = "ok"
        PROVE  /\ state.authorized /\ ~state.busy /\ guard = "ok"
               /\ kind = "paid" => ~state.paidAttempted
    BY <1>r, GuardCodes DEF Refusal, guard
  <1>w. /\ \A w \in wire : w.kind \in Content => w.n <= calls /\ w.n # calls + 1
        /\ last.n <= calls /\ last.n # calls + 1
    BY DEF Rest, WireInv, TypeOK, Writes, Lasts
  <1>4. ASSUME NEW kind \in Content, Fetch(kind) PROVE Rest'
    <2>1. /\ op.pc = "ready" /\ calls' = calls + 1
          /\ UNCHANGED <<op, connects, wire, last>>
          /\ Refusal(kind) = "ok"
      BY <1>4 DEF Fetch, Call, history
    <2>2. /\ req'.n = calls + 1 /\ req'.kind = kind
          /\ req'.at \in {"assigned", "queued"} /\ ~req'.dispatched
          /\ req'.err = NoErr
      <3>1. req' = [n |-> calls + 1, kind |-> kind, dispatched |-> FALSE,
                    at |-> IF net.pool = "free" THEN "assigned" ELSE "queued",
                    err |-> NoErr]
        BY <1>4 DEF Fetch, NoReq
      <3>2. QED BY <3>1
    <2>3. /\ state'.busy /\ state'.opened = state.opened
          /\ state'.authorized = state.authorized
          /\ state'.httpWritten = state.httpWritten
          /\ state'.handshakeComplete = state.handshakeComplete
          /\ state'.observedPin = state.observedPin
          /\ state'.paidAttempted = (state.paidAttempted \/ kind = "paid")
      BY <1>4 DEF Fetch, TypeOK, States, Spends
    <2>4. net'.sock = net.sock /\ net'.challenge = net.challenge
      BY <1>4 DEF Fetch, TypeOK, Nets
    <2>5. kind # "challenge" BY DEF Content
    <2>6. StageInv'
      BY <2>1, <2>2, <2>3, <2>4, <2>5 DEF Rest, StageInv, TypeOK
    <2>7. AuthorizedInv' BY <2>1, <2>3 DEF Rest, AuthorizedInv
    <2>8. WireInv'
      <3>1. ASSUME NEW w \in wire', w.kind \in Content
            PROVE  /\ state'.authorized
                   /\ w.n <= calls' /\ w.n # req'.n
                   /\ w.mono < Deadline
                   /\ ~Passed(w.wall, op'.evidenceExpiry)
                   /\ ~Passed(w.wall, op'.approvalExpiry)
                   /\ w.kind = "paid" => state'.paidAttempted
                   /\ w.kind = "paid" => req'.kind # "paid"
        <4>1. w \in wire /\ w \in Writes BY <2>1 DEF TypeOK
        <4>2. w.n <= calls' /\ w.n # req'.n
          BY <1>w, <2>1, <2>2, <3>1, <4>1 DEF TypeOK, Writes
        <4>3. /\ state.authorized /\ w.mono < Deadline
              /\ ~Passed(w.wall, op.evidenceExpiry)
              /\ ~Passed(w.wall, op.approvalExpiry)
              /\ w.kind = "paid" => state.paidAttempted
          BY <3>1, <4>1 DEF Rest, WireInv
        <4>4. QED BY <1>r, <2>1, <2>2, <2>3, <4>2, <4>3
      <3>2. last'.n <= calls' /\ last'.n # req'.n
        BY <1>w, <2>1, <2>2 DEF TypeOK, Lasts
      <3>3. QED BY <2>2, <2>3, <3>1, <3>2 DEF WireInv
    <2>9. SocketInv'
      BY <2>1, <2>2, <2>3, <2>4 DEF Rest, SocketInv, NoErr
    <2>10. QED
      BY <2>1, <2>6, <2>7, <2>8, <2>9 DEF Rest, PaidOnce, PhaseTruth
  <1>5. ASSUME NEW kind \in Content, FetchExpires(kind) PROVE Rest'
    <2>1. /\ op.pc = "ready" /\ calls' = calls + 1 /\ net' = Destroyed
          /\ UNCHANGED <<req, op, connects, wire>>
          /\ last' = [n |-> calls + 1, code |-> "expired",
                      phase |-> "before_http"]
      BY <1>5 DEF FetchExpires, Call
    <2>2. /\ state'.busy = state.busy /\ state'.opened = state.opened
          /\ state'.authorized = state.authorized
          /\ state'.httpWritten = state.httpWritten
          /\ state'.handshakeComplete = state.handshakeComplete
          /\ state'.observedPin = state.observedPin
          /\ state'.paidAttempted = (state.paidAttempted \/ kind = "paid")
      BY <1>5 DEF FetchExpires, TypeOK, States, Spends
    <2>3. /\ net'.sock # "connecting" /\ net'.challenge = net.challenge
          /\ net.sock # "none" => net'.sock # "none"
      BY <2>1 DEF Destroyed, TypeOK, Nets
    <2>4. ~state.busy BY <1>5, <1>r DEF FetchExpires
    <2>5. req.at = "none" BY <2>4 DEF Rest, StageInv
    <2>6. StageInv'
      BY <2>1, <2>2, <2>3, <2>4, <2>5 DEF Rest, StageInv, TypeOK, Reqs
    <2>7. AuthorizedInv' BY <2>1, <2>2 DEF Rest, AuthorizedInv
    <2>8. WireInv'
      <3>1. \A w \in wire : w.kind \in Content => w.n <= calls'
        BY <1>w, <2>1 DEF TypeOK, Writes
      <3>2. req.kind \in Content => last'.n # req.n
        BY <2>1 DEF Rest, StageInv, TypeOK, Reqs
      <3>3. last'.n <= calls' BY <2>1 DEF TypeOK
      <3>4. QED BY <2>1, <2>2, <3>1, <3>2, <3>3 DEF Rest, WireInv
    <2>9. SocketInv' BY <2>1, <2>2, <2>3 DEF Rest, SocketInv
    <2>10. PhaseTruth' BY <1>w, <2>1 DEF PhaseTruth
    <2>11. QED
      BY <2>1, <2>6, <2>7, <2>8, <2>9, <2>10 DEF Rest, PaidOnce
  <1>6. ASSUME NEW kind, FetchRefused(kind) PROVE Rest'
    <2>1. /\ calls' = calls + 1 /\ last'.n = calls + 1
          /\ UNCHANGED <<state, net, req, op, connects, wire>>
      BY <1>6 DEF FetchRefused, Call
    <2>2. StageInv' BY <2>1 DEF Rest, StageInv, TypeOK, Reqs
    <2>3. AuthorizedInv' BY <2>1 DEF Rest, AuthorizedInv
    <2>4. WireInv'
      BY <1>w, <2>1 DEF Rest, WireInv, StageInv, TypeOK, Writes, Reqs
    <2>5. SocketInv' BY <2>1 DEF Rest, SocketInv, Joined
    <2>6. PhaseTruth' BY <1>w, <2>1 DEF PhaseTruth
    <2>7. QED
      BY <2>1, <2>2, <2>3, <2>4, <2>5, <2>6 DEF Rest, PaidOnce
  <1>7. QED BY <1>1, <1>2, <1>3, <1>4, <1>5, <1>6 DEF CallerStep

----------------------------------------------------------------------------
(* The theorems                                                            *)

\* Every step keeps the inductive invariant.
LEMMA IInvStep == IInv /\ [Next]_vars => IInv'
  <1> SUFFICES ASSUME TypeOK, Rest, [Next]_vars PROVE TypeOK' /\ Rest'
    BY DEF IInv, Rest
  <1>1. CASE SocketStep BY <1>1, SocketStepType, SocketStepRest
  <1>2. CASE RequestStep BY <1>2, RequestStepType, RequestStepRest
  <1>3. CASE PrepareStep
    BY <1>3, PrepareStepType, PrepareStepRest DEF Rest
  <1>4. CASE CallerStep BY <1>4, CallerStepType, CallerStepRest
  <1>5. CASE Tick \/ UNCHANGED vars
    <2>1. /\ mono' \in Nat /\ wall' \in Nat
          /\ UNCHANGED <<aborted, state, net, req, op, calls, connects, wire,
                         last>>
      BY <1>5 DEF Tick, Advance, vars, clocks, history, TypeOK
    <2>2. TypeOK' BY <2>1 DEF TypeOK
    <2>3. StageInv' /\ AuthorizedInv'
      BY <2>1 DEF Rest, StageInv, AuthorizedInv
    <2>4. WireInv' BY <2>1 DEF Rest, WireInv
    <2>5. SocketInv' BY <2>1 DEF Rest, SocketInv, Joined
    <2>6. QED
      BY <2>1, <2>2, <2>3, <2>4, <2>5 DEF Rest, PaidOnce, PhaseTruth
  <1>6. QED BY <1>1, <1>2, <1>3, <1>4, <1>5 DEF Next

\* The inductive invariant holds in every reachable state of the operation.
THEOREM Inductive == Spec => []IInv
  <1>1. Init => IInv BY InitType, InitRest DEF IInv, Rest
  <1>2. QED BY <1>1, IInvStep, PTL DEF Spec

\* The operation's records keep their types (State and the closure's variables
\* of retained-operation-node.ts).
THEOREM TypeCorrect == Spec => []TypeOK
  <1>1. IInv => TypeOK BY DEF IInv
  <1>2. QED BY <1>1, Inductive, PTL

\* Content goes out only on the attested socket, before every deadline, for any
\* number of policies, documents and calls.
THEOREM AlwaysContentAttested == Spec => []ContentAttested
  <1>1. IInv => ContentAttested
    BY DEF IInv, AuthorizedInv, WireInv, ContentAttested
  <1>2. QED BY <1>1, Inductive, PTL

\* At most one paid request is ever written (paidAttempted).
THEOREM AlwaysPaidOnce == Spec => []PaidOnce
  <1>1. IInv => PaidOnce BY DEF IInv
  <1>2. QED BY <1>1, Inductive, PTL

\* A call reported as "before_http" put nothing on the wire (wireDispatched).
THEOREM AlwaysPhaseTruth == Spec => []PhaseTruth
  <1>1. IInv => PhaseTruth BY DEF IInv
  <1>2. QED BY <1>1, Inductive, PTL

\* One operation makes at most one connection (createConnection's refusals).
THEOREM AlwaysSoleSocket == Spec => []SoleSocket
  <1>1. IInv => SoleSocket BY DEF IInv, SocketInv, SoleSocket
  <1>2. QED BY <1>1, Inductive, PTL

\* A retry is granted only to an operation that left nothing behind
\* (consumeInitialConnectionRefusal after joinClosed).
THEOREM AlwaysRetryClean == Spec => []RetryClean
  <1>1. IInv => RetryClean
    BY DEF IInv, SocketInv, RetryClean, MayRetry, Joined, TypeOK, Nets
  <1>2. QED BY <1>1, Inductive, PTL

\* A step ends with a dead socket, or an open operation, or leaves both alone.
LEMMA LetsGoStep ==
    ASSUME TypeOK, ClosedLetsGo, [Next]_vars PROVE ClosedLetsGo'
  <1> DEFINE Dead == net'.sock \notin {"connecting", "secure"}
             Same == state'.closed = state.closed /\ net'.sock = net.sock
  <1> SUFFICES Dead \/ Same \/ ~state'.closed BY DEF ClosedLetsGo
  <1>1. net' = Destroyed => Dead BY DEF Destroyed, TypeOK, Nets
  <1>2. \A error : FailOpen(error) \/ terminate(error) => Dead
    BY <1>1 DEF FailOpen, terminate
  <1>3. guard = "ok" => ~state.closed BY DEF guard, GuardAt
  <1>4. CASE SocketStep
    <2>1. CASE LookupDone BY <2>1 DEF LookupDone, TypeOK, Nets
    <2>2. CASE SecureConnect
      BY <2>2, <1>3 DEF SecureConnect, RefuseConnection, TypeOK, Nets, States
    <2>3. CASE ConnectionFails
      BY <2>3 DEF ConnectionFails, RefuseConnection, TypeOK, Nets
    <2>4. CASE SocketClose
      BY <2>4 DEF SocketClose, RefuseConnection, TypeOK, Nets
    <2>5. CASE FreeSocket BY <2>5 DEF FreeSocket, TypeOK, Nets
    <2>6. CASE QueuedReconnect BY <2>6, <1>2 DEF QueuedReconnect
    <2>7. QED BY <1>4, <2>1, <2>2, <2>3, <2>4, <2>5, <2>6 DEF SocketStep
  <1>5. CASE RequestStep
    <2>1. CASE SocketEvent BY <2>1, <1>2 DEF SocketEvent, TypeOK, States
    <2>2. CASE RequestError \/ ResponseRefused \/ BodyFails \/ ExchangeTimeout
      BY <2>2, <1>2 DEF RequestError, ResponseRefused, BodyFails, ExchangeTimeout
    <2>3. CASE Response BY <2>3 DEF Response, TypeOK, States
    <2>4. CASE BodyEnd BY <2>4, <1>1 DEF BodyEnd, TypeOK, States
    <2>5. CASE RequestClosed BY <2>5 DEF RequestClosed, TypeOK, Nets
    <2>6. QED BY <1>5, <2>1, <2>2, <2>3, <2>4, <2>5 DEF RequestStep
  <1>6. CASE PrepareStep
    <2>1. CASE Open BY <2>1, <1>2, <1>3 DEF Open, TypeOK, States
    <2>2. CASE ChallengeEnd BY <2>2, <1>2 DEF ChallengeEnd, TypeOK, States
    <2>3. CASE PrepareFails BY <2>3, <1>2 DEF PrepareFails
    <2>4. ASSUME NEW pol, NEW apExpiry, Authorize(pol, apExpiry)
          PROVE  Dead \/ Same
      BY <2>4, <1>1 DEF Authorize, TypeOK, States
    <2>5. CASE PrepareDone BY <2>5, <2>4, <1>2 DEF PrepareDone
    <2>6. CASE \E pol \in Policies, apExpiry \in Expiries : RefreshDone(pol, apExpiry)
      BY <2>6, <2>4, <1>2 DEF RefreshDone
    <2>7. CASE JoinClosed BY <2>7 DEF JoinClosed, TypeOK, States
    <2>8. QED BY <1>6, <2>1, <2>2, <2>3, <2>5, <2>6, <2>7 DEF PrepareStep
  <1>7. CASE CallerStep
    <2>1. CASE Abort BY <2>1, <1>1, <1>2 DEF Abort, CloseReady
    <2>2. CASE close BY <2>2, <1>1 DEF close, CloseReady
    <2>3. CASE CallAbort BY <2>3, <1>2 DEF CallAbort
    <2>4. ASSUME NEW kind, Fetch(kind) PROVE Same
      BY <2>4 DEF Fetch, TypeOK, Nets, States
    <2>5. ASSUME NEW kind, FetchExpires(kind) PROVE Dead
      BY <2>5, <1>1 DEF FetchExpires
    <2>6. ASSUME NEW kind, FetchRefused(kind) PROVE Same BY <2>6 DEF FetchRefused
    <2>7. QED BY <1>7, <2>1, <2>2, <2>3, <2>4, <2>5, <2>6 DEF CallerStep
  <1>8. CASE Tick \/ UNCHANGED vars BY <1>8 DEF Tick, vars
  <1>9. QED BY <1>4, <1>5, <1>6, <1>7, <1>8 DEF Next

\* A closed operation holds no live socket, and gets none (destroy, createConnection
\* and secureConnect).
THEOREM AlwaysClosedLetsGo == Spec => []ClosedLetsGo
  <1>1. Init => ClosedLetsGo BY DEF Init, NewState, ClosedLetsGo
  <1>2. QED BY <1>1, TypeCorrect, LetsGoStep, PTL DEF Spec

\* Only the 'socket' event of a request that passes guard writes.
LEMMA OnlyHandoverWrites ==
    ASSUME Next, ~(SocketEvent /\ Handover = "ok")
    PROVE  wire' = wire
  <1>1. CASE SocketEvent BY <1>1 DEF SocketEvent, endFrame
  <1>2. CASE SocketStep
    BY <1>2 DEF SocketStep, LookupDone, SecureConnect, ConnectionFails,
      SocketClose, FreeSocket, QueuedReconnect, RefuseConnection, history
  <1>3. CASE RequestStep /\ ~SocketEvent
    BY <1>3 DEF RequestStep, RequestError, ResponseRefused, Response,
      BodyEnd, BodyFails, ExchangeTimeout, RequestClosed, history, endFrame
  <1>4. CASE PrepareStep
    BY <1>4 DEF PrepareStep, Open, ChallengeEnd, PrepareFails, PrepareDone,
      RefreshDone, JoinClosed, Authorize, history, endFrame
  <1>5. CASE CallerStep
    BY <1>5 DEF CallerStep, Abort, close, CallAbort, Fetch, FetchExpires,
      FetchRefused, history, endFrame
  <1>6. CASE Tick BY <1>6 DEF Tick, history
  <1>7. QED BY <1>1, <1>2, <1>3, <1>4, <1>5, <1>6 DEF Next

\* Nothing is written once the operation is closed, cancelled or lost (guard at
\* the request's 'socket' event).
THEOREM AlwaysNothingAfterEnd == Spec => NothingAfterEnd
  <1> DEFINE A == state.closed \/ aborted \/ state.lost => wire' = wire
  <1>1. IInv /\ [Next]_vars => [A]_vars
    <2> SUFFICES ASSUME IInv, Next, state.closed \/ aborted \/ state.lost
                 PROVE  wire' = wire
      OBVIOUS
    <2>1. Handover # "ok"
      BY DEF Handover, guard, GuardAt, IInv, TypeOK, States
    <2>2. QED BY <2>1, OnlyHandoverWrites
  <1>2. QED BY <1>1, Inductive, PTL DEF Spec, NothingAfterEnd

----------------------------------------------------------------------------
(* The refinement of AttestedChannel                                       *)

\* The operation has ended (closed, cancelled or lost).
Ended == state.closed \/ aborted \/ state.lost

\* An ending closes or loses the operation: none is undone by a later step.
LEMMA EndingEnds ==
    ASSUME IInv,
           \/ \E e : terminate(e) /\ (state.busy \/ req.at # "none")
           \/ \E e : FailOpen(e) /\ op.pc # "ready"
           \/ CloseReady
    PROVE  /\ state'.closed \/ state'.lost
           /\ op.pc = "ready" => op'.pc = "ready"
  <1>1. CASE CloseReady BY <1>1 DEF CloseReady, IInv, TypeOK, States
  <1>2. CASE \E e : FailOpen(e) /\ op.pc # "ready"
    BY <1>2 DEF FailOpen, IInv, TypeOK, States
  <1>3. CASE \E e : terminate(e) /\ (state.busy \/ req.at # "none")
    <2>1. req.kind = "challenge" => op.pc # "ready"
      BY <1>3 DEF IInv, StageInv
    <2>2. QED
      BY <1>3, <2>1 DEF terminate, FailOpen, IInv, TypeOK, States
  <1>4. QED BY <1>1, <1>2, <1>3

\* The end is final, and a returned operation stays returned.
LEMMA EndIsFinal ==
    ASSUME IInv, Next
    PROVE  (Ended => Ended') /\ (op.pc = "ready" => op'.pc = "ready")
  <1> DEFINE Kept == /\ state'.closed = state.closed
                     /\ state.lost => state'.lost
             Goal == (Ended => Ended') /\ (op.pc = "ready" => op'.pc = "ready")
  <1>t. state \in States /\ op \in Ops BY DEF IInv, TypeOK
  <1>0. ASSUME \/ \E e : terminate(e) /\ (state.busy \/ req.at # "none")
               \/ \E e : FailOpen(e) /\ op.pc # "ready"
               \/ CloseReady
        PROVE  Goal
    BY <1>0, EndingEnds DEF Ended
  <1>1. ASSUME Kept \/ state' = state, aborted' = aborted,
               op' = op \/ op'.pc = "ready" \/ op.pc # "ready"
        PROVE  Goal
    BY <1>1 DEF Ended
  <1>2. CASE SocketStep
    <2>1. CASE QueuedReconnect BY <1>0, <2>1 DEF QueuedReconnect
    <2>2. CASE SecureConnect
      BY <1>1, <1>t, <2>2 DEF SecureConnect, RefuseConnection, States
    <2>3. CASE ConnectionFails \/ SocketClose
      BY <1>1, <1>t, <2>3
      DEF ConnectionFails, SocketClose, RefuseConnection, States
    <2>4. CASE LookupDone \/ FreeSocket
      BY <1>1, <2>4 DEF LookupDone, FreeSocket
    <2>5. QED BY <1>2, <2>1, <2>2, <2>3, <2>4 DEF SocketStep
  <1>3. CASE RequestStep
    <2>1. CASE SocketEvent
      <3>1. CASE Handover = "ok"
        BY <1>1, <1>t, <2>1, <3>1 DEF SocketEvent, States
      <3>2. CASE Handover # "ok" BY <1>0, <2>1, <3>2 DEF SocketEvent
      <3>3. QED BY <3>1, <3>2
    <2>2. CASE RequestError BY <1>0, <2>2 DEF RequestError
    <2>3. ASSUME req.at # "none", req.kind = "challenge"
          PROVE  op.pc # "ready"
      BY <2>3 DEF IInv, StageInv
    <2>4. CASE ResponseRefused \/ BodyFails
      BY <1>0, <2>3, <2>4 DEF ResponseRefused, BodyFails
    <2>5. CASE Response
      <3>1. op.pc = "ready" => op'.pc = "ready"
        BY <1>t, <2>3, <2>5 DEF Response, Ops
      <3>2. Kept BY <1>t, <2>5 DEF Response, States
      <3>3. QED BY <1>1, <2>5, <3>1, <3>2 DEF Response
    <2>6. CASE BodyEnd BY <1>1, <1>t, <2>6 DEF BodyEnd, States
    <2>7. CASE ExchangeTimeout
      BY <1>0, <2>7 DEF ExchangeTimeout, TimerArmed
    <2>8. CASE RequestClosed BY <1>1, <2>8 DEF RequestClosed
    <2>9. QED
      BY <1>3, <2>1, <2>2, <2>4, <2>5, <2>6, <2>7, <2>8 DEF RequestStep
  <1>4. CASE PrepareStep
    <2>1. op.pc # "ready"
      BY <1>4 DEF PrepareStep, Open, ChallengeEnd, PrepareFails, PrepareDone,
        RefreshDone, JoinClosed, IInv, StageInv
    <2>2. ASSUME NEW pol, NEW x, Authorize(pol, x) PROVE Goal
      BY <1>t, <2>1, <2>2 DEF Authorize, Ended, States
    <2>3. CASE Open
      <3>1. CASE guard = "ok" BY <1>1, <1>t, <2>1, <2>3, <3>1 DEF Open, States
      <3>2. CASE guard # "ok" BY <1>0, <2>1, <2>3, <3>2 DEF Open
      <3>3. QED BY <3>1, <3>2
    <2>4. CASE ChallengeEnd
      <3>1. CASE \E e : FailOpen(e) BY <1>0, <2>1, <3>1
      <3>2. CASE state' = [state EXCEPT !.busy = FALSE] /\ aborted' = aborted
        BY <1>1, <1>t, <2>1, <3>2 DEF States
      <3>3. QED BY <2>4, <3>1, <3>2 DEF ChallengeEnd
    <2>5. CASE PrepareFails BY <1>0, <2>1, <2>5 DEF PrepareFails
    <2>6. CASE PrepareDone
      BY <1>0, <1>1, <2>1, <2>2, <2>6 DEF PrepareDone
    <2>7. CASE \E pol \in Policies, x \in Expiries : RefreshDone(pol, x)
      BY <1>0, <2>1, <2>2, <2>7 DEF RefreshDone
    <2>8. CASE JoinClosed
      BY <1>1, <1>t, <2>1, <2>8 DEF JoinClosed, States
    <2>9. QED
      BY <1>4, <2>3, <2>4, <2>5, <2>6, <2>7, <2>8 DEF PrepareStep
  <1>5. CASE CallerStep
    <2>1. CASE Abort
      <3>1. Ended' BY <2>1 DEF Abort, Ended
      <3>2. CASE op' = op BY <3>1, <3>2
      <3>3. CASE \E e : FailOpen(e) /\ op.pc # "ready" BY <1>0, <3>3
      <3>4. QED BY <2>1, <3>2, <3>3 DEF Abort, CloseReady
    <2>2. CASE close BY <1>0, <2>2 DEF close
    <2>3. CASE CallAbort BY <1>0, <2>3 DEF CallAbort
    <2>4. ASSUME NEW kind, Fetch(kind) \/ FetchExpires(kind)
                            \/ FetchRefused(kind)
          PROVE  Goal
      <3>1. CASE Fetch(kind) BY <1>1, <1>t, <3>1 DEF Fetch, States
      <3>2. CASE FetchExpires(kind)
        BY <1>1, <1>t, <3>2 DEF FetchExpires, States
      <3>3. CASE FetchRefused(kind) BY <1>1, <3>3 DEF FetchRefused
      <3>4. QED BY <2>4, <3>1, <3>2, <3>3
    <2>5. QED BY <1>5, <2>1, <2>2, <2>3, <2>4 DEF CallerStep
  <1>6. CASE Tick BY <1>1, <1>6 DEF Tick
  <1>7. QED BY <1>2, <1>3, <1>4, <1>5, <1>6 DEF Next

\* A step of the operation is a step of the channel or changes nothing there.
LEMMA ChannelStep ==
    ASSUME IInv, [Next]_vars
    PROVE  [Channel!Next]_(Channel!vars)
  <1>1. CASE UNCHANGED vars
    BY <1>1 DEF vars, clocks, history, ChannelPhase, ChannelSent, Channel!vars
  <1>2. CASE Next /\ SocketEvent /\ Handover = "ok"
    <2> DEFINE new == [n |-> req.n, kind |-> req.kind,
                       mono |-> mono, wall |-> wall]
               m   == <<req.n, req.kind>>
    <2>1. /\ wire' = wire \cup {new} /\ op' = op /\ aborted' = aborted
          /\ state' = [state EXCEPT !.httpWritten = TRUE]
          /\ req.at = "assigned"
      BY <1>2 DEF SocketEvent
    <2>2. ~Ended
      BY <1>2 DEF Handover, guard, GuardAt, Ended, IInv, TypeOK, States
    <2>3. ChannelPhase' = ChannelPhase
      BY <2>1 DEF ChannelPhase, IInv, TypeOK, States
    <2>4. CASE req.kind \notin Content
      <3>1. ChannelSent' = ChannelSent
        BY <2>1, <2>4 DEF ChannelSent
      <3>2. QED BY <2>3, <3>1 DEF Channel!vars
    <2>5. CASE req.kind \in Content
      <3>1. ChannelSent' = ChannelSent \cup {m}
        <4>1. {v \in wire' : v.kind \in Content}
                 = {v \in wire : v.kind \in Content} \cup {new}
          BY <2>1, <2>5
        <4>2. <<new.n, new.kind>> = m OBVIOUS
        <4>3. QED BY <4>1, <4>2, Zenon DEF ChannelSent
      <3>2. ChannelPhase = "attested"
        BY <2>2, <2>5 DEF ChannelPhase, Ended, IInv, StageInv
      <3>3. ~req.dispatched BY <2>1 DEF IInv, StageInv
      <3>4. \A s \in ChannelSent : s[1] # m[1]
        BY <2>5, <3>3 DEF ChannelSent, IInv, WireInv
      <3>5. m[2] = "paid" => \A s \in ChannelSent : s[2] # "paid"
        BY <3>3 DEF ChannelSent, IInv, WireInv
      <3>6. Channel!Send(m)
        BY <2>3, <2>5, <3>1, <3>2, <3>4, <3>5 DEF Channel!Send
      <3>7. QED BY <3>1, <3>6 DEF Channel!Next
    <2>6. QED BY <2>4, <2>5
  <1>3. CASE Next /\ ~(SocketEvent /\ Handover = "ok")
    <2>1. ChannelSent' = ChannelSent
      BY <1>3, OnlyHandoverWrites DEF ChannelSent
    <2>2. \/ ChannelPhase' = ChannelPhase
          \/ ChannelPhase = "unverified" /\ ChannelPhase' = "attested"
          \/ ChannelPhase # "ended" /\ ChannelPhase' = "ended"
      BY <1>3, EndIsFinal DEF ChannelPhase, Ended
    <2>3. QED
      BY <2>1, <2>2 DEF Channel!Next, Channel!Attest, Channel!End, Channel!vars
  <1>4. QED BY <1>1, <1>2, <1>3

\* The retained operation implements the attested channel: content only between
\* attestation and end, each request once, one paid request, no way back.
THEOREM Refinement == Spec => ImplementsChannel
  <1>1. Init => Channel!Init
    BY DEF Init, NewState, NewOp, Channel!Init, ChannelPhase, ChannelSent
  <1>2. IInv /\ [Next]_vars => [Channel!Next]_(Channel!vars)
    BY ChannelStep
  <1>3. QED
    BY <1>1, <1>2, Inductive, PTL DEF Spec, ImplementsChannel, Channel!Spec

=============================================================================
