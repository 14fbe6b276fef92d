------------------------ MODULE BoundOperation_proofs ------------------------
(* Proofs about BoundOperation, for any policies, evidence and expiries: the *)
(* client's two attempts over the retained operation's own invariant.       *)
EXTENDS BoundOperation, RetainedOperation_proofs

----------------------------------------------------------------------------
(* What a step of the operation does to what the client reads of it        *)

\* Preparation fails, and is "cancelled" only by the caller.
Failing ==
    \E e \in Errors : /\ FailOpen(e)
                      /\ op.pc \notin {"ready", "failing", "failed"}
                      /\ e.code = "cancelled" => aborted'
                      /\ aborted => aborted'

\* The operation goes on under the same policy, or stays ended as it was.
Quiet ==
    /\ op'.policy = op.policy /\ op'.err = op.err
    /\ op.pc \in {"refresh", "ready", "failed"} => op'.pc = op.pc
    /\ op.pc = "failing" => op'.pc \in {"failing", "failed"}
    /\ op'.pc = "failing" => op.pc = "failing"
    /\ op'.pc \in {"ready", "failed"} => op'.pc = op.pc \/ op.pc = "failing"
    /\ op.pc # "ready" => state'.closed = state.closed
    /\ req'.err.code = "cancelled" => aborted'
    /\ aborted => aborted'

\* The evidence is accepted and the operation authorized.
Authorized == \E pol \in Policies, apExpiry \in Nat :
                 /\ op.pc \in {"prepare", "refresh"} /\ Authorize(pol, apExpiry)
                 /\ op.pc = "prepare" => pol = op.policy

\* A call of the returned fetch.
CallStep == \/ \E kind \in Content : Fetch(kind) \/ FetchExpires(kind)
            \/ \E kind \in Content \cup {"other"} : FetchRefused(kind)

\* guard throws "cancelled" for a caller's abort or for close().
LEMMA GuardCancelled ==
    ASSUME TypeOK, NEW m, NEW w, NEW e, NEW a, GuardAt(m, w, e, a) = "cancelled"
    PROVE  state.closed \/ aborted
  BY DEF GuardAt, TypeOK, States

LEMMA GuardErrors ==
    ASSUME TypeOK, guard # "ok"
    PROVE  /\ Early(guard) \in Errors /\ Early(guard).code = guard
           /\ guard = "cancelled" => state.closed \/ aborted
  <1>1. guard \in Codes BY GuardCodes DEF guard, Codes
  <1>2. QED BY <1>1, ErrorTypes, GuardCancelled DEF guard, Early, Error

\* The exchange ends in an error.
LEMMA TerminateShape ==
    ASSUME TypeOK, StageInv, CancelInv, req.at # "none", NEW e \in Errors, terminate(e),
           e.code = "cancelled" => aborted \/ req.kind \in Content, UNCHANGED aborted
    PROVE  Failing \/ Quiet
  <1>1. CASE req.kind = "challenge"
    <2>1. op.pc \in {"challenge", "body"} BY <1>1 DEF StageInv
    <2>2. FailOpen(e) BY <1>1 DEF terminate, Content
    <2>3. "challenge" \notin Content BY DEF Content
    <2>4. QED BY <1>1, <2>1, <2>2, <2>3 DEF Failing
  <1>2. CASE req.kind \in Content
    <2>1. op.pc = "ready" /\ op' = op /\ req' = NoReq
      BY <1>2 DEF StageInv, terminate, Content
    <2>2. QED BY <2>1 DEF Quiet, NoReq, NoErr
  <1>3. QED BY <1>1, <1>2 DEF TypeOK, Reqs, Kinds

\* The socket's events.
LEMMA SocketShape ==
    ASSUME TypeOK, StageInv, CancelInv, SocketStep PROVE Failing \/ Quiet
  <1>t. state \in States /\ req \in Reqs /\ op \in Ops BY DEF TypeOK
  <1>r. ASSUME NEW code, code = "cancelled" => aborted, NEW cap, NEW sock,
               RefuseConnection(code, cap, sock), state'.closed = state.closed
        PROVE  Quiet
    <2>1. op' = op /\ aborted' = aborted /\ req'.err.code = code
      BY <1>r, <1>t DEF RefuseConnection, Reqs
    <2>2. QED BY <1>r, <2>1 DEF Quiet
  <1>q. ASSUME UNCHANGED <<op, aborted>>, state'.closed = state.closed,
               req'.err = req.err
        PROVE  Quiet
    BY <1>q DEF Quiet, CancelInv
  <1>1. CASE LookupDone \/ FreeSocket
    BY <1>1, <1>q, <1>t DEF LookupDone, FreeSocket, Reqs
  <1>2. CASE SecureConnect
    <2>1. op.pc = "challenge" /\ ~state.closed
      BY <1>2 DEF SecureConnect, StageInv, CancelInv
    <2>2. state'.closed = state.closed BY <1>2, <1>t DEF SecureConnect, States
    <2>3. guard = "cancelled" => aborted BY <2>1, GuardErrors
    <2>4. CASE net' = [net EXCEPT !.sock = "secure", !.pool = "active"]
               /\ req' = [req EXCEPT !.at = "assigned"] /\ UNCHANGED <<op, aborted>>
      BY <1>q, <1>t, <2>2, <2>4 DEF Reqs
    <2>5. CASE RefuseConnection("tls_certificate", FALSE, "destroyed")
      BY <1>r, <2>2, <2>5
    <2>6. CASE RefuseConnection(guard, FALSE, "destroyed")
      BY <1>r, <2>2, <2>3, <2>6
    <2>7. QED BY <1>2, <2>4, <2>5, <2>6 DEF SecureConnect
  <1>3. CASE ConnectionFails
    <2>1. state'.closed = state.closed BY <1>3, <1>t DEF ConnectionFails, States
    <2>2. QED BY <1>3, <1>r, <2>1 DEF ConnectionFails
  <1>4. CASE SocketClose
    <2>1. state'.closed = state.closed BY <1>4, <1>t DEF SocketClose, States
    <2>2. QED BY <1>4, <1>r, <1>q, <2>1 DEF SocketClose
  <1>5. CASE QueuedReconnect
    <2>1. Early("connection_lost") \in Errors /\ Early("connection_lost").code = "connection_lost"
      BY ErrorTypes DEF Early, Error, Codes
    <2>2. QED BY <1>5, <2>1, TerminateShape DEF QueuedReconnect
  <1>6. QED BY <1>1, <1>2, <1>3, <1>4, <1>5 DEF SocketStep

\* The request's events and its timer.
LEMMA RequestShape ==
    ASSUME TypeOK, StageInv, CancelInv, RequestStep \/ CallAbort PROVE Failing \/ Quiet
  <1>t. state \in States /\ req \in Reqs /\ op \in Ops /\ req.err \in Errors
    BY DEF TypeOK, Reqs
  <1>e. \A code \in Codes : \A phase \in Phases :
           Error(code, phase) \in Errors /\ Error(code, phase).code = code
    BY ErrorTypes DEF Error
  <1>p. ReqPhase \in Phases /\ "before_http" \in Phases /\ "may_have_dispatched" \in Phases
    BY DEF ReqPhase, Phases
  <1>c. {"untrusted", "redirect", "transport", "connection_lost", "timeout", "cancelled"}
          \subseteq Codes
    BY DEF Codes
  <1>f. ASSUME req.at # "none", req.kind = "challenge", FailOpen(Early("untrusted")),
               UNCHANGED aborted
        PROVE  Failing
    <2>1. op.pc \in {"challenge", "body"} BY <1>f DEF StageInv
    <2>2. Early("untrusted") \in Errors /\ Early("untrusted").code = "untrusted"
      BY <1>e, <1>p, <1>c DEF Early
    <2>3. QED BY <1>f, <2>1, <2>2 DEF Failing
  <1>1. CASE SocketEvent
    <2>1. CASE Handover # "ok" /\ terminate(Early(Handover)) /\ UNCHANGED aborted
      <3>0. req.at = "assigned" BY <1>1 DEF SocketEvent
      <3>1. Early(Handover) \in Errors /\ Early(Handover).code = Handover
        BY <2>1, GuardErrors DEF Handover
      <3>2. Handover = "cancelled" => aborted \/ req.kind \in Content
        <4>1. CASE req.kind = "challenge"
          <5>1. ~state.closed BY <3>0, <4>1 DEF StageInv, CancelInv
          <5>2. QED BY <2>1, <5>1, GuardErrors DEF Handover
        <4>2. QED BY <1>t, <4>1 DEF Reqs, Kinds
      <3>3. QED BY <2>1, <3>0, <3>1, <3>2, TerminateShape
    <2>2. CASE ~(Handover # "ok" /\ terminate(Early(Handover)) /\ UNCHANGED aborted)
      <3>1. /\ UNCHANGED <<op, aborted>> /\ req'.err = req.err
            /\ state'.closed = state.closed
        BY <1>1, <1>t, <2>2 DEF SocketEvent, endFrame, Reqs, States
      <3>2. QED BY <3>1 DEF Quiet, CancelInv
    <2>3. QED BY <2>1, <2>2
  <1>2. CASE RequestError
    BY <1>2, <1>t, <1>e, <1>p, <1>c, TerminateShape DEF RequestError, CancelInv
  <1>3. CASE ResponseRefused
    <2>1. CASE \E code \in {"redirect", "transport", "connection_lost"} : terminate(Late(code))
      BY <1>3, <1>e, <1>p, <1>c, <2>1, TerminateShape DEF ResponseRefused, Late
    <2>2. CASE req.kind = "challenge" /\ FailOpen(Early("untrusted"))
      BY <1>3, <1>f, <2>2 DEF ResponseRefused
    <2>3. QED BY <1>3, <2>1, <2>2 DEF ResponseRefused
  <1>4. CASE Response
    <2>1. /\ UNCHANGED aborted /\ req'.err = req.err /\ state'.closed = state.closed
          /\ op'.policy = op.policy /\ op'.err = op.err
      BY <1>4, <1>t DEF Response, Reqs, States, Ops
    <2>2. op' = op \/ (op.pc \in {"challenge", "body"} /\ op'.pc = "body")
      <3>1. CASE req.kind = "challenge"
        BY <1>4, <1>t, <3>1 DEF Response, StageInv, Ops
      <3>2. CASE req.kind # "challenge" BY <1>4, <1>t, <3>2 DEF Response, Ops
      <3>3. QED BY <3>1, <3>2
    <2>3. QED BY <2>1, <2>2 DEF Quiet, CancelInv
  <1>5. CASE BodyEnd
    <2>1. UNCHANGED <<op, aborted>> /\ req' = NoReq /\ state'.closed = state.closed
      BY <1>5, <1>t DEF BodyEnd, States
    <2>2. QED BY <2>1 DEF Quiet, NoReq, NoErr
  <1>6. CASE BodyFails
    <2>1. CASE terminate(Late("transport")) \/ (req.kind \in Content /\ terminate(Late("cancelled")))
      BY <1>6, <1>e, <1>p, <1>c, <2>1, TerminateShape DEF BodyFails, Late
    <2>2. CASE req.kind = "challenge" /\ FailOpen(Early("untrusted"))
      BY <1>6, <1>f, <2>2 DEF BodyFails
    <2>3. QED BY <1>6, <2>1, <2>2 DEF BodyFails
  <1>7. CASE ExchangeTimeout
    <2>1. req.at # "none" BY <1>7 DEF ExchangeTimeout, TimerArmed, StageInv
    <2>2. QED BY <1>7, <1>e, <1>p, <1>c, <2>1, TerminateShape DEF ExchangeTimeout
  <1>8. CASE CallAbort
    <2>1. req.at # "none" /\ req.kind \in Content BY <1>8 DEF CallAbort, StageInv
    <2>2. QED BY <1>8, <1>e, <1>p, <1>c, <2>1, TerminateShape DEF CallAbort
  <1>9. CASE RequestClosed
    BY <1>9 DEF RequestClosed, Quiet, CancelInv
  <1>10. QED BY <1>1, <1>2, <1>3, <1>4, <1>5, <1>6, <1>7, <1>8, <1>9 DEF RequestStep

\* Preparation after the challenge; the open itself.
LEMMA PrepareShape ==
    ASSUME TypeOK, StageInv, CancelInv, PrepareStep
    PROVE  Failing \/ Quiet \/ Authorized
  <1>t. state \in States /\ req \in Reqs /\ op \in Ops /\ op.policy \in Policies
        /\ op.approvalExpiry \in Nat
    BY DEF TypeOK, Ops
  <1>e. ASSUME NEW code \in {"untrusted", "timeout", "configuration"}
        PROVE  Early(code) \in Errors /\ Early(code).code = code
    BY ErrorTypes DEF Early, Error, Codes
  <1>f. ASSUME op.pc \notin {"ready", "failing", "failed"}, UNCHANGED aborted,
               \/ \E code \in {"untrusted", "timeout", "configuration"} : FailOpen(Early(code))
               \/ guard # "ok" /\ FailOpen(Early(guard))
        PROVE  Failing
    BY <1>e, <1>f, GuardErrors DEF Failing, CancelInv
  <1>q. ASSUME UNCHANGED aborted, op'.policy = op.policy, op'.err = op.err,
               op.pc \in {"init", "body", "prepare"},
               op'.pc \in {"challenge", "prepare", "refresh"},
               state'.closed = state.closed, req'.err.code # "cancelled"
        PROVE  Quiet
    BY <1>q DEF Quiet
  <1>n. NoReq.err.code # "cancelled" /\ [NoReq EXCEPT !.at = "connecting"].err.code # "cancelled"
    BY DEF NoReq, NoErr
  <1>1. CASE Open
    <2>1. op.pc = "init" BY <1>1 DEF Open
    <2>2. CASE guard # "ok" /\ FailOpen(Early(guard)) /\ UNCHANGED aborted
      BY <1>f, <2>1, <2>2
    <2>3. CASE guard = "ok"
      <3>1. /\ UNCHANGED aborted /\ op' = [op EXCEPT !.pc = "challenge"]
            /\ state' = [state EXCEPT !.busy = TRUE, !.opened = TRUE]
            /\ req' = [NoReq EXCEPT !.at = "connecting"]
        BY <1>1, <2>3 DEF Open
      <3>2. /\ op'.policy = op.policy /\ op'.err = op.err /\ op'.pc = "challenge"
            /\ state'.closed = state.closed
        BY <1>t, <3>1 DEF Ops, States
      <3>3. QED BY <1>n, <1>q, <2>1, <3>1, <3>2
    <2>4. QED BY <1>1, <2>2, <2>3 DEF Open
  <1>2. CASE ChallengeEnd
    <2>1. op.pc \in {"challenge", "body"} BY <1>2 DEF ChallengeEnd, StageInv
    <2>2. CASE FailOpen(Early("untrusted")) \/ (guard # "ok" /\ FailOpen(Early(guard)))
      BY <1>2, <1>f, <2>1, <2>2 DEF ChallengeEnd, endFrame, FailOpen
    <2>3. CASE /\ \E ev \in Evidences :
                    op' = [op EXCEPT !.pc = "prepare", !.evidence = ev]
               /\ state' = [state EXCEPT !.busy = FALSE] /\ req' = NoReq
               /\ UNCHANGED aborted
      <3>1. /\ op'.policy = op.policy /\ op'.err = op.err /\ op'.pc = "prepare"
            /\ state'.closed = state.closed
        BY <1>t, <2>3 DEF Ops, States
      <3>2. QED BY <1>n, <2>1, <2>3, <3>1 DEF Quiet
    <2>4. QED BY <1>2, <2>2, <2>3 DEF ChallengeEnd
  <1>3. CASE PrepareFails
    BY <1>3, <1>f DEF PrepareFails
  <1>4. CASE PrepareDone
    <2>1. op.pc = "prepare" BY <1>4 DEF PrepareDone
    <2>2. CASE Authorize(op.policy, op.approvalExpiry)
      BY <1>t, <2>1, <2>2 DEF Authorized
    <2>3. CASE op' = [op EXCEPT !.pc = "refresh"] /\ UNCHANGED <<aborted, state, req>>
      BY <1>t, <2>1, <2>3 DEF Quiet, CancelInv, Ops
    <2>4. CASE /\ UNCHANGED aborted
               /\ FailOpen(Early("untrusted")) \/ (guard # "ok" /\ FailOpen(Early(guard)))
      BY <1>f, <2>1, <2>4
    <2>5. QED BY <1>4, <2>2, <2>3, <2>4 DEF PrepareDone
  <1>5. ASSUME NEW pol \in Policies, NEW apExpiry \in Expiries, RefreshDone(pol, apExpiry)
        PROVE  Failing \/ Authorized
    <2> DEFINE verdict == GuardAt(mono, wall, op.evidenceExpiry, apExpiry)
    <2>1. op.pc = "refresh" /\ apExpiry \in Nat
      BY <1>5, ConstantsAssumption DEF RefreshDone
    <2>2. CASE Authorize(pol, apExpiry) BY <2>1, <2>2 DEF Authorized
    <2>3. CASE UNCHANGED aborted /\ verdict # "ok" /\ FailOpen(Early(verdict))
      <3>1. verdict \in Codes BY <2>3, GuardCodes DEF Codes
      <3>2. verdict = "cancelled" => state.closed \/ aborted BY GuardCancelled
      <3> HIDE DEF verdict
      <3>3. Early(verdict) \in Errors /\ Early(verdict).code = verdict
        BY <3>1, ErrorTypes DEF Early, Error
      <3>4. QED BY <2>1, <2>3, <3>2, <3>3 DEF Failing, CancelInv
    <2>4. CASE /\ UNCHANGED aborted
               /\ FailOpen(Early("configuration")) \/ FailOpen(Early("untrusted"))
      BY <1>f, <2>1, <2>4
    <2>5. QED BY <1>5, <2>2, <2>3, <2>4 DEF RefreshDone
  <1>6. CASE JoinClosed
    <2>1. /\ op.pc = "failing" /\ op' = [op EXCEPT !.pc = "failed"]
          /\ state' = [state EXCEPT !.closedJoined = TRUE] /\ UNCHANGED <<aborted, req>>
      BY <1>6 DEF JoinClosed
    <2>2. /\ op'.policy = op.policy /\ op'.err = op.err /\ op'.pc = "failed"
          /\ state'.closed = state.closed
      BY <1>t, <2>1 DEF Ops, States
    <2>3. QED BY <2>1, <2>2 DEF Quiet, CancelInv
  <1>7. QED BY <1>1, <1>2, <1>3, <1>4, <1>5, <1>6 DEF PrepareStep

\* The caller's abort, a call of fetch, the clock.
LEMMA CallerShape ==
    ASSUME TypeOK, StageInv, CancelInv, Abort \/ close \/ CallStep \/ Tick
    PROVE  Failing \/ Quiet
  <1>t. state \in States /\ req \in Reqs /\ op \in Ops BY DEF TypeOK
  <1>n. NoReq.err.code # "cancelled" BY DEF NoReq, NoErr
  <1>1. CASE Abort
    <2>1. ASSUME NEW e \in {Late("cancelled"), Early("cancelled")}, FailOpen(e),
                 op.pc \in {"challenge", "body", "prepare", "refresh"}
          PROVE  Failing
      <3>1. e \in Errors BY ErrorTypes DEF Codes
      <3>2. QED BY <1>1, <2>1, <3>1 DEF Abort, Failing
    <2>2. CASE op.pc = "ready" /\ CloseReady
      BY <1>1, <1>n, <2>2 DEF Abort, CloseReady, Quiet
    <2>3. CASE UNCHANGED <<state, net, req, op, last>>
      BY <1>1, <2>3 DEF Abort, Quiet
    <2>4. QED BY <1>1, <2>1, <2>2, <2>3 DEF Abort
  <1>2. CASE close
    BY <1>2, <1>n DEF close, CloseReady, Quiet, CancelInv
  <1>3. ASSUME NEW kind, Fetch(kind) PROVE Quiet
    <2>1. /\ op.pc = "ready" /\ UNCHANGED <<op, aborted>>
          /\ req' = [NoReq EXCEPT !.n = calls + 1, !.kind = kind, !.at =
                         IF net.pool = "free" THEN "assigned" ELSE "queued"]
      BY <1>3 DEF Fetch, Call
    <2>2. req'.err = NoReq.err BY <2>1 DEF NoReq
    <2>3. QED BY <1>n, <2>1, <2>2 DEF Quiet
  <1>4. ASSUME NEW kind, FetchExpires(kind) \/ FetchRefused(kind) PROVE Quiet
    BY <1>4 DEF FetchExpires, FetchRefused, Call, Quiet, CancelInv
  <1>5. CASE Tick BY <1>5 DEF Tick, Quiet, CancelInv
  <1>6. QED BY <1>1, <1>2, <1>3, <1>4, <1>5 DEF CallStep

\* What a failure and an authorization leave.
LEMMA FailingEffects ==
    ASSUME TypeOK, Failing
    PROVE  /\ op'.pc = "failing" /\ op'.policy = op.policy
           /\ op'.err.code = "cancelled" => aborted'
           /\ req' = NoReq /\ last' = last
           /\ op.pc \notin {"ready", "failing", "failed"}
  <1>1. op \in Ops BY DEF TypeOK
  <1>2. QED BY <1>1 DEF Failing, FailOpen, Ops

LEMMA AuthorizedEffects ==
    ASSUME TypeOK, CancelInv, NEW pol, NEW apExpiry, Authorize(pol, apExpiry),
           op.pc \in {"prepare", "refresh"}
    PROVE  /\ op'.pc \in {"ready", "failing"} /\ op'.policy = pol
           /\ op'.err.code = "cancelled" => aborted'
           /\ UNCHANGED <<req, last, aborted>>
  <1>1. op \in Ops BY DEF TypeOK
  <1> DEFINE evExpiry == op.evidence.issued + MaxAge[pol]
             verdict == GuardAt(mono, wall, evExpiry, apExpiry)
             held == [op EXCEPT !.policy = pol, !.approvalExpiry = apExpiry,
                                !.evidenceExpiry = evExpiry]
  <1>2. \/ op' = [held EXCEPT !.pc = "ready"]
        \/ op' = [held EXCEPT !.pc = "failing", !.err = Early(verdict)]
    BY DEF Authorize
  <1>3. verdict = "cancelled" => state.closed \/ aborted BY GuardCancelled
  <1>4. UNCHANGED <<req, last, aborted>> BY DEF Authorize, history
  <1> HIDE DEF verdict, evExpiry
  <1>5. Early(verdict).code = verdict BY DEF Early, Error
  <1>6. op'.pc \in {"ready", "failing"} /\ op'.policy = pol
    BY <1>1, <1>2 DEF Ops
  <1>7. op'.err = op.err \/ op'.err = Early(verdict)
    BY <1>1, <1>2 DEF Ops
  <1>8. op'.err.code = "cancelled" => aborted'
    BY <1>3, <1>4, <1>5, <1>7 DEF CancelInv
  <1>9. QED BY <1>4, <1>6, <1>8

\* Inside the operation nothing but the caller cancels.
LEMMA CancelKeeps ==
    ASSUME TypeOK, CancelInv, Failing \/ Quiet \/ Authorized
    PROVE  CancelInv' /\ (aborted => aborted')
  <1>1. CASE Failing
    <2>1. NoReq.err.code # "cancelled" BY DEF NoReq, NoErr
    <2>2. QED BY <1>1, <2>1, FailingEffects DEF Failing, CancelInv
  <1>2. CASE Quiet BY <1>2 DEF Quiet, CancelInv
  <1>3. CASE Authorized
    BY <1>3, AuthorizedEffects DEF Authorized, CancelInv
  <1>4. QED BY <1>1, <1>2, <1>3

----------------------------------------------------------------------------
(* A step of the operation under the client                                *)

\* The steps of the operation that the client admits are steps of the retained
\* operation; an abort seen while no operation is open only raises the signal.
LEMMA OperationIsNext ==
    ASSUME OperationStep
    PROVE  \/ Next
           \/ /\ client.pc = "resolving" /\ aborted' = TRUE
              /\ UNCHANGED <<clocks, ovars>>
  BY DEF OperationStep, OpeningStep, WorkStep, Next, PrepareStep, CallerStep

LEMMA OperationIInv == ASSUME IInv, OperationStep PROVE IInv'
  <1>1. CASE Next BY <1>1, IInvStep
  <1>2. CASE aborted' = TRUE /\ UNCHANGED <<clocks, ovars>>
    <2>1. TypeOK'
      BY <1>2 DEF IInv, TypeOK, clocks, ovars
    <2>2. StageInv' /\ SocketInv'
      BY <1>2 DEF IInv, StageInv, SocketInv, Joined, ovars
    <2>3. AuthorizedInv' /\ WireInv'
      BY <1>2 DEF IInv, AuthorizedInv, WireInv, Passed, ovars
    <2>4. PaidOnce' /\ PhaseTruth'
      BY <1>2 DEF IInv, PaidOnce, PhaseTruth, ovars
    <2>5. QED BY <2>1, <2>2, <2>3, <2>4 DEF IInv
  <1>3. QED BY <1>1, <1>2, OperationIsNext

LEMMA OperationShape ==
    ASSUME TypeOK, StageInv, CancelInv, OperationStep
    PROVE  Failing \/ Quiet \/ (Authorized /\ op.pc = "prepare")
  <1>1. CASE client.pc = "opening" /\ OpeningStep
    <2>1. CASE PrepareFails
      <3>1. \A code \in {"timeout", "untrusted"} :
               Early(code) \in Errors /\ Early(code).code = code
        BY ErrorTypes DEF Early, Error, Codes
      <3>2. PICK code \in {"timeout", "untrusted"} : FailOpen(Early(code))
        BY <2>1 DEF PrepareFails
      <3>3. QED BY <2>1, <3>1, <3>2 DEF PrepareFails, Failing
    <2>2. CASE ~PrepareFails
      <3>1. op.pc # "refresh"
        BY <1>1, <2>2 DEF OpeningStep, Open, ChallengeEnd, PrepareDone,
          JoinClosed, StageInv
      <3>2. PrepareStep BY <1>1 DEF OpeningStep, PrepareStep
      <3>3. QED BY <3>1, <3>2, PrepareShape DEF Authorized
    <2>3. QED BY <2>1, <2>2
  <1>2. CASE WorkStep
    BY <1>2, RequestShape, CallerShape DEF WorkStep, CallStep
  <1>3. CASE Abort \/ Tick BY <1>3, CallerShape
  <1>4. CASE aborted' = TRUE /\ UNCHANGED <<clocks, ovars>>
    BY <1>4 DEF ovars, Quiet
  <1>5. CASE SocketStep \/ RequestStep
    BY <1>5, SocketShape, RequestShape
  <1>6. QED BY <1>1, <1>2, <1>3, <1>4, <1>5 DEF OperationStep

\* A failed operation is still: nothing of it is left to move, so the retry it
\* may grant stays granted while the client resolves a policy.
LEMMA FailedStill ==
    ASSUME IInv, op.pc = "failed" PROVE ~SocketStep /\ ~RequestStep
  <1>1. Joined BY DEF IInv, SocketInv
  <1>2. req.at = "none" /\ ~state.busy
    BY DEF IInv, StageInv, TypeOK, Reqs, Kinds, Content
  <1>3. ~SocketStep
    BY <1>1, <1>2 DEF SocketStep, LookupDone, SecureConnect, ConnectionFails,
      SocketClose, FreeSocket, QueuedReconnect, Joined
  <1>4. ~RequestStep
    BY <1>1, <1>2 DEF RequestStep, SocketEvent, RequestError, ResponseRefused,
      Response, BodyEnd, BodyFails, ExchangeTimeout, TimerArmed, RequestClosed,
      Joined
  <1>5. QED BY <1>3, <1>4

\* Until the operation is returned it carries only its challenge.
LEMMA BeforeReturned ==
    ASSUME TypeOK, StageInv, req.kind = "challenge", last.n = 0,
           SocketStep \/ RequestStep \/ OpeningStep \/ Abort
    PROVE  req'.kind = "challenge" /\ last'.n = 0
  <1>c. "challenge" \notin Content BY DEF Content
  <1>n. NoReq.kind = "challenge" BY DEF NoReq
  <1>t. req \in Reqs BY DEF TypeOK
  <1>e. ASSUME NEW e, FailOpen(e) \/ terminate(e)
        PROVE  req'.kind = "challenge" /\ last'.n = 0
    BY <1>c, <1>n, <1>e DEF terminate, FailOpen
  <1>1. CASE SocketStep
    <2>1. CASE QueuedReconnect BY <1>e, <2>1 DEF QueuedReconnect
    <2>2. CASE SocketStep /\ ~QueuedReconnect
      BY <1>t, <2>2 DEF SocketStep, LookupDone, SecureConnect, ConnectionFails,
        SocketClose, FreeSocket, RefuseConnection, history, Reqs
    <2>3. QED BY <1>1, <2>1, <2>2
  <1>2. CASE RequestStep
    <2>1. CASE RequestError \/ ResponseRefused \/ BodyFails \/ ExchangeTimeout
      BY <1>e, <2>1 DEF RequestError, ResponseRefused, BodyFails, ExchangeTimeout
    <2>2. CASE SocketEvent
      <3>1. CASE Handover = "ok"
        BY <1>t, <2>2, <3>1 DEF SocketEvent, Reqs
      <3>2. CASE Handover # "ok" BY <1>e, <2>2, <3>2 DEF SocketEvent
      <3>3. QED BY <3>1, <3>2
    <2>3. CASE Response BY <1>t, <2>3 DEF Response, history, Reqs
    <2>4. CASE BodyEnd BY <1>c, <2>4 DEF BodyEnd
    <2>5. CASE RequestClosed BY <2>5 DEF RequestClosed, history
    <2>6. QED BY <1>2, <2>1, <2>2, <2>3, <2>4, <2>5 DEF RequestStep
  <1>3. CASE OpeningStep
    <2>1. CASE \E e : FailOpen(e) BY <1>e, <2>1
    <2>2. CASE ~\E e : FailOpen(e)
      <3>1. UNCHANGED last
        BY <1>3, <2>2 DEF OpeningStep, Open, ChallengeEnd, PrepareDone,
          JoinClosed, PrepareFails, Authorize, history
      <3>2. \/ req' = NoReq \/ req' = [NoReq EXCEPT !.at = "connecting"]
            \/ UNCHANGED req
        BY <1>3, <2>2 DEF OpeningStep, Open, ChallengeEnd, PrepareDone,
          JoinClosed, PrepareFails, Authorize
      <3>3. QED BY <3>1, <3>2 DEF NoReq
    <2>3. QED BY <2>1, <2>2
  <1>4. CASE Abort
    <2>1. CASE op.pc = "ready" /\ CloseReady
      <3>1. ~state.busy BY <2>1 DEF StageInv
      <3>2. QED BY <1>n, <2>1, <3>1 DEF CloseReady
    <2>2. CASE UNCHANGED <<state, net, req, op, last>> BY <2>2
    <2>3. CASE \E e : FailOpen(e) BY <1>e, <2>3
    <2>4. QED BY <1>4, <2>1, <2>2, <2>3 DEF Abort
  <1>5. QED BY <1>1, <1>2, <1>3, <1>4

\* What the client knows of its attempt survives every step of the operation.
LEMMA OperationAttempt ==
    ASSUME BoundInv, OperationStep PROVE AttemptInv'
  <1> USE DEF BoundInv
  <1>0. TypeOK /\ StageInv /\ client' = client
    BY DEF IInv, OperationStep, cvars
  <1>1. Failing \/ Quiet \/ (Authorized /\ op.pc = "prepare")
    BY <1>0, OperationShape
  <1>2. CASE client.pc = "resolving"
    <2>1. \/ SocketStep \/ RequestStep
          \/ /\ UNCHANGED <<state, op, req, last>>
      BY <1>2 DEF OperationStep, Tick, ovars, history
    <2>2. req'.kind = "challenge" /\ last'.n = 0
      BY <1>0, <1>2, <2>1, BeforeReturned DEF AttemptInv
    <2>3. client.attempt = 1 => MayRetry'
      BY <1>2, <2>1, FailedStill DEF AttemptInv, MayRetry
    <2>4. QED BY <1>0, <1>2, <2>2, <2>3 DEF AttemptInv
  <1>3. CASE client.pc = "opening"
    <2>1. SocketStep \/ RequestStep \/ OpeningStep \/ Abort \/ Tick
      BY <1>3 DEF OperationStep
    <2>2. req'.kind = "challenge" /\ last'.n = 0
      BY <1>0, <1>3, <2>1, BeforeReturned DEF AttemptInv, Tick, history
    <2>3. \/ client.resolved = op'.policy
             /\ (client.answer = NoAnswer \/ op'.pc \in {"ready", "failing", "failed"})
          \/ /\ client.answer # NoAnswer /\ client.resolved = client.answer.pol
             /\ op'.pc \in {"refresh", "failing", "failed"}
      <3>1. CASE Failing
        BY <1>0, <1>3, <3>1, FailingEffects DEF AttemptInv
      <3>2. CASE Quiet BY <1>3, <3>2 DEF AttemptInv, Quiet
      <3>3. CASE Authorized /\ op.pc = "prepare"
        BY <1>0, <1>3, <3>3, AuthorizedEffects DEF AttemptInv, Authorized
      <3>4. QED BY <1>1, <3>1, <3>2, <3>3
    <2>4. QED BY <1>0, <1>3, <2>2, <2>3 DEF AttemptInv
  <1>4. CASE client.pc = "bound"
    <2>1. op'.pc = "ready" /\ client.resolved = op'.policy
      BY <1>0, <1>1, <1>4, FailingEffects DEF AttemptInv, Quiet
    <2>2. QED BY <1>0, <1>4, <2>1 DEF AttemptInv
  <1>5. CASE client.pc \in {"rejected", "done"}
    BY <1>0, <1>5 DEF AttemptInv
  <1>6. QED BY <1>2, <1>3, <1>4, <1>5 DEF BoundTypeOK

LEMMA OperationKeeps == ASSUME BoundInv, OperationStep PROVE BoundInv'
  <1>1. TypeOK /\ StageInv BY DEF BoundInv, IInv
  <1>2. client' = client /\ past' = past BY DEF OperationStep, cvars
  <1>3. CancelInv' /\ (aborted => aborted')
    BY <1>1, OperationShape, CancelKeeps DEF BoundInv
  <1>4. IInv' BY OperationIInv DEF BoundInv
  <1>5. AttemptInv' BY OperationAttempt
  <1>6. QED
    BY <1>2, <1>3, <1>4, <1>5
    DEF BoundInv, BoundTypeOK, AbandonedClean, CancelledTruth

----------------------------------------------------------------------------
(* The client's own steps                                                  *)

\* A fresh operation owes nothing to the one before it.
LEMMA FreshIInv ==
    ASSUME mono' \in Nat, wall' \in Nat, aborted' \in BOOLEAN,
           NEW pol \in Policies, NEW apExpiry \in Expiries,
           state' = NewState, net' = NewNet, req' = NoReq,
           op' = NewOp(pol, apExpiry),
           calls' = 0, connects' = 0, wire' = {}, last' \in Lasts, last'.n = 0
    PROVE  IInv' /\ CancelInv'
  <1> USE DEF NewState, NewNet, NewOp, NoReq, NoErr
  <1>1. op' \in Ops
    BY ErrorTypes, ConstantsAssumption DEF Ops, NoEvidence, NoExpiry
  <1>2. state' \in States BY DEF States
  <1>3. net' \in Nets /\ req' \in Reqs BY ErrorTypes DEF Nets
  <1>4. TypeOK' BY <1>1, <1>2, <1>3 DEF TypeOK
  <1>5. StageInv' BY DEF StageInv, Content
  <1>6. AuthorizedInv' BY DEF AuthorizedInv
  <1>7. WireInv' BY DEF WireInv, Content
  <1>8. SocketInv' BY DEF SocketInv
  <1>9. PaidOnce' /\ PhaseTruth' BY DEF PaidOnce, PhaseTruth
  <1>10. CancelInv' BY DEF CancelInv
  <1>11. QED BY <1>4, <1>5, <1>6, <1>7, <1>8, <1>9, <1>10 DEF IInv

LEMMA ResolveKeeps == ASSUME BoundInv, ResolvePolicy PROVE BoundInv'
  <1> USE DEF BoundInv
  <1>1. PICK pol \in Policies, apExpiry \in Expiries :
           /\ client' = [client EXCEPT !.pc = "opening", !.resolved = pol]
           /\ op' = NewOp(pol, apExpiry)
    BY DEF ResolvePolicy
  <1>2. /\ client.pc = "resolving" /\ client.answer = NoAnswer
        /\ client.attempt = 1 => MayRetry
        /\ last.n = 0
    BY DEF ResolvePolicy, AttemptInv
  <1>3. IInv' /\ CancelInv'
    <2>1. /\ mono' \in Nat /\ wall' \in Nat /\ aborted' \in BOOLEAN
          /\ last' \in Lasts /\ last'.n = 0
      BY <1>2 DEF ResolvePolicy, IInv, TypeOK, clocks
    <2>2. /\ state' = NewState /\ net' = NewNet /\ req' = NoReq /\ calls' = 0
          /\ connects' = 0 /\ wire' = {}
      BY DEF ResolvePolicy
    <2>3. QED BY <1>1, <2>1, <2>2, FreshIInv
  <1>4. BoundTypeOK' BY <1>1, <1>2 DEF BoundTypeOK
  <1>5. AbandonedClean'
    <2>1. CASE client.attempt = 0
      BY <2>1 DEF ResolvePolicy, AbandonedClean
    <2>2. CASE client.attempt = 1
      <3>1. /\ Joined /\ ~state.handshakeComplete /\ wire = {}
        BY <1>2, <2>2 DEF MayRetry, IInv, SocketInv
      <3>2. past' = [net |-> net, handshake |-> state.handshakeComplete,
                     wire |-> wire]
        BY <2>2 DEF ResolvePolicy
      <3>3. QED BY <3>1, <3>2 DEF AbandonedClean, Joined
    <2>3. QED BY <2>1, <2>2 DEF BoundTypeOK
  <1>6. AttemptInv'
    <2>1. /\ client'.pc = "opening" /\ client'.resolved = pol
          /\ client'.answer = NoAnswer
      BY <1>1, <1>2 DEF BoundTypeOK
    <2>2. op'.policy = pol BY <1>1 DEF NewOp
    <2>3. req'.kind = "challenge" /\ last'.n = 0
      BY <1>2 DEF ResolvePolicy, NoReq
    <2>4. QED BY <2>1, <2>2, <2>3 DEF AttemptInv
  <1>7. CancelledTruth'
    BY <1>1 DEF ResolvePolicy, CancelledTruth, BoundTypeOK
  <1>8. QED BY <1>3, <1>4, <1>5, <1>6, <1>7

\* What is not about `client` is kept by a step that changes only it.
LEMMA ClientOnly ==
    ASSUME BoundInv, UNCHANGED <<vars, past>>,
           BoundTypeOK', AttemptInv', CancelledTruth'
    PROVE  BoundInv'
  <1> USE DEF BoundInv
  <1>1. IInv' BY IInvStep
  <1>2. CancelInv' BY DEF CancelInv, vars
  <1>3. AbandonedClean' BY DEF AbandonedClean
  <1>4. QED BY <1>1, <1>2, <1>3

LEMMA RejectKeeps ==
    ASSUME BoundInv, UNCHANGED <<vars, past>>, NEW code \in ClientCodes, Reject(code),
           code = "cancelled" => aborted
    PROVE  BoundInv'
  <1>1. BoundTypeOK' /\ client'.pc = "rejected" /\ client'.err = code
    BY DEF BoundInv, BoundTypeOK, Reject
  <1>2. AttemptInv' BY <1>1 DEF AttemptInv
  <1>3. CancelledTruth' BY <1>1 DEF CancelledTruth, vars
  <1>4. QED BY <1>1, <1>2, <1>3, ClientOnly

LEMMA RefreshKeeps == ASSUME BoundInv, Refresh PROVE BoundInv'
  <1> USE DEF BoundInv
  <1> DEFINE pol == client.answer.pol
             apExpiry == client.answer.apExpiry
  <1>1. /\ RefreshDone(pol, apExpiry) /\ client.pc = "opening"
        /\ client.answer # NoAnswer /\ op.pc = "refresh"
        /\ client' = client /\ past' = past
    BY DEF Refresh, RefreshDone, cvars
  <1>2. pol \in Policies /\ apExpiry \in Expiries
    BY <1>1 DEF BoundTypeOK
  <1>3. PrepareStep BY <1>1, <1>2 DEF PrepareStep
  <1>4. IInv' BY <1>3, IInvStep DEF Next
  <1>5. CancelInv' /\ (aborted => aborted')
    BY <1>3, PrepareShape, CancelKeeps DEF IInv
  <1>6. client.resolved = pol BY <1>1 DEF AttemptInv
  <1>7. op'.pc \in {"ready", "failing"} /\ (op'.pc = "ready" => op'.policy = pol)
        /\ req'.kind = "challenge" /\ last'.n = 0
    <2>0. req.kind = "challenge" /\ last.n = 0 /\ TypeOK
      BY <1>1 DEF AttemptInv, IInv
    <2>1. CASE Authorize(pol, apExpiry)
      BY <1>1, <2>0, <2>1, AuthorizedEffects
    <2>2. ASSUME NEW e, FailOpen(e)
          PROVE  op'.pc = "failing" /\ req'.kind = "challenge" /\ last'.n = 0
      BY <2>0, <2>2 DEF FailOpen, NoReq, TypeOK, Ops
    <2>3. QED BY <1>1, <2>1, <2>2 DEF RefreshDone
  <1>8. AttemptInv' BY <1>1, <1>6, <1>7 DEF AttemptInv
  <1>9. QED
    BY <1>1, <1>4, <1>5, <1>8
    DEF BoundTypeOK, AbandonedClean, CancelledTruth

LEMMA ErrorForCodes ==
    ASSUME NEW code
    PROVE  /\ ErrorFor(code) \in ClientCodes
           /\ ErrorFor(code) = "cancelled" => code = "cancelled"
  BY DEF ErrorFor, ClientCodes

LEMMA FinishKeeps == ASSUME BoundInv, Finish PROVE BoundInv'
  <1> USE DEF BoundInv
  <1>1. /\ client.pc = "bound" /\ client' = [client EXCEPT !.pc = "done"]
        /\ past' = past
    BY DEF Finish
  <1>2. op.pc = "ready" BY <1>1 DEF AttemptInv
  <1>3. BoundTypeOK' /\ client'.pc = "done" /\ client'.err = client.err
    BY <1>1 DEF BoundTypeOK
  <1>4. AttemptInv' BY <1>3 DEF AttemptInv
  <1>5. CASE UNCHANGED vars
    BY <1>1, <1>3, <1>4, <1>5, ClientOnly DEF CancelledTruth, vars
  <1>6. CASE close
    <2>1. IInv' BY <1>6, IInvStep DEF Next, CallerStep
    <2>2. CancelInv' BY <1>6, CallerShape, CancelKeeps DEF IInv
    <2>3. aborted' = aborted BY <1>6 DEF close
    <2>4. QED
      BY <1>1, <1>3, <1>4, <2>1, <2>2, <2>3 DEF AbandonedClean, CancelledTruth
  <1>7. close \/ UNCHANGED vars BY <1>2 DEF Finish, MustClose, close
  <1>8. QED BY <1>5, <1>6, <1>7

LEMMA ClientKeeps == ASSUME BoundInv, ClientStep PROVE BoundInv'
  <1> USE DEF BoundInv
  <1>1. CASE ResolvePolicy BY <1>1, ResolveKeeps
  <1>2. CASE ResolveFails
    BY <1>2, RejectKeeps DEF ResolveFails, ClientCodes
  <1>3. CASE RefreshAnswer
    <2>1. PICK pol \in Policies, apExpiry \in Expiries :
             client' = [client EXCEPT
                          !.resolved = pol,
                          !.answer = [at |-> "given", pol |-> pol,
                                      apExpiry |-> apExpiry]]
      BY <1>3 DEF RefreshAnswer, Refreshed
    <2>2. /\ client.pc = "opening" /\ op.pc = "refresh"
          /\ UNCHANGED <<vars, past>>
      BY <1>3 DEF RefreshAnswer
    <2>3. BoundTypeOK' BY <2>1 DEF BoundTypeOK
    <2>4. /\ client'.pc = "opening" /\ client'.resolved = pol
          /\ client'.answer.pol = pol /\ client'.answer # NoAnswer
          /\ client'.err = client.err
      BY <2>1, <2>2 DEF BoundTypeOK, NoAnswer
    <2>5. AttemptInv' BY <2>2, <2>4 DEF AttemptInv, vars, history
    <2>6. CancelledTruth' BY <2>2, <2>4 DEF CancelledTruth, vars
    <2>7. QED BY <2>2, <2>3, <2>5, <2>6, ClientOnly
  <1>4. CASE Refresh BY <1>4, RefreshKeeps
  <1>5. CASE Opened
    <2>1. /\ client.pc = "opening" /\ op.pc = "ready" /\ UNCHANGED <<vars, past>>
          /\ client' = [client EXCEPT !.pc = "bound"]
      BY <1>5 DEF Opened
    <2>2. BoundTypeOK' /\ client'.pc = "bound" /\ client'.err = client.err
          /\ client'.resolved = client.resolved
      BY <2>1 DEF BoundTypeOK
    <2>3. client.resolved = op.policy BY <2>1 DEF AttemptInv
    <2>4. AttemptInv' BY <2>1, <2>2, <2>3 DEF AttemptInv, vars
    <2>5. CancelledTruth' BY <2>1, <2>2 DEF CancelledTruth, vars
    <2>6. QED BY <2>1, <2>2, <2>4, <2>5, ClientOnly
  <1>6. CASE OpenFailed
    <2>1. UNCHANGED <<vars, past>> /\ client.pc = "opening"
      BY <1>6 DEF OpenFailed
    <2>2. CASE Reject(ErrorFor(op.err.code))
      BY <2>1, <2>2, ErrorForCodes, RejectKeeps DEF CancelInv
    <2>3. CASE /\ Retries
               /\ client' = [client EXCEPT !.pc = "resolving", !.attempt = 1,
                                           !.answer = NoAnswer]
      <3>0. client' = [client EXCEPT !.pc = "resolving", !.attempt = 1,
                                     !.answer = NoAnswer]
        BY <2>3
      <3>1. BoundTypeOK' /\ client'.pc = "resolving" /\ client'.err = client.err
            /\ client'.answer = NoAnswer
        <4>1. /\ client'.pc = "resolving" /\ client'.attempt = 1
              /\ client'.answer = NoAnswer /\ client'.err = client.err
          BY <3>0 DEF BoundTypeOK
        <4>2. 1 \in 0..1 OBVIOUS
        <4>3. BoundTypeOK' BY <3>0, <4>2, Zenon DEF BoundTypeOK
        <4>4. QED BY <4>1, <4>3
      <3>2. MayRetry' BY <2>1, <2>3 DEF Retries, MayRetry, vars
      <3>3. req'.kind = "challenge" /\ last'.n = 0
        BY <2>1 DEF AttemptInv, vars, history
      <3>4. AttemptInv' BY <3>1, <3>2, <3>3 DEF AttemptInv
      <3>5. CancelledTruth' BY <2>1, <3>1 DEF CancelledTruth, vars
      <3>6. QED BY <2>1, <3>1, <3>4, <3>5, ClientOnly
    <2>4. QED BY <1>6, <2>2, <2>3 DEF OpenFailed
  <1>7. CASE Finish BY <1>7, FinishKeeps
  <1>8. QED
    BY <1>1, <1>2, <1>3, <1>4, <1>5, <1>6, <1>7 DEF ClientStep

----------------------------------------------------------------------------
(* The theorems                                                            *)

LEMMA BoundInitInv == BoundInit => BoundInv
  <1> SUFFICES ASSUME BoundInit PROVE BoundInv OBVIOUS
  <1>1. PICK pol \in Policies, apExpiry \in Expiries : op = NewOp(pol, apExpiry)
    BY DEF BoundInit, Init
  <1>2. last \in Lasts /\ last.n = 0 BY DEF BoundInit, Init, Lasts, Phases
  <1>3. IInv BY InitType, InitRest DEF BoundInit, IInv, Rest
  <1>0. CancelInv
    BY DEF BoundInit, Init, CancelInv, NewState, NewOp, NoReq, NoErr
  <1>4. BoundTypeOK /\ AttemptInv /\ CancelledTruth
    BY <1>1, <1>2
    DEF BoundInit, Init, BoundTypeOK, ClientCodes, AttemptInv, CancelledTruth,
      NewOp, NoReq
  <1>5. AbandonedClean BY DEF BoundInit, AbandonedClean, NoPast, NewNet
  <1>6. QED BY <1>0, <1>3, <1>4, <1>5 DEF BoundInv

LEMMA BoundStep == BoundInv /\ [BoundNext]_bvars => BoundInv'
  <1>1. ASSUME BoundInv, UNCHANGED bvars PROVE BoundInv'
    <2>1. UNCHANGED <<vars, past>> /\ client' = client
      BY <1>1 DEF bvars, cvars
    <2>2. BoundTypeOK' BY <1>1, <2>1 DEF BoundInv, BoundTypeOK
    <2>3. AttemptInv'
      BY <1>1, <2>1 DEF BoundInv, AttemptInv, MayRetry, vars, history
    <2>4. CancelledTruth'
      BY <1>1, <2>1 DEF BoundInv, CancelledTruth, vars
    <2>5. QED BY <1>1, <2>1, <2>2, <2>3, <2>4, ClientOnly
  <1>2. QED BY <1>1, ClientKeeps, OperationKeeps DEF BoundNext

\* The inductive invariant of a bound call: the operation's own, what it says of
\* cancellation, and what openBoundOperation knows of its attempts.
THEOREM BoundInductive == BoundSpec => []BoundInv
  BY BoundInitInv, BoundStep, PTL DEF BoundSpec

\* An attempt that is tried again had let go of everything and written nothing
\* (openBoundOperation's loop over consumeInitialConnectionRefusal).
THEOREM AlwaysAbandonedClean == BoundSpec => []AbandonedClean
  <1>1. BoundInv => AbandonedClean BY DEF BoundInv
  <1>2. QED BY <1>1, BoundInductive, PTL

\* The provenance returned is that of the policy that verified the connection,
\* also after a refresh (the variable `resolved`).
THEOREM AlwaysProvenanceTrue == BoundSpec => []ProvenanceTrue
  <1>1. BoundInv => ProvenanceTrue BY DEF BoundInv, AttemptInv, ProvenanceTrue
  <1>2. QED BY <1>1, BoundInductive, PTL

\* "cancelled" reaches only a caller that cancelled (the mapping of the
\* operation's codes to the client's).
THEOREM AlwaysCancelledTruth == BoundSpec => []CancelledTruth
  <1>1. BoundInv => CancelledTruth BY DEF BoundInv
  <1>2. QED BY <1>1, BoundInductive, PTL

\* What the retained operation promises holds of both attempts of a bound call:
\* content only on the attested socket, one paid request, a truthful dispatch
\* phase and one connection each.
THEOREM BoundKeepsOperation ==
    BoundSpec => [](ContentAttested /\ PaidOnce /\ PhaseTruth /\ SoleSocket)
  <1>1. BoundInv => ContentAttested /\ PaidOnce /\ PhaseTruth /\ SoleSocket
    BY DEF BoundInv, IInv, AuthorizedInv, WireInv, SocketInv, ContentAttested,
      SoleSocket
  <1>2. QED BY <1>1, BoundInductive, PTL
=============================================================================
