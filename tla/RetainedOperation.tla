------------------------- MODULE RetainedOperation -------------------------
(***************************************************************************)
(* One retained gateway operation (gateway/retained-operation-node.ts):    *)
(* the one TLS socket it may ever own, the nonce-bound attestation         *)
(* challenge fetched over that socket, the verdict that authorizes it, the *)
(* HTTP exchanges it then carries, and every way it ends.                  *)
(*                                                                         *)
(* JavaScript runs one callback at a time, so one action is one callback   *)
(* (a socket or request event, a timer, a caller's call, an awaited value) *)
(* with everything it does before it returns.  What an await lets in       *)
(* between is the interleaving of actions.                                 *)
(***************************************************************************)
EXTENDS Naturals

CONSTANTS
    Pins,          \* SPKI hashes a peer certificate can have
    Policies,      \* measurement policies
    MaxAge,        \* policy -> maxEvidenceAgeMs
    Evidences,     \* evidence documents the gateway may answer with
    Expiries,      \* approval expiries the policy source hands out
    HasRefresh,    \* options.refreshPolicy was given
    Deadline,      \* preparationDeadline, on the monotonic clock
    MaxTime,       \* bound: the last reading of either clock
    MaxCalls       \* bound: calls of the returned operation's fetch

NoExpiry == 0      \* an expiry that was never set (Infinity in the code)

ASSUME ConstantsAssumption ==
    /\ MaxAge \in [Policies -> Nat \ {0}]
    /\ Evidences \subseteq [chain : BOOLEAN, spki : Pins,
                            approves : SUBSET Policies, issued : Nat]
    /\ Expiries \subseteq Nat
    /\ HasRefresh \in BOOLEAN
    /\ Deadline \in Nat /\ MaxTime \in Nat /\ MaxCalls \in Nat

VARIABLES
    mono, wall,    \* performance.now() and Date.now()
    aborted,       \* options.signal
    state,         \* the State record, with paidAttempted
    net,           \* the socket, its DNS lookup, the agent's pool, and the
                   \* challenge request's 'close' event
    req,           \* the exchange in flight
    op,            \* openRetainedGatewayOperation: where it is, what it holds
    calls,         \* calls of fetch so far
    connects,      \* history: connections made
    wire,          \* history: requests written, with the clocks' readings
    last           \* history: the outcome of the last call that settled

clocks  == <<mono, wall>>
history == <<connects, wire, last>>
vars    == <<clocks, aborted, state, net, req, op, calls, history>>

\* The paths an authorized operation may dispatch: /v1/tee/attestation and the
\* paid content paths.
Content == {"tee", "paid"}
Codes   == {"configuration", "tls_certificate", "untrusted", "connection_lost",
            "cancelled", "expired", "timeout", "transport", "redirect", "busy"}

NoErr == [code |-> "none", phase |-> "before_http", cap |-> FALSE]
Error(code, phase) == [code |-> code, phase |-> phase, cap |-> FALSE]
Early(code) == Error(code, "before_http")
Late(code)  == Error(code, "may_have_dispatched")

\* No exchange; also the challenge's number.  A request waits for the socket
\* ("connecting", "queued"), was handed it ("assigned"), is "written", has its
\* "body" read, or was "refused" by the agent with err.
NoReq == [n |-> 0, kind |-> "challenge", at |-> "none", dispatched |-> FALSE,
          err |-> NoErr]
NoEvidence == [chain |-> FALSE, approves |-> {}, issued |-> 0]

----------------------------------------------------------------------------
(* guard, the verdict, and the endings shared by the handlers              *)

Passed(t, expiry) == expiry # NoExpiry /\ t >= expiry

SockGone == net.sock \in {"destroyed", "closed"}

\* The code guard() throws at clock readings m and w, "ok" when it returns.
GuardAt(m, w, evExpiry, apExpiry) ==
    IF state.closed \/ aborted THEN "cancelled"
    ELSE IF state.refusal # "none" THEN state.refusal
    ELSE IF state.lost \/ SockGone THEN "connection_lost"
    ELSE IF m >= Deadline \/ Passed(w, evExpiry) \/ Passed(w, apExpiry)
         THEN "expired" ELSE "ok"

guard == GuardAt(mono, wall, op.evidenceExpiry, op.approvalExpiry)

\* Mutant: the bound SPKI is not compared with the socket's.
AcceptsAnyKey(ev, pol, pin) == ev.chain /\ pol \in ev.approves

\* verifyGatewayAttestation on the same evidence, nonce and observed SPKI,
\* accepted only when the bound SPKI is the one this socket showed.
Accepts(ev, pol, pin) == ev.chain /\ ev.spki = pin /\ pol \in ev.approves

\* The quote chain holds and a pinned measurement does not: the gateway moved.
Moved(ev, pol) == ev.chain /\ pol \notin ev.approves

\* Mutant: super.destroy() alone: the agent does not own a socket before its
\* handshake is over.
DestroyedOwned == [net EXCEPT !.pool = "none", !.sock =
                      IF @ = "secure" THEN "destroyed" ELSE @]

\* agent.destroy(): the socket's 'close' event comes later.
Destroyed == [net EXCEPT !.pool = "none", !.sock =
                 IF @ \in {"connecting", "secure"} THEN "destroyed" ELSE @]

\* Preparation's catch: close(), which cancels an exchange still in flight and
\* destroys the socket; the error is rethrown once joinClosed has resolved.
FailOpen(error) ==
    /\ op' = [op EXCEPT !.pc = "failing", !.err = error]
    /\ state' = [state EXCEPT !.closed = TRUE, !.busy = FALSE,
                              !.lost = @ \/ state.busy]
    /\ req' = NoReq
    /\ net' = Destroyed
    /\ UNCHANGED last

\* exchange's terminate(error): the call rejects, the operation is lost and its
\* socket destroyed.  A challenge that ends this way is the value preparation
\* awaits, so preparation fails with the same error.  (When the body of a
\* response already returned breaks off, its reader is shown Node's error; the
\* code kept here is that of the ending.)
terminate(error) ==
    \/ req.kind = "challenge" /\ FailOpen(error)
    \/ /\ req.kind \in Content
       /\ last' = [n |-> req.n, code |-> error.code, phase |-> error.phase]
       /\ state' = [state EXCEPT !.lost = TRUE, !.busy = FALSE]
       /\ req' = NoReq
       /\ net' = Destroyed
       /\ UNCHANGED op

\* close() of a returned operation: a live exchange is told that it may have
\* been dispatched.
CloseReady ==
    /\ state' = [state EXCEPT !.closed = TRUE, !.busy = FALSE,
                              !.lost = @ \/ state.busy]
    /\ last' = IF state.busy
               THEN [n |-> req.n, code |-> "cancelled",
                     phase |-> "may_have_dispatched"]
               ELSE last
    /\ req' = NoReq
    /\ net' = Destroyed
    /\ UNCHANGED op

\* What an ending leaves alone.
endFrame == <<clocks, calls, connects, wire>>

----------------------------------------------------------------------------
(* The clocks, the caller's signal, close                                  *)

\* performance.now() and Date.now() advance independently.
Advance == \/ mono < MaxTime /\ mono' = mono + 1 /\ UNCHANGED wall
           \/ wall < MaxTime /\ wall' = wall + 1 /\ UNCHANGED mono

Tick == Advance /\ UNCHANGED <<aborted, state, net, req, op, calls, history>>

\* The caller aborts the operation's signal: the listener runs close(), and
\* whatever preparation awaits rejects with "cancelled".
Abort ==
    /\ ~aborted
    /\ aborted' = TRUE
    /\ \/ op.pc \in {"challenge", "body"} /\ FailOpen(Late("cancelled"))
       \/ op.pc \in {"prepare", "refresh"} /\ FailOpen(Early("cancelled"))
       \/ op.pc = "ready" /\ ~state.closed /\ CloseReady
       \/ /\ op.pc = "init" \/ state.closed
          /\ UNCHANGED <<state, net, req, op, last>>
    /\ UNCHANGED endFrame

\* The returned operation's close().
close == /\ op.pc = "ready" /\ ~state.closed
         /\ CloseReady
         /\ UNCHANGED <<endFrame, aborted>>

----------------------------------------------------------------------------
(* The sole socket                                                         *)

\* openRetainedGatewayOperation up to its first await: guard, then the
\* challenge exchange, whose request makes the agent call createConnection.
\* A host name starts a DNS lookup; an IP literal does not.
Open ==
    /\ op.pc = "init"
    /\ \/ /\ guard # "ok"
          /\ FailOpen(Early(guard))
          /\ UNCHANGED <<endFrame, aborted>>
       \/ /\ guard = "ok"
          /\ op' = [op EXCEPT !.pc = "challenge"]
          /\ state' = [state EXCEPT !.busy = TRUE, !.opened = TRUE]
          /\ req' = [NoReq EXCEPT !.at = "connecting"]
          /\ \E lookup \in {"none", "pending"} :
                net' = [net EXCEPT !.sock = "connecting", !.lookup = lookup,
                                   !.challenge = "open"]
          /\ connects' = connects + 1
          /\ UNCHANGED <<clocks, aborted, calls, wire, last>>

\* The OS answers the DNS lookup, which nothing can interrupt.
LookupDone ==
    /\ net.lookup = "pending"
    /\ net' = [net EXCEPT !.lookup = "done"]
    /\ UNCHANGED <<clocks, aborted, state, req, op, calls, history>>

\* createConnection's finish(error): the socket ends, the request will see the
\* error, and only a failure that may be retried, before any handshake or byte,
\* mints the capability.
RefuseConnection(code, mayRetry, sock) ==
    /\ req' = [req EXCEPT !.at = "refused", !.err =
                 [code |-> code, phase |-> "before_http",
                  cap |-> mayRetry /\ ~state'.handshakeComplete
                                   /\ ~state'.httpWritten]]
    /\ net' = [net EXCEPT !.sock = sock]
    /\ UNCHANGED <<clocks, aborted, op, calls, history>>

\* 'secureConnect': the certificate is checked again, its SPKI observed, guard
\* run, and only then is the socket handed to the request.
SecureConnect ==
    /\ net.sock = "connecting" /\ net.lookup # "pending"
    /\ \/ /\ state' = [state EXCEPT !.handshakeComplete = TRUE, !.lost = TRUE]
          /\ RefuseConnection("tls_certificate", FALSE, "destroyed")
       \/ \E pin \in Pins :
          /\ guard # "ok"
          /\ state' = [state EXCEPT !.handshakeComplete = TRUE, !.lost = TRUE,
                                    !.observedPin = pin]
          /\ RefuseConnection(guard, FALSE, "destroyed")
       \/ \E pin \in Pins :
          /\ guard = "ok"
          /\ state' = [state EXCEPT !.handshakeComplete = TRUE,
                                    !.observedPin = pin]
          /\ net' = [net EXCEPT !.sock = "secure", !.pool = "active"]
          /\ req' = [req EXCEPT !.at = "assigned"]
          /\ UNCHANGED <<clocks, aborted, op, calls, history>>

\* The 10-second connection timer, or a socket 'error' during the handshake: a
\* reset, like the timeout, may grant one fresh preparation.
ConnectionFails ==
    /\ net.sock = "connecting"
    /\ state' = [state EXCEPT !.lost = TRUE]
    /\ \/ RefuseConnection("timeout", TRUE, "destroyed")
       \/ \E reset \in BOOLEAN :
             RefuseConnection("tls_certificate", reset, "destroyed")

\* The socket's 'close' event: after destroy(), or because the peer closed.
SocketClose ==
    /\ state' = [state EXCEPT !.lost = TRUE]
    /\ \/ /\ net.sock = "connecting" /\ net.lookup # "pending"
          /\ RefuseConnection("connection_lost", FALSE, "closed")
       \/ /\ net.sock \in {"secure", "destroyed"}
          /\ net' = [net EXCEPT !.sock = "closed", !.pool = "none"]
          /\ UNCHANGED <<clocks, aborted, req, op, calls, history>>

\* The agent gets the socket back after a response was read to its end: a
\* request that waited for it is served at once, without reuseSocket.
FreeSocket ==
    /\ net.sock = "secure" /\ net.pool = "active"
    /\ \/ /\ ~state.busy
          /\ net' = [net EXCEPT !.pool = "free"]
          /\ UNCHANGED req
       \/ /\ req.at = "queued"
          /\ req' = [req EXCEPT !.at = "assigned"]
          /\ UNCHANGED net
    /\ UNCHANGED <<clocks, aborted, state, op, calls, history>>

\* Mutant: an agent that replaces a lost connection.
ConnectRefusedNever == FALSE

\* createConnection's refusals.
ConnectRefused == state.opened \/ state.closed \/ state.lost \/ guard # "ok"

\* The pool lost its socket while a request waited: the agent calls
\* createConnection again.
QueuedReconnect ==
    /\ req.at = "queued" /\ net.pool = "none"
    /\ connects' = connects + (IF ConnectRefused THEN 0 ELSE 1)
    /\ terminate(Early("connection_lost"))
    /\ UNCHANGED <<clocks, aborted, calls, wire>>

----------------------------------------------------------------------------
(* An exchange                                                             *)

\* Mutant: a paid call is not remembered.
SpendsNothing(kind) == FALSE

\* A paid call is spent before anything is dispatched.
Spends(kind) == kind = "paid"

\* exchange's checks, in the order that decides the code it throws; "other" is
\* any target or method outside the content paths.
Refusal(kind) ==
    IF guard # "ok" THEN guard
    ELSE IF state.busy THEN "busy"
    ELSE IF ~state.authorized THEN "untrusted"
    ELSE IF kind = "other" \/ (kind = "paid" /\ state.paidAttempted)
         THEN "configuration" ELSE "ok"

\* A call of the returned fetch.
Call == op.pc = "ready" /\ calls < MaxCalls /\ calls' = calls + 1

\* The returned fetch, up to the request's hand-over to the agent: a free
\* socket is assigned through reuseSocket, a busy one makes the request wait.
Fetch(kind) ==
    /\ Call
    /\ Refusal(kind) = "ok"
    /\ state' = [state EXCEPT !.busy = TRUE,
                              !.paidAttempted = @ \/ Spends(kind)]
    /\ req' = [NoReq EXCEPT !.n = calls + 1, !.kind = kind, !.at =
                 IF net.pool = "free" THEN "assigned" ELSE "queued"]
    /\ net' = [net EXCEPT !.pool = "active"]
    /\ UNCHANGED <<clocks, aborted, op, history>>

\* A call that exchange refuses before it creates a request.
FetchRefused(kind) ==
    /\ Call
    /\ Refusal(kind) # "ok"
    /\ last' = [n |-> calls + 1, code |-> Refusal(kind),
                phase |-> "before_http"]
    /\ UNCHANGED <<clocks, aborted, state, net, req, op, connects, wire>>

\* A deadline passes between exchange's first guard and the ones that follow in
\* the same call: reuseSocket's (which leaves a standing refusal behind) or the
\* one before req.end().
FetchExpires(kind) ==
    /\ Call
    /\ Refusal(kind) = "ok"
    /\ Advance
    /\ GuardAt(mono', wall', op.evidenceExpiry, op.approvalExpiry) = "expired"
    /\ state' = [state EXCEPT !.lost = TRUE,
                    !.paidAttempted = @ \/ Spends(kind),
                    !.refusal = IF net.pool = "free" THEN "expired" ELSE @]
    /\ last' = [n |-> calls + 1, code |-> "expired", phase |-> "before_http"]
    /\ net' = Destroyed
    /\ UNCHANGED <<aborted, req, op, connects, wire>>

\* Mutant: the checks made when the call was accepted are trusted.
HandoverUnguarded == "ok"

\* The guard of the request's 'socket' event.
Handover == guard

\* The request's 'socket' event: the last guard before the bytes are flushed.
SocketEvent ==
    /\ req.at = "assigned"
    /\ \/ /\ Handover # "ok"
          /\ terminate(Early(Handover))
          /\ UNCHANGED <<endFrame, aborted>>
       \/ /\ Handover = "ok"
          /\ req' = [req EXCEPT !.at = "written", !.dispatched = TRUE]
          /\ state' = [state EXCEPT !.httpWritten = TRUE]
          /\ wire' = wire \cup {[n |-> req.n, kind |-> req.kind,
                                 mono |-> mono, wall |-> wall]}
          /\ UNCHANGED <<clocks, aborted, net, op, calls, connects, last>>

\* Mutant: dispatch is noticed only when a response arrives.
ReqPhaseLate == IF req.at = "body" THEN "may_have_dispatched" ELSE "before_http"

\* The dispatch phase an exchange reports for itself.
ReqPhase == IF req.dispatched THEN "may_have_dispatched" ELSE "before_http"

\* The request's 'error' event: the agent refused it, or the socket failed
\* under it.
RequestError ==
    /\ \/ req.at = "refused" /\ terminate(req.err)
       \/ req.at = "written" /\ terminate(Error("transport", ReqPhase))
    /\ UNCHANGED <<endFrame, aborted>>

\* A response head that ends the exchange: a redirect or an encoding, a head no
\* Response accepts, "Connection: close" unless the call is paid, a challenge
\* that is not ok.
ResponseRefused ==
    /\ req.at = "written" /\ net.sock = "secure"
    /\ \/ \E code \in {"redirect", "transport"} : terminate(Late(code))
       \/ req.kind # "paid" /\ terminate(Late("connection_lost"))
       \/ req.kind = "challenge" /\ FailOpen(Early("untrusted"))
    /\ UNCHANGED <<endFrame, aborted>>

\* A response head that is accepted.  "Connection: close" on a paid response
\* forbids any later use of the socket; its body is still read.
Response ==
    /\ req.at = "written" /\ net.sock = "secure"
    /\ req' = [req EXCEPT !.at = "body"]
    /\ \E drained \in BOOLEAN :
         /\ drained => req.kind = "paid"
         /\ state' = [state EXCEPT !.lost = @ \/ drained]
    /\ op' = [op EXCEPT !.pc = IF req.kind = "challenge" THEN "body" ELSE @]
    /\ UNCHANGED <<clocks, aborted, net, calls, history>>

\* A content response was read to its end: finish() releases the operation, and
\* Node tears a connection marked for closing down.
BodyEnd ==
    /\ req.at = "body" /\ req.kind \in Content
    /\ last' = [n |-> req.n, code |-> "ok", phase |-> "may_have_dispatched"]
    /\ state' = [state EXCEPT !.busy = FALSE]
    /\ req' = NoReq
    /\ net' = IF state.lost THEN Destroyed ELSE net
    /\ UNCHANGED <<clocks, aborted, op, calls, connects, wire>>

\* The body fails or its reader cancels it; preparation cancels a challenge body
\* over 2 MiB and refuses it.
BodyFails ==
    /\ req.at = "body"
    /\ \/ terminate(Late("transport"))
       \/ req.kind \in Content /\ terminate(Late("cancelled"))
       \/ req.kind = "challenge" /\ FailOpen(Early("untrusted"))
    /\ UNCHANGED <<endFrame, aborted>>

\* Mutant: the timer is cleared by the response head.
TimerArmedToHead == state.busy /\ req.at # "body"

\* The timer is armed until finish().
TimerArmed == state.busy

\* The exchange's timer fires: 30 seconds or what is left of preparation, the
\* request timeout for a paid call.
ExchangeTimeout == /\ TimerArmed
                   /\ terminate(Error("timeout", ReqPhase))
                   /\ UNCHANGED <<endFrame, aborted>>

\* The signal passed to this one call aborts.
CallAbort == /\ state.busy /\ req.kind \in Content
             /\ terminate(Error("cancelled", ReqPhase))
             /\ UNCHANGED <<endFrame, aborted>>

----------------------------------------------------------------------------
(* Preparation after the challenge                                         *)

\* The challenge body was read to its end: it does not parse, or guard throws,
\* or the chain verifier starts (one that needs no preparation answers at once).
ChallengeEnd ==
    /\ req.at = "body" /\ req.kind = "challenge"
    /\ \/ /\ \/ FailOpen(Early("untrusted"))
             \/ guard # "ok" /\ FailOpen(Early(guard))
          /\ UNCHANGED <<endFrame, aborted>>
       \/ /\ guard = "ok"
          /\ \E ev \in Evidences :
                op' = [op EXCEPT !.pc = "prepare", !.evidence = ev]
          /\ state' = [state EXCEPT !.busy = FALSE]
          /\ req' = NoReq
          /\ UNCHANGED <<clocks, aborted, net, calls, history>>

\* boundedPreparation ends in its own timeout or in the callback's refusal.
PrepareFails ==
    /\ op.pc \in {"prepare", "refresh"}
    /\ \E code \in {"timeout", "untrusted"} : FailOpen(Early(code))
    /\ UNCHANGED <<endFrame, aborted>>

\* The evidence was accepted under policy pol: its own expiry now counts, the
\* operation is authorized, and guard runs once more before it is returned.
Authorize(pol, apExpiry) ==
    LET evExpiry == op.evidence.issued + MaxAge[pol]
        verdict  == GuardAt(mono, wall, evExpiry, apExpiry)
        held     == [op EXCEPT !.policy = pol, !.approvalExpiry = apExpiry,
                               !.evidenceExpiry = evExpiry]
    IN /\ \/ /\ verdict = "ok"
             /\ op' = [held EXCEPT !.pc = "ready"]
             /\ state' = [state EXCEPT !.authorized = TRUE]
             /\ UNCHANGED net
          \/ /\ verdict # "ok"
             /\ op' = [held EXCEPT !.pc = "failing", !.err = Early(verdict)]
             /\ state' = [state EXCEPT !.authorized = TRUE, !.closed = TRUE]
             /\ net' = Destroyed
       /\ UNCHANGED <<clocks, aborted, req, calls, history>>

\* The chain verifier is ready: guard, then the verdict.  A gateway that moved
\* starts one policy refresh; any other refusal is final.
PrepareDone ==
    /\ op.pc = "prepare"
    /\ LET accepted == Accepts(op.evidence, op.policy, state.observedPin)
           moved    == Moved(op.evidence, op.policy) /\ HasRefresh
       IN \/ /\ guard = "ok" /\ accepted
             /\ Authorize(op.policy, op.approvalExpiry)
          \/ /\ guard = "ok" /\ moved
             /\ op' = [op EXCEPT !.pc = "refresh"]
             /\ UNCHANGED <<clocks, aborted, state, net, req, calls, history>>
          \/ /\ \/ guard # "ok" /\ FailOpen(Early(guard))
                \/ /\ guard = "ok" /\ ~accepted /\ ~moved
                   /\ FailOpen(Early("untrusted"))
             /\ UNCHANGED <<endFrame, aborted>>

\* The refreshed policy arrives.  It may not drop the expiry of a bounded
\* approval; guard runs under the new expiry, and the same evidence is verified
\* again.
RefreshDone(pol, apExpiry) ==
    LET dropped  == apExpiry = NoExpiry /\ op.approvalExpiry # NoExpiry
        verdict  == GuardAt(mono, wall, op.evidenceExpiry, apExpiry)
        accepted == Accepts(op.evidence, pol, state.observedPin)
    IN /\ op.pc = "refresh"
       /\ \/ /\ ~dropped /\ verdict = "ok" /\ accepted
             /\ Authorize(pol, apExpiry)
          \/ /\ \/ dropped /\ FailOpen(Early("configuration"))
                \/ ~dropped /\ verdict # "ok" /\ FailOpen(Early(verdict))
                \/ /\ ~dropped /\ verdict = "ok" /\ ~accepted
                   /\ FailOpen(Early("untrusted"))
             /\ UNCHANGED <<endFrame, aborted>>

\* The challenge's exchange has ended.
ChallengeOver == ~state.busy \/ req.kind \in Content

\* The challenge request's 'close' event.
RequestClosed ==
    /\ net.challenge = "open" /\ ChallengeOver
    /\ net' = [net EXCEPT !.challenge = "closed"]
    /\ UNCHANGED <<clocks, aborted, state, req, op, calls, history>>

\* Mutant: the DNS callback is not waited for.
JoinedWithoutDns == net.sock \in {"none", "closed"} /\ net.challenge # "open"

\* The socket's and the request's 'close' events and the DNS callback have all
\* been seen.
Joined == /\ net.sock \in {"none", "closed"}
          /\ net.lookup # "pending"
          /\ net.challenge # "open"

\* joinClosed resolves and the open rejects.
JoinClosed ==
    /\ op.pc = "failing" /\ Joined
    /\ op' = [op EXCEPT !.pc = "failed"]
    /\ state' = [state EXCEPT !.closedJoined = TRUE]
    /\ UNCHANGED <<clocks, aborted, net, req, calls, history>>

\* consumeInitialConnectionRefusal(error): only the error minted by the initial
\* socket failure of a joined operation that never shook hands grants a retry.
MayRetry == /\ op.pc = "failed" /\ op.err.cap
            /\ state.closedJoined
            /\ ~state.handshakeComplete /\ ~state.httpWritten

----------------------------------------------------------------------------
(* The specification                                                       *)

NewState == [opened |-> FALSE, authorized |-> FALSE, closed |-> FALSE,
             lost |-> FALSE, busy |-> FALSE, refusal |-> "none",
             handshakeComplete |-> FALSE, httpWritten |-> FALSE,
             closedJoined |-> FALSE, observedPin |-> "none",
             paidAttempted |-> FALSE]
NewNet == [sock |-> "none", lookup |-> "none", pool |-> "none",
           challenge |-> "none"]
NewOp(pol, apExpiry) ==
    [pc |-> "init", policy |-> pol, evidence |-> NoEvidence,
     approvalExpiry |-> apExpiry, evidenceExpiry |-> NoExpiry, err |-> NoErr]

\* The caller's signal may already be aborted.
Init == /\ mono = 0 /\ wall = 0 /\ aborted \in BOOLEAN
        /\ state = NewState /\ net = NewNet /\ req = NoReq
        /\ \E pol \in Policies, apExpiry \in Expiries :
              op = NewOp(pol, apExpiry)
        /\ calls = 0 /\ connects = 0 /\ wire = {}
        /\ last = [n |-> 0, code |-> "none", phase |-> "before_http"]

SocketStep  == \/ LookupDone \/ SecureConnect \/ ConnectionFails
               \/ SocketClose \/ FreeSocket \/ QueuedReconnect
RequestStep == \/ SocketEvent \/ RequestError \/ ResponseRefused \/ Response
               \/ BodyEnd \/ BodyFails \/ ExchangeTimeout \/ RequestClosed
PrepareStep == \/ Open \/ ChallengeEnd \/ PrepareFails \/ PrepareDone
               \/ \E pol \in Policies, apExpiry \in Expiries :
                     RefreshDone(pol, apExpiry)
               \/ JoinClosed
CallerStep  == \/ Abort \/ close \/ CallAbort
               \/ \E kind \in Content : Fetch(kind) \/ FetchExpires(kind)
               \/ \E kind \in Content \cup {"other"} : FetchRefused(kind)

Next == SocketStep \/ RequestStep \/ PrepareStep \/ CallerStep \/ Tick

Spec == Init /\ [][Next]_vars

----------------------------------------------------------------------------
(* Properties                                                              *)

Phases == {"before_http", "may_have_dispatched"}
Kinds  == {"challenge"} \cup Content
Errors == [code : Codes \cup {"none"}, phase : Phases, cap : BOOLEAN]
States == [opened : BOOLEAN, authorized : BOOLEAN, closed : BOOLEAN,
           lost : BOOLEAN, busy : BOOLEAN, refusal : {"none", "expired"},
           handshakeComplete : BOOLEAN, httpWritten : BOOLEAN,
           closedJoined : BOOLEAN, observedPin : Pins \cup {"none"},
           paidAttempted : BOOLEAN]
Nets   == [sock : {"none", "connecting", "secure", "destroyed", "closed"},
           lookup : {"none", "pending", "done"},
           pool : {"none", "active", "free"},
           challenge : {"none", "open", "closed"}]
Reqs   == [n : Nat, kind : Kinds, dispatched : BOOLEAN, err : Errors,
           at : {"none", "connecting", "queued", "assigned", "written", "body",
                 "refused"}]
Ops    == [pc : {"init", "challenge", "body", "prepare", "refresh", "ready",
                 "failing", "failed"},
           policy : Policies, evidence : Evidences \cup {NoEvidence},
           approvalExpiry : Nat, evidenceExpiry : Nat, err : Errors]
Writes == [n : Nat, kind : Kinds, mono : Nat, wall : Nat]
Lasts  == [n : Nat, code : Codes \cup {"none", "ok"}, phase : Phases]

\* The values the operation's records range over (State and the closure's
\* variables in retained-operation-node.ts).
TypeOK ==
    /\ mono \in Nat /\ wall \in Nat /\ aborted \in BOOLEAN
    /\ state \in States /\ net \in Nets /\ req \in Reqs /\ op \in Ops
    /\ calls \in Nat /\ connects \in Nat
    /\ wire \subseteq Writes /\ last \in Lasts

\* However the peer, the agent's pool and the callers interleave, one operation
\* makes at most one connection: createConnection after a lost socket never
\* opens a second.
SoleSocket == connects <= 1

\* Every content request on the wire went out on a socket whose observed SPKI is
\* the one the accepted evidence binds, under a policy that approves it, before
\* the preparation deadline, the evidence's expiry and the approval's (guard at
\* the last moment before the bytes are flushed).
ContentAttested ==
    \A w \in wire : w.kind \in Content =>
        /\ op.evidence.chain
        /\ op.evidence.spki = state.observedPin
        /\ op.policy \in op.evidence.approves
        /\ w.mono < Deadline
        /\ ~Passed(w.wall, op.evidence.issued + MaxAge[op.policy])
        /\ ~Passed(w.wall, op.approvalExpiry)

\* At most one paid request is ever written, whatever failed, timed out or was
\* cancelled before or after it (paidAttempted).
PaidOnce == \A v, w \in wire : v.kind = "paid" /\ w.kind = "paid" => v = w

\* A call that reports dispatchPhase "before_http" put nothing on the wire: its
\* caller may conclude that no content left the process.
PhaseTruth ==
    last.code # "none" /\ last.phase = "before_http"
        => \A w \in wire : w.kind \in Content => w.n # last.n

\* When consumeInitialConnectionRefusal grants a retry, the failed operation
\* left nothing behind: no handshake, no byte written, its socket closed, its
\* request and its DNS callback joined.
RetryClean ==
    MayRetry => /\ wire = {} /\ state.observedPin = "none"
                /\ net.sock = "closed" /\ net.lookup # "pending"
                /\ net.challenge = "closed"

\* From the step that closes an operation, at whatever event of its lookup, its
\* handshake, an exchange or a refresh that was, it holds no live socket, and it
\* gets none later (destroy, and the checks of createConnection and secureConnect).
ClosedLetsGo == state.closed => net.sock \notin {"connecting", "secure"}

\* Where the open has come, the socket and the exchange agree: the handshake
\* belongs to the challenge, content to a returned operation.
StageInv ==
    /\ state.busy <=> req.at # "none"
    /\ net.sock = "connecting" => op.pc = "challenge" /\ req.at = "connecting"
    /\ req.at # "none" /\ req.kind = "challenge"
          => op.pc \in {"challenge", "body"}
    /\ req.kind \in Content => op.pc = "ready" /\ req.n <= calls
    /\ req.at \in {"refused", "connecting"} => req.kind = "challenge"
    /\ req.at \in {"connecting", "queued", "assigned"} => ~req.dispatched
    /\ op.pc \in {"prepare", "refresh"} => op.evidence \in Evidences

\* An authorized operation keeps the accepted evidence, the policy that accepted
\* it and the socket's SPKI.
AuthorizedInv ==
    /\ op.pc = "ready" => state.authorized
    /\ state.authorized =>
          /\ op.pc \in {"ready", "failing", "failed"}
          /\ op.evidence \in Evidences
          /\ op.evidence.chain
          /\ op.evidence.spki = state.observedPin
          /\ op.policy \in op.evidence.approves
          /\ op.evidenceExpiry = op.evidence.issued + MaxAge[op.policy]

\* What the wire holds, against the request in flight and the calls so far.
WireInv ==
    /\ \A w \in wire : w.kind \in Content =>
          /\ state.authorized
          /\ w.n <= calls
          /\ w.mono < Deadline
          /\ ~Passed(w.wall, op.evidenceExpiry)
          /\ ~Passed(w.wall, op.approvalExpiry)
          /\ req.kind \in Content /\ ~req.dispatched => w.n # req.n
          /\ w.kind = "paid" => state.paidAttempted
          /\ w.kind = "paid" /\ req.kind = "paid" => req.dispatched
    /\ req.kind = "paid" => state.paidAttempted
    /\ last.n <= calls
    /\ req.kind \in Content => last.n # req.n

\* One connection, and what an operation that never connected cannot have.
SocketInv ==
    /\ connects = IF state.opened THEN 1 ELSE 0
    /\ state.opened <=> net.challenge # "none"
    /\ op.pc = "init" => ~state.opened
    /\ op.pc \notin {"init", "failing", "failed"} => state.opened
    /\ state.opened => net.sock # "none"
    /\ req.err.cap => state.opened
    /\ op.err.cap => state.opened
    /\ ~state.handshakeComplete => state.observedPin = "none"
    /\ ~state.httpWritten => wire = {}
    /\ op.pc = "failed" => Joined

\* The inductive invariant the safety proofs rest on.
IInv == TypeOK /\ StageInv /\ AuthorizedInv /\ WireInv /\ SocketInv
          /\ PaidOnce /\ PhaseTruth

\* Once the operation is closed, cancelled or its socket lost, nothing more is
\* ever written, not even by a request that exchange accepted earlier.
NothingAfterEnd ==
    [][state.closed \/ aborted \/ state.lost => wire' = wire]_vars

\* The operation as its user sees it: it ends when it is closed, cancelled or
\* lost, and is attested from the moment it is returned until then.
ChannelPhase == IF state.closed \/ aborted \/ state.lost THEN "ended"
                ELSE IF op.pc = "ready" THEN "attested" ELSE "unverified"
ChannelSent  == {<<w.n, w.kind>> : w \in {v \in wire : v.kind \in Content}}

Channel == INSTANCE AttestedChannel WITH phase <- ChannelPhase,
                                         sent  <- ChannelSent

\* The operation implements AttestedChannel: content only between attestation
\* and end, each request once, one paid request, and no way back from the end.
ImplementsChannel == Channel!Spec

\* Every exchange ends and releases the operation (the timer of exchange).
CallSettles == state.busy ~> ~state.busy

=============================================================================
