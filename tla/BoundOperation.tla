--------------------------- MODULE BoundOperation ---------------------------
(***************************************************************************)
(* A bound call of the client (client.ts, openBoundOperation and           *)
(* withBoundOperation): resolve a measurement policy, open a retained      *)
(* operation under it, open a second one if the first never shook hands,   *)
(* run the caller's work on it, and close it however the work ends.        *)
(***************************************************************************)
EXTENDS RetainedOperation

VARIABLES
    client,        \* openBoundOperation: where it is, the attempt, `resolved`
    past           \* history: what the abandoned attempt left

cvars == <<client, past>>
bvars == <<vars, cvars>>

NoAnswer == [at |-> "none"]
NoPast   == [net |-> NewNet, handshake |-> FALSE, wire |-> {}]

ovars == <<state, net, req, op, calls, connects, wire, last>>

----------------------------------------------------------------------------
(* openBoundOperation                                                      *)

Reject(code) == client' = [client EXCEPT !.pc = "rejected", !.err = code]

\* resolveGatewayPolicy answers: a new operation is opened under the policy it
\* gave.  A fresh operation owns none of the earlier one's state.
ResolvePolicy ==
    /\ client.pc = "resolving" /\ ~aborted /\ mono < Deadline
    /\ \E pol \in Policies, apExpiry \in Expiries :
          /\ client' = [client EXCEPT !.pc = "opening", !.resolved = pol]
          /\ op' = NewOp(pol, apExpiry)
    /\ past' = IF client.attempt = 0 THEN past
               ELSE [net |-> net, handshake |-> state.handshakeComplete,
                     wire |-> wire]
    /\ state' = NewState /\ net' = NewNet /\ req' = NoReq
    /\ calls' = 0 /\ connects' = 0 /\ wire' = {}
    /\ UNCHANGED <<clocks, aborted, last>>

\* No approved policy, a platform this path cannot verify, or the source's own
\* refusal; the signal is aborted; nothing is left of the 180 seconds.
ResolveFails ==
    /\ client.pc = "resolving"
    /\ \/ \E code \in {"measurement_untrusted", "unsupported_request",
                      "policy_refused"} : Reject(code)
       \/ aborted /\ Reject("cancelled")
       \/ ~aborted /\ mono >= Deadline /\ Reject("measurement_untrusted")
    /\ UNCHANGED <<vars, past>>

\* Mutant: the answer is returned to the operation and not kept.
RefreshedForgotten(pol) == client.resolved

\* refreshPolicy assigns `resolved` before it returns the new policy.
Refreshed(pol) == pol

\* The refreshPolicy callback resolves.  (After the operation gave up on it, it
\* assigns a variable nobody reads: an operation that got this far is never
\* tried again.)
RefreshAnswer ==
    /\ client.pc = "opening" /\ op.pc = "refresh"
    /\ client.answer = NoAnswer
    /\ \E pol \in Policies, apExpiry \in Expiries :
          client' = [client EXCEPT
                       !.resolved = Refreshed(pol),
                       !.answer = [at |-> "given", pol |-> pol,
                                   apExpiry |-> apExpiry]]
    /\ UNCHANGED <<vars, past>>

\* The operation receives the answer.
Refresh == /\ client.pc = "opening" /\ client.answer # NoAnswer
           /\ RefreshDone(client.answer.pol, client.answer.apExpiry)
           /\ UNCHANGED cvars

\* The operation is returned, with the provenance `resolved` holds.
Opened == /\ client.pc = "opening" /\ op.pc = "ready"
          /\ client' = [client EXCEPT !.pc = "bound"]
          /\ UNCHANGED <<vars, past>>

\* Mutant: the preparation's own timeout, an abort too, passes for the caller's.
ErrorForTimeout(code) ==
    IF code \in {"cancelled", "timeout"} THEN "cancelled" ELSE "attestation_failed"

\* The client's code for a refused open.
ErrorFor(code) ==
    CASE code = "cancelled"     -> "cancelled"
      [] code = "expired"       -> "measurement_untrusted"
      [] code = "configuration" -> "unsupported_request"
      [] code = "untrusted"     -> "attestation_untrusted"
      [] OTHER                  -> "attestation_failed"

\* Mutant: any failed connection may be tried again.
RetriesAnyLoss ==
    /\ client.attempt = 0 /\ ~aborted /\ mono < Deadline
    /\ op.err.code \in {"timeout", "tls_certificate", "connection_lost"}

\* Mutant: the attempts are not counted.
RetriesUncounted == ~aborted /\ mono < Deadline /\ MayRetry

\* The one fresh preparation.
Retries == /\ client.attempt = 0 /\ ~aborted /\ mono < Deadline
           /\ MayRetry

\* The open rejected: one fresh preparation, or the client's own error.
OpenFailed ==
    /\ client.pc = "opening" /\ op.pc = "failed"
    /\ \/ /\ Retries
          /\ client' = [client EXCEPT !.pc = "resolving", !.attempt = 1,
                                      !.answer = NoAnswer]
       \/ ~Retries /\ Reject(ErrorFor(op.err.code))
    /\ UNCHANGED <<vars, past>>

----------------------------------------------------------------------------
(* withBoundOperation                                                      *)

\* Mutant: only work that succeeds closes the operation.
FinishLeavesOpen == FALSE

\* finally { connection.close() } has something to close.
MustClose == ~state.closed

\* The caller's work has returned or thrown: close the operation.
Finish ==
    /\ client.pc = "bound"
    /\ client' = [client EXCEPT !.pc = "done"]
    /\ \/ /\ MustClose
          /\ CloseReady
          /\ UNCHANGED <<endFrame, aborted>>
       \/ ~MustClose /\ UNCHANGED vars
    /\ UNCHANGED past

----------------------------------------------------------------------------
(* The specification                                                       *)

BoundInit ==
    /\ Init
    /\ client = [pc |-> "resolving", attempt |-> 0, resolved |-> op.policy,
                 answer |-> NoAnswer, err |-> "none"]
    /\ past = NoPast

ClientStep == \/ ResolvePolicy \/ ResolveFails \/ RefreshAnswer \/ Refresh
              \/ Opened \/ OpenFailed \/ Finish

\* What runs inside the operation while the client awaits it.
OpeningStep == \/ Open \/ ChallengeEnd \/ PrepareDone \/ JoinClosed
               \/ client.answer = NoAnswer /\ PrepareFails
WorkStep    == \/ CallAbort
               \/ \E kind \in Content : Fetch(kind) \/ FetchExpires(kind)
               \/ \E kind \in Content \cup {"other"} : FetchRefused(kind)

OperationStep ==
    /\ \/ client.pc = "opening" /\ OpeningStep
       \/ client.pc = "bound" /\ WorkStep
       \/ client.pc # "resolving" /\ Abort
       \/ client.pc = "resolving" /\ ~aborted /\ aborted' = TRUE
             /\ UNCHANGED <<clocks, ovars>>
       \/ SocketStep \/ RequestStep \/ Tick
    /\ UNCHANGED cvars

BoundNext == ClientStep \/ OperationStep

BoundSpec == BoundInit /\ [][BoundNext]_bvars

\* What the runtime guarantees: the policy source answers or times out, awaits
\* continue, timers fire, the OS answers DNS, 'close' events follow destroy().
\* Nothing is assumed of the peer or of the caller.
BoundFairness ==
    /\ WF_bvars(ResolvePolicy \/ ResolveFails)
    /\ WF_bvars(Opened) /\ WF_bvars(OpenFailed) /\ WF_bvars(Refresh)
    /\ WF_bvars(client.pc = "opening" /\ Open /\ UNCHANGED cvars)
    /\ WF_bvars(LookupDone /\ UNCHANGED cvars)
    /\ WF_bvars(ConnectionFails /\ UNCHANGED cvars)
    /\ WF_bvars(net.sock = "destroyed" /\ SocketClose /\ UNCHANGED cvars)
    /\ WF_bvars(ExchangeTimeout /\ UNCHANGED cvars)
    /\ WF_bvars(client.pc = "opening" /\ client.answer = NoAnswer
                  /\ PrepareFails /\ UNCHANGED cvars)
    /\ WF_bvars(RequestClosed /\ UNCHANGED cvars)
    /\ WF_bvars(client.pc = "opening" /\ JoinClosed /\ UNCHANGED cvars)

BoundFairSpec == BoundSpec /\ BoundFairness

----------------------------------------------------------------------------
(* Properties                                                              *)

ClientCodes == {"none", "cancelled", "measurement_untrusted",
                "unsupported_request", "attestation_untrusted",
                "attestation_failed", "policy_refused"}

\* The values of openBoundOperation's own variables.
BoundTypeOK ==
    client \in [pc : {"resolving", "opening", "bound", "rejected", "done"},
                attempt : 0..1, resolved : Policies, err : ClientCodes,
                answer : {NoAnswer} \cup
                         [at : {"given"}, pol : Policies, apExpiry : Expiries]]

\* An attempt that is tried again never shook hands, wrote nothing, and had let
\* go of its socket, its request and its DNS lookup before the second began: the
\* gateway sees one handshake, one challenge and one paid request per bound call.
AbandonedClean == /\ past.wire = {} /\ ~past.handshake
                  /\ past.net.sock \in {"none", "closed"}
                  /\ past.net.lookup # "pending"
                  /\ past.net.challenge # "open"

\* The provenance handed to the caller is that of the policy the connection was
\* verified with, also after a refresh.
ProvenanceTrue == client.pc = "bound" => client.resolved = op.policy

\* "cancelled" is reported only to a caller that cancelled: none of the closes,
\* destroys and timeouts inside the operation surfaces as a cancellation.
CancelledTruth == client.err = "cancelled" => aborted

\* openBoundOperation settles: at most two attempts, each of them bounded.
BoundSettles ==
    client.pc \in {"resolving", "opening"} ~> client.pc \in {"bound", "rejected"}

\* Once the caller's work is over, or the open was refused, no socket is left.
BoundReleases ==
    client.pc \in {"done", "rejected"} ~> net.sock \in {"none", "closed"}

----------------------------------------------------------------------------
(* The inductive invariant                                                 *)

\* Inside the operation "cancelled" is the caller's: an operation under
\* preparation has not been closed by anything else.
CancelInv == /\ op.pc \notin {"ready", "failing", "failed"} => ~state.closed
             /\ op.err.code = "cancelled" \/ req.err.code = "cancelled" => aborted

\* Until the operation is returned it carries no content; a second attempt follows
\* only one that may be retried; what `resolved` holds is what the operation was
\* given, or is about to be given.
AttemptInv ==
    /\ client.pc = "resolving" => client.answer = NoAnswer
                                  /\ (client.attempt = 1 => MayRetry)
    /\ client.pc \in {"resolving", "opening"} => req.kind = "challenge" /\ last.n = 0
    /\ client.pc = "opening" =>
          \/ client.resolved = op.policy
             /\ (client.answer = NoAnswer \/ op.pc \in {"ready", "failing", "failed"})
          \/ /\ client.answer # NoAnswer /\ client.resolved = client.answer.pol
             /\ op.pc \in {"refresh", "failing", "failed"}
    /\ client.pc = "bound" => op.pc = "ready" /\ client.resolved = op.policy

BoundInv == /\ BoundTypeOK /\ IInv /\ CancelInv /\ AttemptInv
            /\ AbandonedClean /\ CancelledTruth
=============================================================================
