# Verification of the AnonRouter SDK

TLA+ models of the SDK's two halves. One is what depends on the order of events:
which socket may carry content, what may be sent before and after an
attestation, what a crash leaves behind, what a policy feed can make a client
accept. The other is the verdicts: which evidence makes the SDK call a gateway,
a provider or a route trusted, and whether it then is. TLC checks the models on
small instances. TLAPS proves the safety properties of every component for every
instance, in both directions for the verdicts: what is accepted is right, and what is
right is accepted.

## The system

The SDK lets an application send prompts to confidential (TEE-hosted) models
through a gateway that itself runs in a TEE. `js/confidential` is the reference
implementation, `python` a synchronous port of it.

| part | state it keeps | operations | interacts with |
|---|---|---|---|
| Retained gateway operation (`gateway/retained-operation-node.ts`) | one TLS socket, its observed SPKI, flags (`opened`, `authorized`, `closed`, `lost`, `busy`, `refusal`), expiries, `paidAttempted`, joins | open, `fetch`, `assertDispatchAllowed`, `close`; handlers of socket, request, body, timer and abort events | Node's agent and TLS, the chain verifier, the policy refresh of its caller |
| Bound client operation (`client.ts` `openBoundOperation`, `withBoundOperation`) | attempt, `resolved` policy and provenance, shared deadline | resolve, open, refresh, retry once, run, close | policy source, retained operation |
| Chat and media flows (`client.ts`, `media.ts`) | tickets, evidence, verdicts, session keys | ticket, evidence, gate, session, paid ticket, post, dispose | control origin, gateway, provider transports |
| Policy sources (`release-v3.ts`, `authority.ts`) | in-memory checkpoint, cached approval, promise tail | `resolve` | publication feed, checkpoint store |
| Checkpoint store (`state-node.ts`, `state.ts`) | one JSON file, a lock directory | `observe` | several processes, the file system |
| Gateway policy (`gateway/policy.ts`, `release-v3.ts`) | the policy object, which its owner may change | load, floor, tuple and revocation checks | gateway verdict, policy sources |
| Gateway verdict (`gateway/verify.ts`, `binding.ts`, `eventLog.ts`, `appCompose.ts`, `gce-pzid.ts`, `verify/tdx.ts`; `client.ts` `verifyGatewayEvidence`) | none; one call's policy, document, engine and verdict | resolve, fetch, prepare, judge, refresh once | policy source, control origin, chain verifier |
| Provider verifiers (`verify/near.ts`, `near-authority.ts`, `chutes.ts`, `venice.ts`, `tinfoil.ts`, `measurements.ts`) | none | pure checks of one document | pinned measurements, vendor facts gathered by the caller |
| Route verdict (`verify/route.ts`, `verify/state.ts`; `client.ts` `verifyRoute`, `verify`) | none | attest, verify, assemble | gateway verdict, provider verifiers |
| Command line (`cli/run.ts`) | exit code | `gateway`, `route`, `doctor` | all of the above, a TLS observation, a timer |
| DCAP engine and collateral (`gateway/dcap/`, `chain-verifiers.ts`) | child process, shared collateral cache | `prepare`, `verifyChain` | Intel PCS, native verifier, remote verifier |
| Connection-bound transport (`transport-node.ts`) | pinned sockets | `fetch` | Node's agent |
| SSE parser (`sse.ts`) | line buffer | `push`, `end` | response stream |

What is hard here: a check made when a call is accepted is used many events
later, when Node's pool hands a socket over; every failure must say truthfully
whether bytes may have left; a failed preparation may be repeated only if the
first attempt provably left nothing behind; several processes share one
checkpoint file and may be killed between any two file operations; the policy
feed is untrusted and may replay or fork; a child process may report a verdict
and then be killed, overflow or exit otherwise; a policy object may change
between the check that approved it and its use; and a verdict is a conjunction
of some thirty checks, each harmless to omit in every test but the one document
that needs it. `PROJECT.json` lists each of these
hazards at its line with the properties that cover it.

## Modules

- **RetainedOperation** — the state machine of `openRetainedGatewayOperation`.
  JavaScript runs one callback at a time, so an action is one callback with
  everything it does before it returns; what an `await` lets in between is the
  interleaving of actions. `state` is the code's `State` record (with
  `paidAttempted`), `net` the socket, its DNS lookup, the agent's pool and the
  challenge request's `close` event, `req` the exchange in flight, `op` the
  closure of the open (policy, evidence, expiries, error). The clocks
  `performance.now()` and `Date.now()` advance independently. The peer chooses
  its certificate's key, its evidence, its response heads and when it fails. The
  verdict of `verifyGatewayAttestation` is abstracted to `Accepts` (quote chain
  holds, bound SPKI is the socket's, policy approves the measurements) and
  `Moved` (chain holds, a pin does not match). Node's agent is modelled from how
  the code uses it: a freed socket serves a queued request without
  `reuseSocket`, and a pool that lost its socket calls `createConnection` again.
- **AttestedChannel** — what the operation promises its user: content only
  between attestation and end, each request once, one paid request, no way back.
- **BoundOperation** — composes the client's `openBoundOperation` and
  `withBoundOperation` with RetainedOperation: policy resolution, the refresh
  callback, the one fresh preparation after an initial connection failure, the
  mapping of error codes, and the close in `finally`.
- **PolicyStateStore** — `observe` of the file store, one step per awaited file
  operation, by several callers; `disk` is what readers see, `durable` what
  survives a loss of power; processes are killed and power is lost anywhere.
- **ReleasePolicySource** — composes `resolve` of the release-policy-v3 source,
  in several processes, with PolicyStateStore: the promise tail, the feed (which
  may serve any policy ever signed, or nothing, or garbage), succession, the
  durable observe before acceptance, the offline window, restarts.
- **ClientCalls** — `chat`, `verify`, `verifyRoute` and the media calls of one
  client, one call after another, from entry to settlement. `call.pc` is the
  await the call stands at (named after the endpoint it waits for), `deploy` the
  client's configuration (one origin or two, bound or not, loopback), `wire` the
  requests that left (endpoint, origin, whether the API key is in the headers,
  the ticket as the place of the mint that issued it, body, sealing key). An
  action runs from one await to the next. The retained connection of a bound
  client is AttestedChannel, which RetainedOperation implements. The relay
  answers with echoes, verdicts and evidence made for any nonce, model or key;
  mints fail in each of the ways the code tells apart; the signal fires and the
  connection ends at any await. `Settle` is the end of every path: the error
  code, `transport.dispose`, the close in `finally`. A transport is what it sends and
  zeroizes; encryption is a body sealed to a key. Errors that are not a
  `ConfidentialError` have names ending in `_error`. Providers differ in what is looked
  at: `VerifierFaults` is what the provider's verifier demands of the evidence (Venice
  no measurement; "near-ai", unlike the other NEAR provider, no tie of the encryption
  key to the quote), `NamesModel` whether a model is demanded (Chutes: no), `OwnFaults`
  what the transport looks at again before a session exists.
- **DcapEngine** — `prepare` of the three chain verifiers: the DCAP adapter (find and
  pin the engine, take collateral from the cache that calls share or make the requests
  to Intel under one deadline and one `AbortController`, run the engine as a child, read
  its report when it closes), the adapter for a program of the caller's, and the remote
  one. An action is one callback: a request settles or fails, the child writes,
  overflows, fails to start, exits, closes, reports a failed write to its input, a timer
  or the signal fires. `call[c].late` is a history variable: something cut the call
  short. `cancel` of the DCAP adapter kills the engine (SIGKILL); a program of the
  caller's is only asked to end (`execFile`'s SIGTERM, child "asked") and may ignore it:
  it may never end, or end with exit code 0, and then its verdict counts. Several calls
  overlap.
- **GatewayPolicy** — the forms a policy takes: the legacy lists, release tuples,
  the release policy v3 built from an envelope, and what the package ships;
  `LoadGatewayPolicy` with every refusal, the floor per platform, tuple validity and revocation.
- **GatewayEvidence** — what a document says: the binding and its canonical form,
  quote fields, the event log and its replay, the app-compose manifest, the
  key-provider payload, the PZID certificate. Hashes are injective: the hash of a value is the value.
- **GatewayVerdict** — `verifyGatewayAttestation` check by check, and the call of
  `client.ts` around it: resolve the policy, fetch a document for a fresh nonce,
  prepare the chain verifier, judge, and, when only a pin failed and the policy is
  signed, refresh once and judge again. The environment has honest and dishonest
  TDs, documents altered on the way or kept from an earlier call, policy sources
  that publish meanwhile, time, and an owner who changes the policy object after it was loaded.
- **ProviderEvidence** — the verifiers of NEAR (pinned list or public
  authorities), Chutes, Venice and Tinfoil as operators from a document to a set
  of checks and a level. A quote names the TD that made it, which the code cannot
  see and the properties can. Keys, addresses and fingerprints are sequences, since
  what is hashed is two of them joined and the hash does not say where the cut was.
- **RouteVerdict** — `attestRoute`, `verifyAttestation`, the ordered states,
  `assembleRouteVerdict`, and the callers: `verifyRoute`, `verify`, and the
  commands `gateway`, `route` and `doctor` from arguments to exit code. What the
  proofs assume of quotes, pinned lists and vendors is stated here by name.
- `*_proofs` — theorems; `MC*` — instances.

`PROJECT.json` maps every definition to the lines it models. Operators whose
comment begins with "Mutant:" are plausible bugs, each used in place of the definition that
follows it to show that a property would notice it.

## Runs

| run | checks |
|---|---|
| `retained` | `SoleSocket`, `ContentAttested`, `PaidOnce`, `PhaseTruth`, `RetryClean`, that an operation has no live socket from the step that closes it, handshake included (`ClosedLetsGo`), and that RetainedOperation implements AttestedChannel |
| `bound` | retries are clean, provenance and cancellation are reported truthfully; the bound call settles and releases, and so do the operations it opens: exchanges end, closed operations let go of their socket |
| `source` | what a process holds was persisted first; no replay; the durable checkpoint never goes back or forks; without fsync failures an observe that resolved is durable |
| `source_tail` | overlapping resolves of one process never take a revocation back, and every resolve settles, failing fsyncs and a lock left by a killed process included |
| `calls` | over two calls in every deployment: key apart from content, tickets spent once, money after trust, hop 1 first, error codes that tell the truth about content, a trusted report only for evidence of its own call in which nothing is wrong that the provider's verifier looks for (`TrustedTruth`), tickets only while attested |
| `dcap` | a chain verifier says "verified" only of a genuine quote on the word of a run that nothing spoilt: the reviewed engine was not cut short, a program of the caller's left with exit code 0 and within the output limit; no child or request outlives the call; the engine gets collateral of the quote's platform that is current; `prepare` of the DCAP and the remote adapter settles, that of the subprocess adapter only if its program ends |
| `gateway` | an accepted gateway runs one approved release as a whole, on genuine hardware, for this nonce and, where a platform has a key per node, for this connection (`SoundVerdict`); one that runs an approved release and answers in time is accepted, also when the release was published after the policy was resolved (`HonestAccepted`); the instance identity reported is the TD's (`InstanceTruth`); nothing below the floor is accepted, also of a changed policy object (`FloorHolds`); the policy that approved was in force (`ApprovalInForce`) |
| `route` | a trusted provider hop rests on a sound document (`ProviderSound`); a trusted route is the one that was asked for (`RouteBound`); a right answer, whatever the provider, is accepted and the route it serves trusted (`HonestRoute`); exit code 0 means the required assurance was reached on every hop asked for (`ExitMet`); `gateway` and `doctor` send no credential, `route` none before hop 1, and a command refused as wrong sends none (`CredentialFree`) |
| `store_sync_fails` | **violation**: after a failed directory fsync an observe that resolved need not be durable |
| `source_oversize` | **violation**: an answer over the size limit falls back to the cache |
| `calls_keys` | **violation**: the ML-KEM response key of Chutes survives a failed body |
| `cli_visible` | **violation**: the command calls content opaque to AnonRouter on a route whose modality was never established |

Bounds. RetainedOperation: two pins, two policies with different evidence ages,
four evidence documents (approved as pinned, approved after a refresh, broken
chain, bound to the other key), clocks up to 2 with every deadline and expiry
inside that range, three calls: enough for a paid call, one beside or after it, and
one more after an ending. BoundOperation: a document that only the second policy approves, so that
refreshes happen, with a good or a broken chain, and two calls. PolicyStateStore: three callers, three sequences, one of them
forked: enough for a writer, a rival and a bystander (the proofs do not need this bound). ReleasePolicySource: two
callers in one process and one in another, a policy, its successor and a fork
that also drops the revocation, one kill or loss of power, clock up to 2
(refresh interval 1, offline window 2), three resolves; `source_tail` keeps the one
process with its two callers and lets fsync fail. ClientCalls: two calls,
so that a relay can replay what it kept from the first and tickets of two calls
exist; two models and two keys (symmetric), so that either can be swapped; of an
attestation reply one field of the echo, or the whole verdict, or the whole evidence
differs from the honest one, because each check of the code looks at one of them
or at a pair the honest value completes; the proofs do not need this bound.
DcapEngine: two overlapping calls over one cache, a genuine quote of one platform
and a quote of another that is not genuine, two of the four requests (they are
alike: all must succeed), a lifetime and a clock of one, so that collateral can
expire between two calls; the pin is set.
GatewayVerdict: two reviewed dstack releases and one reviewed GCP image (with and
without a VM identity, in two zones), and machines that differ from them in one
measured value: old firmware under a new compose, an unreviewed compose, one
that measures the approved hash a second time, a debug TD, a forged quote, an old TCB,
another image. A document is altered in one field or recombined. Policies: legacy, weak,
both forms at once, truncated, tuples, GCP; two publications of each signed
source, the second of which adds a release or revokes one; the clock goes to 3, past
every validity, lifetime and age. Each check distinguishes one of these machines or documents from
a reviewed one.
RouteVerdict: a published NEAR workload, two Chutes instances, a Venice key and a
Tinfoil enclave beside TDs that run something else (another compose, base image,
program, or debug mode); documents altered in one field, in two for the honest
NEAR and Tinfoil ones, where pairs of fields vouch for each other. Every document
is judged on the plain call of its provider (`deep`); the other calls meet the
honest document and one that is too old, because what they add happens after the verdict.
Among the NEAR documents is one whose bytes under the hash are the honest ones,
cut elsewhere; keys are two bytes wide (`KeyWidth`).
Echoes differ in one field; command lines differ in one option from the
base lines.

Deadlock is not checked: operations end, bounded callers stop calling.

Fairness. Only what the runtime guarantees is fair: timers fire, the operating
system answers DNS lookups and file operations, `close` events follow
`destroy()`, a settled promise's continuation runs, a fetch with a timeout
signal ends, an await given a signal returns once the
signal fired, an aborted fetch rejects, a child killed with SIGKILL closes. DcapEngine assumes
neither that Intel nor that the engine ever answers: its timers do. Of a program of
the caller's nothing is assumed, for SIGTERM may be ignored; so `PrepareSettles` does
not speak of the subprocess adapter. ClientCalls,
GatewayVerdict and RouteVerdict have no liveness property. Nothing is assumed of the peer, the feed's content or the caller.

What the verdict models assume of the world, and where the code leaves it to
others:

- Hashes are injective and signatures cannot be forged; a caller's nonce is the 64
  hex digits the SDK draws.
- Provider quotes are not chained to the vendor's root by the SDK: `ProviderSound`
  is relative to genuine quotes, as the SDK's own level names are.
- What a pinned list holds, or a vendor publishes as its release, was reviewed: a TD
  with those measurements that is not in debug mode runs a program that quotes its
  own keys (`ListedTruth`, `PublishedTruth`, and `ReviewedAssumption` of
  GatewayVerdict for release tuples). The lists are the SDK's trust anchor, and the
  header of `near-authority.ts` names the vendor's records as what remains trusted.
- A published NEAR image runs the compose that MRCONFIGID binds, and its manager
  quotes no log but its own (`NearTruth`); the base image of a gateway measures the
  hash of the manifest before it runs it (`MachinesAssumption`).
- The code compares the registers of a NEAR TD's two quotes to tell whether one TD made both. That
  separates TDs because dstack measures an instance id into RTMR3; entries of the pinned
  list are told apart by their registers.
- ClientCalls sees of evidence what is wrong with it (`Faults`: quote, measurement,
  binding, key, GPU); what the checks behind each word bind together is ProviderEvidence.
- Venice has no list of measurements: its soundness is that the key is held by the TD
  whose quote was shown. Tinfoil's rests on the verification document its SDK
  returns. NEAR's `model_name` is unsigned, so nothing is claimed of it.
- Conversely, a right gateway is one whose reviewed image logs each identity once and
  names itself as its platform does (`ImagesAssumption`), behind an origin whose canonical spelling is
  stable (`SpellingsAssumption`). A right answer of a provider is said of its TD and
  its vendor (`RightAnswer`): what is listed or published runs, the quote is for this
  nonce and of the TD's own keys, logs and records are complete and recent
  (`ClockAssumption` makes instants numbers, `ClassesAssumption` names the two classes
  of `client.ts:563`).
- An engine that gives no report of its own is taken to agree
  (`engineReportDisagreement` returns null).

## Findings

1. `state-node.ts:33` returns early when the stored sequence equals the observed
   one, also when the earlier observe's directory fsync failed: the retry accepts
   a checkpoint that a loss of power may still undo.
2. `release-v3.ts:489` refuses an oversized answer inside a `try` whose `catch`
   maps every error to `"offline"`, so the cached approval is served where the
   documentation says that a malformed answer refuses at once.
3. `transport/chutes.ts:231`: the body read, the decapsulation and the
   decompression may throw with `responseKeys.secretKey` live; `dispose` only
   knows the session's key. The header of `client.ts` says that key material is
   disposed in `finally`.
4. `cli/run.ts:556` takes `"e2ee"` for the modality of a provider that gave no
   attestation, so the printed document says that content is not visible to
   AnonRouter; `verify/route.ts:146-147` says that an unestablished modality
   counts as visible, and `verifyRoute` does so.

Observations, met while modelling and not the subject of a run:

- `release-v3.ts:517` takes `confirmedAtMs` after the durable observe, which may
  wait ten seconds for the lock, so the offline window outlasts what the comments at 398 and
  451-452 say by that time.
- `media.ts:504`: with required binding the retained operation rejects with its
  own "cancelled" when the signal fires, so `abortKind` cannot tell a deadline from
  a deliberate cancel, which the comment at 497-499 says it does.
- `gateway/verify.ts:300-304` says that the floor refuses a release policy v3 on any
  other platform kind; the floor's test for the tuple form does not look at
  `releasePolicyV3`. The package's own constructors do not build such a policy.
- `verify/near.ts:102` hashes an address and a TLS fingerprint joined, and only
  the checks of the provider "other" (161) fix the width of the first: on
  "near-ai" the same bytes may be cut elsewhere. The fingerprint is then of another
  width, so no connection has it; `ProviderSound` speaks of a TLS key of the honest one's width.
- `cli/run.ts:562-563` feeds values the client derived itself back as the relay's
  echo, so the comparison that `verify/route.ts:212-217` describes cannot fail in the command.
- `chain-verifiers.ts:139-143` ends a late program with SIGTERM, which it may ignore:
  `prepare` then stays pending past what line 70 calls the "Hard deadline". A program
  that takes the signal as a reason to finish and exits with code 0 gives `execFile` no
  error, so a verdict it had printed counts, where the comments (26-28, 145) count a
  timeout among the refusals. `dcap/engine.ts` uses SIGKILL and refuses.
- For "near-ai" `verify/near.ts` returns an encryption key that no check ties to the
  quote; a chat's transport does tie it (`transport/near.ts:206-212`), `verify` and
  `verifyRoute` have no transport. `TrustedTruth` says so (`Unlooked`).
- A hop that was never reached (an outage, an abort) is reported as untrusted with
  its failure code (`client.ts:1390-1400`, `cli/run.ts:541-548`), where the
  header of `verify/route.ts` (22-25) keeps that word for evidence that was refused.
- `dcap/engine.ts:381`: a failed write to the engine's input cancels the run for
  good, also when the engine had printed its verdict and left without draining its
  input; `chain-verifiers.ts:125-135` says that such a failure is not a verdict and
  that `runDcapEngine` "has always done it this way". It refuses, so no false verdict follows.

## Proofs

`RetainedOperation_proofs` proves, for all pins, policies, evidence documents,
expiries and bounds that satisfy `ConstantsAssumption`, that `IInv` is inductive
and with it every safety property of the run `retained`, the action property
`NothingAfterEnd` and the refinement of AttestedChannel. `IInv` is needed because the properties speak of
history: `ContentAttested` holds of an old write only because an authorized
operation never changes evidence, policy or observed key again
(`AuthorizedInv`); `PaidOnce` because a paid request in flight implies
`paidAttempted`, and a paid write implies that the request was the one
dispatched (`WireInv`); `PhaseTruth` because call numbers are fresh and a
settled call is not in flight; `SoleSocket` and `RetryClean` because `opened` is never reset and
goes with the connection count and the challenge's `close` (`SocketInv`); all of
them because the request's place, the socket and the stage of the open agree
(`StageInv`). Each action of `Next` is one lemma. `ClosedLetsGo` is inductive beside the types
(`LetsGoStep`): a step that closes also destroys, and `guard` keeps a closed
operation from a new socket.

`PolicyStateStore_proofs` proves `StoreInv` inductive for any number of callers
and any checkpoints, fsync failures included, and from it `DurableForward`;
`ObservedDurable` under `~SyncFails`. The invariant says that at most one caller
is between `mkdir` and `rmdir` of the lock, that what it is about to write is
ahead of the file, and that file and stable storage differ only while the lock
stands.

`ClientCalls_proofs` proves `ClientInv` inductive for any set of deployments that
`createClient` admits, any providers, models and keys and any number of calls,
and from it `CredentialIsolation`, `TicketOnce`, `PaidAfterTrust` and
`GatewayFirst`; the action property `TicketsWhileAttested` follows from what a
request of a bound client must pass before it is sent.
`CredentialIsolation` and `TicketOnce` compare two requests of the whole history,
so the invariant says what is true of each request alone (`GoodRequest`: a ticket
is 0 or the place just before its use, which makes two uses of one ticket the
same request; the key on the inference origin only where there is one origin;
a prompt in the clear only where `assertSplitOrigins` allowed it). `PaidAfterTrust` and
`GatewayFirst` relate old requests to the call's present state: `OwnRequest` keeps
that relation and `PlaceInv` says what each await of the code has behind it. The
proof has lemmas for the shapes all actions share (a step that leaves the wire
alone, a settlement, a move, a request), one lemma per action group on top.

`AnswerInv`, which leans on `ClientInv`, carries `TrustedTruth` and
`ContentFreeErrors` through every settlement: a verdict is given once, at the
end, and hop 1 has a result by the time the provider's attestation is asked for.
What `TrustedTruth` leaves open is named there: a Venice TD's measurements, the
encryption key of "near-ai", the model of a Chutes instance, which no required check of
`verify` and `verifyRoute` looks at. Content leaves from one place of the code, and no error raised after that place
has a name that denies it.

`DcapEngine_proofs` proves `DcapInv` for any callers, quotes, platforms and
requests, and from it `EarnedVerdict`, `NothingLeftBehind` and `CollateralFits`.
The invariant is one of each call alone beside the shared cache: what a call has
at hand in each place (no request is pending when the child runs, no child
exists before), that what cut a call of the DCAP adapter short marked it `late` and refused
it before any output is looked at, that a program of the caller's is refused on every
ending but a clean one, and that collateral is filed under its own platform.

`ReleasePolicySource_proofs` extends the proofs of the store. `SourceSpec`
implements `StoreSpec` (each step is one of the store's or leaves it alone), so
the store's theorems hold under the sources. `SourceInv` joins `StoreInv` to the
order of the promise tail (`QueueInv`: at most one resolve of a process is past its
turn, so the checkpoint it read is still the one it extends), to what an
observe carries (`ObserveInv`) and to where the confirmed releases are found:
the file follows all of them and no two of them share a sequence number
(`ConfirmedInv`). From these come `RevocationsKept` and `NoFork`, also when fsync
fails. `PersistedFirst`, `NoReplay` and `ObservedDurable` are proved under
`~SyncFails`: with failing syncs a confirmed release need not be durable, which is
finding 1. `FloorInv` compares a resolve with what anyone had been given when it
asked the feed.

`BoundOperation_proofs` extends the proofs of the retained operation: every step
of the composition is one of the operation's, or one that leaves it alone, or a
fresh attempt; so `IInv` holds under the client and with it `ContentAttested`,
`PaidOnce`, `PhaseTruth` and `SoleSocket` (`BoundKeepsOperation`). `CancelInv` says that
only the caller's signal or `close` makes an error "cancelled", `AttemptInv` what
`resolved` is at each stage and that a second attempt follows only one that
`MayRetry`; together they give `AbandonedClean`, `ProvenanceTrue` and `CancelledTruth`.

`GatewayVerdict_proofs` proves `GatewayInv` and from it `SoundVerdict`, `InstanceTruth`,
`FloorHolds`, `ApprovalInForce` and `HonestAccepted`, for any machines, documents, policies and
publications. The invariant says that the policy of the call is one that was
supplied, or a caller's object after its owner's change, that what a document
shows of its TD is the hardware's word however it was altered, and that a final
verdict is the judgement of that policy at a time before it expired. The rest is
about the judgement: an accepted document has measured what one tuple lists, as a
whole. Two arguments carry it: an event log that
replays to the quoted RTMR3 is the log that was measured, for digests are
injective; and a log with one compose hash, compared with the manifest it
came with, names the compose that the base image measured. `SuppliedAsLoaded` shows that
what the SDK builds itself, the shipped policies among them, has the form the
assumption `PoliciesAssumption` states for the callers' and the published ones.
`HonestAccepted` goes the other way: `HonestDoc` says what a machine puts into a document,
`Approves` what a policy lists of it, both in terms of the machine, and each check of
`verifyGatewayAttestation` is shown to pass (`NativeTupleAccepted`, `PlatformAccepted`,
`HonestApproved`). A policy that was not changed since it was resolved still has its
floor when it is judged (`UnmovedApproved`); one that lacks the release is replaced by the
one refresh, and the judgement is then made under a policy that was published since,
which is why the property asks that every policy served since the call began approve the machine.

`RouteVerdict_proofs` proves `RouteInv`, and from it `RouteBound`, `ExitMet` and
`CredentialFree`, for any asks, command lines, documents and echoes: the fold over the
hops never reports more than the weakest requested hop (`WeakestIsLower`), each stage
knows which requests have left (`StageInv`), and hop 1 was not trusted over a
certificate other than the observed one (`CertificateInv`). `JudgeInv` adds that
only an ask that may come to hop 2 is judged there, and gives `ProviderSound`: for
each provider, the checks of its verifier and the assumed truth of its quotes make
the TD behind a trusted document the one it should be: honest, for a pinned list a
server of the model asked for, and the owner of the keys the verdict returns, with
the limits that the bullets above and the observation on `verify/near.ts` name. The case of the vendor's
records (`near-authority.ts`) has the longest argument: the first quote binds the keys, the
second binds the manager's log, the registers make them one TD, and the published
releases cover every manager it has started.

`HonestRoute` is proved from `RelayInv` (what is reported was judged on this very
document, under this very echo, for an ask that may come to hop 2) and one lemma per
verifier: `NearAccepted` with `AuthorityAccepted`, `ChutesAccepted` with
`InstanceAccepted`, `VeniceAccepted`, `TinfoilAccepted`. Each says that a right answer passes
every required check, on any runtime: without `node:crypto` the certificate checks of
Chutes are not demanded. `SingleLogged` is the step that needs care: an event is read only
when its name occurs once and its digest is not the garbage value, and it is not
because a commitment is longer. `MatchedTrusted` then turns trusted hops and an echo that
contradicts nothing into a trusted route.

The assumptions the theorems rest on are the named ASSUMEs: `ConstantsAssumption`,
`StoreAssumption`, `SourceAssumption`, `DeploymentsAssumption`, `MaxCallsAssumption`,
`DcapAssumption`, `EntriesAssumption`, `NumbersAssumption`, `ClockAssumption`,
`ClassesAssumption`, `PinsAssumption`, which say what a bound, a checkpoint, a signed
policy, a deployment, an entry, an instant, a class or a row of `measurements.json` is;
`EvidenceAssumption`, which applies the truths named above to every document; and the assumptions about the world of
GatewayVerdict and RouteVerdict listed above. TLC evaluates all of them on the
instances of the runs, dishonest TDs and altered documents included.

Only model-checked: the liveness properties (fairness and ENABLED are out of the
prover's reach) and the properties of the four runs that expect a violation. The
inductive invariants, `NothingAfterEnd`, `NoFork` and the type invariants are
proved and listed by no run.

## Not modelled, and the plan

Cryptography, byte formats, HTTP header hygiene and TLS itself are abstracted to
their verdicts. Not modelled:

- `authority.ts`, the v1 signed source: GatewayVerdict sees it by what it serves and
  when that expires, its `resolve` has the shape of ReleasePolicySource; and the
  checkpoint a caller passes to the v3 source.
- `transport-node.ts`, `connection-session.ts`, `content-node.ts`: connections
  pinned but not retained.
- `sse.ts`: chunks cut anywhere against lines cut once.
- The Tinfoil transport, the formats of images and audio, content encryption.
- The Python port: its threads (`retained_sync.py`) and its store (`state.py`).
- The plain client, a stateless wrapper over HTTP; the native verifier, a one-shot
  filter around a library; scripts and examples, which run at build time.

In this order the project will grow by:

1. The v1 signed source beside ReleasePolicySource.
2. BoundTransport and SseParser.
3. The threads of the Python port.
