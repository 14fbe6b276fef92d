----------------------------- MODULE DcapEngine -----------------------------
(***************************************************************************)
(* The chain verifiers of gateway/dcap/ and gateway/chain-verifiers.ts.    *)
(* `prepare` of the DCAP adapter finds the engine, obtains collateral from *)
(* a cache that several callers share or from four requests to Intel, runs *)
(* the engine as a child process and returns a verifier that repeats the   *)
(* engine's verdict for one quote.  Two further adapters run a program of  *)
(* the caller's or ask a remote service.  The caller's signal, the two     *)
(* deadlines, the requests and the child's events interleave; an action is *)
(* one callback with everything that runs before the next event.           *)
(***************************************************************************)
EXTENDS Naturals, Sequences

CONSTANTS
    Callers,      \* calls of prepare that may overlap
    Quotes,
    Platforms,    \* FMSPCs
    Platform,     \* Quotes -> Platforms \cup {None}: the FMSPC of the PCK chain
    Genuine,      \* the quotes an honest engine verifies
    Requests,     \* the requests of one acquisition
    Lifetimes,    \* possible nextUpdate of the TCB info Intel serves
    MaxTime,      \* bound of the clock
    Pinned        \* expectedBinarySha256 is set

None   == "none"
NoColl == [fmspc |-> None, next |-> 0, at |-> 0, from |-> None]

ASSUME DcapAssumption ==
    /\ Platform \in [Quotes -> Platforms \cup {None}] /\ None \notin Platforms
    /\ Genuine \subseteq Quotes
    /\ Lifetimes \subseteq Nat /\ MaxTime \in Nat
    /\ Pinned \in BOOLEAN

VARIABLES
    call,   \* per caller: its prepare, the last one or the one in progress
    cache,  \* CollateralCache.entries: FMSPC -> collateral or None
    now     \* Date.now()

dvars == <<call, cache, now>>

----------------------------------------------------------------------------
(* What a call keeps                                                       *)

\* pending: requests not yet settled; ctl: the AbortController of the
\* acquisition; child, out: the process ("asked" once it was sent SIGTERM) and what
\* it wrote; result: the execFile callback ran; refusal: why its output no longer
\* counts; coll: the collateral given to the engine; late: history, something cut
\* the call short.
NewCall(adapter, q) ==
    [pc |-> "idle", adapter |-> adapter, quote |-> q, signal |-> "live",
     pending |-> {}, ctl |-> "live", failed |-> FALSE, coll |-> NoColl,
     child |-> None, out |-> None, result |-> FALSE, refusal |-> None,
     late |-> FALSE, verified |-> FALSE, why |-> None]

\* AcquiredCollateral: the platform, its nextUpdate, when and whence it was
\* handed out.
Acquired(p, next, from) == [fmspc |-> p, next |-> next, at |-> now, from |-> from]

Set(c, r) == call' = [call EXCEPT ![c] = r]

\* refusingVerifier.
Refusing(r, why) == [r EXCEPT !.pc = "done", !.verified = FALSE, !.why = why]

----------------------------------------------------------------------------
(* Finding the engine                                                      *)

\* resolveDcapVerifierBinary: the first source that is named decides, usable or
\* not.  (searchPath: false is a path that is unset.)
Resolve(explicit, env, path) ==
    IF explicit # "unset" THEN explicit = "usable"
    ELSE IF env # "unset" THEN env = "usable"
    ELSE path = "usable"

\* fileSha256 against the pin.
DigestFits(digest) == Pinned => digest = "same"

----------------------------------------------------------------------------
(* Running the engine                                                      *)

\* execFile: the child is started, or the call throws.
Spawn(r) == {[r EXCEPT !.pc = "run", !.child = "running"],
             Refusing(r, "spawn")}

\* buildDcapEngineRequest: the PCK chain is left out, the time is now; then
\* runDcapEngine, unless the signal has fired.
Run(r, coll) ==
    IF r.signal = "fired" THEN {Refusing(r, "cancelled")}
    ELSE Spawn([r EXCEPT !.coll = coll])

\* What the reviewed engine writes (external): it verifies a genuine quote with
\* unexpired collateral of its platform; a defective run writes nothing usable,
\* or a verdict about another TD.
EngineSays(q, coll) ==
    {"garbage", "other",
     IF q \in Genuine /\ coll.fmspc = Platform[q] /\ coll.next > coll.at
     THEN "verified" ELSE "refused"}

\* What a program or a service of the caller's writes (external).
WrapperSays(q) == {"garbage", IF q \in Genuine THEN "verified" ELSE "refused"}

\* Mutant: output is parsed whatever happened to the child.
UsableLate(r) == r.out # None

\* parseDcapEngineVerdict of the output; a refusal discards it.
Usable(r) == r.out # None /\ r.refusal = None

\* engineReportDisagreement: the engine and the SDK read the same TD.
Agrees(r) == r.out # "other"

\* runDcapEngine has its outcome; prepare returns a verifier.
Verdict(r) ==
    IF r.signal = "fired" THEN Refusing(r, "cancelled")
    ELSE IF ~Usable(r) \/ r.out = "garbage"
         THEN Refusing(r, IF r.refusal = None THEN "no_verdict" ELSE r.refusal)
    ELSE IF r.out = "refused" THEN Refusing(r, "engine")
    ELSE IF ~Agrees(r) THEN Refusing(r, "disagreement")
    ELSE [r EXCEPT !.pc = "done", !.verified = TRUE]

\* complete: both the child's `close` and the callback are there.
Complete(r) == r.child = "closed" /\ r.result

Settled(r) == IF Complete(r) THEN Verdict(r) ELSE r

\* The child writes its verdict and goes on to exit.
ChildPrints(c) ==
    /\ call[c].child = "running" /\ call[c].out = None
    /\ \E out \in IF call[c].adapter = "dcap"
                  THEN EngineSays(call[c].quote, call[c].coll)
                  ELSE WrapperSays(call[c].quote) :
          Set(c, [call[c] EXCEPT !.out = out])
    /\ UNCHANGED <<cache, now>>

\* Mutant: the deadline is noted and the child left alone.
CancelSpares(r, reason) ==
    [r EXCEPT !.refusal = IF @ = None THEN reason ELSE @, !.late = TRUE]

\* cancel: remember the first reason, kill the child, settle nothing.
Cancel(r, reason) ==
    [r EXCEPT !.refusal = IF @ = None THEN reason ELSE @,
              !.child = IF @ = "running" THEN "killed" ELSE @,
              !.late = TRUE]

Dcap(c)    == call[c].pc = "run" /\ call[c].adapter = "dcap"
Wrapper(c) == call[c].pc = "run" /\ call[c].adapter = "subprocess"

\* The deadline of the engine.
EngineTimeout(c) == /\ Dcap(c) /\ Set(c, Cancel(call[c], "timeout"))
                    /\ UNCHANGED <<cache, now>>

\* The child closed its end of the pipe before it read the whole request: it may
\* have answered, or died.
StdinError(c) == /\ Dcap(c) /\ call[c].child = "running"
                 /\ Set(c, Cancel(call[c], "stdin"))
                 /\ UNCHANGED <<cache, now>>

\* More than MAX_OUTPUT_BYTES: execFile kills the child, the callback will refuse.
Overflow(c) == /\ Dcap(c) /\ call[c].child = "running"
               /\ Set(c, Cancel(call[c], "execution"))
               /\ UNCHANGED <<cache, now>>

\* The child ends, by itself or killed, and its pipes close: the callback, then
\* `close`.
ChildCloses(c) ==
    /\ Dcap(c) /\ call[c].child \in {"running", "killed"}
    /\ Set(c, Settled([call[c] EXCEPT !.child = "closed", !.result = TRUE]))
    /\ UNCHANGED <<cache, now>>

\* The program could not be started: `error` runs the callback, `close` follows.
SpawnError(c) ==
    /\ Dcap(c) /\ call[c].child = "running" /\ call[c].out = None
    /\ Set(c, Settled([Cancel(call[c], "spawn") EXCEPT !.child = "gone",
                                                       !.result = TRUE]))
    /\ UNCHANGED <<cache, now>>
CloseAfterError(c) ==
    /\ Dcap(c) /\ call[c].child = "gone"
    /\ Set(c, Settled([call[c] EXCEPT !.child = "closed"]))
    /\ UNCHANGED <<cache, now>>

----------------------------------------------------------------------------
(* Collateral                                                              *)

\* Mutant: the expiry is not looked at.
FreshAlways(entry) == entry # NoColl

\* normalizeQuoteHex, extractPckChain, extractFmspc: the platform the leaf PCK
\* certificate in the quote names, or None.
Fmspc(q) == Platform[q]

\* A cached entry serves until its own signed nextUpdate.
Fresh(entry) == entry # NoColl /\ entry.next > now

\* bindCollateralToQuote: the quote's own PCK chain names the same platform.
BoundToQuote(q, coll) == Fmspc(q) # None /\ coll.fmspc = Fmspc(q)

\* CollateralCache.get: a hit, or the four requests of fetchIntelCollateral,
\* which needs the quote's PCK chain and FMSPC.
GetCollateral(r) ==
    LET p == Fmspc(r.quote)
    IN  IF p = None THEN {Refusing(r, "collateral")}
        ELSE IF Fresh(cache[p]) THEN Run(r, [cache[p] EXCEPT !.at = now, !.from = "cache"])
        ELSE {[r EXCEPT !.pc = "fetch", !.pending = Requests]}

\* One of the requests is answered with 200 and its body is read.
RequestDone(c) ==
    /\ call[c].pc = "fetch" /\ call[c].ctl = "live"
    /\ \E q \in call[c].pending : Set(c, [call[c] EXCEPT !.pending = @ \ {q}])
    /\ UNCHANGED <<cache, now>>

\* One of them fails, or rejects because it was aborted: Promise.all rejects
\* and the catch aborts the others.
RequestFails(c) ==
    /\ call[c].pc = "fetch"
    /\ \E q \in call[c].pending :
          Set(c, [call[c] EXCEPT !.pending = @ \ {q}, !.failed = TRUE, !.ctl = "aborted"])
    /\ UNCHANGED <<cache, now>>

\* The one deadline over all requests.
FetchTimeout(c) ==
    /\ call[c].pc = "fetch" /\ call[c].ctl = "live"
    /\ Set(c, [call[c] EXCEPT !.ctl = "aborted", !.late = TRUE])
    /\ UNCHANGED <<cache, now>>

\* Mutant: the rejection of Promise.all is passed on without joining the rest.
JoinedOnFailure(r) == r.pending = {} \/ r.failed

\* Promise.allSettled(requests).
Joined(r) == r.pending = {}

\* sliceSignedDocument, readSignedDocumentSignature, readNextUpdateMs: the answers
\* do not parse, or the signed TCB info has a nextUpdate.
SignedDocuments == {<<>>} \cup {<<next>> : next \in Lifetimes}

\* The acquisition settles: an error, documents that do not parse, or collateral,
\* which goes to the cache and to the engine.
FetchSettles(c) ==
    LET r == call[c]
    IN  /\ r.pc = "fetch" /\ Joined(r)
        /\ \/ /\ r.failed \/ r.ctl = "aborted"
              /\ Set(c, Refusing(r, IF r.signal = "fired" THEN "cancelled"
                                                          ELSE "collateral"))
              /\ UNCHANGED cache
           \/ /\ ~r.failed /\ r.ctl = "live"
              /\ \E doc \in SignedDocuments :
                    \/ doc = <<>> /\ Set(c, Refusing(r, "collateral"))
                                  /\ UNCHANGED cache
                    \/ /\ doc # <<>>
                       /\ LET coll == Acquired(Fmspc(r.quote), doc[1], "fetch")
                          IN  /\ BoundToQuote(r.quote, coll)
                              /\ cache' = [cache EXCEPT ![coll.fmspc] = coll]
                              /\ \E s \in Run(r, coll) : Set(c, s)
        /\ UNCHANGED now

----------------------------------------------------------------------------
(* prepare                                                                 *)

\* prepare of the DCAP adapter: an unreadable quote, no engine or another
\* engine than the pinned one, no collateral; else collateral and engine.
\* A supplied document may be of any platform and age.
PrepareDcap(c) ==
    /\ call[c].pc = "idle"
    /\ \E q \in Quotes, explicit, env \in {"unset", "usable", "missing"},
          path \in {"unset", "usable"}, digest \in {"same", "other"},
          source \in {"supplied", "fetch", "off"} :
         LET r == NewCall("dcap", q)
         IN  \/ Set(c, Refusing(r, "quote"))
             \/ ~Resolve(explicit, env, path) /\ Set(c, Refusing(r, "no_engine"))
             \/ /\ Resolve(explicit, env, path)
                /\ \/ ~DigestFits(digest) /\ Set(c, Refusing(r, "digest"))
                   \/ DigestFits(digest) /\ source = "off"
                         /\ Set(c, Refusing(r, "collateral"))
                   \/ DigestFits(digest) /\ source = "fetch"
                         /\ \E s \in GetCollateral(r) : Set(c, s)
                   \/ DigestFits(digest) /\ source = "supplied"
                         /\ \E p \in Platforms, next \in Lifetimes :
                              \E s \in Run(r, Acquired(p, next, "supplied")) : Set(c, s)
    /\ UNCHANGED <<cache, now>>

\* prepare of the subprocess adapter (a quote that is not hex is refused) and of
\* the remote one.
PrepareOther(c) ==
    /\ call[c].pc = "idle"
    /\ \E q \in Quotes :
          LET r == NewCall("subprocess", q)
          IN  \/ \E s \in Spawn(r) \cup {Refusing(r, "quote")} : Set(c, s)
              \/ Set(c, [NewCall("remote", q) EXCEPT !.pc = "remote"])
    /\ UNCHANGED <<cache, now>>

\* The deadline of the subprocess adapter: execFile stops reading and asks the
\* program to end, with SIGTERM, once.
WrapperTimeout(c) ==
    /\ Wrapper(c) /\ call[c].child = "running"
    /\ Set(c, [call[c] EXCEPT !.child = "asked", !.late = TRUE])
    /\ UNCHANGED <<cache, now>>

\* More than MAX_OUTPUT_BYTES: the program is asked to end and the callback will
\* get an error.
WrapperOverflow(c) ==
    /\ Wrapper(c) /\ call[c].child = "running"
    /\ Set(c, [call[c] EXCEPT !.child = "asked", !.late = TRUE, !.refusal = "execution"])
    /\ UNCHANGED <<cache, now>>

\* The program could not be started: `error`.
WrapperSpawnError(c) ==
    /\ Wrapper(c) /\ call[c].child = "running" /\ call[c].out = None
    /\ Set(c, Refusing([call[c] EXCEPT !.child = "closed"], "spawn"))
    /\ UNCHANGED <<cache, now>>

\* The callback gets no error: the program ended with exit code 0, no signal killed
\* it and its output was not cut.  Whether it was asked to end does not matter.
Succeeds(clean, r) == clean /\ r.refusal = None

\* The program has ended, as asked or by itself.  An error refuses whatever was
\* written; a failed stdin write is only remembered.
WrapperCallback(c) ==
    /\ Wrapper(c)
    /\ \E clean \in BOOLEAN :
          LET r == [call[c] EXCEPT !.child = "closed"]
          IN  Set(c, IF ~Succeeds(clean, r) THEN Refusing(r, "execution")
                     ELSE IF r.out = "verified"
                     THEN [r EXCEPT !.pc = "done", !.verified = TRUE]
                     ELSE Refusing(r, "no_verdict"))
    /\ UNCHANGED <<cache, now>>

\* The remote service answers, is unreachable, or the deadline passes.
RemoteAnswers(c) ==
    /\ call[c].pc = "remote"
    /\ \E out \in WrapperSays(call[c].quote) \cup {None} :
          Set(c, [call[c] EXCEPT !.pc = "done", !.out = out,
                                 !.verified = (out = "verified"),
                                 !.why = IF out = "verified" THEN None ELSE "service"])
    /\ UNCHANGED <<cache, now>>

----------------------------------------------------------------------------
(* The environment and the specification                                   *)

\* The caller's signal.  The adapters of chain-verifiers.ts take none.
Abort(c) ==
    LET r == [call[c] EXCEPT !.signal = "fired"]
    IN  /\ call[c].adapter = "dcap" /\ call[c].signal = "live"
        /\ \/ call[c].pc = "fetch" /\ Set(c, [r EXCEPT !.ctl = "aborted", !.late = TRUE])
           \/ call[c].pc = "run" /\ Set(c, Cancel(r, "cancelled"))
        /\ UNCHANGED <<cache, now>>

Tick == now < MaxTime /\ now' = now + 1 /\ UNCHANGED <<call, cache>>

DcapInit == /\ call = [c \in Callers |-> NewCall(None, CHOOSE q \in Quotes : TRUE)]
            /\ cache = [p \in Platforms |-> NoColl]
            /\ now = 0

DcapNext == \/ \E c \in Callers :
                  \/ PrepareDcap(c) \/ PrepareOther(c)
                  \/ RequestDone(c) \/ RequestFails(c) \/ FetchTimeout(c)
                  \/ FetchSettles(c)
                  \/ ChildPrints(c) \/ EngineTimeout(c) \/ StdinError(c)
                  \/ Overflow(c) \/ ChildCloses(c) \/ SpawnError(c)
                  \/ CloseAfterError(c)
                  \/ WrapperTimeout(c) \/ WrapperOverflow(c)
                  \/ WrapperSpawnError(c) \/ WrapperCallback(c)
                  \/ RemoteAnswers(c) \/ Abort(c)
            \/ Tick

DcapSpec == DcapInit /\ [][DcapNext]_dvars

\* Timers fire, an aborted fetch rejects, an engine killed with SIGKILL closes;
\* promises continue.  Neither Intel nor the engine is assumed to answer, and a
\* program of the caller's is not assumed to end, also when it was asked to.
DcapFairness ==
    \A c \in Callers :
        /\ WF_dvars(FetchTimeout(c)) /\ WF_dvars(FetchSettles(c))
        /\ WF_dvars(call[c].ctl = "aborted" /\ RequestFails(c))
        /\ WF_dvars(call[c].refusal = None /\ EngineTimeout(c))
        /\ WF_dvars(call[c].child = "killed" /\ ChildCloses(c))
        /\ WF_dvars(CloseAfterError(c)) /\ WF_dvars(RemoteAnswers(c))

DcapFairSpec == DcapSpec /\ DcapFairness

----------------------------------------------------------------------------
(* Properties                                                              *)

\* verifyChain of the prepared verifier: the verdict, for its own quote only.
VerifyChain(c, q) == call[c].pc = "done" /\ q = call[c].quote /\ call[c].verified

\* A verifier says "verified" only of a genuine quote, on the word of an engine
\* whose run was not spoilt: no overflow or failed start, and for the DCAP engine no
\* deadline, abort or failed write before the end, whatever the child had already
\* written.  A program of the caller's that answers SIGTERM with exit code 0 is
\* believed.
EarnedVerdict ==
    \A c \in Callers, q \in Quotes :
        VerifyChain(c, q) => /\ q \in Genuine /\ call[c].out = "verified"
                             /\ call[c].refusal = None
                             /\ call[c].late => call[c].adapter = "subprocess"

\* prepare returns only when its child and all its requests have ended, also
\* when it was cancelled or one request of several failed.
NothingLeftBehind ==
    \A c \in Callers : call[c].pc = "done" =>
        call[c].pending = {} /\ call[c].child \in {None, "closed"}

\* Callers of different platforms share the cache: what an engine is given from
\* it is for the platform of the quote, whichever callers filled it, and is never
\* handed out at or after the time its signed document names.
CollateralFits ==
    \A c \in Callers :
        LET coll == call[c].coll
        IN  /\ coll.from \in {"cache", "fetch"} =>
                  coll.fmspc = Platform[call[c].quote]
            /\ coll.from = "cache" => coll.at < coll.next

\* Every prepare settles, of the DCAP adapter and of the remote one: Intel, the
\* engine and the service may keep silent for ever, alone or one after the other.
\* The subprocess adapter waits for a program that may ignore SIGTERM.
PrepareSettles ==
    \A c \in Callers : call[c].pc # "idle" /\ call[c].adapter # "subprocess"
                          ~> call[c].pc = "done"

----------------------------------------------------------------------------
(* The inductive invariant                                                 *)

Collaterals == [fmspc : Platforms \cup {None}, next : Nat, at : Nat,
                from : {None, "supplied", "cache", "fetch"}]

CallRecords ==
    [pc : {"idle", "fetch", "run", "remote", "done"},
     adapter : {None, "dcap", "subprocess", "remote"},
     quote : Quotes \cup {CHOOSE q \in Quotes : TRUE},
     signal : {"live", "fired"}, pending : SUBSET Requests,
     ctl : {"live", "aborted"}, failed : BOOLEAN, coll : Collaterals,
     child : {None, "running", "asked", "killed", "gone", "closed"},
     out : {None, "garbage", "other", "verified", "refused"},
     result : BOOLEAN,
     refusal : {None, "timeout", "stdin", "execution", "spawn", "cancelled"},
     late : BOOLEAN, verified : BOOLEAN,
     why : {None, "spawn", "cancelled", "no_verdict", "engine", "disagreement",
            "collateral", "timeout", "stdin", "execution", "quote", "no_engine",
            "digest", "service"}]

\* The values of a call of prepare, of the cache and of the clock (engine.ts,
\* collateral.ts, chain-verifiers.ts).
DcapTypeOK == /\ call \in [Callers -> CallRecords]
              /\ cache \in [Platforms -> Collaterals]
              /\ now \in Nat

\* An entry of the cache is for the platform it is filed under.
CacheInv == \A p \in Platforms : cache[p] # NoColl => cache[p].fmspc = p

\* What a call has at hand in each place: nothing runs beside the requests, no
\* request is left when the child runs, a call cut short is marked so before any
\* output is looked at, and only a genuine quote is called verified.
CallInv(r) ==
    /\ r.pc # "fetch" => r.pending = {}
    /\ r.pc \in {"idle", "fetch", "remote"} => r.child = None /\ r.out = None
    /\ r.pc \in {"fetch", "run", "remote", "done"} => r.quote \in Quotes
    /\ r.pc = "fetch" => /\ r.adapter = "dcap" /\ Platform[r.quote] \in Platforms
                         /\ r.late => r.ctl = "aborted"
                         /\ r.refusal = None /\ ~r.result /\ r.coll = NoColl
    /\ r.pc = "run" =>
          /\ r.child \in IF r.adapter = "subprocess" THEN {"running", "asked"}
                                        ELSE {"running", "killed", "gone"}
          /\ r.child = "gone" => r.result
          /\ r.late /\ r.adapter # "subprocess" => r.refusal # None
    /\ r.pc = "remote" => ~r.late /\ r.refusal = None
    /\ r.pc = "done" => r.child \in {None, "closed"}
    /\ r.out = "verified" => r.quote \in Genuine
    /\ r.verified => /\ r.pc = "done" /\ r.out = "verified" /\ r.refusal = None
                     /\ r.late => r.adapter = "subprocess"

DcapInv == /\ DcapTypeOK /\ CacheInv /\ CollateralFits
           /\ \A c \in Callers : CallInv(call[c])
=============================================================================
