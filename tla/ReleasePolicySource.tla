------------------------ MODULE ReleasePolicySource ------------------------
(***************************************************************************)
(* The owner-signed release policy source (gateway/release-v3.ts,          *)
(* createReleasePolicyV3Source) in several processes over one durable      *)
(* checkpoint: resolves that queue for the source's promise tail, a feed   *)
(* that is not trusted and may be unreachable, verification against the    *)
(* checkpoint held in memory, the durable observe before acceptance, and   *)
(* the offline window of what was accepted.                                *)
(***************************************************************************)
EXTENDS PolicyStateStore, Sequences

CONSTANTS
    Processes,     \* processes, each with one source
    Process,       \* caller -> the process it runs in
    Signed,        \* release policies the owner ever signed
    RefreshMs, MaxOfflineMs,
    MaxTime,       \* bound: the last reading of the clock
    MaxResolves,   \* bound: calls of resolve, all together
    MaxFalls       \* bound: processes killed and losses of power

\* Two policies of one sequence are a fork only if their digests differ.
ASSUME SourceAssumption ==
    /\ Process \in [Callers -> Processes]
    /\ \A r \in Signed : [seq |-> r.seq, sha |-> r.sha] \in Checkpoints
    /\ \A r, s \in Signed : r.seq = s.seq /\ r.sha = s.sha => r = s
    /\ RefreshMs \in Nat /\ MaxOfflineMs \in Nat \ {0}
    /\ MaxTime \in Nat /\ MaxResolves \in Nat /\ MaxFalls \in Nat

VARIABLES
    now,           \* the clock
    cached,        \* process -> the release held (also its checkpoint), and when
                   \* it was confirmed
    queue,         \* process -> the resolves that wait for the tail, in order
    call,          \* caller -> where its resolve is
    got,           \* history: caller -> the approval it was last given, and why
    top,           \* history: the highest sequence any caller was given
    resolves, falls

rvars == <<now, cached, queue, call, got, top, resolves, falls>>
pvars == <<svars, rvars>>

NoRelease == [seq |-> 0, sha |-> 0, revoked |-> {}]
None     == [release |-> NoRelease, at |-> 0]
AtRest   == [pc |-> "idle", force |-> FALSE, release |-> NoRelease, floor |-> 0]
NothingGot == [release |-> NoRelease, why |-> "nothing", floor |-> 0]

Digest(r) == [seq |-> r.seq, sha |-> r.sha]

----------------------------------------------------------------------------
(* resolve                                                                 *)

\* Mutant: a refusal leaves the tail locked.
UnlockedAfterSuccess(c, given) ==
    [queue EXCEPT ![Process[c]] = IF given THEN Tail(@) ELSE @]

\* finally { unlock() }: the next resolve may go on.
Unlocked(c, given) == [queue EXCEPT ![Process[c]] = Tail(@)]

\* The resolve throws.
Refuse(c) == /\ call' = [call EXCEPT ![c] = AtRest]
             /\ queue' = Unlocked(c, FALSE)
             /\ UNCHANGED <<got, top>>

\* The approval the cache holds, unless it was confirmed too long ago.
Give(c, held, why) ==
    IF now - held.at >= MaxOfflineMs
    THEN Refuse(c)
    ELSE /\ got' = [got EXCEPT ![c] =
                      [release |-> held.release, why |-> why,
                       floor |-> call[c].floor]]
         /\ top' = IF held.release.seq > top THEN held.release.seq ELSE top
         /\ call' = [call EXCEPT ![c] = AtRest]
         /\ queue' = Unlocked(c, TRUE)

\* resolve(origin, signal, forceRefresh), up to `await prior`.
Resolve(c) ==
    /\ call[c].pc = "idle" /\ resolves < MaxResolves
    /\ resolves' = resolves + 1
    /\ \E force \in BOOLEAN :
          call' = [call EXCEPT ![c].pc = "waiting", ![c].force = force]
    /\ queue' = [queue EXCEPT ![Process[c]] = Append(@, c)]
    /\ UNCHANGED <<svars, now, cached, got, top, falls>>

\* Mutant: resolves do not wait for one another.
TailFreeAlways(c) == TRUE

\* Every earlier resolve of this source has unlocked.
TailFree(c) == Head(queue[Process[c]]) = c

\* Cancelled while it waited, or for an origin the root may not approve.
ResolveRefused(c) ==
    /\ call[c].pc = "waiting" /\ TailFree(c)
    /\ Refuse(c)
    /\ UNCHANGED <<svars, now, cached, resolves, falls>>

\* The cache is asked, or the feed.
Turn(c) ==
    LET held  == cached[Process[c]]
        check == call[c].force \/ held = None \/ now - held.at >= RefreshMs
    IN /\ call[c].pc = "waiting" /\ TailFree(c)
       /\ \/ /\ check
             /\ call' = [call EXCEPT ![c].pc = "fetching", ![c].floor = top]
             /\ UNCHANGED <<queue, got, top>>
          \/ ~check /\ Give(c, held, "recent")
       /\ UNCHANGED <<svars, now, cached, resolves, falls>>

\* fetchEnvelope returned "offline": the cache may serve.
Offline(c, why) ==
    LET held == cached[Process[c]]
    IN /\ call[c].pc = "fetching"
       /\ \/ held = None /\ Refuse(c)
          \/ held # None /\ Give(c, held, why)
       /\ UNCHANGED <<svars, now, cached, resolves, falls>>

\* No answer in ten seconds, a 5xx, a body that breaks off.
FeedOffline(c) == Offline(c, "offline")

\* An answer over the size limit: the refusal is thrown inside the try whose
\* catch takes every error of the read loop for a body that broke off.
FeedOversize(c) == Offline(c, "oversize")

\* A 4xx, an empty answer, one that is malformed or not signed by both keys, or
\* the caller's abort: refused, whatever the cache holds.
FeedRefused(c) ==
    /\ call[c].pc = "fetching"
    /\ Refuse(c)
    /\ UNCHANGED <<svars, now, cached, resolves, falls>>

\* checkReleasePolicyV3Successor against the checkpoint held in memory.
Succeeds(held, next) ==
    /\ held.seq <= next.seq
    /\ held.seq = next.seq => held.sha = next.sha
    /\ held.seq < next.seq => held.revoked \subseteq next.revoked

\* verifyReleasePolicyV3 against the checkpoint held, if one is.
MayFollow(held, r) == IF held = None THEN TRUE ELSE Succeeds(held.release, r)

\* The feed serves some policy the owner once signed: verified, then observed.
FeedAnswers(c) ==
    LET held == cached[Process[c]]
    IN /\ call[c].pc = "fetching"
       /\ \E r \in Signed :
            \/ /\ MayFollow(held, r)
               /\ Observe(c, Digest(r))
               /\ call' = [call EXCEPT ![c].pc = "observing",
                                       ![c].release = r]
               /\ UNCHANGED <<queue, got, top>>
            \/ /\ ~MayFollow(held, r)
               /\ Refuse(c)
               /\ UNCHANGED svars
       /\ UNCHANGED <<now, cached, resolves, falls>>

\* A file operation of the durable store.
StoreWorks(c) == call[c].pc = "observing" /\ StoreStep(c) /\ UNCHANGED rvars

\* Mutant: acceptance does not wait for the durable observe.
PersistedAnyhow(c) == job[c].pc \notin {"idle", "refused"}

\* stateStore.observe resolved.
Persisted(c) == job[c].pc = "observed"

\* observe resolved: the release becomes the checkpoint and the cache.
Accept(c) ==
    LET held == [release |-> call[c].release, at |-> now]
    IN /\ call[c].pc = "observing" /\ Persisted(c)
       /\ cached' = [cached EXCEPT ![Process[c]] = held]
       /\ Give(c, held, "feed")
       /\ job' = [job EXCEPT ![c] = Idle]
       /\ UNCHANGED <<disk, durable, lock, now, resolves, falls>>

\* observe rejected: the cache and the checkpoint are left as they were.
StoreRefused(c) ==
    /\ call[c].pc = "observing" /\ job[c].pc = "refused"
    /\ Refuse(c)
    /\ job' = [job EXCEPT ![c] = Idle]
    /\ UNCHANGED <<disk, durable, lock, now, cached, resolves, falls>>

----------------------------------------------------------------------------
(* The clock and failures                                                  *)

Tick == /\ now < MaxTime /\ now' = now + 1
        /\ UNCHANGED <<svars, cached, queue, call, got, top, resolves, falls>>

\* Whatever these processes held in memory is gone.
Forget(dead) ==
    /\ cached' = [p \in Processes |-> IF p \in dead THEN None ELSE cached[p]]
    /\ queue' = [p \in Processes |-> IF p \in dead THEN <<>> ELSE queue[p]]
    /\ call' = [c \in Callers |->
                  IF Process[c] \in dead THEN AtRest ELSE call[c]]
    /\ falls < MaxFalls /\ falls' = falls + 1
    /\ UNCHANGED <<now, got, top, resolves>>

ProcessDies(p) == Forget({p}) /\ Kill({c \in Callers : Process[c] = p})

MachineFalls == Forget(Processes) /\ PowerLoss

----------------------------------------------------------------------------
(* The specification                                                       *)

SourceInit ==
    /\ StoreInit
    /\ now = 0 /\ top = 0 /\ resolves = 0 /\ falls = 0
    /\ cached = [p \in Processes |-> None]
    /\ queue = [p \in Processes |-> <<>>]
    /\ call = [c \in Callers |-> AtRest]
    /\ got = [c \in Callers |-> NothingGot]

\* What a resolve that has its turn does next.
Work(c) == \/ Turn(c) \/ ResolveRefused(c)
           \/ FeedOffline(c) \/ FeedOversize(c) \/ FeedRefused(c)
           \/ FeedAnswers(c)
           \/ StoreWorks(c) \/ Accept(c) \/ StoreRefused(c)

SourceNext == \/ \E c \in Callers : Resolve(c) \/ Work(c)
              \/ \E p \in Processes : ProcessDies(p)
              \/ MachineFalls \/ Tick

SourceSpec == SourceInit /\ [][SourceNext]_pvars

\* Fetches time out, the lock has a deadline, file operations return, and a
\* continuation runs.
SourceFairSpec == SourceSpec /\ \A c \in Callers : WF_pvars(Work(c))

----------------------------------------------------------------------------
(* Properties                                                              *)

Held == [release : Signed, at : 0..MaxTime]

\* The values of the source's variables (release-v3.ts, resolve).
SourceTypeOK ==
    /\ now \in 0..MaxTime /\ top \in Nat
    /\ cached \in [Processes -> Held \cup {None}]
    /\ queue \in [Processes -> Seq(Callers)]
    /\ call \in [Callers ->
                   [pc : {"idle", "waiting", "fetching", "observing"}, force : BOOLEAN,
                    release : Signed \cup {NoRelease}, floor : Nat]]
    /\ got \in [Callers ->
                   [release : Signed \cup {NoRelease}, floor : Nat,
                    why : {"nothing", "recent", "offline", "oversize", "feed"}]]

\* What a process holds as verified was persisted first: stable storage holds
\* that checkpoint or a later one, through kills and losses of power.
PersistedFirst ==
    \A p \in Processes : cached[p] # None =>
        Follows(Digest(cached[p].release), durable)

\* Processes that share the store never hold two different policies of one
\* sequence (policy_fork, also across processes).
NoFork ==
    \A p, q \in Processes :
        cached[p] # None /\ cached[q] # None
          /\ cached[p].release.seq = cached[q].release.seq
        => cached[p].release = cached[q].release

\* A policy the feed has just served is at least as recent as anything any
\* process was given before this resolve asked, restarts included: an old
\* approval cannot be replayed to a process that forgot it.
NoReplay == \A c \in Callers :
                got[c].why = "feed" => got[c].release.seq >= got[c].floor

\* While a process lives, a revocation it has verified is never taken back, not
\* even by resolves that overlap (revocation_reversed).
RevocationsKept ==
    [][\A p \in Processes : cached[p] # None /\ cached'[p] # None
          => cached[p].release.revoked \subseteq cached'[p].release.revoked]_pvars

\* A resolve always settles, whoever it queues behind and whatever that one meets.
ResolveSettles == \A c \in Callers : call[c].pc # "idle" ~> call[c].pc = "idle"

\* "Any 4xx, malformed answer ... never falls back to the cache": no approval is
\* given in reply to an answer over the size limit.
OversizeRefused == \A c \in Callers : got[c].why # "oversize"

----------------------------------------------------------------------------
(* The inductive invariant                                                 *)

\* The promise tail: who waits or works is in the queue of its process, once, and
\* only its head is past the wait.
QueueInv ==
    /\ \A p \in Processes : \A i, j \in DOMAIN queue[p] :
          /\ Process[queue[p][i]] = p /\ call[queue[p][i]].pc # "idle"
          /\ queue[p][i] = queue[p][j] => i = j
    /\ \A c \in Callers : call[c].pc # "idle" =>
          \E i \in DOMAIN queue[Process[c]] : queue[Process[c]][i] = c
    /\ \A c \in Callers : call[c].pc \in {"fetching", "observing"} => TailFree(c)

\* A job of the store belongs to a resolve that observes what it has verified
\* against a checkpoint that no other resolve has replaced since.
ObserveInv ==
    \A c \in Callers :
        /\ call[c].pc # "observing" => job[c] = Idle
        /\ call[c].pc = "observing" =>
              /\ call[c].release \in Signed
              /\ job[c].pc # "idle" /\ job[c].cp = Digest(call[c].release)
              /\ MayFollow(cached[Process[c]], call[c].release)

\* The store has found this caller's checkpoint in the file, or put it there.
Seen(c) == job[c].pc = "observed" \/ (job[c].pc = "releasing" /\ job[c].ok)

\* What a process holds, or is about to accept.
Confirmed == {Digest(cached[p].release) : p \in {p \in Processes : cached[p] # None}}
             \cup {job[c].cp : c \in {c \in Callers : Seen(c)}}

\* Whatever was confirmed is in the file, or was replaced by something later; so
\* no two confirmed checkpoints are a fork.
ConfirmedInv ==
    /\ \A a \in Confirmed : Follows(a, disk)
    /\ \A a, b \in Confirmed : a.seq = b.seq => a = b

\* A checkpoint that has passed the check against the file is as recent as
\* whatever any caller had been given when its resolve asked the feed.
FloorInv ==
    /\ top <= durable.seq
    /\ \A c \in Callers : call[c].floor <= top
    /\ \A c \in Callers :
          Seen(c) \/ job[c].pc \in {"writing", "renaming", "syncing"} =>
             call[c].floor <= job[c].cp.seq

SourceInv == /\ SourceTypeOK /\ StoreInv /\ QueueInv /\ ObserveInv /\ ConfirmedInv
             /\ SyncFails \/ (PersistedFirst /\ FloorInv /\ NoReplay)
=============================================================================
