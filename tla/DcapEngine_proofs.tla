-------------------------- MODULE DcapEngine_proofs --------------------------
(* Proofs about DcapEngine, for any callers, quotes, platforms and requests. *)
EXTENDS DcapEngine, TLAPS

\* CollateralFits of one call.
Fits(r) == /\ r.coll.from \in {"cache", "fetch"} =>
                  r.coll.fmspc = Platform[r.quote]
           /\ r.coll.from = "cache" => r.coll.at < r.coll.next

Good(r) == r \in CallRecords /\ CallInv(r) /\ Fits(r)

\* The reasons a call may be refused for.
Reasons == {"spawn", "cancelled", "no_verdict", "engine", "disagreement",
            "collateral", "timeout", "stdin", "execution", "quote", "no_engine",
            "digest", "service"}

----------------------------------------------------------------------------
(* The shapes that actions share                                           *)

\* The invariant is one of every single call, beside the cache.
LEMMA InvByCall ==
    DcapInv <=> /\ call \in [Callers -> CallRecords]
                /\ cache \in [Platforms -> Collaterals]
                /\ now \in Nat /\ CacheInv
                /\ \A c \in Callers : Good(call[c])
  BY DEF DcapInv, DcapTypeOK, CollateralFits, Good, Fits

\* A step of one call that leaves it good keeps the invariant.
LEMMA OneCall ==
    ASSUME DcapInv, NEW c \in Callers, NEW r, Good(r), Set(c, r),
           UNCHANGED <<cache, now>>
    PROVE  DcapInv'
  <1>1. call' \in [Callers -> CallRecords] BY InvByCall DEF Set, Good
  <1>2. \A d \in Callers : Good(call'[d])
    <2>1. \A d \in Callers : call'[d] = r \/ call'[d] = call[d]
      BY InvByCall DEF Set
    <2>2. QED BY <2>1, InvByCall
  <1>3. /\ cache' \in [Platforms -> Collaterals] /\ now' \in Nat /\ CacheInv'
    BY InvByCall DEF CacheInv
  <1>4. QED
    BY <1>1, <1>2, <1>3
    DEF DcapInv, DcapTypeOK, CollateralFits, Good, Fits

\* A call with nothing running may be refused.
LEMMA RefusingGood ==
    ASSUME NEW r \in CallRecords, Fits(r), r.pending = {},
           r.child \in {None, "closed"}, r.quote \in Quotes,
           r.out = "verified" => r.quote \in Genuine,
           NEW why \in Reasons
    PROVE  Good(Refusing(r, why))
  <1> DEFINE s == Refusing(r, why)
  <1>1. s \in CallRecords BY DEF CallRecords, Refusing, Reasons
  <1>2. /\ s.pc = "done" /\ ~s.verified /\ s.pending = {} /\ s.child = r.child
        /\ s.quote = r.quote /\ s.out = r.out /\ s.coll = r.coll
    BY DEF CallRecords, Refusing
  <1>3. CallInv(s) BY <1>2 DEF CallInv
  <1>4. Fits(s) BY <1>2 DEF Fits
  <1>5. QED BY <1>1, <1>3, <1>4 DEF Good

\* A child that starts has no output, and nothing has cut its call short.
LEMMA SpawnGood ==
    ASSUME NEW r \in CallRecords, Fits(r), r.pending = {}, r.child = None,
           r.out = None, r.quote \in Quotes, ~r.late, ~r.verified,
           NEW s \in Spawn(r)
    PROVE  Good(s)
  <1>1. CASE s = Refusing(r, "spawn")
    BY <1>1, RefusingGood DEF Reasons, None
  <1>2. CASE s = [r EXCEPT !.pc = "run", !.child = "running"]
    <2>1. s \in CallRecords BY <1>2 DEF CallRecords
    <2>2. /\ s.pc = "run" /\ s.child = "running" /\ s.pending = {}
          /\ s.out = None /\ s.quote = r.quote /\ ~s.late /\ ~s.verified
          /\ s.coll = r.coll
      BY <1>2 DEF CallRecords
    <2>3. Fits(s) BY <2>2 DEF Fits
    <2>4. CallInv(s) BY <2>2 DEF CallInv, None
    <2>5. QED BY <2>1, <2>3, <2>4 DEF Good
  <1>3. QED BY <1>1, <1>2 DEF Spawn

\* runDcapEngine starts from collateral that fits the quote.
LEMMA RunGood ==
    ASSUME NEW r \in CallRecords, Fits(r), r.pending = {}, r.child = None,
           r.out = None, r.quote \in Quotes, ~r.late, ~r.verified,
           NEW coll \in Collaterals, Fits([r EXCEPT !.coll = coll]),
           NEW s \in Run(r, coll)
    PROVE  Good(s)
  <1>1. CASE r.signal = "fired"
    BY <1>1, RefusingGood DEF Run, Reasons, None
  <1>2. CASE r.signal # "fired"
    <2> DEFINE t == [r EXCEPT !.coll = coll]
    <2>1. /\ t \in CallRecords /\ t.pending = {} /\ t.child = None
          /\ t.out = None /\ t.quote \in Quotes /\ ~t.late /\ ~t.verified
      BY DEF CallRecords
    <2>2. s \in Spawn(t) BY <1>2 DEF Run
    <2> HIDE DEF t
    <2>3. Fits(t) BY DEF t
    <2>4. QED BY <2>1, <2>2, <2>3, SpawnGood
  <1>3. QED BY <1>1, <1>2

\* When both `close` and the callback are there the verdict is made, and only
\* what nothing cut short is called verified.
LEMMA VerdictGood ==
    ASSUME NEW r \in CallRecords, Fits(r), r.pc = "run", r.pending = {},
           r.child = "closed", r.quote \in Quotes,
           r.out = "verified" => r.quote \in Genuine,
           r.late => r.refusal # None
    PROVE  Good(Verdict(r))
  <1>1. CASE r.out = "verified" /\ r.refusal = None /\ r.signal # "fired"
    <2>1. Verdict(r) = [r EXCEPT !.pc = "done", !.verified = TRUE]
      BY <1>1 DEF Verdict, Usable, Agrees, None
    <2> DEFINE s == [r EXCEPT !.pc = "done", !.verified = TRUE]
    <2>2. s \in CallRecords BY DEF CallRecords
    <2>3. /\ s.pc = "done" /\ s.child = "closed" /\ s.pending = {}
          /\ s.out = "verified" /\ s.quote = r.quote /\ s.late = r.late /\ s.verified
          /\ s.coll = r.coll /\ s.refusal = None
      BY <1>1 DEF CallRecords
    <2> HIDE DEF s
    <2>4. ~s.late /\ s.quote \in Genuine BY <1>1, <2>3
    <2>5. Fits(s) BY <2>3 DEF Fits
    <2>6. CallInv(s) BY <2>3, <2>4 DEF CallInv
    <2>7. QED BY <2>1, <2>2, <2>5, <2>6 DEF Good, s
  <1>2. CASE ~(r.out = "verified" /\ r.refusal = None /\ r.signal # "fired")
    <2>1. \E why \in Reasons : Verdict(r) = Refusing(r, why)
      BY <1>2 DEF Verdict, Usable, Agrees, None, Reasons, CallRecords
    <2>2. QED BY <2>1, RefusingGood
  <1>3. QED BY <1>1, <1>2

\* A call that runs is settled only once its child has closed.
LEMMA SettledGood ==
    ASSUME NEW r \in CallRecords, Fits(r), r.pc = "run", r.pending = {},
           r.child \in {"gone", "closed"}, r.result,
           r.quote \in Quotes, r.adapter # "subprocess",
           r.out = "verified" => r.quote \in Genuine,
           ~r.verified, r.late => r.refusal # None
    PROVE  Good(Settled(r))
  <1>1. CASE r.child = "closed"
    BY <1>1, VerdictGood DEF Settled, Complete
  <1>2. CASE r.child = "gone"
    <2>1. Settled(r) = r BY <1>2 DEF Settled, Complete
    <2>2. CallInv(r) BY <1>2 DEF CallInv, None
    <2>3. QED BY <2>1, <2>2 DEF Good
  <1>3. QED BY <1>1, <1>2

\* A cancelled run waits for its child, which is killed.
LEMMA CancelGood ==
    ASSUME NEW r, Good(r), r.pc = "run", r.adapter # "subprocess",
           NEW reason \in {"timeout", "stdin", "execution", "spawn", "cancelled"}
    PROVE  Good(Cancel(r, reason))
  <1> DEFINE s == Cancel(r, reason)
  <1>0. r \in CallRecords /\ CallInv(r) /\ Fits(r) BY DEF Good
  <1>1. s \in CallRecords
    <2>1. PICK x, y : /\ s = [r EXCEPT !.refusal = x, !.child = y, !.late = TRUE]
                      /\ x \in {r.refusal, reason} /\ y \in {r.child, "killed"}
      BY DEF Cancel
    <2>2. /\ x \in {None, "timeout", "stdin", "execution", "spawn", "cancelled"}
          /\ y \in {None, "running", "asked", "killed", "gone", "closed"}
      BY <1>0, <2>1 DEF CallRecords
    <2>3. [r EXCEPT !.refusal = x, !.child = y, !.late = TRUE] \in CallRecords
      BY <1>0, <2>2 DEF CallRecords
    <2>4. QED BY <2>1, <2>3
  <1>2. /\ s.pc = "run" /\ s.child = (IF r.child = "running" THEN "killed" ELSE r.child)
        /\ s.refusal = (IF r.refusal = None THEN reason ELSE r.refusal)
        /\ s.pending = r.pending /\ s.quote = r.quote /\ s.out = r.out
        /\ s.coll = r.coll /\ s.adapter = r.adapter /\ s.verified = r.verified
        /\ s.result = r.result
    BY <1>0 DEF CallRecords, Cancel
  <1>3. CallInv(s) BY <1>0, <1>2 DEF CallInv, None
  <1>4. Fits(s) BY <1>0, <1>2 DEF Fits
  <1>5. QED BY <1>1, <1>3, <1>4 DEF Good

----------------------------------------------------------------------------
(* The actions                                                             *)

\* A prepare that has just been called.
LEMMA NewCallGood ==
    ASSUME NEW adapter \in {None, "dcap", "subprocess", "remote"}, NEW q \in Quotes
    PROVE  LET r == NewCall(adapter, q)
           IN  /\ Good(r) /\ r \in CallRecords /\ Fits(r) /\ r.pending = {}
               /\ r.child = None /\ r.out = None /\ r.quote = q /\ ~r.late
               /\ ~r.verified /\ r.refusal = None /\ ~r.result /\ r.coll = NoColl
               /\ r.adapter = adapter
  <1> DEFINE r == NewCall(adapter, q)
  <1>1. NoColl \in Collaterals BY DEF NoColl, Collaterals, None
  <1>2. r \in CallRecords BY <1>1 DEF NewCall, CallRecords, None
  <1>3. Fits(r) BY DEF Fits, NewCall, NoColl, None
  <1>4. CallInv(r) BY DEF CallInv, NewCall, None
  <1>5. QED BY <1>2, <1>3, <1>4 DEF Good, NewCall

\* A cached entry is handed out before the time it names, for its own platform.
LEMMA GetCollateralGood ==
    ASSUME DcapInv, NEW q \in Quotes, NEW s \in GetCollateral(NewCall("dcap", q))
    PROVE  Good(s)
  <1> DEFINE r == NewCall("dcap", q)
             p == Platform[q]
             coll == [cache[p] EXCEPT !.at = now, !.from = "cache"]
  <1>r. /\ Good(r) /\ r \in CallRecords /\ Fits(r) /\ r.pending = {}
        /\ r.child = None /\ r.out = None /\ r.quote = q /\ ~r.late
        /\ ~r.verified /\ r.refusal = None /\ ~r.result /\ r.coll = NoColl
        /\ r.adapter = "dcap"
    BY NewCallGood
  <1> HIDE DEF r
  <1>p. p \in Platforms \cup {None} BY DcapAssumption
  <1>1. CASE p = None
    <2>1. s = Refusing(r, "collateral") BY <1>1, <1>r DEF GetCollateral, Fmspc, r
    <2>2. QED BY <1>r, <2>1, RefusingGood DEF Reasons, None
  <1>2. CASE p \in Platforms /\ Fresh(cache[p])
    <2>1. s \in Run(r, coll)
      BY <1>2, <1>r, DcapAssumption DEF GetCollateral, Fmspc, r
    <2>2. cache[p] \in Collaterals /\ now \in Nat BY <1>2, InvByCall
    <2>3. coll \in Collaterals BY <2>2 DEF Collaterals
    <2>4. coll.fmspc = p /\ coll.next > coll.at
      BY <1>2, <2>2, InvByCall DEF Collaterals, Fresh, CacheInv
    <2>5. coll.at < coll.next BY <2>2, <2>3, <2>4 DEF Collaterals
    <2> HIDE DEF coll
    <2>6. Fits([r EXCEPT !.coll = coll]) BY <1>r, <2>4, <2>5 DEF Fits, CallRecords
    <2>7. QED BY <1>r, <2>1, <2>3, <2>6, RunGood
  <1>3. CASE p \in Platforms /\ ~Fresh(cache[p])
    <2>1. s = [r EXCEPT !.pc = "fetch", !.pending = Requests]
      BY <1>3, <1>r, DcapAssumption DEF GetCollateral, Fmspc, r
    <2>2. QED BY <1>3, <1>r, <2>1 DEF Good, CallRecords, CallInv, Fits, None
  <1>4. QED BY <1>p, <1>1, <1>2, <1>3

LEMMA PrepareInv ==
    ASSUME DcapInv, NEW c \in Callers, PrepareDcap(c) \/ PrepareOther(c)
    PROVE  DcapInv'
  <1>1. CASE PrepareDcap(c)
    <2>1. PICK q \in Quotes, source \in {"supplied", "fetch", "off"} :
            LET r == NewCall("dcap", q)
            IN  \/ \E why \in Reasons : Set(c, Refusing(r, why))
                \/ \E s \in GetCollateral(r) : Set(c, s)
                \/ \E p \in Platforms, next \in Lifetimes :
                      \E s \in Run(r, Acquired(p, next, "supplied")) : Set(c, s)
      BY <1>1 DEF PrepareDcap, Reasons
    <2> DEFINE r == NewCall("dcap", q)
    <2>r. /\ r \in CallRecords /\ Fits(r) /\ r.pending = {}
          /\ r.child = None /\ r.out = None /\ r.quote = q /\ ~r.late /\ ~r.verified
      BY NewCallGood
    <2> HIDE DEF r
    <2>u. UNCHANGED <<cache, now>> BY <1>1 DEF PrepareDcap
    <2>2. ASSUME NEW why \in Reasons, Set(c, Refusing(r, why)) PROVE DcapInv'
      <3>1. Good(Refusing(r, why)) BY <2>r, RefusingGood DEF None
      <3>2. QED BY <2>2, <2>u, <3>1, OneCall
    <2>3. ASSUME NEW s \in GetCollateral(r), Set(c, s) PROVE DcapInv'
      <3>1. Good(s) BY <2>3, GetCollateralGood DEF r
      <3>2. QED BY <2>3, <2>u, <3>1, OneCall
    <2>4. ASSUME NEW p \in Platforms, NEW next \in Lifetimes,
                 NEW s \in Run(r, Acquired(p, next, "supplied")), Set(c, s)
          PROVE  DcapInv'
      <3> DEFINE coll == Acquired(p, next, "supplied")
      <3>1. coll \in Collaterals /\ coll.from = "supplied"
        BY DcapAssumption, InvByCall DEF Acquired, Collaterals
      <3> HIDE DEF coll
      <3>2. Fits([r EXCEPT !.coll = coll]) BY <2>r, <3>1 DEF Fits, CallRecords
      <3>3. Good(s) BY <2>r, <2>4, <3>1, <3>2, RunGood DEF coll
      <3>4. QED BY <2>4, <2>u, <3>3, OneCall
    <2>5. QED BY <2>1, <2>2, <2>3, <2>4 DEF r
  <1>2. CASE PrepareOther(c)
    <2>u. UNCHANGED <<cache, now>> BY <1>2 DEF PrepareOther
    <2>1. PICK q \in Quotes :
            \/ \E s \in Spawn(NewCall("subprocess", q))
                         \cup {Refusing(NewCall("subprocess", q), "quote")} : Set(c, s)
            \/ Set(c, [NewCall("remote", q) EXCEPT !.pc = "remote"])
      BY <1>2 DEF PrepareOther
    <2>2. ASSUME NEW s \in Spawn(NewCall("subprocess", q))
                          \cup {Refusing(NewCall("subprocess", q), "quote")}
          PROVE  Good(s)
      <3> DEFINE r == NewCall("subprocess", q)
      <3>r. /\ r \in CallRecords /\ Fits(r) /\ r.pending = {}
            /\ r.child = None /\ r.out = None /\ r.quote = q /\ ~r.late /\ ~r.verified
        BY NewCallGood
      <3> HIDE DEF r
      <3>1. CASE s \in Spawn(r) BY <3>r, <3>1, SpawnGood
      <3>2. CASE s = Refusing(r, "quote") BY <3>r, <3>2, RefusingGood DEF Reasons, None
      <3>3. QED BY <2>2, <3>1, <3>2 DEF r
    <2>3. Good([NewCall("remote", q) EXCEPT !.pc = "remote"])
      <3> DEFINE r == NewCall("remote", q)
      <3>r. /\ Good(r) /\ r.pending = {} /\ r.child = None /\ r.out = None
            /\ r.quote = q /\ ~r.late /\ ~r.verified /\ r.refusal = None
        BY NewCallGood
      <3> HIDE DEF r
      <3>1. Good([r EXCEPT !.pc = "remote"])
        BY <3>r DEF Good, CallRecords, CallInv, Fits, None
      <3>2. QED BY <3>1 DEF r
    <2>4. QED BY <2>u, <2>1, <2>2, <2>3, OneCall
  <1>3. QED BY <1>1, <1>2

\* A step of the requests: one is answered, one fails, or the deadline passes.
LEMMA RequestInv ==
    ASSUME DcapInv, NEW c \in Callers,
           RequestDone(c) \/ RequestFails(c) \/ FetchTimeout(c)
    PROVE  DcapInv'
  <1> DEFINE r == call[c]
  <1>r. Good(r) BY InvByCall
  <1>1. CASE RequestDone(c)
    <2>1. PICK q \in r.pending : Set(c, [r EXCEPT !.pending = @ \ {q}])
      BY <1>1 DEF RequestDone
    <2>2. r.pc = "fetch" BY <1>1 DEF RequestDone
    <2>3. Good([r EXCEPT !.pending = @ \ {q}])
      <3> HIDE DEF r
      <3>1. [r EXCEPT !.pending = @ \ {q}] \in CallRecords
        BY <1>r DEF Good, CallRecords
      <3>2. QED BY <1>r, <2>2, <3>1 DEF Good, CallRecords, CallInv, Fits
    <2>4. QED BY <1>1, <2>1, <2>3, OneCall DEF RequestDone
  <1>2. CASE RequestFails(c)
    <2>1. PICK q \in r.pending :
             Set(c, [r EXCEPT !.pending = @ \ {q}, !.failed = TRUE, !.ctl = "aborted"])
      BY <1>2 DEF RequestFails
    <2>2. r.pc = "fetch" BY <1>2 DEF RequestFails
    <2>3. Good([r EXCEPT !.pending = @ \ {q}, !.failed = TRUE, !.ctl = "aborted"])
      <3> HIDE DEF r
      <3>1. [r EXCEPT !.pending = @ \ {q}, !.failed = TRUE, !.ctl = "aborted"] \in CallRecords
        BY <1>r DEF Good, CallRecords
      <3>2. QED BY <1>r, <2>2, <3>1 DEF Good, CallRecords, CallInv, Fits
    <2>4. QED BY <1>2, <2>1, <2>3, OneCall DEF RequestFails
  <1>3. CASE FetchTimeout(c)
    <2>1. r.pc = "fetch" BY <1>3 DEF FetchTimeout
    <2>2. Good([r EXCEPT !.ctl = "aborted", !.late = TRUE])
      <3> HIDE DEF r
      <3>1. [r EXCEPT !.ctl = "aborted", !.late = TRUE] \in CallRecords
        BY <1>r DEF Good, CallRecords
      <3>2. QED BY <1>r, <2>1, <3>1 DEF Good, CallRecords, CallInv, Fits
    <2>3. QED BY <1>3, <2>2, OneCall DEF FetchTimeout
  <1>4. QED BY <1>1, <1>2, <1>3

\* The acquisition settles; what it fetched goes to the cache, for the platform it
\* was fetched for.
LEMMA FetchSettlesInv ==
    ASSUME DcapInv, NEW c \in Callers, FetchSettles(c) PROVE DcapInv'
  <1> DEFINE r == call[c]
  <1>r. /\ r \in CallRecords /\ Fits(r) /\ r.pending = {} /\ r.child = None
        /\ r.out = None /\ r.quote \in Quotes /\ ~r.verified
        /\ Platform[r.quote] \in Platforms /\ (r.late => r.ctl = "aborted")
        /\ now' = now
    BY InvByCall DEF FetchSettles, Joined, Good, CallInv
  <1>1. ASSUME NEW why \in Reasons, Set(c, Refusing(r, why)), cache' = cache
        PROVE  DcapInv'
    <2>1. Good(Refusing(r, why)) BY <1>r, RefusingGood DEF None
    <2>2. QED BY <1>1, <1>r, <2>1, OneCall
  <1>2. ASSUME NEW next \in Lifetimes, ~r.late,
               NEW s \in Run(r, Acquired(Fmspc(r.quote), next, "fetch")), Set(c, s),
               cache' = [cache EXCEPT ![Fmspc(r.quote)]
                                        = Acquired(Fmspc(r.quote), next, "fetch")]
        PROVE  DcapInv'
    <2> DEFINE p == Platform[r.quote]
               coll == Acquired(p, next, "fetch")
    <2>1. coll \in Collaterals /\ coll.fmspc = p /\ coll.from = "fetch"
      BY <1>r, DcapAssumption, InvByCall DEF Acquired, Collaterals
    <2>c. cache' = [cache EXCEPT ![p] = coll] /\ s \in Run(r, coll) BY <1>2 DEF Fmspc
    <2> HIDE DEF coll
    <2>2. Fits([r EXCEPT !.coll = coll]) BY <1>r, <2>1 DEF Fits, CallRecords
    <2>3. Good(s) BY <1>r, <1>2, <2>1, <2>2, <2>c, RunGood
    <2>4. call' \in [Callers -> CallRecords] /\ \A d \in Callers : Good(call'[d])
      BY <1>2, <2>3, InvByCall DEF Set, Good
    <2>5. cache' \in [Platforms -> Collaterals] /\ CacheInv'
      BY <1>r, <2>1, <2>c, InvByCall DEF CacheInv
    <2>6. now' \in Nat BY <1>r, InvByCall
    <2>7. QED
      BY <2>4, <2>5, <2>6 DEF DcapInv, DcapTypeOK, CollateralFits, Good, Fits
  <1>3. CASE r.failed \/ r.ctl = "aborted"
    <2>1. /\ cache' = cache
          /\ \E why \in Reasons : Set(c, Refusing(r, why))
      BY <1>3, <1>r DEF FetchSettles, Reasons, CallRecords
    <2>2. QED BY <2>1, <1>1
  <1>4. CASE ~r.failed /\ r.ctl # "aborted"
    <2>1. ~r.late BY <1>4, <1>r
    <2>2. \E doc \in SignedDocuments :
             \/ doc = <<>> /\ Set(c, Refusing(r, "collateral")) /\ cache' = cache
             \/ /\ doc # <<>>
                /\ cache' = [cache EXCEPT ![Fmspc(r.quote)]
                                            = Acquired(Fmspc(r.quote), doc[1], "fetch")]
                /\ \E s \in Run(r, Acquired(Fmspc(r.quote), doc[1], "fetch")) : Set(c, s)
      BY <1>4 DEF FetchSettles, Acquired
    <2>3. PICK doc \in SignedDocuments :
             \/ doc = <<>> /\ Set(c, Refusing(r, "collateral")) /\ cache' = cache
             \/ /\ doc # <<>>
                /\ cache' = [cache EXCEPT ![Fmspc(r.quote)]
                                            = Acquired(Fmspc(r.quote), doc[1], "fetch")]
                /\ \E s \in Run(r, Acquired(Fmspc(r.quote), doc[1], "fetch")) : Set(c, s)
      BY <2>2
    <2>4. doc # <<>> => doc[1] \in Lifetimes BY DEF SignedDocuments
    <2>5. QED BY <1>1, <1>2, <2>1, <2>3, <2>4 DEF Reasons
  <1>5. QED BY <1>3, <1>4

\* The events of a child, and the deadlines and failures that cut it short.
LEMMA ChildInv ==
    ASSUME DcapInv, NEW c \in Callers,
           ChildPrints(c) \/ EngineTimeout(c) \/ StdinError(c) \/ Overflow(c)
             \/ ChildCloses(c) \/ SpawnError(c) \/ CloseAfterError(c)
    PROVE  DcapInv'
  <1> DEFINE r == call[c]
  <1>r. Good(r) /\ r \in CallRecords /\ CallInv(r) /\ Fits(r) BY InvByCall DEF Good
  <1>1. CASE ChildPrints(c)
    <2>1. PICK out \in {"garbage", "other", "verified", "refused"} :
             /\ Set(c, [r EXCEPT !.out = out])
             /\ out = "verified" => r.quote \in Genuine
      BY <1>1 DEF ChildPrints, EngineSays, WrapperSays
    <2>2. r.child = "running" BY <1>1 DEF ChildPrints
    <2>3. Good([r EXCEPT !.out = out])
      BY <1>r, <2>1, <2>2 DEF Good, CallRecords, CallInv, Fits, None
    <2>4. QED BY <1>1, <2>1, <2>3, OneCall DEF ChildPrints
  <1>2. CASE EngineTimeout(c) \/ StdinError(c) \/ Overflow(c)
    <2>1. /\ r.pc = "run" /\ r.adapter # "subprocess" /\ UNCHANGED <<cache, now>>
          /\ \E reason \in {"timeout", "stdin", "execution"} : Set(c, Cancel(r, reason))
      BY <1>2 DEF EngineTimeout, StdinError, Overflow, Dcap
    <2>2. QED BY <1>r, <2>1, CancelGood, OneCall
  <1>3. CASE ChildCloses(c)
    <2> DEFINE t == [r EXCEPT !.child = "closed", !.result = TRUE]
    <2>1. /\ r.pc = "run" /\ r.adapter # "subprocess" /\ UNCHANGED <<cache, now>>
          /\ Set(c, Settled(t))
      BY <1>3 DEF ChildCloses, Dcap
    <2>2. /\ t \in CallRecords /\ t.pc = "run" /\ t.pending = {} /\ t.child = "closed"
          /\ t.result /\ t.quote \in Quotes /\ t.adapter # "subprocess"
          /\ (t.out = "verified" => t.quote \in Genuine) /\ ~t.verified
          /\ (t.late => t.refusal # None) /\ Fits(t)
      <3>1. t \in CallRecords BY <1>r DEF CallRecords
      <3>2. /\ t.child = "closed" /\ t.result
            /\ t.pc = r.pc /\ t.pending = r.pending /\ t.quote = r.quote
            /\ t.adapter = r.adapter /\ t.out = r.out /\ t.verified = r.verified
            /\ t.late = r.late /\ t.refusal = r.refusal /\ t.coll = r.coll
        BY <1>r DEF CallRecords
      <3> HIDE DEF t
      <3>3. QED BY <1>r, <2>1, <3>1, <3>2 DEF CallInv, Fits
    <2> HIDE DEF t
    <2>3. Good(Settled(t)) BY <2>2, SettledGood
    <2>4. QED BY <2>1, <2>3, OneCall
  <1>4. CASE SpawnError(c)
    <2> DEFINE u == Cancel(r, "spawn")
               t == [u EXCEPT !.child = "gone", !.result = TRUE]
    <2>1. /\ r.pc = "run" /\ r.adapter # "subprocess" /\ UNCHANGED <<cache, now>>
          /\ Set(c, Settled(t))
      BY <1>4 DEF SpawnError, Dcap
    <2>2. Good(u) BY <1>r, <2>1, CancelGood
    <2>3. u.pc = "run" /\ u.adapter = r.adapter
      BY <1>r, <2>1 DEF Cancel, CallRecords
    <2> HIDE DEF u
    <2>4. /\ t \in CallRecords /\ t.pc = "run" /\ t.pending = {} /\ t.child = "gone"
          /\ t.result /\ t.quote \in Quotes /\ t.adapter # "subprocess"
          /\ (t.out = "verified" => t.quote \in Genuine) /\ ~t.verified
          /\ (t.late => t.refusal # None) /\ Fits(t)
      <3>1. t \in CallRecords BY <2>2 DEF Good, CallRecords
      <3>2. /\ t.child = "gone" /\ t.result
            /\ t.pc = u.pc /\ t.pending = u.pending /\ t.quote = u.quote
            /\ t.adapter = u.adapter /\ t.out = u.out /\ t.verified = u.verified
            /\ t.late = u.late /\ t.refusal = u.refusal /\ t.coll = u.coll
        BY <2>2 DEF Good, CallRecords
      <3> HIDE DEF t
      <3>3. QED BY <2>1, <2>2, <2>3, <3>1, <3>2 DEF Good, CallInv, Fits
    <2>5. Good(Settled(t))
      <3> HIDE DEF t
      <3>1. QED BY <2>4, SettledGood
    <2>6. QED BY <2>1, <2>5, OneCall
  <1>5. CASE CloseAfterError(c)
    <2> DEFINE t == [r EXCEPT !.child = "closed"]
    <2>1. /\ r.pc = "run" /\ r.adapter # "subprocess" /\ UNCHANGED <<cache, now>>
          /\ r.child = "gone" /\ Set(c, Settled(t))
      BY <1>5 DEF CloseAfterError, Dcap
    <2>2. /\ t \in CallRecords /\ t.pc = "run" /\ t.pending = {} /\ t.child = "closed"
          /\ t.quote \in Quotes /\ t.adapter # "subprocess" /\ t.result = r.result
          /\ (t.out = "verified" => t.quote \in Genuine) /\ ~t.verified
          /\ (t.late => t.refusal # None) /\ Fits(t)
      BY <1>r, <2>1 DEF CallRecords, CallInv, Fits
    <2>3. t.result BY <1>r, <2>1, <2>2 DEF CallInv
    <2> HIDE DEF t
    <2>4. Good(Settled(t)) BY <2>2, <2>3, SettledGood
    <2>5. QED BY <2>1, <2>4, OneCall
  <1>6. QED BY <1>1, <1>2, <1>3, <1>4, <1>5

\* A program of the caller's is asked to end, cannot be started, or has ended.
LEMMA WrapperInv ==
    ASSUME DcapInv, NEW c \in Callers,
           WrapperTimeout(c) \/ WrapperOverflow(c) \/ WrapperSpawnError(c)
             \/ WrapperCallback(c)
    PROVE  DcapInv'
  <1> DEFINE r == call[c]
  <1>r. Good(r) /\ r \in CallRecords /\ CallInv(r) /\ Fits(r) BY InvByCall DEF Good
  <1>u. r.pc = "run" /\ r.adapter = "subprocess" /\ UNCHANGED <<cache, now>>
    BY DEF WrapperTimeout, WrapperOverflow, WrapperSpawnError, WrapperCallback, Wrapper
  <1> DEFINE t == [r EXCEPT !.child = "closed"]
  <1>t. /\ t \in CallRecords /\ t.pc = "run" /\ t.pending = {} /\ t.child = "closed"
        /\ t.quote \in Quotes /\ (t.out = "verified" => t.quote \in Genuine)
        /\ t.adapter = "subprocess" /\ Fits(t)
    BY <1>r, <1>u DEF CallRecords, CallInv, Fits
  <1>1. CASE WrapperTimeout(c)
    <2> DEFINE s == [r EXCEPT !.child = "asked", !.late = TRUE]
    <2>1. Set(c, s) BY <1>1 DEF WrapperTimeout
    <2>2. Good(s) BY <1>r, <1>u DEF Good, CallRecords, CallInv, Fits
    <2>3. QED BY <1>u, <2>1, <2>2, OneCall
  <1>2. CASE WrapperOverflow(c)
    <2> DEFINE s == [r EXCEPT !.child = "asked", !.late = TRUE, !.refusal = "execution"]
    <2>1. Set(c, s) BY <1>2 DEF WrapperOverflow
    <2>2. Good(s) BY <1>r, <1>u DEF Good, CallRecords, CallInv, Fits
    <2>3. QED BY <1>u, <2>1, <2>2, OneCall
  <1>3. ASSUME NEW why \in Reasons, Set(c, Refusing(t, why)) PROVE DcapInv'
    <2>1. Good(Refusing(t, why)) BY <1>t, RefusingGood
    <2>2. QED BY <1>u, <1>3, <2>1, OneCall
  <1>4. CASE WrapperSpawnError(c)
    <2>1. Set(c, Refusing(t, "spawn")) BY <1>4 DEF WrapperSpawnError
    <2>2. QED BY <1>3, <2>1 DEF Reasons
  <1>5. CASE WrapperCallback(c)
    <2>1. PICK clean \in BOOLEAN :
             Set(c, IF ~Succeeds(clean, t) THEN Refusing(t, "execution")
                    ELSE IF t.out = "verified"
                    THEN [t EXCEPT !.pc = "done", !.verified = TRUE]
                    ELSE Refusing(t, "no_verdict"))
      BY <1>5 DEF WrapperCallback
    <2> HIDE DEF t
    <2>2. CASE Succeeds(clean, t) /\ t.out = "verified"
      <3>1. Good([t EXCEPT !.pc = "done", !.verified = TRUE])
        BY <1>t, <2>2 DEF Good, CallRecords, CallInv, Fits, Succeeds, None
      <3>2. QED BY <1>u, <2>1, <2>2, <3>1, OneCall
    <2>3. CASE ~(Succeeds(clean, t) /\ t.out = "verified")
      <3>1. Set(c, Refusing(t, "execution")) \/ Set(c, Refusing(t, "no_verdict"))
        BY <2>1, <2>3
      <3>2. QED BY <1>3, <3>1 DEF Reasons
    <2>4. QED BY <2>2, <2>3
  <1>6. QED BY <1>1, <1>2, <1>4, <1>5

\* The answer of the remote service.
LEMMA RemoteInv ==
    ASSUME DcapInv, NEW c \in Callers, RemoteAnswers(c)
    PROVE  DcapInv'
  <1> DEFINE r == call[c]
  <1>r. Good(r) /\ r \in CallRecords /\ CallInv(r) /\ Fits(r) BY InvByCall DEF Good
  <1>1. r.pc = "remote" /\ UNCHANGED <<cache, now>> BY DEF RemoteAnswers
  <1>2. PICK out \in {None, "garbage", "verified", "refused"} :
           /\ out = "verified" => r.quote \in Genuine
           /\ Set(c, [r EXCEPT !.pc = "done", !.out = out,
                               !.verified = (out = "verified"),
                               !.why = IF out = "verified" THEN None ELSE "service"])
    BY DEF RemoteAnswers, WrapperSays, None
  <1>3. PICK verified \in BOOLEAN, why \in {None, "service"} :
           /\ verified <=> out = "verified"
           /\ Set(c, [r EXCEPT !.pc = "done", !.out = out, !.verified = verified,
                               !.why = why])
    BY <1>2
  <1>4. Good([r EXCEPT !.pc = "done", !.out = out, !.verified = verified, !.why = why])
    <2> DEFINE t == [r EXCEPT !.pc = "done", !.out = out, !.verified = verified,
                              !.why = why]
    <2>1. t \in CallRecords
      <3>1. out \in {None, "garbage", "other", "verified", "refused"} OBVIOUS
      <3> DEFINE u == [r EXCEPT !.pc = "done", !.verified = verified]
      <3>2. u \in CallRecords BY <1>r DEF CallRecords
      <3>3. t = [u EXCEPT !.out = out, !.why = why] BY <1>r DEF CallRecords
      <3> HIDE DEF t, u
      <3>4. QED BY <3>1, <3>2, <3>3 DEF CallRecords
    <2>2. /\ t.pc = "done" /\ t.out = out /\ t.verified = verified
          /\ t.pending = r.pending /\ t.child = r.child /\ t.quote = r.quote
          /\ t.late = r.late /\ t.coll = r.coll /\ t.refusal = r.refusal
      BY <1>r DEF CallRecords
    <2>3. /\ r.pending = {} /\ r.child = None /\ r.quote \in Quotes
          /\ ~r.late /\ r.refusal = None
      BY <1>r, <1>1 DEF CallInv
    <2>4. CallInv(t) BY <1>2, <1>3, <2>2, <2>3 DEF CallInv
    <2>5. Fits(t) BY <1>r, <2>2 DEF Fits
    <2>6. QED BY <2>1, <2>4, <2>5 DEF Good
  <1>5. QED BY <1>1, <1>3, <1>4, OneCall

\* The caller's signal, while requests are pending or the child runs.
LEMMA AbortInv ==
    ASSUME DcapInv, NEW c \in Callers, Abort(c) PROVE DcapInv'
  <1> DEFINE r == [call[c] EXCEPT !.signal = "fired"]
  <1>0. Good(call[c]) /\ call[c] \in CallRecords BY InvByCall DEF Good
  <1>r. /\ Good(r) /\ r.pc = call[c].pc /\ r.adapter = "dcap"
        /\ UNCHANGED <<cache, now>>
    BY <1>0 DEF Abort, Good, CallRecords, CallInv, Fits
  <1>1. \/ r.pc = "fetch" /\ Set(c, [r EXCEPT !.ctl = "aborted", !.late = TRUE])
        \/ r.pc = "run" /\ Set(c, Cancel(r, "cancelled"))
    BY <1>r DEF Abort
  <1> HIDE DEF r
  <1>2. CASE r.pc = "fetch" /\ Set(c, [r EXCEPT !.ctl = "aborted", !.late = TRUE])
    <2>1. Good([r EXCEPT !.ctl = "aborted", !.late = TRUE])
      BY <1>r, <1>2 DEF Good, CallRecords, CallInv, Fits, None
    <2>2. QED BY <1>r, <1>2, <2>1, OneCall
  <1>3. CASE r.pc = "run" /\ Set(c, Cancel(r, "cancelled"))
    <2>1. Good(Cancel(r, "cancelled")) BY <1>r, <1>3, CancelGood
    <2>2. QED BY <1>r, <1>3, <2>1, OneCall
  <1>4. QED BY <1>1, <1>2, <1>3

----------------------------------------------------------------------------
(* The theorems                                                            *)

LEMMA DcapInitInv == DcapInit => DcapInv
  <1> SUFFICES ASSUME DcapInit PROVE DcapInv OBVIOUS
  <1>1. NoColl \in Collaterals /\ now \in Nat
    BY DEF DcapInit, NoColl, Collaterals, None
  <1>2. ASSUME NEW c \in Callers PROVE Good(call[c]) /\ call[c] \in CallRecords
    <2>1. call[c] = NewCall(None, CHOOSE q \in Quotes : TRUE) BY DEF DcapInit
    <2>2. call[c] \in CallRecords BY <1>1, <2>1 DEF NewCall, CallRecords, None
    <2>3. Fits(call[c]) /\ CallInv(call[c])
      BY <2>1 DEF Fits, CallInv, NewCall, NoColl, None
    <2>4. QED BY <2>2, <2>3 DEF Good
  <1>3. call \in [Callers -> CallRecords] BY <1>2 DEF DcapInit
  <1>4. cache \in [Platforms -> Collaterals] /\ CacheInv
    BY <1>1 DEF DcapInit, CacheInv
  <1>5. QED BY <1>1, <1>2, <1>3, <1>4, InvByCall

LEMMA DcapNextInv == DcapInv /\ [DcapNext]_dvars => DcapInv'
  <1> SUFFICES ASSUME DcapInv, [DcapNext]_dvars PROVE DcapInv' OBVIOUS
  <1>1. ASSUME NEW c \in Callers, PrepareDcap(c) \/ PrepareOther(c) PROVE DcapInv'
    BY <1>1, PrepareInv
  <1>2. ASSUME NEW c \in Callers, RequestDone(c) \/ RequestFails(c) \/ FetchTimeout(c)
        PROVE  DcapInv'
    BY <1>2, RequestInv
  <1>3. ASSUME NEW c \in Callers, FetchSettles(c) PROVE DcapInv'
    BY <1>3, FetchSettlesInv
  <1>4. ASSUME NEW c \in Callers,
               ChildPrints(c) \/ EngineTimeout(c) \/ StdinError(c) \/ Overflow(c)
                 \/ ChildCloses(c) \/ SpawnError(c) \/ CloseAfterError(c)
        PROVE  DcapInv'
    BY <1>4, ChildInv
  <1>5. ASSUME NEW c \in Callers,
               WrapperTimeout(c) \/ WrapperOverflow(c) \/ WrapperSpawnError(c)
                 \/ WrapperCallback(c)
        PROVE  DcapInv'
    BY <1>5, WrapperInv
  <1>10. ASSUME NEW c \in Callers, RemoteAnswers(c) PROVE DcapInv'
    BY <1>10, RemoteInv
  <1>6. ASSUME NEW c \in Callers, Abort(c) PROVE DcapInv'
    BY <1>6, AbortInv
  <1>7. CASE Tick
    <2>1. now' \in Nat BY <1>7 DEF Tick, DcapInv, DcapTypeOK
    <2>2. QED
      BY <1>7, <2>1 DEF Tick, DcapInv, DcapTypeOK, CollateralFits, CacheInv
  <1>8. CASE UNCHANGED dvars
    BY <1>8 DEF dvars, DcapInv, DcapTypeOK, CollateralFits, CacheInv
  <1>9. QED
    BY <1>1, <1>2, <1>3, <1>4, <1>5, <1>6, <1>7, <1>8, <1>10 DEF DcapNext

\* The invariant of the chain verifiers: each call by itself is in a state its
\* place allows, and the shared cache files collateral under its own platform
\* (engine.ts, collateral.ts, chain-verifiers.ts).
THEOREM DcapInductive == DcapSpec => []DcapInv
  BY DcapInitInv, DcapNextInv, PTL DEF DcapSpec

\* "verified" is only ever said of a genuine quote, on the word of a run that was
\* not spoilt: no abort, timeout or overflow can turn late stdout of the engine into
\* an accepted verdict (runDcapEngine), and no error of execFile that of a caller's
\* program (chain-verifiers.ts).
THEOREM AlwaysEarned == DcapSpec => []EarnedVerdict
  <1>1. DcapInv => EarnedVerdict
    BY DEF DcapInv, CallInv, EarnedVerdict, VerifyChain
  <1>2. QED BY <1>1, DcapInductive, PTL

\* prepare returns with its child closed and its requests joined, on every path.
THEOREM NothingLeft == DcapSpec => []NothingLeftBehind
  <1>1. DcapInv => NothingLeftBehind
    BY DEF DcapInv, CallInv, NothingLeftBehind
  <1>2. QED BY <1>1, DcapInductive, PTL

\* Whatever callers share the cache, an engine is given collateral of its quote's
\* platform that has not expired.
THEOREM AlwaysFits == DcapSpec => []CollateralFits
  <1>1. DcapInv => CollateralFits BY DEF DcapInv
  <1>2. QED BY <1>1, DcapInductive, PTL
=============================================================================
