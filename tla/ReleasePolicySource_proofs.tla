--------------------- MODULE ReleasePolicySource_proofs ---------------------
(* Proofs about ReleasePolicySource, for any processes, callers and signed *)
(* policies; the store it is composed with brings its own invariant.       *)
EXTENDS ReleasePolicySource, PolicyStateStore_proofs

----------------------------------------------------------------------------
(* Sequences and releases                                                  *)

LEMMA TailFacts ==
    ASSUME NEW S, NEW s \in Seq(S), s # <<>>
    PROVE  /\ Tail(s) \in Seq(S) /\ Head(s) = s[1] /\ Len(s) \in Nat \ {0}
           /\ DOMAIN s = 1..Len(s) /\ DOMAIN Tail(s) = 1..(Len(s) - 1)
           /\ \A i \in 1..(Len(s) - 1) : Tail(s)[i] = s[i + 1]
  OBVIOUS

LEMMA AppendFacts ==
    ASSUME NEW S, NEW s \in Seq(S), NEW x \in S
    PROVE  /\ Append(s, x) \in Seq(S) /\ Len(s) \in Nat
           /\ DOMAIN s = 1..Len(s) /\ DOMAIN Append(s, x) = 1..(Len(s) + 1)
           /\ \A i \in 1..Len(s) : Append(s, x)[i] = s[i]
           /\ Append(s, x)[Len(s) + 1] = x
           /\ s # <<>> => Head(Append(s, x)) = Head(s) /\ Head(s) = s[1]
           /\ s = <<>> => Head(Append(s, x)) = x
  OBVIOUS

\* A signed release's digest is a checkpoint, and no held release is None.
LEMMA Releases ==
    /\ \A r \in Signed : /\ Digest(r) \in Checkpoints /\ Digest(r).seq = r.seq
                         /\ Digest(r).sha = r.sha /\ r.seq \in Nat \ {0}
    /\ NoRelease.seq = 0 /\ None.release = NoRelease
    /\ \A h \in Held : /\ h # None /\ h.release \in Signed /\ h.at \in 0..MaxTime
  <1>1. /\ \A r \in Signed : /\ Digest(r) \in Checkpoints /\ Digest(r).seq = r.seq
                             /\ Digest(r).sha = r.sha
    BY SourceAssumption DEF Digest
  <1>2. \A a \in Checkpoints : a.seq \in Nat \ {0} BY StoreAssumption
  <1>3. \A r \in Signed : r.seq \in Nat \ {0} BY <1>1, <1>2
  <1>4. NoRelease.seq = 0 /\ None.release = NoRelease BY DEF NoRelease, None
  <1>5. \A h \in Held : h.release \in Signed /\ h.at \in 0..MaxTime BY DEF Held
  <1>6. \A h \in Held : h # None
    <2>1. NoRelease \notin Signed BY <1>3, <1>4
    <2>2. QED BY <1>4, <1>5, <2>1
  <1>7. QED BY <1>1, <1>3, <1>4, <1>5, <1>6

\* What a process holds.
LEMMA HeldFacts ==
    ASSUME SourceTypeOK, NEW p \in Processes, cached[p] # None
    PROVE  /\ cached[p] \in Held /\ cached[p].release \in Signed
           /\ Digest(cached[p].release) \in Checkpoints
  BY Releases DEF SourceTypeOK

----------------------------------------------------------------------------
(* The shapes that actions share                                           *)

\* A resolve settles and unlocks the tail.
Ends(c) == /\ call[c].pc # "idle" /\ TailFree(c)
           /\ call' = [call EXCEPT ![c] = AtRest]
           /\ queue' = [queue EXCEPT ![Process[c]] = Tail(@)]

\* A resolve at the head of the queue goes on.
Moves(c) == /\ call[c].pc # "idle" /\ TailFree(c)
            /\ \A d \in Callers : d # c => call'[d] = call[d]
            /\ call'[c].pc \in {"fetching", "observing"}
            /\ UNCHANGED queue

\* Head and members of the queue of a caller that is not idle.
LEMMA InQueue ==
    ASSUME SourceTypeOK, QueueInv, NEW c \in Callers, call[c].pc # "idle"
    PROVE  /\ Process[c] \in Processes /\ queue[Process[c]] \in Seq(Callers)
           /\ queue[Process[c]] # <<>>
  <1>1. Process[c] \in Processes BY SourceAssumption
  <1>2. queue[Process[c]] \in Seq(Callers) BY <1>1 DEF SourceTypeOK
  <1>3. \E i \in DOMAIN queue[Process[c]] : TRUE BY DEF QueueInv
  <1>4. QED BY <1>1, <1>2, <1>3

\* The next resolve has its turn only when the head has settled.
LEMMA EndsQueue ==
    ASSUME SourceTypeOK, QueueInv, NEW c \in Callers, Ends(c)
    PROVE  QueueInv' /\ queue' \in [Processes -> Seq(Callers)]
  <1> DEFINE pr == Process[c]
             s == queue[pr]
  <1>0. pr \in Processes /\ s \in Seq(Callers) /\ s # <<>> BY InQueue DEF Ends
  <1>1. /\ Tail(s) \in Seq(Callers) /\ Head(s) = s[1] /\ Len(s) \in Nat \ {0}
        /\ DOMAIN s = 1..Len(s) /\ DOMAIN Tail(s) = 1..(Len(s) - 1)
        /\ \A i \in 1..(Len(s) - 1) : Tail(s)[i] = s[i + 1]
    BY <1>0, TailFacts
  <1>2. s[1] = c BY <1>1 DEF Ends, TailFree
  <1>3. /\ queue'[pr] = Tail(s)
        /\ \A p \in Processes : p # pr => queue'[p] = queue[p]
        /\ call'[c].pc = "idle" /\ \A d \in Callers : d # c => call'[d] = call[d]
    BY <1>0 DEF Ends, SourceTypeOK, AtRest
  <1>4. queue' \in [Processes -> Seq(Callers)]
    BY <1>0, <1>1 DEF Ends, SourceTypeOK
  <1>5. \A p \in Processes : queue[p] \in Seq(Callers) BY DEF SourceTypeOK
  <1>6. ASSUME NEW p \in Processes, NEW i \in DOMAIN queue'[p], NEW j \in DOMAIN queue'[p]
        PROVE  /\ Process[queue'[p][i]] = p /\ call'[queue'[p][i]].pc # "idle"
               /\ queue'[p][i] = queue'[p][j] => i = j
    <2>1. CASE p # pr
      <3>1. queue'[p] = queue[p] BY <1>3, <2>1
      <3>2. queue[p][i] \in Callers BY <1>5, <3>1
      <3>3. queue[p][i] # c BY <2>1, <3>1 DEF QueueInv
      <3>4. QED BY <1>3, <3>1, <3>2, <3>3 DEF QueueInv
    <2>2. CASE p = pr
      <3>1. /\ i + 1 \in DOMAIN s /\ j + 1 \in DOMAIN s /\ 1 \in DOMAIN s
            /\ i + 1 # 1 /\ i \in Nat /\ j \in Nat
            /\ queue'[p][i] = s[i + 1] /\ queue'[p][j] = s[j + 1]
        <4>1. i \in 1..(Len(s) - 1) /\ j \in 1..(Len(s) - 1) BY <1>1, <1>3, <2>2
        <4>2. /\ i + 1 \in 1..Len(s) /\ j + 1 \in 1..Len(s) /\ 1 \in 1..Len(s)
              /\ i + 1 # 1 /\ i \in Nat /\ j \in Nat
          BY <1>1, <4>1
        <4>3. QED BY <1>1, <1>3, <2>2, <4>1, <4>2
      <3>2. s[i + 1] \in Callers BY <1>0, <1>1, <3>1
      <3>3. s[i + 1] # c BY <1>0, <1>2, <3>1 DEF QueueInv
      <3>4. /\ Process[s[i + 1]] = p /\ call[s[i + 1]].pc # "idle"
            /\ s[i + 1] = s[j + 1] => i + 1 = j + 1
        BY <1>0, <2>2, <3>1 DEF QueueInv
      <3>5. QED BY <1>3, <3>1, <3>2, <3>3, <3>4
    <2>3. QED BY <2>1, <2>2
  <1>7. ASSUME NEW d \in Callers, call'[d].pc # "idle"
        PROVE  /\ \E i \in DOMAIN queue'[Process[d]] : queue'[Process[d]][i] = d
               /\ call'[d].pc \in {"fetching", "observing"} => TailFree(d)'
    <2>1. d # c /\ call'[d] = call[d] /\ Process[d] \in Processes
      BY <1>3, <1>7, SourceAssumption
    <2>2. PICK i \in DOMAIN queue[Process[d]] : queue[Process[d]][i] = d
      BY <1>7, <2>1 DEF QueueInv
    <2>3. CASE Process[d] # pr
      BY <1>3, <2>1, <2>2, <2>3 DEF QueueInv, TailFree
    <2>4. CASE Process[d] = pr
      <3>1. i \in 1..Len(s) /\ s[i] = d /\ i # 1 BY <1>1, <1>2, <2>1, <2>2, <2>4
      <3>2. i - 1 \in DOMAIN Tail(s) /\ Tail(s)[i - 1] = d
        <4>1. i - 1 \in 1..(Len(s) - 1) /\ (i - 1) + 1 = i BY <1>1, <3>1
        <4> HIDE DEF s
        <4>2. Tail(s)[i - 1] = s[i] BY <1>1, <4>1
        <4>3. QED BY <1>1, <3>1, <4>1, <4>2
      <3>3. ~(call[d].pc \in {"fetching", "observing"})
        BY <1>1, <1>2, <2>1, <2>4 DEF QueueInv, TailFree
      <3>4. QED BY <1>3, <2>1, <2>4, <3>2, <3>3
    <2>5. QED BY <2>3, <2>4
  <1>8. QED BY <1>4, <1>6, <1>7 DEF QueueInv

\* A resolve that moves on keeps its place at the head.
LEMMA MovesQueue ==
    ASSUME SourceTypeOK, QueueInv, NEW c \in Callers, Moves(c)
    PROVE  QueueInv'
  <1>1. \A d \in Callers : call'[d].pc # "idle" <=> call[d].pc # "idle"
    BY DEF Moves
  <1>2. \A p \in Processes : \A i \in DOMAIN queue[p] : queue[p][i] \in Callers
    BY DEF SourceTypeOK
  <1>3. queue' = queue BY DEF Moves
  <1>4. \A d \in Callers : call'[d].pc \in {"fetching", "observing"} => TailFree(d)'
    BY <1>3 DEF Moves, QueueInv, TailFree
  <1>5. QED BY <1>1, <1>2, <1>3, <1>4 DEF QueueInv

\* A resolve that is called waits behind the others.
LEMMA ResolveQueue ==
    ASSUME SourceTypeOK, QueueInv, NEW c \in Callers, Resolve(c)
    PROVE  QueueInv' /\ queue' \in [Processes -> Seq(Callers)]
  <1> DEFINE pr == Process[c]
             s == queue[pr]
  <1>0. pr \in Processes /\ s \in Seq(Callers) BY SourceAssumption DEF SourceTypeOK
  <1>1. /\ Append(s, c) \in Seq(Callers) /\ Len(s) \in Nat
        /\ DOMAIN s = 1..Len(s) /\ DOMAIN Append(s, c) = 1..(Len(s) + 1)
        /\ \A i \in 1..Len(s) : Append(s, c)[i] = s[i]
        /\ Append(s, c)[Len(s) + 1] = c
        /\ s # <<>> => Head(Append(s, c)) = Head(s)
    BY <1>0, AppendFacts
  <1>2. /\ queue'[pr] = Append(s, c)
        /\ \A p \in Processes : p # pr => queue'[p] = queue[p]
        /\ call[c].pc = "idle" /\ call'[c].pc = "waiting"
        /\ \A d \in Callers : d # c => call'[d] = call[d]
    BY <1>0 DEF Resolve, SourceTypeOK
  <1>3. queue' \in [Processes -> Seq(Callers)] BY <1>0, <1>1 DEF Resolve, SourceTypeOK
  <1>4. \A p \in Processes : \A i \in DOMAIN queue[p] :
           /\ queue[p][i] \in Callers /\ queue[p][i] # c
    BY <1>2 DEF SourceTypeOK, QueueInv
  <1>5. ASSUME NEW p \in Processes, NEW i \in DOMAIN queue'[p], NEW j \in DOMAIN queue'[p]
        PROVE  /\ Process[queue'[p][i]] = p /\ call'[queue'[p][i]].pc # "idle"
               /\ queue'[p][i] = queue'[p][j] => i = j
    <2>1. CASE p # pr BY <1>2, <1>4, <2>1 DEF QueueInv
    <2>2. CASE p = pr
      <3>1. \A k \in DOMAIN queue'[p] :
               \/ k \in DOMAIN s /\ queue'[p][k] = s[k]
               \/ k = Len(s) + 1 /\ queue'[p][k] = c
        <4>1. queue'[p] = Append(s, c) BY <1>2, <2>2
        <4>2. \A k \in 1..(Len(s) + 1) : k \in 1..Len(s) \/ k = Len(s) + 1
          BY <1>1
        <4> HIDE DEF s
        <4>3. QED BY <1>1, <4>1, <4>2
      <3>2. \A k \in DOMAIN s : /\ Process[s[k]] = pr /\ s[k] \in Callers
                                 /\ s[k] # c /\ call[s[k]].pc # "idle"
        BY <1>0, <1>4 DEF QueueInv
      <3>3. \A k, l \in DOMAIN s : s[k] = s[l] => k = l BY <1>0 DEF QueueInv
      <3>4. queue'[p][i] = queue'[p][j] => i = j BY <3>1, <3>2, <3>3
      <3>5. ASSUME i \in DOMAIN s, queue'[p][i] = s[i]
            PROVE  Process[queue'[p][i]] = p /\ call'[queue'[p][i]].pc # "idle"
        BY <1>2, <2>2, <3>2, <3>5
      <3>6. QED BY <1>2, <2>2, <3>1, <3>4, <3>5
    <2>3. QED BY <2>1, <2>2
  <1>6. ASSUME NEW d \in Callers, call'[d].pc # "idle"
        PROVE  /\ \E i \in DOMAIN queue'[Process[d]] : queue'[Process[d]][i] = d
               /\ call'[d].pc \in {"fetching", "observing"} => TailFree(d)'
    <2>1. CASE d = c
      <3>1. Len(s) + 1 \in DOMAIN queue'[pr] /\ queue'[pr][Len(s) + 1] = c
        BY <1>1, <1>2
      <3>2. QED BY <1>2, <2>1, <3>1
    <2>2. CASE d # c
      <3>1. call'[d] = call[d] /\ Process[d] \in Processes
        BY <1>2, <2>2, SourceAssumption
      <3>2. PICK i \in DOMAIN queue[Process[d]] : queue[Process[d]][i] = d
        BY <1>6, <3>1 DEF QueueInv
      <3>3. CASE Process[d] # pr
        BY <1>2, <3>1, <3>2, <3>3 DEF QueueInv, TailFree
      <3>4. CASE Process[d] = pr
        <4>1. i \in DOMAIN queue'[pr] /\ queue'[pr][i] = d
          BY <1>1, <1>2, <3>2, <3>4
        <4>2. s # <<>> BY <1>1, <3>2, <3>4
        <4>3. call[d].pc \in {"fetching", "observing"} => Head(s) = d
          BY <3>4 DEF QueueInv, TailFree
        <4>4. QED BY <1>1, <1>2, <3>1, <3>4, <4>1, <4>2, <4>3 DEF TailFree
      <3>5. QED BY <3>3, <3>4
    <2>3. QED BY <2>1, <2>2
  <1>7. QED BY <1>3, <1>5, <1>6 DEF QueueInv

----------------------------------------------------------------------------
(* The store inside the composition                                        *)

\* Every step of the source is a step of the store, or leaves it alone.
LEMMA SourceStoreStep ==
    ASSUME SourceTypeOK, ObserveInv, [SourceNext]_pvars PROVE [StoreNext]_svars
  <1>1. ASSUME NEW c \in Callers, Resolve(c) PROVE UNCHANGED svars
    BY <1>1 DEF Resolve
  <1>2. ASSUME NEW c \in Callers, Turn(c) \/ ResolveRefused(c) \/ FeedOffline(c)
                 \/ FeedOversize(c) \/ FeedRefused(c)
        PROVE  UNCHANGED svars
    BY <1>2 DEF Turn, ResolveRefused, FeedOffline, FeedOversize, FeedRefused, Offline
  <1>3. ASSUME NEW c \in Callers, FeedAnswers(c)
        PROVE  UNCHANGED svars \/ \E cp \in Checkpoints : Observe(c, cp)
    BY <1>3, Releases DEF FeedAnswers
  <1>4. ASSUME NEW c \in Callers, StoreWorks(c) PROVE StoreStep(c)
    BY <1>4 DEF StoreWorks
  <1>5. ASSUME NEW c \in Callers, Accept(c) \/ StoreRefused(c) PROVE Return(c)
    BY <1>5 DEF Accept, StoreRefused, Persisted, Return
  <1>6. ASSUME NEW p \in Processes, ProcessDies(p)
        PROVE  \E killed \in SUBSET Callers : Kill(killed)
    BY <1>6 DEF ProcessDies
  <1>7. MachineFalls => PowerLoss BY DEF MachineFalls
  <1>8. Tick => UNCHANGED svars BY DEF Tick
  <1>9. UNCHANGED pvars => UNCHANGED svars BY DEF pvars
  <1>10. QED
    BY <1>1, <1>2, <1>3, <1>4, <1>5, <1>6, <1>7, <1>8, <1>9
    DEF SourceNext, Work, StoreNext

\* What one step of an observe does to the caller's job and to the file.
LEMMA StoreStepEffects ==
    ASSUME StoreInv, NEW c \in Callers, StoreStep(c)
    PROVE  /\ \A d \in Callers : d # c => job'[d] = job[d]
           /\ job'[c].cp = job[c].cp /\ job'[c].pc # "idle"
           /\ Seen(c)' => Seen(c) \/ (job[c].cp = disk /\ disk' = disk)
           /\ disk' = disk \/ (disk' = job[c].cp /\ job[c].cp.seq > disk.seq)
           /\ (Seen(c) \/ job[c].pc \in {"writing", "renaming", "syncing"})'
              => \/ Seen(c) \/ job[c].pc \in {"writing", "renaming", "syncing"}
                 \/ job[c].cp.seq >= disk.seq
           /\ durable' = durable \/ durable' = disk
  <1> USE DEF Step, Leave, Seen
  <1>t. /\ StoreTypeOK /\ job[c].cp \in Checkpoints \cup {NoFile}
        /\ disk \in Checkpoints \cup {NoFile}
        /\ disk.seq \in Nat /\ job[c].cp.seq \in Nat /\ job[c].ok \in BOOLEAN
    BY CheckpointTypes DEF StoreInv, StoreTypeOK, Jobs
  <1>1. CASE TakeLock(c) \/ LockUnavailable(c)
    <2>1. /\ job'[c].pc \in {"reading", "refused"} /\ job'[c].cp = job[c].cp
          /\ \A d \in Callers : d # c => job'[d] = job[d]
          /\ UNCHANGED <<disk, durable>>
      BY <1>1, <1>t, JobStep DEF TakeLock, LockUnavailable
    <2>2. QED BY <2>1
  <1>r. ASSUME NEW ok \in BOOLEAN, Leave(c, ok), UNCHANGED disk,
               durable' = durable \/ durable' = disk,
               ok => job[c].cp = disk
        PROVE  /\ \A d \in Callers : d # c => job'[d] = job[d]
               /\ job'[c].cp = job[c].cp /\ job'[c].pc # "idle"
               /\ Seen(c)' => Seen(c) \/ (job[c].cp = disk /\ disk' = disk)
               /\ (Seen(c) \/ job[c].pc \in {"writing", "renaming", "syncing"})'
                  => \/ Seen(c) \/ job[c].pc \in {"writing", "renaming", "syncing"}
                     \/ job[c].cp.seq >= disk.seq
    <2>1. /\ job'[c].pc = "releasing" /\ job'[c].cp = job[c].cp
          /\ \A d \in Callers : d # c => job'[d] = job[d]
      BY <1>r, <1>t, JobStep
    <2>2. job'[c].ok = ok BY <1>r, <1>t DEF StoreTypeOK, Jobs
    <2>3. Seen(c)' <=> ok BY <1>r, <2>1, <2>2
    <2>4. ok => job[c].cp.seq >= disk.seq BY <1>r, <1>t
    <2>5. QED BY <1>r, <2>1, <2>3, <2>4
  <1>2. CASE ReadState(c)
    <2>0. job[c].pc = "reading" /\ UNCHANGED <<disk, durable, lock>>
      BY <1>2 DEF ReadState
    <2>1. CASE Leave(c, FALSE) BY <1>r, <2>0, <2>1
    <2>2. CASE /\ disk # NoFile /\ Allows(disk, job[c].cp)
               /\ disk.seq = job[c].cp.seq /\ Leave(c, TRUE)
      <3>1. job[c].cp # NoFile BY <1>t, <2>2, CheckpointTypes
      <3>2. job[c].cp \in [seq : Nat \ {0}, sha : Nat]
            /\ disk \in [seq : Nat \ {0}, sha : Nat]
        BY <1>t, <2>2, <3>1, StoreAssumption
      <3>3. disk = job[c].cp BY <2>2, <3>2 DEF Allows
      <3>4. QED BY <1>r, <2>0, <2>2, <3>3
    <2>3. CASE /\ disk = NoFile
                  \/ (Allows(disk, job[c].cp) /\ disk.seq # job[c].cp.seq)
               /\ Step(c, "writing")
      <3>1. /\ job'[c].pc = "writing" /\ job'[c].cp = job[c].cp
            /\ \A d \in Callers : d # c => job'[d] = job[d]
        BY <1>t, <2>3, JobStep
      <3>2. job[c].cp.seq >= disk.seq BY <1>t, <2>3, CheckpointTypes DEF Allows
      <3>3. QED BY <2>0, <3>1, <3>2
    <2>4. QED BY <1>2, <2>1, <2>2, <2>3 DEF ReadState
  <1>3. CASE WriteTemp(c)
    <2>0. job[c].pc = "writing" /\ UNCHANGED <<disk, durable, lock>>
      BY <1>3 DEF WriteTemp
    <2>1. CASE Leave(c, FALSE) BY <1>r, <2>0, <2>1
    <2>2. CASE Step(c, "renaming") BY <2>0, <2>2, <1>t, JobStep
    <2>3. QED BY <1>3, <2>1, <2>2 DEF WriteTemp
  <1>4. CASE Rename(c)
    <2>0. /\ job[c].pc = "renaming" /\ UNCHANGED durable
          /\ job[c].cp.seq > disk.seq
      BY <1>4 DEF Rename, StoreInv, LockInv
    <2>1. CASE UNCHANGED disk /\ Leave(c, FALSE) BY <1>r, <2>0, <2>1
    <2>2. CASE disk' = job[c].cp /\ Step(c, "syncing") BY <2>0, <2>2, <1>t, JobStep
    <2>3. QED BY <1>4, <2>1, <2>2 DEF Rename
  <1>5. CASE SyncDirectory(c)
    <2>1. job[c].pc = "syncing" /\ UNCHANGED disk /\ job[c].cp = disk
      BY <1>5 DEF SyncDirectory, StoreInv, LockInv
    <2>2. durable' = durable \/ durable' = disk
      BY <1>5 DEF SyncDirectory, Synced
    <2>3. Leave(c, TRUE) \/ Leave(c, FALSE) BY <1>5 DEF SyncDirectory
    <2>4. QED BY <1>r, <2>1, <2>2, <2>3
  <1>6. CASE ReleaseLock(c)
    <2>1. /\ job'[c].pc = "refused" \/ (job'[c].pc = "observed" /\ job[c].ok)
          /\ job'[c].cp = job[c].cp /\ job[c].pc = "releasing"
          /\ \A d \in Callers : d # c => job'[d] = job[d]
          /\ UNCHANGED <<disk, durable>>
      BY <1>6, <1>t, JobStep DEF ReleaseLock
    <2>2. QED BY <2>1
  <1>7. QED
    BY <1>1, <1>2, <1>3, <1>4, <1>5, <1>6 DEF StoreStep

----------------------------------------------------------------------------
(* How a resolve ends                                                      *)

\* What the end of a resolve leaves: the caller at rest, the tail unlocked, and
\* perhaps an approval given, which raises the highest sequence given.
EndsWith(c, held, why) ==
    /\ call' = [call EXCEPT ![c] = AtRest]
    /\ queue' = [queue EXCEPT ![Process[c]] = Tail(@)]
    /\ \/ UNCHANGED <<got, top>>
       \/ /\ got' = [got EXCEPT ![c] = [release |-> held.release, why |-> why,
                                        floor |-> call[c].floor]]
          /\ top' \in Nat /\ top' >= top /\ top' >= held.release.seq
          /\ top' \in {top, held.release.seq}

LEMMA GiveEnds ==
    ASSUME SourceTypeOK, NEW c \in Callers, NEW held \in Held, NEW why,
           Refuse(c) \/ Give(c, held, why)
    PROVE  EndsWith(c, held, why)
  <1>1. held.release.seq \in Nat /\ top \in Nat BY Releases DEF SourceTypeOK
  <1>2. CASE Refuse(c) BY <1>2 DEF Refuse, Unlocked, EndsWith
  <1>3. CASE Give(c, held, why)
    BY <1>1, <1>3 DEF Give, Refuse, Unlocked, EndsWith
  <1>4. QED BY <1>2, <1>3

LEMMA RefuseEnds ==
    ASSUME NEW c \in Callers, Refuse(c)
    PROVE  \A held, why : EndsWith(c, held, why)
  BY DEF Refuse, Unlocked, EndsWith

\* Every step of a resolve that has its turn ends it, moves it on, or is a step of
\* the store.
LEMMA WorkCases ==
    ASSUME SourceInv, NEW c \in Callers, Work(c)
    PROVE  /\ call[c].pc # "idle" /\ TailFree(c)
           /\ UNCHANGED <<now, resolves, falls>>
           /\ \/ \E held \in Held, why \in {"recent", "offline", "oversize"} :
                    /\ Refuse(c) \/ (held = cached[Process[c]] /\ Give(c, held, why))
                    /\ call[c].pc # "observing" /\ UNCHANGED <<svars, cached>>
              \/ Refuse(c) /\ call[c].pc # "observing" /\ UNCHANGED <<svars, cached>>
              \/ /\ call[c].pc = "waiting" /\ UNCHANGED <<svars, cached, queue, got, top>>
                 /\ call' = [call EXCEPT ![c].pc = "fetching", ![c].floor = top]
              \/ \E r \in Signed :
                    /\ call[c].pc = "fetching" /\ MayFollow(cached[Process[c]], r)
                    /\ Observe(c, Digest(r)) /\ UNCHANGED <<cached, queue, got, top>>
                    /\ call' = [call EXCEPT ![c].pc = "observing", ![c].release = r]
              \/ StoreWorks(c)
              \/ Accept(c)
              \/ StoreRefused(c)
  <1>1. call[c].pc # "idle" /\ TailFree(c)
    BY DEF Work, SourceInv, QueueInv, Turn, ResolveRefused, FeedOffline,
      FeedOversize, FeedRefused, Offline, FeedAnswers, StoreWorks, Accept, StoreRefused
  <1>2. UNCHANGED <<now, resolves, falls>>
    BY DEF Work, Turn, ResolveRefused, FeedOffline, FeedOversize, FeedRefused,
      Offline, FeedAnswers, StoreWorks, Accept, StoreRefused, rvars
  <1>3. cached[Process[c]] \in Held \cup {None}
    BY SourceAssumption DEF SourceInv, SourceTypeOK
  <1>4. CASE Turn(c)
    BY <1>1, <1>2, <1>3, <1>4 DEF Turn
  <1>5. CASE FeedOffline(c) \/ FeedOversize(c)
    BY <1>1, <1>2, <1>3, <1>5 DEF FeedOffline, FeedOversize, Offline
  <1>6. CASE ResolveRefused(c) \/ FeedRefused(c)
    BY <1>1, <1>2, <1>6 DEF ResolveRefused, FeedRefused
  <1>7. CASE FeedAnswers(c)
    BY <1>1, <1>2, <1>7 DEF FeedAnswers
  <1>8. CASE StoreWorks(c) \/ Accept(c) \/ StoreRefused(c)
    BY <1>1, <1>2, <1>8
  <1>9. QED BY <1>4, <1>5, <1>6, <1>7, <1>8 DEF Work

----------------------------------------------------------------------------
(* What each conjunct of the invariant needs of a step                     *)

\* The sequences of the store are numbers.
LEMMA Numbers ==
    ASSUME SourceTypeOK, StoreInv
    PROVE  /\ disk \in Checkpoints \cup {NoFile} /\ durable \in Checkpoints \cup {NoFile}
           /\ disk.seq \in Nat /\ durable.seq \in Nat /\ top \in Nat
           /\ \A c \in Callers : /\ job[c].cp \in Checkpoints \cup {NoFile}
                                 /\ job[c].cp.seq \in Nat /\ call[c].floor \in Nat
           /\ Follows(durable, disk) /\ disk.seq >= durable.seq
  <1>1. /\ disk \in Checkpoints \cup {NoFile} /\ durable \in Checkpoints \cup {NoFile}
        /\ \A c \in Callers : job[c].cp \in Checkpoints \cup {NoFile}
        /\ Follows(durable, disk)
    BY DEF StoreInv, StoreTypeOK, Jobs, DurableInv
  <1>2. disk.seq \in Nat /\ durable.seq \in Nat BY <1>1, CheckpointTypes
  <1>3. \A c \in Callers : job[c].cp.seq \in Nat BY <1>1, CheckpointTypes
  <1>4. top \in Nat /\ \A c \in Callers : call[c].floor \in Nat BY DEF SourceTypeOK
  <1>5. QED BY <1>1, <1>2, <1>3, <1>4 DEF Follows

\* A step of one caller that has its turn leaves the observes of the others alone:
\* whoever observes for the same process would be at the same head of the queue.
LEMMA ObserveKept ==
    ASSUME SourceInv, NEW c \in Callers, call[c].pc # "idle", TailFree(c),
           \A d \in Callers : d # c => call'[d] = call[d] /\ job'[d] = job[d],
           \A p \in Processes : p # Process[c] => cached'[p] = cached[p],
           call'[c].pc # "observing" => job'[c] = Idle,
           call'[c].pc = "observing" =>
              /\ call'[c].release \in Signed
              /\ job'[c].pc # "idle" /\ job'[c].cp = Digest(call'[c].release)
              /\ MayFollow(cached'[Process[c]], call'[c].release)
    PROVE  ObserveInv'
  <1>1. ASSUME NEW d \in Callers, d # c, call[d].pc = "observing"
        PROVE  Process[d] # Process[c]
    BY <1>1 DEF SourceInv, QueueInv, TailFree
  <1>2. ASSUME NEW d \in Callers, d # c, call[d].pc = "observing"
        PROVE  cached'[Process[d]] = cached[Process[d]]
    BY <1>1, <1>2, SourceAssumption
  <1>3. ASSUME NEW d \in Callers, d # c
        PROVE  /\ call'[d].pc # "observing" => job'[d] = Idle
               /\ call'[d].pc = "observing" =>
                    /\ call'[d].release \in Signed
                    /\ job'[d].pc # "idle" /\ job'[d].cp = Digest(call'[d].release)
                    /\ MayFollow(cached'[Process[d]], call'[d].release)
    BY <1>2, <1>3 DEF SourceInv, ObserveInv
  <1>4. QED BY <1>3 DEF ObserveInv

\* Confirmed checkpoints stay in the file or behind it, and one more that the
\* file holds is no fork of theirs.
LEMMA ConfirmedKept ==
    ASSUME SourceTypeOK, StoreInv, ConfirmedInv, StoreInv', Follows(disk, disk'),
           Confirmed' \subseteq Confirmed \cup {disk'}
    PROVE  ConfirmedInv'
  <1>1. \A a \in Confirmed : a \in Checkpoints \cup {NoFile}
    BY HeldFacts DEF Confirmed, StoreInv, StoreTypeOK, Jobs
  <1>2. disk \in Checkpoints \cup {NoFile} /\ disk' \in Checkpoints \cup {NoFile}
    BY DEF StoreInv, StoreTypeOK
  <1>3. \A a \in Confirmed \cup {disk'} :
           a \in Checkpoints \cup {NoFile} /\ a.seq \in Nat /\ Follows(a, disk')
    <2>1. ASSUME NEW a \in Confirmed PROVE Follows(a, disk')
      BY <1>1, <1>2, FollowsOrder DEF ConfirmedInv
    <2>2. Follows(disk', disk') BY DEF Follows
    <2>3. QED BY <1>1, <1>2, <2>1, <2>2, CheckpointTypes
  <1>4. ASSUME NEW a \in Confirmed \cup {disk'}, NEW b \in Confirmed \cup {disk'},
               a.seq = b.seq
        PROVE  a = b
    <2>1. CASE a \in Confirmed /\ b \in Confirmed
      BY <1>4, <2>1 DEF ConfirmedInv
    <2>2. CASE a = disk' \/ b = disk'
      BY <1>2, <1>3, <1>4, <2>2, CheckpointTypes DEF Follows
    <2>3. QED BY <2>1, <2>2
  <1>5. QED BY <1>3, <1>4 DEF ConfirmedInv

\* No step but an acceptance adds to what is held.
LEMMA ConfirmedSubset ==
    ASSUME \A p \in Processes : cached'[p] \in {cached[p], None},
           \A c \in Callers : Seen(c)' => \/ Seen(c) /\ job'[c].cp = job[c].cp
                                          \/ job'[c].cp = disk'
    PROVE  Confirmed' \subseteq Confirmed \cup {disk'}
  BY DEF Confirmed

\* Stable storage keeps what it has persisted.
LEMMA PersistedKept ==
    ASSUME SourceTypeOK, StoreInv, StoreInv', Follows(durable, durable'), PersistedFirst,
           \A p \in Processes : cached'[p] \in {cached[p], None}
    PROVE  PersistedFirst'
  <1>1. durable \in Checkpoints \cup {NoFile} /\ durable' \in Checkpoints \cup {NoFile}
    BY DEF StoreInv, StoreTypeOK
  <1>2. ASSUME NEW p \in Processes, cached'[p] # None
        PROVE  Follows(Digest(cached'[p].release), durable')
    <2>1. cached'[p] = cached[p] /\ cached[p] # None BY <1>2
    <2>2. Digest(cached[p].release) \in Checkpoints \cup {NoFile} BY <2>1, HeldFacts
    <2>3. Follows(Digest(cached[p].release), durable) BY <2>1 DEF PersistedFirst
    <2>4. QED BY <1>1, <2>1, <2>2, <2>3, FollowsOrder
  <1>3. QED BY <1>2 DEF PersistedFirst

\* The floors hold on as long as the highest sequence given stays behind stable
\* storage and what passes the check of the file is not behind its caller's floor.
LEMMA FloorKept ==
    ASSUME SourceTypeOK, StoreInv, StoreInv', SourceTypeOK', Follows(durable, durable'),
           FloorInv, top' >= top,
           top' = top \/ top' <= durable.seq,
           \A c \in Callers : call'[c].floor \in {call[c].floor, 0, top},
           \A c \in Callers :
              (Seen(c) \/ job[c].pc \in {"writing", "renaming", "syncing"})' =>
                 \/ /\ Seen(c) \/ job[c].pc \in {"writing", "renaming", "syncing"}
                    /\ job'[c].cp = job[c].cp /\ call'[c].floor \in {call[c].floor, 0}
                 \/ call'[c].floor <= job'[c].cp.seq
    PROVE  FloorInv'
  <1>1. /\ durable.seq \in Nat /\ durable'.seq \in Nat /\ top \in Nat /\ top' \in Nat
        /\ \A c \in Callers : /\ job[c].cp.seq \in Nat /\ call[c].floor \in Nat
                              /\ call'[c].floor \in Nat /\ job'[c].cp.seq \in Nat
    <2>1. durable' \in Checkpoints \cup {NoFile}
      BY DEF StoreInv, StoreTypeOK
    <2>2. \A c \in Callers : job'[c].cp \in Checkpoints \cup {NoFile}
      BY DEF StoreInv, StoreTypeOK, Jobs
    <2>3. top' \in Nat /\ \A c \in Callers : call'[c].floor \in Nat BY DEF SourceTypeOK
    <2>4. QED BY <2>1, <2>2, <2>3, Numbers, CheckpointTypes
  <1>2. durable'.seq >= durable.seq BY <1>1 DEF Follows
  <1>3. top' <= durable'.seq BY <1>1, <1>2 DEF FloorInv
  <1>4. \A c \in Callers : call'[c].floor <= top' BY <1>1 DEF FloorInv
  <1>5. ASSUME NEW c \in Callers,
               (Seen(c) \/ job[c].pc \in {"writing", "renaming", "syncing"})'
        PROVE  call'[c].floor <= job'[c].cp.seq
    BY <1>1, <1>5 DEF FloorInv
  <1>6. QED BY <1>3, <1>4, <1>5 DEF FloorInv

----------------------------------------------------------------------------
(* The steps keep the invariant                                            *)

\* The values a resolve at rest, and the source's memory, can take.
LEMMA CallTypes ==
    ASSUME SourceTypeOK
    PROVE  /\ AtRest \in [pc : {"idle", "waiting", "fetching", "observing"},
                          force : BOOLEAN, release : Signed \cup {NoRelease}, floor : Nat]
           /\ \A c \in Callers : [call EXCEPT ![c] = AtRest] \in
                [Callers -> [pc : {"idle", "waiting", "fetching", "observing"},
                             force : BOOLEAN, release : Signed \cup {NoRelease},
                             floor : Nat]]
  BY DEF SourceTypeOK, AtRest

\* A resolve that changes its place, and one more field, is still a resolve.
LEMMA PlaceTypes ==
    ASSUME SourceTypeOK, NEW c \in Callers,
           NEW pc \in {"idle", "waiting", "fetching", "observing"},
           \/ \E b \in BOOLEAN : call' = [call EXCEPT ![c].pc = pc, ![c].force = b]
           \/ \E r \in Signed : call' = [call EXCEPT ![c].pc = pc, ![c].release = r]
           \/ \E n \in Nat : call' = [call EXCEPT ![c].pc = pc, ![c].floor = n]
    PROVE  call' \in [Callers ->
                      [pc : {"idle", "waiting", "fetching", "observing"}, force : BOOLEAN,
                       release : Signed \cup {NoRelease}, floor : Nat]]
  <1> DEFINE R == [pc : {"idle", "waiting", "fetching", "observing"}, force : BOOLEAN,
                   release : Signed \cup {NoRelease}, floor : Nat]
  <1>1. call \in [Callers -> R] BY DEF SourceTypeOK
  <1>2. PICK x \in R : call' = [call EXCEPT ![c] = x]
    <2>1. call[c] \in R BY <1>1
    <2>2. ASSUME NEW b \in BOOLEAN, call' = [call EXCEPT ![c].pc = pc, ![c].force = b]
          PROVE  \E x \in R : call' = [call EXCEPT ![c] = x]
      <3>1. [call[c] EXCEPT !.pc = pc, !.force = b] \in R BY <2>1
      <3>2. call' = [call EXCEPT ![c] = [call[c] EXCEPT !.pc = pc, !.force = b]]
        BY <1>1, <2>2
      <3>3. QED BY <3>1, <3>2
    <2>3. ASSUME NEW r \in Signed, call' = [call EXCEPT ![c].pc = pc, ![c].release = r]
          PROVE  \E x \in R : call' = [call EXCEPT ![c] = x]
      <3>1. [call[c] EXCEPT !.pc = pc, !.release = r] \in R BY <2>1
      <3>2. call' = [call EXCEPT ![c] = [call[c] EXCEPT !.pc = pc, !.release = r]]
        BY <1>1, <2>3
      <3>3. QED BY <3>1, <3>2
    <2>4. ASSUME NEW n \in Nat, call' = [call EXCEPT ![c].pc = pc, ![c].floor = n]
          PROVE  \E x \in R : call' = [call EXCEPT ![c] = x]
      <3>1. [call[c] EXCEPT !.pc = pc, !.floor = n] \in R BY <2>1
      <3>2. call' = [call EXCEPT ![c] = [call[c] EXCEPT !.pc = pc, !.floor = n]]
        BY <1>1, <2>4
      <3>3. QED BY <3>1, <3>2
    <2>5. QED BY <2>2, <2>3, <2>4
  <1> HIDE DEF R
  <1>3. call' \in [Callers -> R] BY <1>1, <1>2
  <1>4. QED BY <1>3 DEF R

\* The end of a resolve, whether it was refused or given what the cache holds or
\* what it has just observed, keeps the invariant.
LEMMA EndInv ==
    ASSUME SourceInv, StoreInv', NEW c \in Callers, NEW held,
           NEW why \in {"recent", "offline", "oversize", "feed"},
           EndsWith(c, held, why), call[c].pc # "idle", TailFree(c),
           UNCHANGED <<disk, durable, now>>, job' = [job EXCEPT ![c] = Idle],
           \/ UNCHANGED cached
           \/ /\ held \in Held /\ cached' = [cached EXCEPT ![Process[c]] = held]
              /\ job[c].pc = "observed" /\ job[c].cp = Digest(held.release),
           \/ UNCHANGED <<got, top>>
           \/ /\ held \in Held /\ cached'[Process[c]] = held
              /\ why = "feed" => job[c].pc = "observed" /\ job[c].cp = Digest(held.release)
    PROVE  SourceInv'
  <1>t. SourceTypeOK /\ StoreInv /\ Process[c] \in Processes
    BY SourceAssumption DEF SourceInv
  <1>e. Ends(c) BY DEF Ends, EndsWith
  <1>j. /\ job'[c] = Idle /\ \A d \in Callers : d # c => job'[d] = job[d]
        /\ call'[c] = AtRest /\ \A d \in Callers : d # c => call'[d] = call[d]
        /\ \A p \in Processes : p # Process[c] => cached'[p] = cached[p]
    BY <1>t DEF StoreInv, StoreTypeOK, EndsWith, SourceTypeOK
  <1>1. QueueInv' /\ queue' \in [Processes -> Seq(Callers)]
    BY <1>e, <1>t, EndsQueue DEF SourceInv
  <1>2. SourceTypeOK'
    <2>1. top' \in Nat /\ now' \in 0..MaxTime BY <1>t DEF EndsWith, SourceTypeOK
    <2>2. cached' \in [Processes -> Held \cup {None}] BY <1>t DEF SourceTypeOK
    <2>3. call' \in [Callers -> [pc : {"idle", "waiting", "fetching", "observing"},
                             force : BOOLEAN, release : Signed \cup {NoRelease},
                             floor : Nat]]
      BY <1>t, CallTypes DEF EndsWith
    <2>4. got' \in [Callers -> [release : Signed \cup {NoRelease}, floor : Nat,
                      why : {"nothing", "recent", "offline", "oversize", "feed"}]]
      <3>1. UNCHANGED got \/ (held \in Held /\ got' = [got EXCEPT ![c] =
               [release |-> held.release, why |-> why, floor |-> call[c].floor]])
        BY DEF EndsWith
      <3>2. call[c].floor \in Nat BY <1>t DEF SourceTypeOK
      <3>3. held \in Held => held.release \in Signed BY Releases
      <3>4. got \in [Callers -> [release : Signed \cup {NoRelease}, floor : Nat,
                      why : {"nothing", "recent", "offline", "oversize", "feed"}]]
        BY <1>t DEF SourceTypeOK
      <3>5. CASE UNCHANGED got BY <3>4, <3>5
      <3>6. CASE held \in Held /\ got' = [got EXCEPT ![c] =
               [release |-> held.release, why |-> why, floor |-> call[c].floor]]
        <4>1. [release |-> held.release, why |-> why, floor |-> call[c].floor] \in
                [release : Signed \cup {NoRelease}, floor : Nat,
                 why : {"nothing", "recent", "offline", "oversize", "feed"}]
          BY <3>2, <3>3, <3>6
        <4>2. QED BY <3>4, <3>6, <4>1
      <3>7. QED BY <3>1, <3>5, <3>6
    <2>5. QED BY <1>1, <2>1, <2>2, <2>3, <2>4 DEF SourceTypeOK
  <1>3. ObserveInv'
    <2>1. call'[c].pc = "idle" BY <1>j DEF AtRest
    <2>2. QED BY <1>j, <2>1, ObserveKept
  <1>4. ConfirmedInv'
    <2>1. Confirmed' \subseteq Confirmed
      <3>1. ASSUME NEW p \in Processes, cached'[p] # None
            PROVE  Digest(cached'[p].release) \in Confirmed
        <4>1. CASE cached'[p] = cached[p] BY <3>1, <4>1 DEF Confirmed
        <4>2. CASE cached'[p] # cached[p]
          <5>1. p = Process[c] /\ cached'[p] = held /\ Digest(held.release) = job[c].cp
                /\ Seen(c)
            BY <1>t, <1>j, <4>2 DEF SourceTypeOK, Seen
          <5>2. QED BY <5>1 DEF Confirmed
        <4>3. QED BY <4>1, <4>2
      <3>2. ASSUME NEW d \in Callers, Seen(d)' PROVE job'[d].cp \in Confirmed
        <4>1. d # c BY <1>j, <3>2 DEF Seen, Idle
        <4>2. QED BY <1>j, <3>2, <4>1 DEF Confirmed, Seen
      <3>3. QED BY <3>1, <3>2 DEF Confirmed
    <2>2. Follows(disk, disk') BY DEF Follows
    <2>3. QED BY <1>t, <2>1, <2>2, ConfirmedKept DEF SourceInv
  <1>5. ASSUME ~SyncFails PROVE PersistedFirst' /\ FloorInv' /\ NoReplay'
    <2>0. PersistedFirst /\ FloorInv /\ NoReplay /\ ObservedDurable
      BY <1>5 DEF SourceInv, StoreInv
    <2>1. PersistedFirst'
      <3>1. ASSUME NEW p \in Processes, cached'[p] # None
            PROVE  Follows(Digest(cached'[p].release), durable')
        <4>1. CASE cached'[p] = cached[p] BY <2>0, <3>1, <4>1 DEF PersistedFirst
        <4>2. CASE cached'[p] # cached[p]
          <5>1. /\ cached'[p] = held /\ Digest(held.release) = job[c].cp
                /\ job[c].pc = "observed"
            BY <1>t, <1>j, <4>2 DEF SourceTypeOK
          <5>2. QED BY <2>0, <5>1 DEF ObservedDurable
        <4>3. QED BY <4>1, <4>2
      <3>2. QED BY <3>1 DEF PersistedFirst
    <2>2. top' >= top /\ (top' = top \/ top' <= durable.seq)
      <3>1. top \in Nat /\ durable.seq \in Nat BY <1>t, Numbers
      <3>2. CASE UNCHANGED <<got, top>> BY <3>1, <3>2
      <3>3. CASE ~UNCHANGED <<got, top>>
        <4>1. held \in Held /\ cached'[Process[c]] = held BY <3>3
        <4>2. held # None /\ held.release.seq \in Nat
              /\ Digest(held.release).seq = held.release.seq
          BY <4>1, Releases
        <4>3. Follows(Digest(held.release), durable)
          BY <1>t, <2>1, <4>1, <4>2 DEF PersistedFirst
        <4>4. held.release.seq <= durable.seq
          BY <3>1, <4>2, <4>3 DEF Follows
        <4>5. QED BY <3>1, <3>3, <4>2, <4>4 DEF EndsWith
      <3>4. QED BY <3>2, <3>3
    <2>3. FloorInv'
      <3>1. \A d \in Callers : call'[d].floor \in {call[d].floor, 0, top}
        BY <1>j DEF AtRest
      <3>2. ASSUME NEW d \in Callers,
                   (Seen(d) \/ job[d].pc \in {"writing", "renaming", "syncing"})'
            PROVE  /\ Seen(d) \/ job[d].pc \in {"writing", "renaming", "syncing"}
                   /\ job'[d].cp = job[d].cp /\ call'[d].floor \in {call[d].floor, 0}
        <4>1. d # c BY <1>j, <3>2 DEF Seen, Idle
        <4>2. QED BY <1>j, <3>2, <4>1 DEF Seen
      <3>3. Follows(durable, durable') BY DEF Follows
      <3>4. QED BY <1>t, <1>2, <2>0, <2>2, <3>1, <3>2, <3>3, FloorKept
    <2>4. NoReplay'
      <3>1. CASE UNCHANGED <<got, top>> BY <2>0, <3>1 DEF NoReplay
      <3>2. CASE ~UNCHANGED <<got, top>>
        <4>1. /\ got'[c] = [release |-> held.release, why |-> why, floor |-> call[c].floor]
              /\ \A d \in Callers : d # c => got'[d] = got[d]
          BY <1>t, <3>2 DEF EndsWith, SourceTypeOK
        <4>2. why = "feed" => held.release.seq >= call[c].floor
          <5>1. SUFFICES ASSUME why = "feed" PROVE held.release.seq >= call[c].floor
            OBVIOUS
          <5>2. Seen(c) /\ job[c].cp.seq = held.release.seq
            BY <3>2, <5>1, Releases DEF Seen
          <5>3. call[c].floor <= job[c].cp.seq BY <2>0, <5>2 DEF FloorInv
          <5>4. call[c].floor \in Nat /\ job[c].cp.seq \in Nat BY <1>t, Numbers
          <5>5. QED BY <5>2, <5>3, <5>4
        <4>3. QED BY <2>0, <4>1, <4>2 DEF NoReplay
      <3>3. QED BY <3>1, <3>2
    <2>5. QED BY <2>1, <2>3, <2>4
  <1>6. QED BY <1>1, <1>2, <1>3, <1>4, <1>5 DEF SourceInv

\* A resolve that asks the feed notes the highest sequence given so far.
LEMMA AskInv ==
    ASSUME SourceInv, StoreInv', NEW c \in Callers,
           call[c].pc = "waiting", TailFree(c),
           UNCHANGED <<svars, now, cached, queue, got, top>>,
           call' = [call EXCEPT ![c].pc = "fetching", ![c].floor = top]
    PROVE  SourceInv'
  <1>t. SourceTypeOK /\ StoreInv BY DEF SourceInv
  <1>s. UNCHANGED <<disk, durable, lock, job>> BY DEF svars
  <1>j. /\ call'[c].pc = "fetching" /\ call'[c].floor = top
        /\ \A d \in Callers : d # c => call'[d] = call[d]
    BY <1>t DEF SourceTypeOK
  <1>1. QueueInv' BY <1>t, <1>j, MovesQueue DEF Moves, SourceInv
  <1>2. SourceTypeOK'
    <2>1. top \in Nat BY <1>t DEF SourceTypeOK
    <2>2. call' \in [Callers ->
                      [pc : {"idle", "waiting", "fetching", "observing"}, force : BOOLEAN,
                       release : Signed \cup {NoRelease}, floor : Nat]]
      BY <1>t, <2>1, PlaceTypes
    <2>3. QED BY <1>t, <2>2 DEF SourceTypeOK
  <1>3. job[c] = Idle BY DEF SourceInv, ObserveInv
  <1>4. ObserveInv' BY <1>s, <1>j, <1>3, ObserveKept
  <1>5. ConfirmedInv'
    BY <1>s, <1>t, ConfirmedSubset, ConfirmedKept DEF SourceInv, Seen, Follows
  <1>6. ASSUME ~SyncFails PROVE PersistedFirst' /\ FloorInv' /\ NoReplay'
    <2>0. PersistedFirst /\ FloorInv /\ NoReplay BY <1>6 DEF SourceInv
    <2>1. ~Seen(c) /\ job[c].pc = "idle" BY <1>3 DEF Seen, Idle
    <2>2. FloorInv'
      <3>1. top \in Nat BY <1>t, Numbers
      <3>2. top' <= durable'.seq /\ \A d \in Callers : call'[d].floor <= top'
        <4>1. top' = top /\ durable' = durable BY <1>s
        <4>2. top' <= durable'.seq BY <2>0, <4>1 DEF FloorInv
        <4>3. ASSUME NEW d \in Callers PROVE call'[d].floor <= top'
          <5>1. CASE d = c BY <1>j, <3>1, <4>1, <5>1
          <5>2. CASE d # c BY <1>j, <2>0, <4>1, <5>2 DEF FloorInv
          <5>3. QED BY <5>1, <5>2
        <4>4. QED BY <4>2, <4>3
      <3>3. ASSUME NEW d \in Callers,
                   (Seen(d) \/ job[d].pc \in {"writing", "renaming", "syncing"})'
            PROVE  call'[d].floor <= job'[d].cp.seq
        <4>1. Seen(d) \/ job[d].pc \in {"writing", "renaming", "syncing"}
          BY <1>s, <3>3 DEF Seen
        <4>2. d # c BY <2>1, <4>1
        <4>3. QED BY <1>s, <1>j, <2>0, <4>1, <4>2 DEF FloorInv
      <3>4. QED BY <3>2, <3>3 DEF FloorInv
    <2>3. PersistedFirst' /\ NoReplay' BY <1>s, <2>0 DEF PersistedFirst, NoReplay
    <2>4. QED BY <2>2, <2>3
  <1>7. QED BY <1>1, <1>2, <1>4, <1>5, <1>6 DEF SourceInv

\* A policy that may follow the checkpoint held in memory is taken to the store.
LEMMA AnswerInv ==
    ASSUME SourceInv, StoreInv', NEW c \in Callers, NEW r \in Signed,
           call[c].pc = "fetching", TailFree(c), MayFollow(cached[Process[c]], r),
           Observe(c, Digest(r)), UNCHANGED <<now, cached, queue, got, top>>,
           call' = [call EXCEPT ![c].pc = "observing", ![c].release = r]
    PROVE  SourceInv'
  <1>t. SourceTypeOK /\ StoreInv BY DEF SourceInv
  <1>s. /\ job'[c] = [pc |-> "locking", cp |-> Digest(r), ok |-> FALSE]
        /\ \A d \in Callers : d # c => job'[d] = job[d]
        /\ UNCHANGED <<disk, durable>>
    BY <1>t DEF Observe, StoreInv, StoreTypeOK
  <1>j. /\ call'[c].pc = "observing" /\ call'[c].release = r
        /\ \A d \in Callers : d # c => call'[d] = call[d]
        /\ \A d \in Callers : call'[d].floor = call[d].floor
    BY <1>t DEF SourceTypeOK
  <1>1. QueueInv' BY <1>t, <1>j, MovesQueue DEF Moves, SourceInv
  <1>2. SourceTypeOK'
    <2>1. call' \in [Callers ->
                      [pc : {"idle", "waiting", "fetching", "observing"}, force : BOOLEAN,
                       release : Signed \cup {NoRelease}, floor : Nat]]
      BY <1>t, PlaceTypes
    <2>2. QED BY <1>t, <2>1 DEF SourceTypeOK
  <1>3. ~Seen(c)' /\ job'[c].pc = "locking" BY <1>s DEF Seen
  <1>4. ObserveInv'
    <2>1. /\ job'[c].pc # "idle" /\ job'[c].cp = Digest(call'[c].release)
          /\ MayFollow(cached'[Process[c]], call'[c].release)
          /\ call'[c].release \in Signed
      BY <1>s, <1>j
    <2>2. QED BY <1>s, <1>j, <2>1, ObserveKept
  <1>5. \A d \in Callers :
           (Seen(d) \/ job[d].pc \in {"writing", "renaming", "syncing"})' =>
              d # c /\ job'[d] = job[d]
    BY <1>s, <1>3
  <1>6. Follows(disk, disk') /\ Follows(durable, durable') BY <1>s DEF Follows
  <1>7. ConfirmedInv'
    <2>1. Confirmed' \subseteq Confirmed \cup {disk'}
      BY <1>5, ConfirmedSubset DEF Seen
    <2>2. QED BY <1>t, <1>6, <2>1, ConfirmedKept DEF SourceInv
  <1>8. ASSUME ~SyncFails PROVE PersistedFirst' /\ FloorInv' /\ NoReplay'
    <2>0. PersistedFirst /\ FloorInv /\ NoReplay BY <1>8 DEF SourceInv
    <2>1. top' >= top BY <1>t, Numbers
    <2>2. \A d \in Callers :
           (Seen(d) \/ job[d].pc \in {"writing", "renaming", "syncing"})' =>
             /\ Seen(d) \/ job[d].pc \in {"writing", "renaming", "syncing"}
             /\ job'[d].cp = job[d].cp
      BY <1>5 DEF Seen
    <2>3. FloorInv' BY <1>t, <1>2, <1>j, <1>6, <2>0, <2>1, <2>2, FloorKept
    <2>4. PersistedFirst' /\ NoReplay' BY <1>s, <2>0 DEF PersistedFirst, NoReplay
    <2>5. QED BY <2>3, <2>4
  <1>9. QED BY <1>1, <1>2, <1>4, <1>7, <1>8 DEF SourceInv

\* A file operation of the store, inside the resolve that waits for it.
LEMMA StoreWorksInv ==
    ASSUME SourceInv, StoreInv', Follows(durable, durable'), NEW c \in Callers,
           StoreWorks(c), TailFree(c)
    PROVE  SourceInv'
  <1>t. SourceTypeOK /\ StoreInv BY DEF SourceInv
  <1>r. UNCHANGED <<now, cached, queue, call, got, top>> /\ call[c].pc = "observing"
    BY DEF StoreWorks, rvars
  <1>s. /\ \A d \in Callers : d # c => job'[d] = job[d]
        /\ job'[c].cp = job[c].cp /\ job'[c].pc # "idle"
        /\ Seen(c)' => Seen(c) \/ (job[c].cp = disk /\ disk' = disk)
        /\ disk' = disk \/ (disk' = job[c].cp /\ job[c].cp.seq > disk.seq)
        /\ (Seen(c) \/ job[c].pc \in {"writing", "renaming", "syncing"})'
           => \/ Seen(c) \/ job[c].pc \in {"writing", "renaming", "syncing"}
              \/ job[c].cp.seq >= disk.seq
    BY <1>t, StoreStepEffects DEF StoreWorks
  <1>1. QueueInv' BY <1>r DEF SourceInv, QueueInv, TailFree
  <1>2. SourceTypeOK' BY <1>t, <1>r DEF SourceTypeOK
  <1>3. ObserveInv'
    <2>1. /\ job'[c].cp = Digest(call[c].release) /\ call[c].release \in Signed
          /\ MayFollow(cached[Process[c]], call[c].release)
      BY <1>r, <1>s DEF SourceInv, ObserveInv
    <2>2. QED BY <1>r, <1>s, <2>1, ObserveKept
  <1>4. ConfirmedInv'
    <2>1. Follows(disk, disk') BY <1>s DEF Follows
    <2>2. \A d \in Callers : Seen(d)' => \/ Seen(d) /\ job'[d].cp = job[d].cp
                                         \/ job'[d].cp = disk'
      BY <1>s DEF Seen
    <2>3. Confirmed' \subseteq Confirmed \cup {disk'} BY <1>r, <2>2, ConfirmedSubset
    <2>4. QED BY <1>t, <2>1, <2>3, ConfirmedKept DEF SourceInv
  <1>5. ASSUME ~SyncFails PROVE PersistedFirst' /\ FloorInv' /\ NoReplay'
    <2>0. PersistedFirst /\ FloorInv /\ NoReplay BY <1>5 DEF SourceInv
    <2>1. top' >= top /\ \A d \in Callers : call'[d].floor = call[d].floor
      BY <1>t, <1>r, Numbers
    <2>2. \A d \in Callers :
           (Seen(d) \/ job[d].pc \in {"writing", "renaming", "syncing"})' =>
             \/ /\ Seen(d) \/ job[d].pc \in {"writing", "renaming", "syncing"}
                /\ job'[d].cp = job[d].cp /\ call'[d].floor = call[d].floor
             \/ call'[d].floor <= job'[d].cp.seq
      <3>1. ASSUME job[c].cp.seq >= disk.seq PROVE call[c].floor <= job[c].cp.seq
        BY <1>t, <2>0, <3>1, Numbers DEF FloorInv
      <3>2. QED BY <1>r, <1>s, <3>1 DEF Seen
    <2>3. FloorInv' BY <1>t, <1>r, <1>2, <2>0, <2>1, <2>2, FloorKept
    <2>4. PersistedFirst' BY <1>t, <1>r, <2>0, PersistedKept
    <2>5. NoReplay' BY <1>r, <2>0 DEF NoReplay
    <2>6. QED BY <2>3, <2>4, <2>5
  <1>6. QED BY <1>1, <1>2, <1>3, <1>4, <1>5 DEF SourceInv

\* A kill, or a loss of power: what these processes held in memory is gone, and
\* with it everything that was confirmed only there.
LEMMA ForgetInv ==
    ASSUME SourceInv, StoreInv', Follows(durable, durable'), NEW dead \in SUBSET Processes,
           Forget(dead),
           job' = [c \in Callers |-> IF Process[c] \in dead THEN Idle ELSE job[c]],
           disk' = disk \/ dead = Processes
    PROVE  SourceInv'
  <1>t. SourceTypeOK /\ StoreInv BY DEF SourceInv
  <1>p. \A c \in Callers : Process[c] \in Processes BY SourceAssumption
  <1>f. /\ \A p \in Processes : /\ p \in dead => cached'[p] = None /\ queue'[p] = <<>>
                                /\ p \notin dead => cached'[p] = cached[p]
                                                    /\ queue'[p] = queue[p]
        /\ \A c \in Callers :
             /\ Process[c] \in dead => call'[c] = AtRest /\ job'[c] = Idle
             /\ Process[c] \notin dead => call'[c] = call[c] /\ job'[c] = job[c]
        /\ UNCHANGED <<now, got, top>>
    BY DEF Forget
  <1>1. QueueInv'
    <2>1. ASSUME NEW p \in Processes, NEW i \in DOMAIN queue'[p],
                 NEW j \in DOMAIN queue'[p]
          PROVE  /\ Process[queue'[p][i]] = p /\ call'[queue'[p][i]].pc # "idle"
                 /\ queue'[p][i] = queue'[p][j] => i = j
      <3>1. p \notin dead BY <1>f, <2>1
      <3>2. queue[p] \in Seq(Callers) /\ queue'[p] = queue[p] BY <1>t, <1>f, <3>1 DEF SourceTypeOK
      <3>3. queue[p][i] \in Callers BY <3>2
      <3>4. QED BY <1>f, <3>1, <3>2, <3>3 DEF SourceInv, QueueInv
    <2>2. ASSUME NEW c \in Callers, call'[c].pc # "idle"
          PROVE  /\ \E i \in DOMAIN queue'[Process[c]] : queue'[Process[c]][i] = c
                 /\ call'[c].pc \in {"fetching", "observing"} => TailFree(c)'
      <3>1. Process[c] \notin dead BY <1>f, <2>2 DEF AtRest
      <3>2. QED BY <1>f, <1>p, <2>2, <3>1 DEF SourceInv, QueueInv, TailFree
    <2>3. QED BY <2>1, <2>2 DEF QueueInv
  <1>2. SourceTypeOK'
    <2>1. cached' \in [Processes -> Held \cup {None}]
      BY <1>t DEF Forget, SourceTypeOK
    <2>2. queue' \in [Processes -> Seq(Callers)]
      <3>1. <<>> \in Seq(Callers) OBVIOUS
      <3>2. QED BY <1>t, <3>1 DEF Forget, SourceTypeOK
    <2>3. call' \in [Callers -> [pc : {"idle", "waiting", "fetching", "observing"},
                             force : BOOLEAN, release : Signed \cup {NoRelease},
                             floor : Nat]]
      BY <1>t, CallTypes DEF Forget, SourceTypeOK
    <2>4. QED BY <1>t, <1>f, <2>1, <2>2, <2>3 DEF SourceTypeOK
  <1>3. ObserveInv'
    <2>1. AtRest.pc # "observing" BY DEF AtRest
    <2>2. QED BY <1>f, <1>p, <2>1 DEF SourceInv, ObserveInv
  <1>4. \A c \in Callers :
           (Seen(c) \/ job[c].pc \in {"writing", "renaming", "syncing"})' =>
              Process[c] \notin dead /\ job'[c] = job[c] /\ call'[c] = call[c]
    BY <1>f DEF Seen, Idle
  <1>5. ConfirmedInv'
    <2>1. CASE disk' = disk
      <3>1. Confirmed' \subseteq Confirmed \cup {disk'}
        BY <1>4, <1>f, ConfirmedSubset DEF Seen
      <3>2. Follows(disk, disk') BY <2>1 DEF Follows
      <3>3. QED BY <1>t, <3>1, <3>2, ConfirmedKept DEF SourceInv
    <2>2. CASE dead = Processes
      <3>1. Confirmed' = {} BY <1>4, <1>f, <1>p, <2>2 DEF Confirmed
      <3>2. QED BY <3>1 DEF ConfirmedInv
    <2>3. QED BY <2>1, <2>2
  <1>6. ASSUME ~SyncFails PROVE PersistedFirst' /\ FloorInv' /\ NoReplay'
    <2>0. PersistedFirst /\ FloorInv /\ NoReplay BY <1>6 DEF SourceInv
    <2>1. \A c \in Callers : call'[c].floor \in {call[c].floor, 0, top}
      BY <1>f DEF AtRest
    <2>2. top' >= top /\ top' = top BY <1>t, <1>f, Numbers
    <2>3. \A c \in Callers :
           (Seen(c) \/ job[c].pc \in {"writing", "renaming", "syncing"})' =>
             /\ Seen(c) \/ job[c].pc \in {"writing", "renaming", "syncing"}
             /\ job'[c].cp = job[c].cp /\ call'[c].floor \in {call[c].floor, 0}
      BY <1>4 DEF Seen
    <2>4. FloorInv' BY <1>t, <1>2, <2>0, <2>1, <2>2, <2>3, FloorKept
    <2>5. PersistedFirst' BY <1>t, <1>f, <2>0, PersistedKept
    <2>6. NoReplay' BY <1>f, <2>0 DEF NoReplay
    <2>7. QED BY <2>4, <2>5, <2>6
  <1>7. QED BY <1>1, <1>2, <1>3, <1>5, <1>6 DEF SourceInv

\* The call of resolve, a reading of the clock, a step of something else.
LEMMA QuietInv ==
    ASSUME SourceInv, UNCHANGED <<svars, cached, got, top>>, now' \in 0..MaxTime,
           QueueInv', queue' \in [Processes -> Seq(Callers)],
           call' \in [Callers -> [pc : {"idle", "waiting", "fetching", "observing"},
                             force : BOOLEAN, release : Signed \cup {NoRelease},
                             floor : Nat]],
           \A c \in Callers : \/ call'[c] = call[c]
                              \/ /\ call[c].pc # "observing" /\ call'[c].pc # "observing"
                                 /\ call'[c].floor = call[c].floor
    PROVE  SourceInv'
  <1>s. UNCHANGED <<disk, durable, lock, job>> BY DEF svars
  <1>1. SourceTypeOK' BY DEF SourceInv, SourceTypeOK
  <1>2. StoreInv'
    BY <1>s DEF SourceInv, StoreInv, StoreTypeOK, LockInv, DurableInv, ObservedDurable
  <1>3. ObserveInv' BY <1>s DEF SourceInv, ObserveInv
  <1>4. ConfirmedInv' BY <1>s DEF SourceInv, ConfirmedInv, Confirmed, Seen
  <1>5. SyncFails \/ (PersistedFirst' /\ FloorInv' /\ NoReplay')
    BY <1>s DEF SourceInv, PersistedFirst, FloorInv, NoReplay, Seen
  <1>6. QED BY <1>1, <1>2, <1>3, <1>4, <1>5 DEF SourceInv

\* A step of a resolve that has its turn.
LEMMA WorkInv ==
    ASSUME SourceInv, StoreInv', Follows(durable, durable'), NEW c \in Callers, Work(c)
    PROVE  SourceInv'
  <1>1. /\ call[c].pc # "idle" /\ TailFree(c) /\ UNCHANGED <<now, resolves, falls>>
        /\ \/ \E held \in Held, why \in {"recent", "offline", "oversize"} :
                /\ Refuse(c) \/ (held = cached[Process[c]] /\ Give(c, held, why))
                /\ call[c].pc # "observing" /\ UNCHANGED <<svars, cached>>
           \/ Refuse(c) /\ call[c].pc # "observing" /\ UNCHANGED <<svars, cached>>
           \/ /\ call[c].pc = "waiting" /\ UNCHANGED <<svars, cached, queue, got, top>>
              /\ call' = [call EXCEPT ![c].pc = "fetching", ![c].floor = top]
           \/ \E r \in Signed :
                 /\ call[c].pc = "fetching" /\ MayFollow(cached[Process[c]], r)
                 /\ Observe(c, Digest(r)) /\ UNCHANGED <<cached, queue, got, top>>
                 /\ call' = [call EXCEPT ![c].pc = "observing", ![c].release = r]
           \/ StoreWorks(c)
           \/ Accept(c)
           \/ StoreRefused(c)
    BY WorkCases
  <1>t. SourceTypeOK /\ Process[c] \in Processes
    BY SourceAssumption DEF SourceInv
  <1>i. ASSUME call[c].pc # "observing", UNCHANGED svars
        PROVE  UNCHANGED <<disk, durable>> /\ job' = [job EXCEPT ![c] = Idle]
    <2>1. job[c] = Idle /\ job \in [Callers -> Jobs]
      BY <1>i DEF SourceInv, ObserveInv, StoreInv, StoreTypeOK
    <2>2. QED BY <1>i, <2>1 DEF svars
  <1>2. ASSUME NEW held \in Held, NEW why \in {"recent", "offline", "oversize"},
               held = cached[Process[c]], Give(c, held, why),
               call[c].pc # "observing", UNCHANGED <<svars, cached>>
        PROVE  SourceInv'
    <2>1. EndsWith(c, held, why) BY <1>2, <1>t, GiveEnds
    <2>2. QED BY <1>1, <1>2, <1>i, <2>1, EndInv
  <1>r. ASSUME Refuse(c), UNCHANGED <<disk, durable, cached>>,
               job' = [job EXCEPT ![c] = Idle]
        PROVE  SourceInv'
    <2>1. EndsWith(c, None, "offline") BY <1>r, RefuseEnds
    <2>2. UNCHANGED <<got, top>> BY <1>r DEF Refuse
    <2>3. QED BY <1>1, <1>r, <2>1, <2>2, EndInv
  <1>3. CASE Refuse(c) /\ call[c].pc # "observing" /\ UNCHANGED <<svars, cached>>
    BY <1>3, <1>i, <1>r
  <1>4. CASE StoreRefused(c) BY <1>4, <1>r DEF StoreRefused
  <1>5. CASE Accept(c)
    <2> DEFINE held == [release |-> call[c].release, at |-> now]
    <2>1. /\ cached' = [cached EXCEPT ![Process[c]] = held] /\ Give(c, held, "feed")
          /\ job[c].pc = "observed" /\ call[c].pc = "observing"
          /\ job' = [job EXCEPT ![c] = Idle] /\ UNCHANGED <<disk, durable>>
      BY <1>5 DEF Accept, Persisted
    <2>2. call[c].release \in Signed /\ job[c].cp = Digest(call[c].release)
      BY <2>1 DEF SourceInv, ObserveInv
    <2>3. held \in Held BY <1>t, <2>2 DEF Held, SourceTypeOK
    <2>4. EndsWith(c, held, "feed") BY <1>t, <2>1, <2>3, GiveEnds
    <2>5. cached'[Process[c]] = held BY <1>t, <2>1 DEF SourceTypeOK
    <2> HIDE DEF held
    <2>6. job[c].cp = Digest(held.release) BY <2>2 DEF held
    <2>7. QED BY <1>1, <2>1, <2>3, <2>4, <2>5, <2>6, EndInv
  <1>6. CASE /\ call[c].pc = "waiting" /\ UNCHANGED <<svars, cached, queue, got, top>>
             /\ call' = [call EXCEPT ![c].pc = "fetching", ![c].floor = top]
    BY <1>1, <1>6, AskInv
  <1>7. ASSUME NEW r \in Signed,
               call[c].pc = "fetching", MayFollow(cached[Process[c]], r),
               Observe(c, Digest(r)), UNCHANGED <<cached, queue, got, top>>,
               call' = [call EXCEPT ![c].pc = "observing", ![c].release = r]
        PROVE  SourceInv'
    BY <1>1, <1>7, AnswerInv
  <1>8. CASE StoreWorks(c) BY <1>1, <1>8, StoreWorksInv
  <1>9. QED BY <1>1, <1>2, <1>3, <1>4, <1>5, <1>6, <1>7, <1>8

\* The source starts with nothing held and nobody asking.
LEMMA SourceInitInv == SourceInit => SourceInv
  <1> SUFFICES ASSUME SourceInit PROVE SourceInv OBVIOUS
  <1>0. /\ \A p \in Processes : cached[p] = None /\ queue[p] = <<>>
        /\ \A c \in Callers : call[c] = AtRest /\ job[c] = Idle
      BY DEF SourceInit, StoreInit
  <1>1. StoreInv BY StoreInitInv DEF SourceInit
  <1>2. SourceTypeOK
    <2>1. now \in 0..MaxTime /\ top \in Nat BY SourceAssumption DEF SourceInit
    <2>2. <<>> \in Seq(Callers) OBVIOUS
    <2>3. QED BY <2>1, <2>2 DEF SourceInit, SourceTypeOK, AtRest, NothingGot
  <1>3. QueueInv /\ ObserveInv BY <1>0 DEF QueueInv, ObserveInv, AtRest
  <1>4. \A c \in Callers : ~Seen(c) /\ job[c].pc = "idle"
    <2>1. Idle.pc = "idle" BY DEF Idle
    <2>2. \A c \in Callers : job[c].pc = "idle" BY <1>0, <2>1
    <2>3. QED BY <2>2 DEF Seen
  <1>5. ConfirmedInv
    <2>1. Confirmed = {} BY <1>0, <1>4 DEF Confirmed
    <2>2. QED BY <2>1 DEF ConfirmedInv
  <1>6. PersistedFirst /\ FloorInv /\ NoReplay
    <2>1. PersistedFirst /\ NoReplay
      BY <1>0 DEF PersistedFirst, NoReplay, SourceInit, NothingGot
    <2>2. top = 0 /\ durable.seq = 0 /\ \A c \in Callers : call[c].floor = 0
      BY <1>0 DEF SourceInit, StoreInit, NoFile, AtRest
    <2>3. FloorInv BY <1>4, <2>2 DEF FloorInv
    <2>4. QED BY <2>1, <2>3
  <1>7. QED BY <1>1, <1>2, <1>3, <1>5, <1>6 DEF SourceInv

\* Every step of the source keeps the invariant, the kills and the losses of
\* power too.
LEMMA SourceNextInv == SourceInv /\ [SourceNext]_pvars => SourceInv'
  <1> SUFFICES ASSUME SourceInv, [SourceNext]_pvars PROVE SourceInv' OBVIOUS
  <1>t. SourceTypeOK /\ StoreInv /\ ObserveInv /\ QueueInv BY DEF SourceInv
  <1>s. [StoreNext]_svars BY <1>t, SourceStoreStep
  <1>d. StoreInv' /\ Follows(durable, durable')
    BY <1>s, <1>t, StoreNextInv, DurableStep
  <1>1. ASSUME NEW c \in Callers, Resolve(c) PROVE SourceInv'
    <2>1. QueueInv' /\ queue' \in [Processes -> Seq(Callers)]
      BY <1>1, <1>t, ResolveQueue
    <2>2. UNCHANGED <<svars, cached, got, top>> /\ now' \in 0..MaxTime
      BY <1>1, <1>t DEF Resolve, SourceTypeOK
    <2>3. PICK force \in BOOLEAN :
             call' = [call EXCEPT ![c].pc = "waiting", ![c].force = force]
      BY <1>1 DEF Resolve
    <2>4. call' \in [Callers -> [pc : {"idle", "waiting", "fetching", "observing"},
                             force : BOOLEAN, release : Signed \cup {NoRelease},
                             floor : Nat]]
      BY <1>t, <2>3, PlaceTypes
    <2>5. \A d \in Callers : \/ call'[d] = call[d]
                             \/ /\ call[d].pc # "observing" /\ call'[d].pc # "observing"
                                /\ call'[d].floor = call[d].floor
      BY <1>1, <1>t, <2>3 DEF SourceTypeOK, Resolve
    <2>6. QED BY <2>1, <2>2, <2>4, <2>5, QuietInv
  <1>2. ASSUME NEW c \in Callers, Work(c) PROVE SourceInv'
    BY <1>2, <1>d, WorkInv
  <1>3. ASSUME NEW p \in Processes, ProcessDies(p) PROVE SourceInv'
    <2>1. job' = [c \in Callers |-> IF Process[c] \in {p} THEN Idle ELSE job[c]]
      BY <1>3 DEF ProcessDies, Kill
    <2>2. disk' = disk /\ Forget({p}) BY <1>3 DEF ProcessDies, Kill
    <2>3. QED BY <1>d, <2>1, <2>2, ForgetInv
  <1>4. CASE MachineFalls
    <2>1. job' = [c \in Callers |-> IF Process[c] \in Processes THEN Idle ELSE job[c]]
      BY <1>4, SourceAssumption DEF MachineFalls, PowerLoss
    <2>2. Forget(Processes) BY <1>4 DEF MachineFalls
    <2>3. QED BY <1>d, <2>1, <2>2, ForgetInv
  <1>5. CASE Tick \/ UNCHANGED pvars
    <2>1. UNCHANGED <<svars, cached, got, top, queue, call>> BY <1>5 DEF Tick, pvars, rvars
    <2>2. now' \in 0..MaxTime
      BY <1>5, <1>t, SourceAssumption DEF Tick, pvars, rvars, SourceTypeOK
    <2>3. QueueInv' BY <1>t, <2>1 DEF QueueInv, TailFree
    <2>4. QED BY <1>t, <2>1, <2>2, <2>3, QuietInv DEF SourceTypeOK
  <1>6. QED BY <1>1, <1>2, <1>3, <1>4, <1>5 DEF SourceNext

----------------------------------------------------------------------------
(* The theorems                                                            *)

\* The invariant of the source over its durable store: the order of the promise
\* tail, what an observe carries, and where what was confirmed is found.
THEOREM SourceInductive == SourceSpec => []SourceInv
  BY SourceInitInv, SourceNextInv, PTL DEF SourceSpec

\* The types of the source's variables, in every reachable state.
THEOREM SourceTypeCorrect == SourceSpec => []SourceTypeOK
  <1>1. SourceInv => SourceTypeOK BY DEF SourceInv
  <1>2. QED BY <1>1, SourceInductive, PTL

\* The sources, in however many processes, use the store as its own callers do:
\* every step of theirs is a step of the store or leaves it alone.
THEOREM SourceImplementsStore == SourceSpec => StoreSpec
  <1>1. SourceInit => StoreInit BY DEF SourceInit
  <1>2. SourceInv /\ [SourceNext]_pvars => [StoreNext]_svars
    BY SourceStoreStep DEF SourceInv
  <1>3. QED BY <1>1, <1>2, SourceInductive, PTL DEF SourceSpec, StoreSpec

\* Stable storage never goes back under the sources either.
THEOREM SourceDurableForward == SourceSpec => DurableForward
  BY SourceImplementsStore, AlwaysDurableForward, PTL

\* An observe that a source awaited is on stable storage, when syncs do not fail.
THEOREM SourceObservedDurable ==
    ASSUME ~SyncFails PROVE SourceSpec => []ObservedDurable
  BY SourceImplementsStore, AlwaysObservedDurable, PTL

\* What any process holds as verified was persisted first, when directory syncs do
\* not fail.
THEOREM AlwaysPersistedFirst ==
    ASSUME ~SyncFails PROVE SourceSpec => []PersistedFirst
  <1>1. SourceInv => PersistedFirst BY DEF SourceInv
  <1>2. QED BY <1>1, SourceInductive, PTL

\* What the feed served is at least as recent as what anyone had been given when
\* the resolve asked, when directory syncs do not fail.
THEOREM NeverReplayed ==
    ASSUME ~SyncFails PROVE SourceSpec => []NoReplay
  <1>1. SourceInv => NoReplay BY DEF SourceInv
  <1>2. QED BY <1>1, SourceInductive, PTL

\* Processes that share the store never hold two policies of one sequence, even
\* when directory syncs fail.
THEOREM NeverForked == SourceSpec => []NoFork
  <1>1. SourceInv => NoFork
    <2> SUFFICES ASSUME SourceInv, NEW p \in Processes, NEW q \in Processes,
                        cached[p] # None, cached[q] # None,
                        cached[p].release.seq = cached[q].release.seq
                 PROVE  cached[p].release = cached[q].release
      BY DEF NoFork
    <2> DEFINE a == cached[p].release
               b == cached[q].release
    <2>1. a \in Signed /\ b \in Signed BY HeldFacts DEF SourceInv
    <2>2. Digest(a) \in Confirmed /\ Digest(b) \in Confirmed BY DEF Confirmed
    <2>3. Digest(a).seq = Digest(b).seq BY DEF Digest
    <2>4. Digest(a) = Digest(b) BY <2>2, <2>3 DEF SourceInv, ConfirmedInv
    <2>5. a.seq = b.seq /\ a.sha = b.sha BY <2>1, <2>4, Releases
    <2>6. QED BY <2>1, <2>5, SourceAssumption
  <1>2. QED BY <1>1, SourceInductive, PTL

\* A revocation that a living process has verified is not taken back.
THEOREM NeverUnrevoked == SourceSpec => RevocationsKept
  <1> DEFINE Kept == \A p \in Processes : cached[p] # None /\ cached'[p] # None
                        => cached[p].release.revoked \subseteq cached'[p].release.revoked
  <1>1. SourceInv /\ [SourceNext]_pvars => Kept
    <2> SUFFICES ASSUME SourceInv, [SourceNext]_pvars, NEW p \in Processes,
                        cached[p] # None, cached'[p] # None
                 PROVE  cached[p].release.revoked \subseteq cached'[p].release.revoked
      OBVIOUS
    <2>1. CASE cached'[p] = cached[p] BY <2>1
    <2>2. ASSUME NEW c \in Callers, Accept(c), p = Process[c]
          PROVE  cached[p].release.revoked \subseteq cached'[p].release.revoked
      <3>1. cached'[p].release = call[c].release /\ call[c].pc = "observing"
        BY <2>2 DEF Accept, SourceInv, SourceTypeOK
      <3>2. call[c].release \in Signed /\ MayFollow(cached[p], call[c].release)
        BY <2>2, <3>1 DEF SourceInv, ObserveInv
      <3>3. Succeeds(cached[p].release, call[c].release) BY <3>2 DEF MayFollow
      <3>4. cached[p].release \in Signed BY HeldFacts DEF SourceInv
      <3>5. CASE cached[p].release.seq = call[c].release.seq
        <4>1. cached[p].release = call[c].release
          BY <3>2, <3>3, <3>4, <3>5, SourceAssumption DEF Succeeds
        <4>2. QED BY <3>1, <4>1
      <3>6. CASE cached[p].release.seq # call[c].release.seq
        <4>1. cached[p].release.seq \in Nat /\ call[c].release.seq \in Nat
          BY <3>2, <3>4, Releases
        <4>2. QED BY <3>1, <3>3, <3>6, <4>1 DEF Succeeds
      <3>7. QED BY <3>5, <3>6
    <2>3. CASE \E d \in SUBSET Processes : Forget(d)
      BY <2>3 DEF Forget
    <2>4. ASSUME NEW c \in Callers, Accept(c), p # Process[c] PROVE cached'[p] = cached[p]
      BY <2>4 DEF Accept, SourceInv, SourceTypeOK
    <2>5. ASSUME NEW c \in Callers, Resolve(c) \/ (Work(c) /\ ~Accept(c))
          PROVE  UNCHANGED cached
      BY <2>5 DEF Resolve, Work, Turn, ResolveRefused, FeedOffline, FeedOversize,
        FeedRefused, Offline, FeedAnswers, StoreWorks, StoreRefused, rvars
    <2>6. Tick \/ UNCHANGED pvars => UNCHANGED cached BY DEF Tick, pvars, rvars
    <2>7. (\E q \in Processes : ProcessDies(q)) \/ MachineFalls
            => \E d \in SUBSET Processes : Forget(d)
      BY DEF ProcessDies, MachineFalls
    <2>8. QED BY <2>1, <2>2, <2>3, <2>4, <2>5, <2>6, <2>7 DEF SourceNext
  <1>2. SourceInv /\ [SourceNext]_pvars => [Kept]_pvars BY <1>1
  <1>3. QED BY <1>2, SourceInductive, PTL DEF SourceSpec, RevocationsKept
=============================================================================
