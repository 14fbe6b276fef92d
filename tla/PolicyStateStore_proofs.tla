----------------------- MODULE PolicyStateStore_proofs -----------------------
(* Proofs about PolicyStateStore, for any callers and checkpoints.         *)
EXTENDS PolicyStateStore, TLAPS

\* What the invariant says besides the types.
StoreRest == LockInv /\ DurableInv /\ (SyncFails \/ ObservedDurable)

\* A checkpoint's sequence is a number, and the missing file's is zero.
LEMMA CheckpointTypes ==
    /\ NoFile.seq = 0
    /\ \A a \in Checkpoints \cup {NoFile} : a.seq \in Nat
    /\ \A a \in Checkpoints : a.seq > 0
  BY StoreAssumption DEF NoFile

\* Follows is a preorder on checkpoints.
LEMMA FollowsOrder ==
    ASSUME NEW a \in Checkpoints \cup {NoFile},
           NEW b \in Checkpoints \cup {NoFile},
           NEW d \in Checkpoints \cup {NoFile}
    PROVE  Follows(a, a) /\ (Follows(a, b) /\ Follows(b, d) => Follows(a, d))
  <1>1. a.seq \in Nat /\ b.seq \in Nat /\ d.seq \in Nat BY CheckpointTypes
  <1>2. QED BY <1>1 DEF Follows

\* What a caller in a given place of observe is about to do.
LEMMA JobStep ==
    ASSUME StoreTypeOK, NEW c \in Callers, NEW pc, NEW ok,
           job' = [job EXCEPT ![c].pc = pc]
           \/ job' = [job EXCEPT ![c].pc = pc, ![c].ok = ok]
    PROVE  /\ job'[c].pc = pc /\ job'[c].cp = job[c].cp
           /\ job'[c].ok \in {job[c].ok, ok}
           /\ \A d \in Callers : d # c => job'[d] = job[d]
           /\ pc \in {"idle", "locking", "observed", "refused"} \cup Owning
                 /\ ok \in BOOLEAN => job' \in [Callers -> Jobs]
  BY DEF StoreTypeOK, Jobs

\* The store starts without a file, a lock or an observe.
LEMMA StoreInitInv == StoreInit => StoreInv
  <1> SUFFICES ASSUME StoreInit PROVE StoreInv OBVIOUS
  <1>1. StoreTypeOK
    BY DEF StoreInit, StoreTypeOK, Idle, Jobs
  <1>2. LockInv /\ DurableInv /\ ObservedDurable
    BY DEF StoreInit, Idle, Owning, LockInv, DurableInv, ObservedDurable,
      Follows
  <1>3. QED BY <1>1, <1>2 DEF StoreInv

\* A step that touches only the jobs of callers that end up outside of the lock,
\* idle, waiting or refused, keeps the invariant.
LEMMA OutsideInv ==
    ASSUME StoreInv, UNCHANGED <<disk, durable, lock>>,
           job' \in [Callers -> Jobs],
           \A d \in Callers : job'[d] = job[d]
              \/ job'[d].pc = "idle"
              \/ /\ job'[d].pc \in {"locking", "refused"}
                 /\ job'[d].cp \in Checkpoints
    PROVE  StoreInv'
  <1>1. StoreTypeOK' BY DEF StoreInv, StoreTypeOK
  <1>2. LockInv' BY DEF StoreInv, LockInv, Owning
  <1>3. DurableInv' BY DEF StoreInv, DurableInv, Owning
  <1>4. (SyncFails \/ ObservedDurable)' BY DEF StoreInv, ObservedDurable
  <1>5. QED BY <1>1, <1>2, <1>3, <1>4 DEF StoreInv

\* Every step of an observe keeps the invariant.
LEMMA StoreStepInv ==
    ASSUME StoreInv, NEW c \in Callers, StoreStep(c) PROVE StoreInv'
  <1> USE DEF StoreInv, Step, Leave
  <1>t. /\ StoreTypeOK /\ job[c].cp \in Checkpoints \cup {NoFile}
        /\ disk \in Checkpoints \cup {NoFile}
        /\ durable \in Checkpoints \cup {NoFile}
        /\ disk.seq \in Nat /\ job[c].cp.seq \in Nat
        /\ job[c].ok \in BOOLEAN
    BY CheckpointTypes DEF StoreTypeOK, Jobs
  <1>o. \A d \in Callers : d # c /\ job[c].pc \in Owning => job[d].pc \notin Owning
    BY DEF LockInv
  <1>1. CASE TakeLock(c)
    <2>1. /\ job'[c].pc = "reading" /\ job'[c].cp = job[c].cp
          /\ \A d \in Callers : d # c => job'[d] = job[d]
          /\ job' \in [Callers -> Jobs]
          /\ ~lock /\ lock' = TRUE /\ disk' = disk /\ durable' = durable
      BY <1>1, <1>t, JobStep DEF TakeLock, LockFree, Owning
    <2>2. \A d \in Callers : job[d].pc \notin Owning BY <2>1 DEF LockInv
    <2>3. LockInv' BY <1>1, <2>1, <2>2 DEF TakeLock, LockInv, Owning
    <2>4. DurableInv' BY <2>1, <2>2 DEF DurableInv, Owning
    <2>5. (SyncFails \/ ObservedDurable)' BY <2>1 DEF ObservedDurable
    <2>6. StoreTypeOK' BY <1>t, <2>1 DEF StoreTypeOK
    <2>7. QED BY <2>3, <2>4, <2>5, <2>6
  <1>2. CASE LockUnavailable(c)
    <2>1. /\ job'[c].pc = "refused" /\ job' \in [Callers -> Jobs]
          /\ job'[c].cp = job[c].cp
          /\ \A d \in Callers : d # c => job'[d] = job[d]
      BY <1>2, <1>t, JobStep DEF LockUnavailable
    <2>2. job[c].cp \in Checkpoints BY <1>2 DEF LockUnavailable, LockInv
    <2>3. QED BY <1>2, <2>1, <2>2, OutsideInv DEF LockUnavailable
  <1>r. ASSUME NEW ok \in BOOLEAN, Leave(c, ok),
               UNCHANGED <<disk, durable, lock>>,
               job[c].pc \in Owning, job[c].pc # "syncing" \/ SyncFails,
               ok => Follows(job[c].cp, disk)
        PROVE  StoreInv'
    <2>1. /\ job'[c].pc = "releasing" /\ job'[c].cp = job[c].cp
          /\ job'[c].ok \in {job[c].ok, ok}
          /\ \A d \in Callers : d # c => job'[d] = job[d]
          /\ job' \in [Callers -> Jobs]
      BY <1>r, <1>t, JobStep DEF Owning
    <2>2. job'[c].ok = ok BY <1>r, <1>t DEF StoreTypeOK, Jobs
    <2>3. LockInv' BY <1>r, <1>o, <2>1 DEF LockInv, Owning
    <2>4. DurableInv' BY <1>r, <1>o, <2>1, <2>2 DEF DurableInv, Owning
    <2>5. (SyncFails \/ ObservedDurable)' BY <1>r, <2>1 DEF ObservedDurable
    <2>6. StoreTypeOK' BY <1>r, <1>t, <2>1 DEF StoreTypeOK
    <2>7. QED BY <2>3, <2>4, <2>5, <2>6
  <1>3. CASE ReadState(c)
    <2>0. /\ job[c].pc = "reading" /\ job[c].pc \in Owning
          /\ UNCHANGED <<disk, durable, lock>>
      BY <1>3 DEF ReadState, Owning
    <2>1. CASE Leave(c, FALSE) BY <1>r, <2>0, <2>1
    <2>2. CASE /\ disk # NoFile /\ Allows(disk, job[c].cp)
               /\ disk.seq = job[c].cp.seq /\ Leave(c, TRUE)
      <3>1. Follows(job[c].cp, disk)
        <4>1. job[c].cp # NoFile
          BY <1>t, <2>2, CheckpointTypes
        <4>2. job[c].cp \in [seq : Nat \ {0}, sha : Nat]
              /\ disk \in [seq : Nat \ {0}, sha : Nat]
          BY <1>t, <2>2, <4>1, StoreAssumption
        <4>3. disk = job[c].cp BY <2>2, <4>2 DEF Allows
        <4>4. QED BY <4>3 DEF Follows
      <3>2. QED BY <1>r, <2>0, <2>2, <3>1
    <2>3. CASE /\ disk = NoFile
                  \/ (Allows(disk, job[c].cp) /\ disk.seq # job[c].cp.seq)
               /\ Step(c, "writing")
      <3>1. /\ job'[c].pc = "writing" /\ job'[c].cp = job[c].cp
            /\ \A d \in Callers : d # c => job'[d] = job[d]
            /\ job' \in [Callers -> Jobs]
        BY <1>t, <2>3, JobStep DEF Owning
      <3>2. job[c].cp.seq > disk.seq
        <4>1. job[c].cp \in Checkpoints BY <2>0 DEF LockInv
        <4>2. QED BY <1>t, <2>3, <4>1, CheckpointTypes DEF Allows
      <3>3. LockInv' BY <1>o, <2>0, <3>1, <3>2 DEF LockInv, Owning
      <3>4. DurableInv' BY <1>o, <2>0, <3>1 DEF DurableInv, Owning
      <3>5. (SyncFails \/ ObservedDurable)'
        BY <2>0, <3>1 DEF ObservedDurable
      <3>6. StoreTypeOK' BY <1>t, <2>0, <3>1 DEF StoreTypeOK
      <3>7. QED BY <3>3, <3>4, <3>5, <3>6
    <2>4. QED BY <1>3, <2>1, <2>2, <2>3 DEF ReadState
  <1>4. CASE WriteTemp(c)
    <2>0. /\ job[c].pc = "writing" /\ job[c].pc \in Owning
          /\ UNCHANGED <<disk, durable, lock>>
      BY <1>4 DEF WriteTemp, Owning
    <2>1. CASE Leave(c, FALSE) BY <1>r, <2>0, <2>1
    <2>2. CASE Step(c, "renaming")
      <3>1. /\ job'[c].pc = "renaming" /\ job'[c].cp = job[c].cp
            /\ \A d \in Callers : d # c => job'[d] = job[d]
            /\ job' \in [Callers -> Jobs]
        BY <1>t, <2>2, JobStep DEF Owning
      <3>2. LockInv' BY <1>o, <2>0, <3>1 DEF LockInv, Owning
      <3>3. DurableInv' BY <1>o, <2>0, <3>1 DEF DurableInv, Owning
      <3>4. (SyncFails \/ ObservedDurable)'
        BY <2>0, <3>1 DEF ObservedDurable
      <3>5. StoreTypeOK' BY <1>t, <2>0, <3>1 DEF StoreTypeOK
      <3>6. QED BY <3>2, <3>3, <3>4, <3>5
    <2>3. QED BY <1>4, <2>1, <2>2 DEF WriteTemp
  <1>5. CASE Rename(c)
    <2>0. job[c].pc = "renaming" /\ job[c].pc \in Owning
          /\ UNCHANGED <<durable, lock>>
      BY <1>5 DEF Rename, Owning
    <2>1. CASE UNCHANGED disk /\ Leave(c, FALSE) BY <1>r, <2>0, <2>1
    <2>2. CASE disk' = job[c].cp /\ Step(c, "syncing")
      <3>1. /\ job'[c].pc = "syncing" /\ job'[c].cp = job[c].cp
            /\ \A d \in Callers : d # c => job'[d] = job[d]
            /\ job' \in [Callers -> Jobs]
        BY <1>t, <2>2, JobStep DEF Owning
      <3>2. job[c].cp.seq > disk.seq /\ lock BY <2>0 DEF LockInv
      <3>3. Follows(durable, disk)
        BY DEF DurableInv
      <3>4. durable.seq \in Nat BY <1>t, CheckpointTypes
      <3>5. Follows(durable, disk')
        BY <1>t, <2>2, <3>2, <3>3, <3>4 DEF Follows
      <3>6. LockInv'
        BY <1>o, <2>0, <2>2, <3>1 DEF LockInv, Owning
      <3>7. DurableInv'
        BY <1>o, <2>0, <2>2, <3>1, <3>2, <3>5 DEF DurableInv, Owning
      <3>8. (SyncFails \/ ObservedDurable)'
        BY <2>0, <3>1 DEF ObservedDurable
      <3>9. StoreTypeOK' BY <1>t, <2>0, <2>2, <3>1 DEF StoreTypeOK
      <3>10. QED BY <3>6, <3>7, <3>8, <3>9
    <2>3. QED BY <1>5, <2>1, <2>2 DEF Rename
  <1>6. CASE SyncDirectory(c)
    <2>0. job[c].pc = "syncing" /\ job[c].pc \in Owning
          /\ UNCHANGED <<disk, lock>>
      BY <1>6 DEF SyncDirectory, Owning
    <2>1. CASE SyncFails /\ UNCHANGED durable /\ Leave(c, FALSE)
      BY <1>r, <2>0, <2>1
    <2>2. CASE durable' = disk /\ Leave(c, TRUE)
      <3>1. /\ job'[c].pc = "releasing" /\ job'[c].cp = job[c].cp
            /\ \A d \in Callers : d # c => job'[d] = job[d]
            /\ job' \in [Callers -> Jobs]
        BY <1>t, <2>2, JobStep DEF Owning
      <3>2. job[c].cp = disk BY <2>0 DEF LockInv
      <3>3. LockInv' BY <1>o, <2>0, <3>1 DEF LockInv, Owning
      <3>4. DurableInv'
        BY <1>o, <1>t, <2>0, <2>2, <3>1, <3>2, FollowsOrder
        DEF DurableInv, Owning
      <3>5. (SyncFails \/ ObservedDurable)'
        <4>1. Follows(durable, durable') BY <2>2 DEF DurableInv
        <4>2. \A d \in Callers : job'[d].pc = "observed" =>
                 job'[d] = job[d] /\ job[d].cp \in Checkpoints \cup {NoFile}
          BY <3>1 DEF StoreTypeOK, Jobs
        <4>3. ASSUME ~SyncFails, NEW d \in Callers, job'[d].pc = "observed"
              PROVE  Follows(job'[d].cp, durable')
          <5>1. Follows(job[d].cp, durable)
            BY <4>2, <4>3 DEF ObservedDurable
          <5>2. job'[d].cp \in Checkpoints \cup {NoFile}
            BY <4>2, <4>3
          <5>3. durable' \in Checkpoints \cup {NoFile} BY <1>t, <2>2
          <5>4. job'[d].cp = job[d].cp BY <4>2, <4>3
          <5>5. QED BY <1>t, <4>1, <5>1, <5>2, <5>3, <5>4, FollowsOrder
        <4>4. QED BY <4>3 DEF ObservedDurable
      <3>6. StoreTypeOK' BY <1>t, <2>0, <2>2, <3>1 DEF StoreTypeOK
      <3>7. QED BY <3>3, <3>4, <3>5, <3>6
    <2>3. QED BY <1>6, <2>1, <2>2 DEF SyncDirectory, Synced
  <1>7. CASE ReleaseLock(c)
    <2>0. /\ job[c].pc = "releasing" /\ lock' \in {lock, FALSE}
          /\ disk' = disk /\ durable' = durable /\ job[c].pc \in Owning
      BY <1>7 DEF ReleaseLock, Owning
    <2>1. /\ job'[c].pc = "refused" \/ (job'[c].pc = "observed" /\ job[c].ok)
          /\ job'[c].cp = job[c].cp
          /\ \A d \in Callers : d # c => job'[d] = job[d]
          /\ job' \in [Callers -> Jobs]
      BY <1>7, <1>t, JobStep DEF ReleaseLock
    <2>2. \A d \in Callers : job'[d].pc \notin Owning
      BY <1>o, <2>0, <2>1 DEF Owning
    <2>3. LockInv' BY <2>0, <2>1, <2>2 DEF LockInv, Owning
    <2>4. DurableInv' BY <2>0, <2>2 DEF DurableInv, Owning
    <2>5. (SyncFails \/ ObservedDurable)'
      BY <2>0, <2>1 DEF ObservedDurable, DurableInv, Owning
    <2>6. StoreTypeOK' BY <1>t, <2>0, <2>1 DEF StoreTypeOK
    <2>7. QED BY <2>3, <2>4, <2>5, <2>6
  <1>8. QED
    BY <1>1, <1>2, <1>3, <1>4, <1>5, <1>6, <1>7 DEF StoreStep

\* Every step of the store keeps the invariant, a kill and a loss of power too.
LEMMA StoreNextInv == StoreInv /\ [StoreNext]_svars => StoreInv'
  <1> SUFFICES ASSUME StoreInv, [StoreNext]_svars PROVE StoreInv' OBVIOUS
  <1>i. Idle \in Jobs BY DEF Idle, Jobs
  <1>1. ASSUME NEW c \in Callers, NEW cp \in Checkpoints, Observe(c, cp)
        PROVE  StoreInv'
    <2>1. [pc |-> "locking", cp |-> cp, ok |-> FALSE] \in Jobs BY DEF Jobs
    <2>2. job' \in [Callers -> Jobs]
      BY <1>1, <2>1 DEF Observe, StoreInv, StoreTypeOK
    <2>3. \A d \in Callers :
             job'[d] = job[d] \/ (job'[d].pc = "locking" /\ job'[d].cp = cp)
      BY <1>1 DEF Observe, StoreInv, StoreTypeOK
    <2>4. QED BY <1>1, <2>2, <2>3, OutsideInv DEF Observe
  <1>2. ASSUME NEW c \in Callers, StoreStep(c) PROVE StoreInv'
    BY <1>2, StoreStepInv
  <1>3. CASE (\E c \in Callers : Return(c)) \/ \E killed \in SUBSET Callers : Kill(killed)
    <2>1. job' \in [Callers -> Jobs]
      BY <1>3, <1>i DEF Return, Kill, StoreInv, StoreTypeOK
    <2>2. \A d \in Callers : job'[d] = job[d] \/ job'[d].pc = "idle"
      BY <1>3 DEF Return, Kill, StoreInv, StoreTypeOK, Idle
    <2>3. QED BY <1>3, <2>1, <2>2, OutsideInv DEF Return, Kill
  <1>4. CASE PowerLoss
    <2>1. \A d \in Callers : job'[d] = Idle BY <1>4 DEF PowerLoss
    <2>2. StoreTypeOK'
      BY <1>4, <1>i DEF PowerLoss, StoreInv, StoreTypeOK
    <2>3. LockInv' BY <2>1 DEF LockInv, Idle, Owning
    <2>4. Follows(durable', disk') BY <1>4 DEF PowerLoss, Follows
    <2>5. DurableInv'
      BY <1>4, <2>1, <2>4 DEF PowerLoss, DurableInv, Idle, Owning
    <2>6. ObservedDurable' BY <2>1 DEF ObservedDurable, Idle
    <2>7. QED BY <2>2, <2>3, <2>5, <2>6 DEF StoreInv
  <1>5. CASE UNCHANGED svars
    BY <1>5 DEF svars, StoreInv, StoreTypeOK, LockInv, DurableInv,
      ObservedDurable
  <1>6. QED BY <1>1, <1>2, <1>3, <1>4, <1>5 DEF StoreNext

\* The store's invariant: one owner of the lock, writes that follow the file,
\* and a visible file never behind stable storage (state-node.ts).
THEOREM StoreInductive == StoreSpec => []StoreInv
  BY StoreInitInv, StoreNextInv, PTL DEF StoreSpec

\* Types of the store, for any callers and checkpoints.
THEOREM StoreTypeCorrect == StoreSpec => []StoreTypeOK
  <1>1. StoreInv => StoreTypeOK BY DEF StoreInv
  <1>2. QED BY <1>1, StoreInductive, PTL

\* When directory syncs do not fail, a resolved observe is on stable storage.
THEOREM AlwaysObservedDurable ==
    ASSUME ~SyncFails PROVE StoreSpec => []ObservedDurable
  <1>1. StoreInv => ObservedDurable BY DEF StoreInv
  <1>2. QED BY <1>1, StoreInductive, PTL

\* Every step leaves stable storage alone or moves it forward.
LEMMA DurableStep == StoreInv /\ [StoreNext]_svars => Follows(durable, durable')
  <1> SUFFICES ASSUME StoreInv, [StoreNext]_svars PROVE Follows(durable, durable')
    OBVIOUS
  <1>1. Follows(durable, durable) /\ Follows(durable, disk)
    BY DEF StoreInv, DurableInv, Follows
  <1>2. CASE PowerLoss BY <1>1, <1>2 DEF PowerLoss
  <1>3. CASE \E c \in Callers : SyncDirectory(c)
    BY <1>1, <1>3 DEF SyncDirectory, Synced
  <1>4. CASE durable' = durable BY <1>1, <1>4
  <1>5. QED
    BY <1>2, <1>3, <1>4 DEF StoreNext, StoreStep, Observe, TakeLock,
      LockUnavailable, ReadState, WriteTemp, Rename, ReleaseLock, Return, Kill, svars

\* The checkpoint on stable storage only moves forward, through kills, losses of
\* power and failing syncs.
THEOREM AlwaysDurableForward == StoreSpec => DurableForward
  <1>1. StoreInv /\ [StoreNext]_svars => [Follows(durable, durable')]_svars
    BY DurableStep
  <1>2. QED BY <1>1, StoreInductive, PTL DEF StoreSpec, DurableForward
=============================================================================
