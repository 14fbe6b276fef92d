-------------------------- MODULE PolicyStateStore --------------------------
(***************************************************************************)
(* The durable gateway-policy checkpoint (gateway/state-node.ts, with the  *)
(* check of gateway/state.ts): one file, guarded by a lock directory,      *)
(* observed by callers in several processes that may be killed anywhere,   *)
(* on a machine that may lose power.                                       *)
(*                                                                         *)
(* Every awaited file operation is a step of its own.  What the file       *)
(* system makes visible (disk) and what would survive a loss of power      *)
(* (durable) differ between rename and the directory's fsync.              *)
(***************************************************************************)
EXTENDS Naturals

CONSTANTS
    Callers,       \* callers of observe, in whatever processes
    Checkpoints,   \* checkpoints they observe
    SyncFails      \* whether an fsync of the directory may fail

ASSUME StoreAssumption ==
    /\ Checkpoints \subseteq [seq : Nat \ {0}, sha : Nat]
    /\ SyncFails \in BOOLEAN

VARIABLES
    disk,          \* the checkpoint file, as read
    durable,       \* the checkpoint file, as it survives a loss of power
    lock,          \* the lock directory exists
    job            \* caller -> its observe: pc, checkpoint, outcome

svars == <<disk, durable, lock, job>>

NoFile == [seq |-> 0, sha |-> 0]
Idle   == [pc |-> "idle", cp |-> NoFile, ok |-> FALSE]

\* The states in which a caller owns the lock directory.
Owning == {"reading", "writing", "renaming", "syncing", "releasing"}

----------------------------------------------------------------------------
(* observe                                                                 *)

Step(c, pc) == job' = [job EXCEPT ![c].pc = pc]

\* finally { rmdir(lock) }: the outcome is settled, the lock is not yet gone.
Leave(c, ok) == job' = [job EXCEPT ![c].pc = "releasing", ![c].ok = ok]

\* observe(authority, checkpoint), up to the first try for the lock.
Observe(c, cp) ==
    /\ job[c].pc = "idle"
    /\ job' = [job EXCEPT ![c] = [pc |-> "locking", cp |-> cp, ok |-> FALSE]]
    /\ UNCHANGED <<disk, durable, lock>>

\* Mutant: a lock that is already there is taken over.
LockFreeAlways == TRUE

\* mkdir does not fail with EEXIST.
LockFree == ~lock

TakeLock(c) ==
    /\ job[c].pc = "locking" /\ LockFree
    /\ lock' = TRUE
    /\ Step(c, "reading")
    /\ UNCHANGED <<disk, durable>>

\* Ten seconds of EEXIST, or any other error of mkdir or lstat.
LockUnavailable(c) ==
    /\ job[c].pc = "locking"
    /\ Step(c, "refused")
    /\ UNCHANGED <<disk, durable, lock>>

\* checkGatewayPolicyCheckpoint.
Allows(previous, next) ==
    /\ next.seq >= previous.seq
    /\ next.seq = previous.seq => next.sha = previous.sha

\* The file is read and checked: refused, already there, or to be written.  A
\* file that cannot be read or parsed refuses too.
ReadState(c) ==
    LET next == job[c].cp
    IN /\ job[c].pc = "reading"
       /\ \/ Leave(c, FALSE)
          \/ disk # NoFile /\ Allows(disk, next) /\ disk.seq = next.seq
                /\ Leave(c, TRUE)
          \/ (disk = NoFile \/ (Allows(disk, next) /\ disk.seq # next.seq))
                /\ Step(c, "writing")
       /\ UNCHANGED <<disk, durable, lock>>

\* The temporary file is written and synced.
WriteTemp(c) ==
    /\ job[c].pc = "writing"
    /\ Step(c, "renaming") \/ Leave(c, FALSE)
    /\ UNCHANGED <<disk, durable, lock>>

\* rename: readers see the new checkpoint; the directory entry is not on disk.
Rename(c) ==
    /\ job[c].pc = "renaming"
    /\ \/ disk' = job[c].cp /\ Step(c, "syncing")
       \/ UNCHANGED disk /\ Leave(c, FALSE)
    /\ UNCHANGED <<durable, lock>>

\* Mutant: the directory is not synced.
SyncedNothing == durable

\* What dir.sync() leaves on stable storage.
Synced == disk

SyncDirectory(c) ==
    /\ job[c].pc = "syncing"
    /\ \/ durable' = Synced /\ Leave(c, TRUE)
       \/ SyncFails /\ UNCHANGED durable /\ Leave(c, FALSE)
    /\ UNCHANGED <<disk, lock>>

\* rmdir(lock); observe resolves or rejects.  An rmdir that fails rejects.
ReleaseLock(c) ==
    /\ job[c].pc = "releasing"
    /\ \/ lock' = FALSE /\ Step(c, IF job[c].ok THEN "observed" ELSE "refused")
       \/ UNCHANGED lock /\ Step(c, "refused")
    /\ UNCHANGED <<disk, durable>>

----------------------------------------------------------------------------
(* Failures                                                                *)

\* The process of these callers is killed, with all of them: the lock directory
\* stays.
Kill(killed) ==
    /\ job' = [c \in Callers |-> IF c \in killed THEN Idle ELSE job[c]]
    /\ UNCHANGED <<disk, durable, lock>>

\* The machine loses power: a rename that was not synced may be lost, and so may
\* the lock directory.
PowerLoss ==
    /\ job' = [c \in Callers |-> Idle]
    /\ disk' \in {disk, durable}
    /\ durable' = disk'
    /\ lock' \in {lock, FALSE}

----------------------------------------------------------------------------
(* The specification: callers that observe, again and again                *)

StoreInit == /\ disk = NoFile /\ durable = NoFile /\ lock = FALSE
             /\ job = [c \in Callers |-> Idle]

\* The caller has seen its outcome.
Return(c) == /\ job[c].pc \in {"observed", "refused"}
             /\ job' = [job EXCEPT ![c] = Idle]
             /\ UNCHANGED <<disk, durable, lock>>

StoreStep(c) == \/ TakeLock(c) \/ LockUnavailable(c) \/ ReadState(c)
                \/ WriteTemp(c) \/ Rename(c) \/ SyncDirectory(c)
                \/ ReleaseLock(c)

StoreNext == \/ \E c \in Callers :
                   \/ \E cp \in Checkpoints : Observe(c, cp)
                   \/ StoreStep(c) \/ Return(c)
             \/ \E killed \in SUBSET Callers : Kill(killed)
             \/ PowerLoss

StoreSpec == StoreInit /\ [][StoreNext]_svars

----------------------------------------------------------------------------
(* Properties                                                              *)

Jobs == [pc : {"idle", "locking", "observed", "refused"} \cup Owning,
         cp : Checkpoints \cup {NoFile}, ok : BOOLEAN]

\* The values of the file, the lock and the callers' jobs (state-node.ts).
StoreTypeOK == /\ disk \in Checkpoints \cup {NoFile}
               /\ durable \in Checkpoints \cup {NoFile}
               /\ lock \in BOOLEAN
               /\ job \in [Callers -> Jobs]

\* b may replace a: forward, or the same checkpoint.
Follows(a, b) == b.seq > a.seq \/ b = a

\* Whatever is killed and whenever power is lost, the checkpoint on stable
\* storage never goes back and is never replaced by another of its sequence.
DurableForward == [][Follows(durable, durable')]_svars

\* An observe that resolved is on stable storage, or a later checkpoint is: what
\* its caller accepts next cannot be rolled back by a restart.
ObservedDurable ==
    \A c \in Callers : job[c].pc = "observed" => Follows(job[c].cp, durable)

\* One caller at a time owns the lock directory, and the lock stands while it
\* does; what it is about to write follows what is there.
LockInv ==
    /\ \A c \in Callers : job[c].pc # "idle" => job[c].cp \in Checkpoints
    /\ \A c \in Callers : job[c].pc \in Owning => lock
    /\ \A c, d \in Callers :
          job[c].pc \in Owning /\ job[d].pc \in Owning => c = d
    /\ \A c \in Callers :
          job[c].pc \in {"writing", "renaming"} => job[c].cp.seq > disk.seq
    /\ \A c \in Callers : job[c].pc = "syncing" => job[c].cp = disk

\* The visible file is ahead of stable storage only while its writer has still
\* to sync it (or was killed before it could, and left the lock behind).
DurableInv ==
    /\ Follows(durable, disk)
    /\ SyncFails \/ disk = durable \/ lock
    /\ \A c \in Callers :
          job[c].pc \in Owning \ {"syncing"} => SyncFails \/ disk = durable
    /\ \A c \in Callers :
          job[c].pc = "releasing" /\ job[c].ok => Follows(job[c].cp, disk)

\* The inductive invariant.
StoreInv == StoreTypeOK /\ LockInv /\ DurableInv
              /\ (SyncFails \/ ObservedDurable)
=============================================================================
