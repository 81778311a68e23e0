------------------------------- MODULE MrswLock -------------------------------
(***************************************************************************)
(* The MultiReaderSingleWriter lock of libaltfs, as ltfs_locking_new.h     *)
(* builds it (the default of configure): a mutex that every acquisition    *)
(* passes through, a pthread rwlock, and the two flags `writer' and        *)
(* `long_lock'.  One action per access to shared state, so that the flags, *)
(* which are read without any lock, are seen in all their orders.          *)
(*                                                                         *)
(* A thread is `idle', inside a function of the lock, `writing' or         *)
(* `reading'.  op[t] is the acquire function a thread is in.               *)
(***************************************************************************)
CONSTANTS Threads, NoThread

ASSUME NoThreadAssumption == NoThread \notin Threads

VARIABLES
  exclusive_mutex,  \* its owner, or NoThread
  rw_writer,        \* rw_lock: the thread that has it for writing, or NoThread
  rw_readers,       \* rw_lock: the threads that have it for reading
  writer,           \* the flags
  long_lock,
  op,
  pc

vars == <<exclusive_mutex, rw_writer, rw_readers, writer, long_lock, op, pc>>

WriteOps == {"acquirewrite", "acquirewrite_long", "try_acquirewrite"}
ReadOps == {"acquireread", "acquireread_short"}
Labels ==
  {"idle", "enter", "trymutex", "recheck", "gate", "ungate", "rdlock",
   "reading", "wrlock", "setwriter", "setlong", "writing",
   "rel_writer", "rel_long", "rel_rw", "rel_mutex",
   "down_writer", "down_long", "down_unlock", "down_rdlock", "down_mutex"}

Init ==
  /\ exclusive_mutex = NoThread
  /\ rw_writer = NoThread
  /\ rw_readers = {}
  /\ writer = FALSE
  /\ long_lock = FALSE
  /\ op = [t \in Threads |-> "acquireread"]
  /\ pc = [t \in Threads |-> "idle"]

GoTo(t, label) == pc' = [pc EXCEPT ![t] = label]

LockMutex(t) ==
  /\ exclusive_mutex = NoThread
  /\ exclusive_mutex' = t
UnlockMutex == exclusive_mutex' = NoThread

RwFree == rw_writer = NoThread /\ rw_readers = {}
UnlockRw(t) ==
  /\ rw_writer' = IF rw_writer = t THEN NoThread ELSE rw_writer
  /\ rw_readers' = rw_readers \ {t}

------------------------------------------------------------------------------
(* Acquiring *)

Call(t) ==
  /\ pc[t] = "idle"
  /\ \E f \in WriteOps \cup ReadOps : op' = [op EXCEPT ![t] = f]
  /\ GoTo(t, "enter")
  /\ UNCHANGED <<exclusive_mutex, rw_writer, rw_readers, writer, long_lock>>

(* The mutex is the gate of every acquisition; only try_acquirewrite_mrsw  *)
(* gives up on a mutex that is taken, and acquireread_mrsw_short does not  *)
(* wait for it but comes back (TryGate).                                   *)
(* Mutant: readers do not pass the gate. *)
EnterBlocking_NoGate(t) ==
  /\ pc[t] = "enter"
  /\ op[t] # "acquireread_short"
  /\ \/ op[t] \in WriteOps /\ LockMutex(t) /\ GoTo(t, "wrlock")
     \/ op[t] \notin WriteOps /\ GoTo(t, "rdlock") /\ UNCHANGED exclusive_mutex
  /\ UNCHANGED <<rw_writer, rw_readers, writer, long_lock, op>>

EnterBlocking(t) ==
  /\ pc[t] = "enter"
  /\ op[t] # "acquireread_short"
  /\ LockMutex(t)
  /\ GoTo(t, IF op[t] \in WriteOps THEN "wrlock" ELSE "gate")
  /\ UNCHANGED <<rw_writer, rw_readers, writer, long_lock, op>>

TryFailsOnMutex(t) ==
  /\ pc[t] = "enter"
  /\ op[t] = "try_acquirewrite"
  /\ exclusive_mutex # NoThread
  /\ GoTo(t, "idle")
  /\ UNCHANGED <<exclusive_mutex, rw_writer, rw_readers, writer, long_lock, op>>

WrLock(t) ==
  /\ pc[t] = "wrlock"
  /\ RwFree
  /\ rw_writer' = t
  /\ GoTo(t, "setwriter")
  /\ UNCHANGED <<exclusive_mutex, rw_readers, writer, long_lock, op>>

TryFailsOnRw(t) ==
  /\ pc[t] = "wrlock"
  /\ op[t] = "try_acquirewrite"
  /\ ~RwFree
  /\ UnlockMutex
  /\ GoTo(t, "idle")
  /\ UNCHANGED <<rw_writer, rw_readers, writer, long_lock, op>>

SetWriter(t) ==
  /\ pc[t] = "setwriter"
  /\ writer' = TRUE
  /\ GoTo(t, IF op[t] = "try_acquirewrite" THEN "writing" ELSE "setlong")
  /\ UNCHANGED <<exclusive_mutex, rw_writer, rw_readers, long_lock, op>>

SetLong(t) ==
  /\ pc[t] = "setlong"
  /\ long_lock' = (op[t] = "acquirewrite_long")
  /\ GoTo(t, "writing")
  /\ UNCHANGED <<exclusive_mutex, rw_writer, rw_readers, writer, op>>

(* acquireread_mrsw clears long_lock inside the gate *)
Gate(t) ==
  /\ pc[t] = "gate"
  /\ long_lock' = FALSE
  /\ GoTo(t, "ungate")
  /\ UNCHANGED <<exclusive_mutex, rw_writer, rw_readers, writer, op>>

Ungate(t) ==
  /\ pc[t] = "ungate"
  /\ UnlockMutex
  /\ GoTo(t, "rdlock")
  /\ UNCHANGED <<rw_writer, rw_readers, writer, long_lock, op>>

(* Mutant: the read lock is handed out beside a writer. *)
RdLock_NoWait(t) ==
  /\ pc[t] = "rdlock"
  /\ rw_readers' = rw_readers \cup {t}
  /\ GoTo(t, "reading")
  /\ UNCHANGED <<exclusive_mutex, rw_writer, writer, long_lock, op>>

RdLock(t) ==
  /\ pc[t] = "rdlock"
  /\ rw_writer = NoThread
  /\ rw_readers' = rw_readers \cup {t}
  /\ GoTo(t, "reading")
  /\ UNCHANGED <<exclusive_mutex, rw_writer, writer, long_lock, op>>

(* acquireread_mrsw_short: the flag is looked at before the first attempt  *)
(* on the mutex and after every attempt that fails.                        *)
CheckLong(t) ==
  /\ \/ pc[t] = "enter" /\ op[t] = "acquireread_short"
     \/ pc[t] = "recheck"
  /\ GoTo(t, IF long_lock THEN "idle" ELSE "trymutex")
  /\ UNCHANGED <<exclusive_mutex, rw_writer, rw_readers, writer, long_lock, op>>

TryGate(t) ==
  /\ pc[t] = "trymutex"
  /\ \/ LockMutex(t) /\ GoTo(t, "ungate")
     \/ /\ exclusive_mutex # NoThread
        /\ GoTo(t, "recheck")
        /\ UNCHANGED exclusive_mutex
  /\ UNCHANGED <<rw_writer, rw_readers, writer, long_lock, op>>

------------------------------------------------------------------------------
(* Releasing *)

ReleaseWrite(t) ==
  /\ pc[t] = "writing"
  /\ GoTo(t, "rel_writer")
  /\ UNCHANGED <<exclusive_mutex, rw_writer, rw_readers, writer, long_lock, op>>

WriteToRead(t) ==
  /\ pc[t] = "writing"
  /\ GoTo(t, "down_writer")
  /\ UNCHANGED <<exclusive_mutex, rw_writer, rw_readers, writer, long_lock, op>>

(* releaseread_mrsw, and the same unlock when release_mrsw chooses it *)
UnlockRead(t) ==
  /\ UnlockRw(t)
  /\ GoTo(t, "idle")
  /\ UNCHANGED <<exclusive_mutex, writer, long_lock, op>>

ReleaseRead(t) ==
  /\ pc[t] = "reading"
  /\ UnlockRead(t)

(* release_mrsw knows from the flag alone which of the two locks the       *)
(* caller has.                                                             *)
ReleaseAny(t) ==
  /\ pc[t] \in {"reading", "writing"}
  /\ \/ /\ writer
        /\ GoTo(t, "rel_writer")
        /\ UNCHANGED <<exclusive_mutex, rw_writer, rw_readers, writer, long_lock, op>>
     \/ ~writer /\ UnlockRead(t)

ClearWriter(t) ==
  /\ pc[t] \in {"rel_writer", "down_writer"}
  /\ writer' = FALSE
  /\ GoTo(t, IF pc[t] = "rel_writer" THEN "rel_long" ELSE "down_long")
  /\ UNCHANGED <<exclusive_mutex, rw_writer, rw_readers, long_lock, op>>

ClearLong(t) ==
  /\ pc[t] \in {"rel_long", "down_long"}
  /\ long_lock' = FALSE
  /\ GoTo(t, IF pc[t] = "rel_long" THEN "rel_rw" ELSE "down_unlock")
  /\ UNCHANGED <<exclusive_mutex, rw_writer, rw_readers, writer, op>>

(* Mutant: a downgrade gives up the mutex together with the write lock. *)
UnlockWrite_OpensGate(t) ==
  /\ pc[t] \in {"rel_rw", "down_unlock"}
  /\ UnlockRw(t)
  /\ UnlockMutex
  /\ GoTo(t, IF pc[t] = "rel_rw" THEN "rel_mutex" ELSE "down_rdlock")
  /\ UNCHANGED <<writer, long_lock, op>>

UnlockWrite(t) ==
  /\ pc[t] \in {"rel_rw", "down_unlock"}
  /\ UnlockRw(t)
  /\ GoTo(t, IF pc[t] = "rel_rw" THEN "rel_mutex" ELSE "down_rdlock")
  /\ UNCHANGED <<exclusive_mutex, writer, long_lock, op>>

DownRdLock(t) ==
  /\ pc[t] = "down_rdlock"
  /\ rw_writer = NoThread
  /\ rw_readers' = rw_readers \cup {t}
  /\ GoTo(t, "down_mutex")
  /\ UNCHANGED <<exclusive_mutex, rw_writer, writer, long_lock, op>>

LeaveMutex(t) ==
  /\ pc[t] \in {"rel_mutex", "down_mutex"}
  /\ UnlockMutex
  /\ GoTo(t, IF pc[t] = "rel_mutex" THEN "idle" ELSE "reading")
  /\ UNCHANGED <<rw_writer, rw_readers, writer, long_lock, op>>

------------------------------------------------------------------------------
Acquiring(t) ==
  \/ EnterBlocking(t) \/ TryFailsOnMutex(t) \/ WrLock(t) \/ TryFailsOnRw(t)
  \/ SetWriter(t) \/ SetLong(t) \/ Gate(t) \/ Ungate(t) \/ RdLock(t)
  \/ CheckLong(t) \/ TryGate(t)

Releasing(t) ==
  \/ ReleaseWrite(t) \/ ReleaseRead(t) \/ ReleaseAny(t) \/ ClearWriter(t)
  \/ ClearLong(t) \/ UnlockWrite(t) \/ DownRdLock(t) \/ LeaveMutex(t)

Next == \E t \in Threads : Call(t) \/ WriteToRead(t) \/ Acquiring(t) \/ Releasing(t)

Spec == Init /\ [][Next]_vars

(* A thread inside a function of the lock is scheduled, and a thread that  *)
(* has the lock comes to the end of what it does under it.  Nothing is     *)
(* assumed of the order in which a mutex or the rwlock is handed out, nor  *)
(* that a thread ever calls.                                               *)
FairSpec == Spec /\ \A t \in Threads : WF_vars(Acquiring(t)) /\ WF_vars(Releasing(t))

------------------------------------------------------------------------------
(* Properties *)

(* The mutex and rw_lock have at most one owner, the flags are flags. *)
TypeOK ==
  /\ exclusive_mutex \in Threads \cup {NoThread}
  /\ rw_writer \in Threads \cup {NoThread}
  /\ rw_readers \in SUBSET Threads
  /\ writer \in BOOLEAN
  /\ long_lock \in BOOLEAN
  /\ op \in [Threads -> WriteOps \cup ReadOps]
  /\ pc \in [Threads -> Labels]

(* The inductive invariant: where a thread is says exactly which of the    *)
(* locks it has, rw_lock is never shared with a writer, and a flag that is *)
(* set is the flag of the thread that has rw_lock for writing.             *)
MutexLabels ==
  {"gate", "ungate", "wrlock", "setwriter", "setlong", "writing",
   "rel_writer", "rel_long", "rel_rw", "rel_mutex",
   "down_writer", "down_long", "down_unlock", "down_rdlock", "down_mutex"}
WriteLabels ==
  {"setwriter", "setlong", "writing", "rel_writer", "rel_long", "rel_rw",
   "down_writer", "down_long", "down_unlock"}
ReadLabels == {"reading", "down_mutex"}
FlagLabels == {"setlong", "writing", "rel_writer", "down_writer"}
LongLabels == {"writing", "rel_writer", "rel_long", "down_writer", "down_long"}

IInv ==
  /\ TypeOK
  /\ \A t \in Threads :
       /\ exclusive_mutex = t <=> pc[t] \in MutexLabels
       /\ rw_writer = t <=> pc[t] \in WriteLabels
       /\ t \in rw_readers <=> pc[t] \in ReadLabels
       /\ pc[t] \in FlagLabels => writer
  /\ rw_writer # NoThread => rw_readers = {}
  /\ writer => \E t \in Threads : pc[t] \in FlagLabels
  /\ long_lock => \E t \in Threads : /\ pc[t] \in LongLabels
                                     /\ op[t] = "acquirewrite_long"

(* The protection a thread has.  A downgrading thread counts as a reader   *)
(* from the moment it gives up the write lock, although it has no lock at  *)
(* all until DownRdLock.                                                   *)
LockMode ==
  [t \in Threads |->
     IF rw_writer = t THEN "write"
     ELSE IF t \in rw_readers \/ pc[t] = "down_rdlock" THEN "read"
     ELSE "none"]

RW == INSTANCE ReadWriteLock WITH mode <- LockMode

(* The coded lock implements the abstract one: a writer is alone, and      *)
(* writetoread_mrsw never lets another writer in between giving up the     *)
(* write lock and having the read lock, although it releases rw_lock.      *)
ImplementsReadWriteLock == RW!RWSpec

(* release_mrsw's reading of the flag ("If there is a writer, and we hold  *)
(* a lock, we must be the writer") is right for every thread that holds    *)
(* the lock, whatever the others are doing to the flags.                   *)
WriterFlagNamesHolder ==
  \A t \in Threads : /\ pc[t] = "writing" => writer
                     /\ pc[t] = "reading" => ~writer

(* acquireread_mrsw_short turns a reader away only because of a long       *)
(* writer that still has the lock: long_lock never outlives its writer and *)
(* is not left behind by try_acquirewrite_mrsw, which does not set it.     *)
LongLockHasOwner ==
  long_lock => \E t \in Threads : /\ exclusive_mutex = t
                                  /\ rw_writer = t
                                  /\ op[t] = "acquirewrite_long"

(* A writer that is past the mutex gets the lock: no stream of readers can *)
(* keep it out, because they have to pass the mutex it holds.              *)
WriterPastTheGateGetsIn ==
  \A t \in Threads : pc[t] = "wrlock" ~> pc[t] \in {"writing", "idle"}
==============================================================================
