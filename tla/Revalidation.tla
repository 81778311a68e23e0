----------------------------- MODULE Revalidation -----------------------------
(***************************************************************************)
(* How the library keeps everybody off a medium the drive no longer        *)
(* vouches for.  A tape command may answer NEED_REVAL (reset, reservation  *)
(* lost, medium may have changed): the thread that saw it raises the fence *)
(* of the device, upgrades its volume lock, checks the medium and lets the *)
(* others go on, or fails the volume.  The module models the locking       *)
(* wrappers of ltfs.c, ltfs_fsops_raw.c, ltfs_fsops.c and xattr.c around   *)
(* three pieces of shared state: vol->lock, the device mutex with its      *)
(* fence, and vol->reval with its condition variable.                      *)
(*                                                                         *)
(* A thread runs one operation at a time.  The operations differ in the    *)
(* lock they take, in what they do when they find the fence up, and in     *)
(* what they do with the answer of the drive:                              *)
(*   tur       ltfs_test_unit_ready, ltfs_fsraw_read                       *)
(*   cap       ltfs_capacity_data                                          *)
(*   write     ltfs_fsraw_write_data                                       *)
(*   sync      ltfs_sync_index(index_locking = true)                       *)
(*   getx      getxattr of an attribute an inner helper reads from the     *)
(*             drive (cartridge health, capacity, tape alert, vendor)      *)
(*   setx      setxattr that reaches an inner helper (tape alert, vendor)  *)
(*   easync    setxattr of ltfs.sync on the root                           *)
(*   fullsync  setxattr of an attribute that syncs under a read lock       *)
(*             (ltfs.commitMessage, FullSync, IncrementalSync)             *)
(*   logpage   getxattr of a log page or of the MAM                        *)
(*   unmount   ltfs_unmount, after every other request has returned        *)
(***************************************************************************)
EXTENDS Integers, ReadWriteLock

CONSTANTS Loads,       \* what a mount may be used for: the operations the threads
                       \* call (ops) and, as a bound, how many a thread calls (calls)
          NoThread,    \* "nobody" as owner of the device mutex
          MaxFaults    \* bound: answers of the drive that are not ok

AllOps == {"tur", "cap", "write", "sync", "getx", "setx", "easync",
           "fullsync", "logpage", "unmount"}

ASSUME LoadsAssumption == Loads \subseteq [ops : SUBSET AllOps, calls : Nat]
ASSUME NoThreadAssumption == NoThread \notin Threads
ASSUME BoundAssumption == MaxFaults \in Nat

VARIABLES load,     \* one of Loads, for the whole of a behaviour
          reval,    \* vol->reval: "ok" (0), "running" or "failed"
          fence,    \* device->fence
          device,   \* owner of device->backend_mutex
          jam,      \* vol->lock was released by nobody who held it, and
                    \* its reader count lets no writer in any more
          op,       \* op[t]: the operation t runs
          want,     \* want[t]: the lock t asks ltfs_get_volume_lock for
          ret,      \* ret[t]: the return code t carries
          pc,       \* pc[t]: where t is
          calls,    \* calls[t]: operations t has called
          faults,   \* answers other than ok so far
          mounted,  \* no unmount has been called
          suspect   \* history: the drive answered NEED_REVAL and no
                    \* revalidation has succeeded since

vars == <<load, mode, reval, fence, device, jam, op, want, ret, pc, calls, faults,
          mounted, suspect>>

shared == <<reval, fence, device, jam>>
local == <<op, want, calls, mounted>>

Rets == {"ok", "err", "reval", "move", "fenced", "running", "failed"}

Labels == {"idle", "get", "getSleep", "acquire", "check", "undo", "peek",
           "status", "dev", "cmd", "down", "out", "fail", "waitRelease",
           "wait", "waitSleep", "rvStart", "rvRelease", "rvAcquire", "rvBody",
           "rvLower", "rvRecord", "rvUnlock", "index", "uZero", "uLower",
           "uReset", "uAgain", "release"}

(* vol->reval has only its three values (never the raw error of a failed   *)
(* ltfs_revalidate), and every thread is at a known place.                 *)
TypeOK ==
  /\ load \in Loads
  /\ mode \in [Threads -> Modes]
  /\ reval \in {"ok", "running", "failed"}
  /\ fence \in BOOLEAN
  /\ device \in Threads \cup {NoThread}
  /\ jam \in BOOLEAN
  /\ op \in [Threads -> AllOps]
  /\ want \in [Threads -> {"read", "write"}]
  /\ ret \in [Threads -> Rets]
  /\ pc \in [Threads -> Labels]
  /\ calls \in [Threads -> 0..load.calls]
  /\ faults \in 0..MaxFaults
  /\ mounted \in BOOLEAN
  /\ suspect \in BOOLEAN

(* The lock an operation starts with, and whether it passes                *)
(* have_write_lock to ltfs_revalidate.                                     *)
FirstLock(o) == IF o \in {"write", "easync", "unmount"} THEN "write" ELSE "read"
HaveWriteLock(o) == o \in {"sync", "easync", "unmount"}

(* The operations that write an index with their device command.           *)
IndexOps == {"sync", "easync", "fullsync"}
(* The operations that raise the fence on NEED_REVAL, and record an eject  *)
(* request while they still own the device.                                *)
Fencing == {"tur", "cap", "write", "getx", "setx", "unmount"}
(* The operations that wait for a revalidation when the device is fenced.  *)
Waiting == {"tur", "cap", "write", "getx"}
(* The operations whose outer function records an eject request again,     *)
(* after the device has been unlocked.                                     *)
RecordsMoveAgain == {"cap", "write", "getx", "setx", "logpage"} \cup IndexOps

Init ==
  /\ load \in Loads
  /\ RWInit
  /\ reval = "ok"
  /\ fence = FALSE
  /\ device = NoThread
  /\ jam = FALSE
  /\ op \in [Threads -> {"tur"}]
  /\ want = [t \in Threads |-> "read"]
  /\ ret = [t \in Threads |-> "ok"]
  /\ pc = [t \in Threads |-> "idle"]
  /\ calls = [t \in Threads |-> 0]
  /\ faults = 0
  /\ mounted = TRUE
  /\ suspect = FALSE

Goto(t, l) == pc' = [pc EXCEPT ![t] = l]
Return(t, r) == ret' = [ret EXCEPT ![t] = r]

-------------------------------------------------------------------------------
(* A request arrives.  The unmount of FUSE comes when no other request is  *)
(* in the library, and is the last one.                                    *)
Call(t) ==
  /\ pc[t] = "idle" /\ mounted /\ calls[t] < load.calls
  /\ \E o \in load.ops :
       /\ o = "unmount" => \A u \in Threads : pc[u] = "idle"
       /\ mounted' = (o # "unmount")
       /\ op' = [op EXCEPT ![t] = o]
       /\ want' = [want EXCEPT ![t] = FirstLock(o)]
  /\ calls' = [calls EXCEPT ![t] = @ + 1]
  /\ Return(t, "ok")
  /\ Goto(t, "get")
  /\ UNCHANGED <<mode, shared, faults, suspect>>

(* ltfs_get_volume_lock: wait while a revalidation runs, take the lock,    *)
(* look again.                                                             *)
Get(t) ==
  /\ pc[t] = "get"
  /\ Goto(t, IF reval = "running" THEN "getSleep" ELSE "acquire")
  /\ UNCHANGED <<mode, shared, ret, local, faults, suspect>>

(* After a release that nobody was entitled to, see VolUnlock, the lock    *)
(* may let no writer in.                                                   *)
VolLock(t, m) ==
  IF m = "read" THEN AcquireRead(t) ELSE ~jam /\ AcquireWrite(t)

(* Releasing a lock one does not hold is undefined.  The rwlock of the     *)
(* build counts one reader less: another reader's hold is gone or, when    *)
(* there is none, the count wraps and no writer ever gets in.              *)
VolUnlock(t) ==
  \/ Release(t) /\ UNCHANGED jam
  \/ /\ mode[t] = "none"
     /\ \E u \in Threads :
          mode[u] = "read" /\ mode' = [mode EXCEPT ![u] = "none"]
     /\ UNCHANGED jam
  \/ /\ mode[t] = "none"
     /\ \A u \in Threads : mode[u] # "read"
     /\ jam' = TRUE /\ UNCHANGED mode

Acquire(t) ==
  /\ pc[t] = "acquire"
  /\ VolLock(t, want[t])
  /\ Goto(t, "check")
  /\ UNCHANGED <<shared, ret, local, faults, suspect>>

(* Mutant: the state is not looked at again once the lock is held.         *)
Check_NoSecondLook(t) ==
  /\ pc[t] = "check"
  /\ Return(t, "ok")
  /\ Goto(t, CASE op[t] = "sync" /\ want[t] = "read" -> "peek"
               [] op[t] = "unmount" -> "status"
               [] OTHER -> "dev")
  /\ UNCHANGED <<mode, shared, local, faults, suspect>>

Check(t) ==
  /\ pc[t] = "check"
  /\ Return(t, reval)
  /\ Goto(t, CASE reval # "ok" -> "undo"
               [] reval = "ok" /\ op[t] = "sync" /\ want[t] = "read" -> "peek"
               [] reval = "ok" /\ op[t] = "unmount" -> "status"
               [] OTHER -> "dev")
  /\ UNCHANGED <<mode, shared, local, faults, suspect>>

(* Mutant: the early return on a failed volume keeps the lock.             *)
Undo_KeepsLock(t) ==
  /\ pc[t] = "undo"
  /\ IF ret[t] = "running" THEN VolUnlock(t) ELSE UNCHANGED <<mode, jam>>
  /\ Goto(t, IF ret[t] = "running" THEN "get" ELSE "idle")
  /\ UNCHANGED <<reval, fence, device, ret, local, faults, suspect>>

Undo(t) ==
  /\ pc[t] = "undo"
  /\ VolUnlock(t)
  /\ Goto(t, IF ret[t] = "running" THEN "get" ELSE "idle")
  /\ UNCHANGED <<reval, fence, device, ret, local, faults, suspect>>

(* ltfs_sync_index reads the dirty flags under the read lock, and comes    *)
(* back for the write lock when there is an index to write.                *)
Peek(t) ==
  /\ pc[t] = "peek"
  /\ VolUnlock(t)
  /\ \E dirty \in BOOLEAN : Goto(t, IF dirty THEN "get" ELSE "idle")
  /\ want' = [want EXCEPT ![t] = "write"]
  /\ UNCHANGED <<reval, fence, device, ret, op, calls, mounted, faults, suspect>>

-------------------------------------------------------------------------------
(* tape_device_lock, and what each operation makes of a fenced device.     *)
(* ltfs_logpage and ltfs_mam do not look at the result.                    *)
DevLock(t) ==
  /\ pc[t] = "dev"
  /\ device = NoThread
  /\ IF fence
     THEN /\ Return(t, "fenced")
          /\ Goto(t, CASE op[t] = "logpage" -> "cmd"
                       [] op[t] = "write" -> "down"
                       [] op[t] \in Waiting \ {"write"} -> "waitRelease"
                       [] op[t] = "unmount" -> "uLower"
                       [] OTHER -> "release")
          /\ UNCHANGED device
     ELSE /\ device' = t
          /\ Goto(t, "cmd")
          /\ UNCHANGED ret
  /\ UNCHANGED <<mode, reval, fence, jam, local, faults, suspect>>

(* The drive answers a command: done, an error that has no consequences    *)
(* here, NEED_REVAL, or IS_UNEXPECTED_MOVE (the eject button).             *)
Answer(t) ==
  \E a \in {"ok", "err", "reval", "move"} :
    /\ a \in {"reval", "move"} => faults < MaxFaults
    /\ faults' = IF a \in {"reval", "move"} THEN faults + 1 ELSE faults
    /\ suspect' = (suspect \/ a = "reval")
    /\ Return(t, a)

(* The tape commands of an operation.  A write first puts an index on the  *)
(* other partition if that is needed, gives the write lock on the volume   *)
(* up for a read lock, and then appends its blocks.                        *)
Cmd(t) ==
  /\ pc[t] = "cmd"
  /\ Answer(t)
  /\ Goto(t, IF op[t] = "write" /\ mode[t] = "write" THEN "down" ELSE "out")
  /\ UNCHANGED <<mode, shared, local>>

Down(t) ==
  /\ pc[t] = "down"
  /\ Downgrade(t)
  /\ Goto(t, CASE ret[t] = "ok" -> "cmd"
               [] ret[t] = "fenced" -> "waitRelease"
               [] OTHER -> "out")
  /\ UNCHANGED <<shared, ret, local, faults, suspect>>

(* Mutant: NEED_REVAL does not raise the fence.                            *)
Out_NoFence(t) ==
  /\ pc[t] = "out"
  /\ reval' = IF op[t] \in Fencing /\ ret[t] = "move" THEN "failed" ELSE reval
  /\ device' = NoThread
  /\ Goto(t, CASE op[t] = "unmount" -> "uLower"
               [] op[t] # "unmount" /\ ret[t] = "reval" -> "rvStart"
               [] ret[t] = "move" /\ op[t] \in RecordsMoveAgain -> "fail"
               [] OTHER -> "release")
  /\ UNCHANGED <<mode, fence, jam, ret, local, faults, suspect>>

(* The end of the section that owns the device.  Fence and eject request   *)
(* are recorded before the device is unlocked.                             *)
Out(t) ==
  /\ pc[t] = "out"
  /\ fence' = (fence \/ (op[t] \in Fencing /\ ret[t] = "reval"))
  /\ reval' = IF op[t] \in Fencing /\ ret[t] = "move" THEN "failed" ELSE reval
  /\ device' = NoThread
  /\ Goto(t, CASE op[t] = "unmount" -> "uLower"
               [] op[t] # "unmount" /\ ret[t] = "reval" -> "rvStart"
               [] ret[t] = "move" /\ op[t] \in RecordsMoveAgain -> "fail"
               [] OTHER -> "release")
  /\ UNCHANGED <<mode, jam, ret, local, faults, suspect>>

Fail(t) ==
  /\ pc[t] = "fail"
  /\ reval' = "failed"
  /\ Goto(t, "release")
  /\ UNCHANGED <<mode, fence, device, jam, ret, local, faults, suspect>>

Finish(t) ==
  /\ pc[t] = "release"
  /\ VolUnlock(t)
  /\ Goto(t, "idle")
  /\ UNCHANGED <<reval, fence, device, ret, local, faults, suspect>>

-------------------------------------------------------------------------------
(* Where an operation goes when the revalidation it ran or waited for has  *)
(* ended: it starts over, or returns the failure.  Both functions have     *)
(* released the volume lock; getxattr and unmount release it once more.    *)
AfterRevalidation(t, r) ==
  CASE r = "ok" /\ op[t] = "unmount" -> "uAgain"
    [] r = "ok" /\ op[t] # "unmount" -> "get"
    [] r # "ok" /\ op[t] = "unmount" -> "uReset"
    [] r # "ok" /\ op[t] \in {"getx", "logpage"} -> "release"
    [] OTHER -> "idle"

(* ltfs_wait_revalidation.                                                 *)
WaitRelease(t) ==
  /\ pc[t] = "waitRelease"
  /\ VolUnlock(t)
  /\ Goto(t, "wait")
  /\ UNCHANGED <<reval, fence, device, ret, local, faults, suspect>>

Wait(t) ==
  /\ pc[t] = "wait"
  /\ IF reval = "running"
     THEN Goto(t, "waitSleep") /\ UNCHANGED ret
     ELSE Goto(t, AfterRevalidation(t, reval)) /\ Return(t, reval)
  /\ UNCHANGED <<mode, shared, local, faults, suspect>>

(* Mutant: a write passes have_write_lock = true after its downgrade.      *)
RvStart_NoUpgrade(t) ==
  /\ pc[t] = "rvStart"
  /\ reval' = "running"
  /\ Goto(t, IF FirstLock(op[t]) = "write" THEN "rvBody" ELSE "rvRelease")
  /\ UNCHANGED <<mode, fence, device, jam, ret, local, faults, suspect>>

(* ltfs_revalidate.                                                        *)
RvStart(t) ==
  /\ pc[t] = "rvStart"
  /\ reval' = "running"
  /\ Goto(t, IF HaveWriteLock(op[t]) THEN "rvBody" ELSE "rvRelease")
  /\ UNCHANGED <<mode, fence, device, jam, ret, local, faults, suspect>>

RvRelease(t) ==
  /\ pc[t] = "rvRelease"
  /\ VolUnlock(t)
  /\ Goto(t, "rvAcquire")
  /\ UNCHANGED <<reval, fence, device, ret, local, faults, suspect>>

RvAcquire(t) ==
  /\ pc[t] = "rvAcquire"
  /\ VolLock(t, "write")
  /\ Goto(t, "rvBody")
  /\ UNCHANGED <<shared, ret, local, faults, suspect>>

(* Mutants: the error of the failed check is recorded as it is, and a      *)
(* failed check skips the release of the fence.                            *)
RvBody_RawError(t) ==
  /\ pc[t] = "rvBody"
  /\ \E r \in {"ok", "err"} :
       Return(t, r) /\ suspect' = (suspect /\ r # "ok")
  /\ Goto(t, "rvLower")
  /\ UNCHANGED <<mode, shared, local, faults>>

RvBody_FailureKeepsFence(t) ==
  /\ pc[t] = "rvBody"
  /\ \E r \in {"ok", "failed"} :
       /\ Return(t, r) /\ suspect' = (suspect /\ r # "ok")
       /\ Goto(t, IF r = "ok" THEN "rvLower" ELSE "rvRecord")
  /\ UNCHANGED <<mode, shared, local, faults>>

(* The check of the medium: reservation, labels, EOD, MAM, positions.  It  *)
(* uses the device without its mutex, behind the volume lock alone.        *)
RvBody(t) ==
  /\ pc[t] = "rvBody"
  /\ \E r \in {"ok", "failed"} :
       Return(t, r) /\ suspect' = (suspect /\ r # "ok")
  /\ Goto(t, "rvLower")
  /\ UNCHANGED <<mode, shared, local, faults>>

(* Mutant: the fence stays up.                                             *)
RvLower_KeepsFence(t) ==
  /\ pc[t] = "rvLower"
  /\ Goto(t, "rvRecord")
  /\ UNCHANGED <<mode, shared, ret, local, faults, suspect>>

RvLower(t) ==
  /\ pc[t] = "rvLower"
  /\ fence' = FALSE
  /\ Goto(t, "rvRecord")
  /\ UNCHANGED <<mode, reval, device, jam, ret, local, faults, suspect>>

(* The result is recorded and every thread that sleeps on reval_cond is    *)
(* woken, under reval_lock.                                                *)
Woken(l) == IF l = "getSleep" THEN "get" ELSE IF l = "waitSleep" THEN "wait" ELSE l

(* Mutant: the revalidation counts as passed however it ended.             *)
RvRecord_Passed(t) ==
  /\ pc[t] = "rvRecord"
  /\ reval' = "ok"
  /\ pc' = [u \in Threads |-> IF u = t THEN "rvUnlock" ELSE Woken(pc[u])]
  /\ UNCHANGED <<mode, fence, device, jam, ret, local, faults, suspect>>

RvRecord(t) ==
  /\ pc[t] = "rvRecord"
  /\ reval' = ret[t]
  /\ pc' = [u \in Threads |-> IF u = t THEN "rvUnlock" ELSE Woken(pc[u])]
  /\ UNCHANGED <<mode, fence, device, jam, ret, local, faults, suspect>>

RvUnlock(t) ==
  /\ pc[t] = "rvUnlock"
  /\ VolUnlock(t)
  /\ Goto(t, AfterRevalidation(t, ret[t]))
  /\ want' = [want EXCEPT ![t] = FirstLock(op[t])]
  /\ UNCHANGED <<reval, fence, device, ret, op, calls, mounted, faults, suspect>>

-------------------------------------------------------------------------------
(* ltfs_unmount.  It asks for the volume lock status and writes the last   *)
(* index without the device lock, behind the write lock on the volume.     *)
Status(t) ==
  /\ pc[t] = "status"
  /\ Answer(t)
  /\ \E index \in BOOLEAN : Goto(t, IF index THEN "index" ELSE "uZero")
  /\ UNCHANGED <<mode, shared, local>>

Index(t) ==
  /\ pc[t] = "index"
  /\ Answer(t)
  /\ Goto(t, CASE ret'[t] = "ok" -> "uZero"
               [] ret'[t] = "reval" -> "rvStart"
               [] ret'[t] = "move" -> "fail"
               [] OTHER -> "release")
  /\ UNCHANGED <<mode, shared, local>>

Zero(t) ==
  /\ pc[t] \in {"uZero", "uReset"}
  /\ reval' = "ok"
  /\ Goto(t, IF pc[t] = "uZero" THEN "dev" ELSE "release")
  /\ UNCHANGED <<mode, fence, device, jam, ret, local, faults, suspect>>

Lower(t) ==
  /\ pc[t] = "uLower"
  /\ fence' = (fence /\ ret[t] # "reval")
  /\ Goto(t, "release")
  /\ UNCHANGED <<mode, reval, device, jam, ret, local, faults, suspect>>

Again(t) ==
  /\ pc[t] = "uAgain"
  /\ VolUnlock(t)
  /\ Goto(t, "get")
  /\ UNCHANGED <<reval, fence, device, ret, local, faults, suspect>>

-------------------------------------------------------------------------------
Step(t) ==
  \/ Get(t) \/ Acquire(t) \/ Check(t) \/ Undo(t) \/ Peek(t)
  \/ DevLock(t) \/ Cmd(t) \/ Down(t) \/ Out(t) \/ Fail(t) \/ Finish(t)
  \/ WaitRelease(t) \/ Wait(t)
  \/ RvStart(t) \/ RvRelease(t) \/ RvAcquire(t) \/ RvBody(t)
  \/ RvLower(t) \/ RvRecord(t) \/ RvUnlock(t)
  \/ Status(t) \/ Index(t) \/ Zero(t) \/ Lower(t) \/ Again(t)

(* Nobody has a request for the library, or its lock lets no writer in.    *)
Rest == ((\A t \in Threads : pc[t] = "idle") \/ jam) /\ UNCHANGED vars

Next ==
  \/ Rest
  \/ \E t \in Threads : (Call(t) \/ Step(t)) /\ UNCHANGED load

Spec == Init /\ [][Next]_vars

(* The operating system runs every thread that can run.                    *)
FairSpec == Spec /\ \A t \in Threads : WF_vars(Step(t) /\ UNCHANGED load)

-------------------------------------------------------------------------------
(* Operations that break the rules of the locks they use: getxattr and an  *)
(* unmount release the volume lock again after a failed revalidation, the  *)
(* log page query ignores the fence, some attributes sync under a read     *)
(* lock, and an unmount uses the drive without the device mutex.           *)
Undisciplined == {"getx", "logpage", "fullsync", "unmount"}

(* The mount is used without them.                                         *)
Disciplined == load.ops \cap Undisciplined = {}

(* No command reaches a medium that the drive no longer vouches for: from  *)
(* the NEED_REVAL answer until a revalidation has succeeded, no thread is  *)
(* at a tape command, whatever its lock (ltfs_revalidate itself excepted). *)
SuspectMediumUntouched ==
  Disciplined /\ suspect => \A t \in Threads : pc[t] \notin {"cmd", "index", "status"}

(* The medium check runs with the device mutex free and the volume to      *)
(* itself, although it takes only the volume lock.                         *)
RevalidationAlone ==
  \A t, u \in Threads :
    Disciplined /\ t # u /\ pc[t] \in {"rvBody", "rvLower", "rvRecord", "rvUnlock"} =>
      /\ device = NoThread
      /\ mode[u] = "none"
      /\ pc[u] \notin {"rvStart", "rvRelease", "rvAcquire", "rvBody", "rvLower",
                      "rvRecord", "rvUnlock"}

(* The fence is up only while the thread that raised it is on its way to   *)
(* lower it: no error path leaves the device fenced.                       *)
FenceHasOwner ==
  fence => \E t \in Threads :
             pc[t] \in {"rvStart", "rvRelease", "rvAcquire", "rvBody", "rvLower",
                       "uLower"}

(* A sync, a write and an unmount, which have the write lock, never find   *)
(* the device fenced, so ltfs_sync_index, which does not wait, never fails *)
(* a caller with it.  (A second release by getxattr may let a sync in      *)
(* while the fence is up.)                                                 *)
SyncNeverFenced ==
  \A t \in Threads :
    \/ op[t] = "unmount"
    \/ Disciplined /\ op[t] \in {"sync", "easync", "write"}
    => ret[t] # "fenced"

(* When every request has returned, nothing is left behind: no lock, no    *)
(* device, no fence, no revalidation that runs for ever.                   *)
CleanAtRest ==
  (\A t \in Threads : pc[t] = "idle") =>
    /\ ~fence /\ device = NoThread /\ reval # "running"
    /\ \A t \in Threads : mode[t] = "none"

(* Every request returns: no thread sleeps through the broadcast, spins on *)
(* the fence for ever or waits for a lock nobody gives back, as long as    *)
(* the drive asks for finitely many revalidations.                         *)
EveryRequestReturns ==
  \A t \in Threads : pc[t] # "idle" ~> pc[t] = "idle"

(* The waiting threads are told to go on only when the drive vouches for   *)
(* the medium again: vol->reval goes back to ok after the check, and no    *)
(* other thread has meanwhile seen the drive ask for another one.          *)
TrustedStep == Disciplined /\ reval # "ok" /\ reval' = "ok" => ~suspect'
TrustedAgain == [][TrustedStep]_vars

(* What all this is for: the requests, the fence and ltfs_revalidate       *)
(* together give the drive to one thread at a time, only while the drive   *)
(* vouches for the medium, and let requests in again only when it does.    *)
(* (Of a mount that is used without the rules nothing is said: it maps to  *)
(* a drive at rest.)                                                       *)
Using == {t \in Threads : Disciplined /\ pc[t] \in {"cmd", "index", "status"}}
CheckingMedium == {t \in Threads : Disciplined /\ pc[t] = "rvBody"}
Access == INSTANCE DriveAccess
            WITH vouched <- (Disciplined => ~suspect), users <- Using,
                 checkers <- CheckingMedium, open <- (Disciplined => reval = "ok")
ImplementsDriveAccess == Access!Spec

(* A volume that has failed stays failed until it is unmounted.            *)
FailedIsFinal ==
  [][reval = "failed" /\ mounted => reval' = "failed"]_vars

(* The fence stays inside the library: an operation that meets it waits    *)
(* for the revalidation, and never returns DEVICE_FENCED to FUSE.          *)
FencedStaysInside ==
  \A t \in Threads : pc[t] = "idle" => ret[t] # "fenced"

(* A thread that is about to release vol->lock holds it.                   *)
ReleasedByHolder ==
  \A t \in Threads :
    Disciplined /\ pc[t] \in {"undo", "peek", "waitRelease", "rvRelease", "rvUnlock", "release",
              "uAgain"} => mode[t] # "none"

(* An index is written under the write lock on the volume.                 *)
IndexWrittenUnderWriteLock ==
  \A t \in Threads :
    Disciplined /\ pc[t] = "cmd" /\ op[t] \in IndexOps => mode[t] = "write"

(* A thread that uses the device owns its mutex: the fence turned everyone *)
(* else away.                                                              *)
DeviceUsedByOwner ==
  Disciplined => \A t \in Threads : pc[t] = "cmd" => device = t

-------------------------------------------------------------------------------
(* The inductive invariant.                                                *)

(* The places where a thread has given back the volume lock, or not yet    *)
(* asked for it; where it has it to itself to check the medium; and the    *)
(* way from the NEED_REVAL answer to the lowered fence.                    *)
Unlocked == {"idle", "get", "getSleep", "acquire", "wait", "waitSleep", "rvAcquire",
             "uReset", "uAgain"}
Checking == {"rvBody", "rvLower", "rvRecord", "rvUnlock"}
Chain == {"rvStart", "rvRelease", "rvAcquire", "rvBody", "rvLower"}

(* What holds of a thread by itself, whatever the mount is used for.       *)
ThreadInv(t) ==
  /\ pc[t] \in Unlocked => mode[t] = "none"
  /\ device = t => pc[t] \in {"cmd", "out"} \/ (pc[t] = "down" /\ ret[t] # "fenced")
  /\ pc[t] \in {"rvLower", "rvRecord"} => ret[t] \in {"ok", "failed"}
  /\ pc[t] = "uLower" => op[t] = "unmount"
  /\ op[t] = "unmount" => ret[t] # "fenced"

(* An unmount is alone, and the fence is up only where it lowers it.       *)
UnmountInv(t) ==
  op[t] = "unmount" /\ pc[t] # "idle" =>
    /\ ~mounted
    /\ \A u \in Threads \ {t} : pc[u] = "idle"
    /\ fence => pc[t] = "uLower" /\ ret[t] = "reval"

(* The locks and the return code of a thread that keeps to the rules.      *)
LockInv(t) ==
  /\ op[t] \notin Undisciplined
  /\ pc[t] \notin {"status", "index", "uZero", "uLower", "uReset", "uAgain"}
  /\ pc[t] \notin Unlocked => mode[t] # "none"
  /\ pc[t] \in Checking => mode[t] = "write"
  /\ pc[t] \in {"check", "undo"} => mode[t] = want[t]
  /\ op[t] \in {"write", "easync"} => want[t] = "write"
  /\ pc[t] = "dev" /\ op[t] \in {"sync", "easync", "write"} => mode[t] = "write"
  /\ pc[t] \in {"cmd", "out", "rvStart"} /\ op[t] \in IndexOps => mode[t] = "write"
  /\ pc[t] \in {"cmd", "down", "out"} => device = t
  /\ pc[t] = "down" => op[t] = "write"
  /\ op[t] \in {"sync", "easync", "write"} => ret[t] # "fenced"

(* A thread on its way to revalidate: the fence is up, except for a sync,  *)
(* which relies on its write lock; vol->reval tells; and a thread that     *)
(* took the write lock before it turns back at its second look.            *)
ChainInv(t) ==
  /\ pc[t] \in Chain /\ op[t] \notin IndexOps => fence
  /\ pc[t] \in {"rvRelease", "rvAcquire"} => op[t] \notin IndexOps
  /\ pc[t] \in {"rvRelease", "rvAcquire", "rvBody", "rvLower", "rvRecord"} => reval # "ok"
  /\ pc[t] = "rvAcquire" =>
       \A u \in Threads : mode[u] = "write" => pc[u] \in {"check", "undo"}

(* One thread revalidates at a time.                                       *)
OneRevalidates ==
  \A t, u \in Threads :
    t # u /\ pc[t] \in Chain \cup Checking => pc[u] \notin Chain \cup Checking

(* A suspect medium: its finder still has the device, or revalidates; the  *)
(* revalidation has failed; or the volume has, and nobody is past the      *)
(* second look of ltfs_get_volume_lock.                                    *)
Turned == {"idle", "get", "getSleep", "acquire", "check", "undo", "wait", "waitSleep", "rvUnlock"}
SuspectInv ==
  suspect =>
    \/ \E t \in Threads :
         \/ pc[t] \in {"down", "out"} /\ ret[t] = "reval"
         \/ pc[t] \in Chain \ {"rvLower"}
         \/ pc[t] \in {"rvLower", "rvRecord"} /\ ret[t] = "failed"
    \/ reval = "failed" /\ \A t \in Threads : pc[t] \in Turned

(* What holds whatever the mount is used for, and what holds when it is    *)
(* used without the operations that break the rules.                       *)
AnyInv ==
  /\ \A t \in Threads : ThreadInv(t) /\ UnmountInv(t)
  /\ FenceHasOwner
  /\ reval = "running" => \E t \in Threads : pc[t] \in Chain \cup {"rvRecord"}

DisciplinedInv ==
  /\ \A t \in Threads : LockInv(t) /\ ChainInv(t)
  /\ Exclusion
  /\ device # NoThread => ~fence
  /\ OneRevalidates
  /\ SuspectInv

(* Types, and why the locks, the fence and vol->reval do what the          *)
(* properties above ask of them: what every step of the library keeps.     *)
RInv == TypeOK /\ AnyInv /\ (Disciplined => DisciplinedInv)
===============================================================================
