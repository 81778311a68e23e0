-------------------------- MODULE RevalidationProofs --------------------------
(***************************************************************************)
(* Proofs about the fence and the revalidation, for any number of threads, *)
(* requests and faults and every load: the invariant RInv is inductive,    *)
(* and the properties of Revalidation follow from it.                      *)
(***************************************************************************)
EXTENDS Revalidation, TLAPS

(* How long a prover may take for a step that does not say so. *)
USE SMTT(40), ZenonT(40)

(* A volume that has just been mounted: no thread is in the library. *)
LEMMA InitRInv == Init => RInv
<1> SUFFICES ASSUME Init PROVE RInv  OBVIOUS
<1> USE DEF Init
<1>1. TypeOK
  <2>1. load.calls \in Nat  BY LoadsAssumption
  <2>2. op \in [Threads -> AllOps]  BY DEF AllOps
  <2>3. calls \in [Threads -> 0..load.calls] /\ faults \in 0..MaxFaults  BY <2>1, BoundAssumption
  <2>4. ret \in [Threads -> Rets] /\ pc \in [Threads -> Labels] /\ want \in [Threads -> {"read",
     "write"}]
    BY DEF Rets, Labels
  <2> QED  BY Zenon, <2>2, <2>3, <2>4 DEF TypeOK, RWInit, Modes
<1>2. \A t \in Threads : pc[t] = "idle" /\ mode[t] = "none" /\ op[t] = "tur" /\ ret[t] = "ok"
  BY Zenon DEF RWInit
<1>3. AnyInv
  BY <1>2, NoThreadAssumption DEF AnyInv, ThreadInv, UnmountInv, FenceHasOwner, Unlocked
<1>4. DisciplinedInv
  BY <1>2 DEF DisciplinedInv, LockInv, ChainInv, Exclusion, OneRevalidates, SuspectInv,
     Unlocked, Checking, Chain, Undisciplined, IndexOps
<1> QED  BY <1>1, <1>3, <1>4 DEF RInv

(* What a release does: the lock of the caller is gone and, when the caller had it, nobody else's. *)
LEMMA Unlocking ==
  ASSUME TypeOK, NEW t \in Threads, VolUnlock(t)
  PROVE  /\ mode' \in [Threads -> Modes] /\ mode'[t] = "none" /\ jam' \in BOOLEAN
         /\ \A u \in Threads : mode'[u] \in {mode[u], "none"}
         /\ mode[t] # "none" => \A u \in Threads \ {t} : mode'[u] = mode[u]
  BY Zenon DEF VolUnlock, Release, TypeOK, Modes

(* Where an operation goes after a revalidation, see AfterRevalidation. *)
LEMMA Destination ==
  ASSUME NEW t, NEW r
  PROVE  /\ AfterRevalidation(t, r) \in {"get", "idle", "release", "uAgain", "uReset"}
         /\ AfterRevalidation(t, r) \in {"uAgain", "uReset"} => op[t] = "unmount"
         /\ op[t] \notin Undisciplined => AfterRevalidation(t, r) \in {"get", "idle"}
  BY DEF AfterRevalidation, Undisciplined

(* Types.  vol->reval takes the return code of a finished check, which is ok or failed. *)
LEMMA TypeStep ==
  ASSUME TypeOK, NEW t \in Threads, ThreadInv(t), Call(t) \/ Step(t), UNCHANGED load
  PROVE  TypeOK'
<1> USE BoundAssumption, LoadsAssumption DEF TypeOK, Modes, Labels, Rets, AllOps, Goto, Return, shared,
        local, ThreadInv
<1>1. CASE Call(t)  BY <1>1 DEF Call, FirstLock
<1>2. CASE Get(t)  BY <1>2 DEF Get
<1>3. CASE Acquire(t)  BY <1>3 DEF Acquire, VolLock, AcquireRead, AcquireWrite, FreeToRead,
     FreeToWrite
<1>4. CASE Check(t)  BY <1>4 DEF Check
<1>5. CASE Undo(t)  BY <1>5, Unlocking DEF Undo
<1>6. CASE Peek(t)  BY <1>6, Unlocking DEF Peek
<1>7. CASE DevLock(t)  BY <1>7 DEF DevLock, Waiting
<1>8. CASE Cmd(t)  BY <1>8 DEF Cmd, Answer
<1>9. CASE Down(t)  BY <1>9 DEF Down, Downgrade
<1>10. CASE Out(t)  BY <1>10 DEF Out, Fencing, RecordsMoveAgain
<1>11. CASE Fail(t)  BY <1>11 DEF Fail
<1>12. CASE Finish(t)  BY <1>12, Unlocking DEF Finish
<1>13. CASE WaitRelease(t)  BY <1>13, Unlocking DEF WaitRelease
<1>14. CASE Wait(t)  BY <1>14, Destination DEF Wait
<1>15. CASE RvStart(t)  BY <1>15 DEF RvStart, HaveWriteLock
<1>16. CASE RvRelease(t)  BY <1>16, Unlocking DEF RvRelease
<1>17. CASE RvAcquire(t)  BY <1>17 DEF RvAcquire, VolLock, AcquireWrite, FreeToWrite
<1>18. CASE RvBody(t)  BY <1>18 DEF RvBody
<1>19. CASE RvLower(t)  BY Zenon, <1>19 DEF RvLower
<1>20. CASE RvRecord(t)  BY <1>20 DEF RvRecord, Woken
<1>21. CASE RvUnlock(t)  BY <1>21, Unlocking, Destination DEF RvUnlock, FirstLock
<1>22. CASE Status(t)  BY <1>22 DEF Status, Answer
<1>23. CASE Index(t)  BY <1>23 DEF Index, Answer
<1>24. CASE Zero(t)  BY <1>24 DEF Zero
<1>25. CASE Lower(t)  BY <1>25 DEF Lower
<1>26. CASE Again(t)  BY <1>26, Unlocking DEF Again
<1> QED  BY Zenon, <1>1, <1>2, <1>3, <1>4, <1>5, <1>6, <1>7, <1>8, <1>9, <1>10, <1>11, <1>12, <1>13,
     <1>14, <1>15, <1>16, <1>17, <1>18, <1>19, <1>20, <1>21, <1>22, <1>23, <1>24, <1>25, <1>26 DEF
     Step

(* What a step of one thread leaves of another: its request and its return code; its lock, unless *)
(* a release takes it away; and its place, unless it sleeps on reval_cond and is woken.            *)
Kept(u) ==
  /\ op'[u] = op[u] /\ want'[u] = want[u] /\ ret'[u] = ret[u]
  /\ mode'[u] \in {mode[u], "none"}
  /\ pc'[u] \in {pc[u], Woken(pc[u])}
  /\ device' = u => device = u

LEMMA OthersKept ==
  ASSUME TypeOK, NEW t \in Threads, Call(t) \/ Step(t), NEW u \in Threads, u # t
  PROVE  Kept(u)
<1> USE NoThreadAssumption DEF TypeOK, Kept, Goto, Return, shared, local
<1>1. CASE Call(t)  BY <1>1 DEF Call
<1>2. CASE Get(t)  BY <1>2 DEF Get
<1>3. CASE Acquire(t)  BY <1>3 DEF Acquire, VolLock, AcquireRead, AcquireWrite, FreeToRead,
     FreeToWrite
<1>4. CASE Check(t)  BY <1>4 DEF Check
<1>5. CASE Undo(t)  BY <1>5, Unlocking DEF Undo
<1>6. CASE Peek(t)  BY <1>6, Unlocking DEF Peek
<1>7. CASE DevLock(t)  BY <1>7 DEF DevLock
<1>8. CASE Cmd(t)  BY <1>8 DEF Cmd, Answer
<1>9. CASE Down(t)  BY <1>9 DEF Down, Downgrade
<1>10. CASE Out(t)  BY <1>10 DEF Out
<1>11. CASE Fail(t)  BY <1>11 DEF Fail
<1>12. CASE Finish(t)  BY <1>12, Unlocking DEF Finish
<1>13. CASE WaitRelease(t)  BY <1>13, Unlocking DEF WaitRelease
<1>14. CASE Wait(t)  BY <1>14 DEF Wait
<1>15. CASE RvStart(t)  BY <1>15 DEF RvStart
<1>16. CASE RvRelease(t)  BY <1>16, Unlocking DEF RvRelease
<1>17. CASE RvAcquire(t)  BY <1>17 DEF RvAcquire, VolLock, AcquireWrite, FreeToWrite
<1>18. CASE RvBody(t)  BY <1>18 DEF RvBody
<1>19. CASE RvLower(t)  BY <1>19 DEF RvLower
<1>20. CASE RvRecord(t)  BY <1>20 DEF RvRecord
<1>21. CASE RvUnlock(t)  BY <1>21, Unlocking DEF RvUnlock
<1>22. CASE Status(t)  BY <1>22 DEF Status, Answer
<1>23. CASE Index(t)  BY <1>23 DEF Index, Answer
<1>24. CASE Zero(t)  BY <1>24 DEF Zero
<1>25. CASE Lower(t)  BY <1>25 DEF Lower
<1>26. CASE Again(t)  BY <1>26, Unlocking DEF Again
<1> QED  BY Zenon, <1>1, <1>2, <1>3, <1>4, <1>5, <1>6, <1>7, <1>8, <1>9, <1>10, <1>11, <1>12, <1>13,
     <1>14, <1>15, <1>16, <1>17, <1>18, <1>19, <1>20, <1>21, <1>22, <1>23, <1>24, <1>25, <1>26 DEF
     Step

(* A request that is under way: no step changes which one it is. *)
LEMMA Going ==
  ASSUME NEW t \in Threads, Step(t)
  PROVE  pc[t] # "idle" /\ UNCHANGED <<op, mounted>>
<1> USE DEF local
<1>1. CASE Get(t) \/ Acquire(t) \/ Check(t) \/ Undo(t) \/ Peek(t)
  BY <1>1 DEF Get, Acquire, Check, Undo, Peek
<1>2. CASE DevLock(t) \/ Cmd(t) \/ Down(t) \/ Out(t) \/ Fail(t) \/ Finish(t)
  BY <1>2 DEF DevLock, Cmd, Down, Out, Fail, Finish
<1>3. CASE WaitRelease(t) \/ Wait(t) \/ RvStart(t) \/ RvRelease(t) \/ RvAcquire(t)
  BY <1>3 DEF WaitRelease, Wait, RvStart, RvRelease, RvAcquire
<1>4. CASE RvBody(t) \/ RvLower(t) \/ RvRecord(t) \/ RvUnlock(t) \/ Again(t)
  BY <1>4 DEF RvBody, RvLower, RvRecord, RvUnlock, Again
<1>5. CASE Status(t) \/ Index(t) \/ Zero(t) \/ Lower(t)
  BY <1>5 DEF Status, Index, Zero, Lower
<1> QED  BY Zenon, <1>1, <1>2, <1>3, <1>4, <1>5 DEF Step

(* Who has the device is between tape_device_lock and tape_device_unlock, and a thread that waits *)
(* or has returned has no lock.                                                                    *)
LEMMA ThreadSelf ==
  ASSUME TypeOK, NEW t \in Threads, ThreadInv(t), UnmountInv(t), Call(t) \/ Step(t)
  PROVE  ThreadInv(t)'
<1> USE NoThreadAssumption DEF TypeOK, ThreadInv, Unlocked, Goto, Return, shared, local
<1>1. CASE Call(t)  BY <1>1 DEF Call, FirstLock
<1>2. CASE Get(t)  BY <1>2 DEF Get
<1>3. CASE Acquire(t)  BY <1>3 DEF Acquire, VolLock, AcquireRead, AcquireWrite, FreeToRead,
     FreeToWrite
<1>4. CASE Check(t)  BY <1>4 DEF Check
<1>5. CASE Undo(t)  BY <1>5, Unlocking DEF Undo
<1>6. CASE Peek(t)  BY <1>6, Unlocking DEF Peek
<1>7. CASE DevLock(t)  BY <1>7 DEF DevLock, Waiting, UnmountInv
<1>8. CASE Cmd(t)  BY <1>8 DEF Cmd, Answer
<1>9. CASE Down(t)  BY <1>9 DEF Down, Downgrade
<1>10. CASE Out(t)  BY <1>10 DEF Out, Fencing, RecordsMoveAgain
<1>11. CASE Fail(t)  BY <1>11 DEF Fail
<1>12. CASE Finish(t)  BY <1>12, Unlocking DEF Finish
<1>13. CASE WaitRelease(t)  BY <1>13, Unlocking DEF WaitRelease
<1>14. CASE Wait(t)  BY <1>14, Destination DEF Wait
<1>15. CASE RvStart(t)  BY <1>15 DEF RvStart, HaveWriteLock
<1>16. CASE RvRelease(t)  BY <1>16, Unlocking DEF RvRelease
<1>17. CASE RvAcquire(t)  BY <1>17 DEF RvAcquire, VolLock, AcquireWrite, FreeToWrite
<1>18. CASE RvBody(t)  BY <1>18 DEF RvBody
<1>19. CASE RvLower(t)  BY <1>19 DEF RvLower
<1>20. CASE RvRecord(t)  BY <1>20 DEF RvRecord, Woken
<1>21. CASE RvUnlock(t)  BY <1>21, Unlocking, Destination DEF RvUnlock, FirstLock
<1>22. CASE Status(t)  BY <1>22 DEF Status, Answer
<1>23. CASE Index(t)  BY <1>23 DEF Index, Answer
<1>24. CASE Zero(t)  BY <1>24 DEF Zero
<1>25. CASE Lower(t)  BY <1>25 DEF Lower
<1>26. CASE Again(t)  BY <1>26, Unlocking DEF Again
<1> QED  BY Zenon, <1>1, <1>2, <1>3, <1>4, <1>5, <1>6, <1>7, <1>8, <1>9, <1>10, <1>11, <1>12, <1>13,
     <1>14, <1>15, <1>16, <1>17, <1>18, <1>19, <1>20, <1>21, <1>22, <1>23, <1>24, <1>25, <1>26 DEF
     Step

LEMMA ThreadStep ==
  ASSUME TypeOK, AnyInv, NEW t \in Threads, Call(t) \/ Step(t)
  PROVE  \A u \in Threads : ThreadInv(u)'
<1> SUFFICES ASSUME NEW u \in Threads PROVE ThreadInv(u)'  OBVIOUS
<1>1. ThreadInv(t) /\ UnmountInv(t) /\ ThreadInv(u)  BY Zenon DEF AnyInv
<1>2. CASE u = t  BY Zenon, <1>1, <1>2, ThreadSelf
<1>3. CASE u # t
  <2>1. Kept(u)  BY Zenon, <1>3, OthersKept
  <2> QED  BY <1>1, <2>1 DEF Kept, Woken, ThreadInv, Unlocked
<1> QED  BY Zenon, <1>2, <1>3

(* What the steps do with the fence and with a running revalidation: every way out of            *)
(* ltfs_revalidate goes by the release of the fence and the record of the result.                *)
Owners == Chain \cup {"uLower"}
Runners == Chain \cup {"rvRecord"}

LEMMA Hands ==
  ASSUME TypeOK, NEW t \in Threads, ThreadInv(t), UnmountInv(t), Call(t) \/ Step(t)
  PROVE  /\ fence' /\ ~fence => pc'[t] \in Owners
         /\ fence' /\ pc[t] \in Owners => pc'[t] \in Owners
         /\ reval' = "running" /\ reval # "running" => pc'[t] \in Runners
         /\ reval' = "running" /\ pc[t] \in Runners => pc'[t] \in Runners
         /\ op[t] = "unmount" /\ pc[t] # "idle" /\ fence' => pc'[t] = "uLower" /\ ret'[t] = "reval"
<1>1. op[t] = "unmount" /\ pc[t] # "idle" /\ fence => pc[t] = "uLower" /\ ret[t] = "reval"
  BY Zenon DEF UnmountInv
<1>2. /\ pc[t] = "uLower" => op[t] = "unmount"
      /\ pc[t] \in {"rvLower", "rvRecord"} => ret[t] \in {"ok", "failed"}
  BY Zenon DEF ThreadInv
<1> USE <1>1, <1>2 DEF TypeOK, Goto, Return, shared, local, Owners, Runners, Chain
<1>3. CASE Call(t)  BY <1>3 DEF Call, FirstLock
<1>4. CASE Get(t)  BY <1>4 DEF Get
<1>5. CASE Acquire(t)  BY <1>5 DEF Acquire, VolLock, AcquireRead, AcquireWrite, FreeToRead,
     FreeToWrite
<1>6. CASE Check(t)  BY <1>6 DEF Check
<1>7. CASE Undo(t)  BY <1>7, Unlocking DEF Undo
<1>8. CASE Peek(t)  BY <1>8, Unlocking DEF Peek
<1>9. CASE DevLock(t)  BY <1>9 DEF DevLock, Waiting
<1>10. CASE Cmd(t)  BY <1>10 DEF Cmd, Answer
<1>11. CASE Down(t)  BY <1>11 DEF Down, Downgrade
<1>12. CASE Out(t)  BY <1>12 DEF Out, Fencing, RecordsMoveAgain
<1>13. CASE Fail(t)  BY <1>13 DEF Fail
<1>14. CASE Finish(t)  BY <1>14, Unlocking DEF Finish
<1>15. CASE WaitRelease(t)  BY <1>15, Unlocking DEF WaitRelease
<1>16. CASE Wait(t)  BY <1>16, Destination DEF Wait
<1>17. CASE RvStart(t)  BY <1>17 DEF RvStart, HaveWriteLock
<1>18. CASE RvRelease(t)  BY <1>18, Unlocking DEF RvRelease
<1>19. CASE RvAcquire(t)  BY <1>19 DEF RvAcquire, VolLock, AcquireWrite, FreeToWrite
<1>20. CASE RvBody(t)  BY <1>20 DEF RvBody
<1>21. CASE RvLower(t)  BY <1>21 DEF RvLower
<1>22. CASE RvRecord(t)  BY <1>22 DEF RvRecord, Woken
<1>23. CASE RvUnlock(t)  BY <1>23, Unlocking, Destination DEF RvUnlock, FirstLock
<1>24. CASE Status(t)  BY <1>24 DEF Status, Answer
<1>25. CASE Index(t)  BY <1>25 DEF Index, Answer
<1>26. CASE Zero(t)  BY <1>26 DEF Zero
<1>27. CASE Lower(t)  BY Zenon, <1>27 DEF Lower
<1>28. CASE Again(t)  BY <1>28, Unlocking DEF Again
<1> QED  BY Zenon, <1>3, <1>4, <1>5, <1>6, <1>7, <1>8, <1>9, <1>10, <1>11, <1>12, <1>13, <1>14,
     <1>15, <1>16, <1>17, <1>18, <1>19, <1>20, <1>21, <1>22, <1>23, <1>24, <1>25, <1>26, <1>27,
     <1>28 DEF Step

(* ltfs_unmount starts when every other request has returned, and FenceHasOwner says that the *)
(* fence is down then.                                                                         *)
LEMMA UnmountStep ==
  ASSUME TypeOK, AnyInv, NEW t \in Threads, Call(t) \/ Step(t)
  PROVE  \A u \in Threads : UnmountInv(u)'
<1> SUFFICES ASSUME NEW u \in Threads, op'[u] = "unmount", pc'[u] # "idle"
             PROVE  /\ ~mounted'
                    /\ \A v \in Threads \ {u} : pc'[v] = "idle"
                    /\ fence' => pc'[u] = "uLower" /\ ret'[u] = "reval"
  BY Zenon DEF UnmountInv
<1>1. ThreadInv(t) /\ UnmountInv(t) /\ UnmountInv(u)  BY Zenon DEF AnyInv
<1>2. \A v \in Threads : v # t => Kept(v)  BY Zenon, OthersKept
<1>3. ASSUME NEW v \in Threads, v # t, pc[v] = "idle" PROVE pc'[v] = "idle"
  BY <1>2, <1>3 DEF Kept, Woken
<1>4. CASE u = t /\ Step(t)
  <2>1. pc[t] # "idle" /\ op[t] = "unmount" /\ mounted' = mounted  BY <1>4, Going
  <2>2. ~mounted /\ \A v \in Threads \ {t} : pc[v] = "idle"  BY Zenon, <1>1, <2>1 DEF UnmountInv
  <2>3. fence' => pc'[t] = "uLower" /\ ret'[t] = "reval"  BY Zenon, <1>1, <2>1, Hands
  <2> QED  BY <1>3, <1>4, <2>1, <2>2, <2>3
<1>5. CASE u = t /\ Call(t)
  <2>1. (\A v \in Threads : pc[v] = "idle") /\ ~mounted' /\ fence' = fence
    BY Zenon, <1>5 DEF Call, shared, TypeOK
  <2>2. ~fence  BY <2>1 DEF AnyInv, FenceHasOwner
  <2> QED  BY Zenon, <1>3, <1>5, <2>1, <2>2
<1>6. CASE u # t
  <2>1. op[u] = "unmount" /\ pc[u] # "idle"  BY <1>2, <1>3, <1>6 DEF Kept
  <2>2. ~mounted /\ pc[t] = "idle"  BY Zenon, <1>1, <1>6, <2>1 DEF UnmountInv
  <2> QED  BY Zenon, <2>2, Going DEF Call
<1> QED  BY Zenon, <1>4, <1>5, <1>6

(* The fence and a running revalidation stay in somebody's hands, see Hands. *)
LEMMA OwnerStep ==
  ASSUME TypeOK, AnyInv, NEW t \in Threads, Call(t) \/ Step(t)
  PROVE  FenceHasOwner' /\ (reval = "running" => \E u \in Threads : pc[u] \in Chain \cup {"rvRecord"})'
<1>1. ThreadInv(t) /\ UnmountInv(t)  BY Zenon DEF AnyInv
<1>2. ASSUME NEW u \in Threads, u # t, pc[u] \in Owners \cup Runners PROVE pc'[u] = pc[u]
  <2>1. Kept(u)  BY Zenon, <1>2, OthersKept
  <2> QED  BY <1>2, <2>1 DEF Kept, Woken, Owners, Runners, Chain
<1>3. ASSUME fence' PROVE \E u \in Threads : pc'[u] \in Owners
  <2>1. CASE ~fence  BY Zenon, <1>1, <1>3, <2>1, Hands
  <2>2. CASE fence
    <3>1. PICK u \in Threads : pc[u] \in Owners  BY <2>2 DEF AnyInv, FenceHasOwner, Owners, Chain
    <3>2. CASE u = t  BY Zenon, <1>1, <1>3, <3>1, <3>2, Hands
    <3>3. CASE u # t  BY <1>2, <3>1, <3>3
    <3> QED  BY Zenon, <3>2, <3>3
  <2> QED  BY Zenon, <2>1, <2>2
<1>4. ASSUME reval' = "running" PROVE \E u \in Threads : pc'[u] \in Runners
  <2>1. CASE reval # "running"  BY Zenon, <1>1, <1>4, <2>1, Hands
  <2>2. CASE reval = "running"
    <3>1. PICK u \in Threads : pc[u] \in Runners  BY Zenon, <2>2 DEF AnyInv, Runners
    <3>2. CASE u = t  BY Zenon, <1>1, <1>4, <3>1, <3>2, Hands
    <3>3. CASE u # t  BY <1>2, <3>1, <3>3
    <3> QED  BY Zenon, <3>2, <3>3
  <2> QED  BY Zenon, <2>1, <2>2
<1>5. FenceHasOwner'  BY <1>3 DEF FenceHasOwner, Owners, Chain
<1> QED  BY Zenon, <1>4, <1>5 DEF Runners

-------------------------------------------------------------------------------
(* A mount that is used without the operations that break the rules.  A thread that releases     *)
(* vol->lock holds it, so that the lock is used as ReadWriteLock says.                            *)
LEMMA LockMoves ==
  ASSUME NEW t \in Threads, LockInv(t), Call(t) \/ Step(t)
  PROVE  UNCHANGED mode \/ AcquireRead(t) \/ AcquireWrite(t) \/ Downgrade(t) \/ Release(t)
<1>1. VolUnlock(t) /\ pc[t] \notin Unlocked => Release(t)  BY Zenon DEF LockInv, VolUnlock
<1>2. CASE Undo(t) \/ Peek(t) \/ Finish(t) \/ WaitRelease(t) \/ RvRelease(t) \/ RvUnlock(t)
  BY <1>1, <1>2 DEF Undo, Peek, Finish, WaitRelease, RvRelease, RvUnlock, Unlocked
<1>3. CASE Acquire(t) \/ RvAcquire(t) \/ Down(t)
  BY Zenon, <1>3 DEF Acquire, RvAcquire, VolLock, Down
<1>4. CASE Call(t) \/ Get(t) \/ Check(t) \/ DevLock(t) \/ Cmd(t) \/ Out(t) \/ Fail(t)
  BY Zenon, <1>4 DEF Call, Get, Check, DevLock, Cmd, Out, Fail
<1>5. CASE Wait(t) \/ RvStart(t) \/ RvBody(t) \/ RvLower(t) \/ RvRecord(t)
  BY Zenon, <1>5 DEF Wait, RvStart, RvBody, RvLower, RvRecord
<1>6. CASE Status(t) \/ Index(t) \/ Zero(t) \/ Lower(t)
  BY Zenon, <1>6 DEF Status, Index, Zero, Lower
<1>7. ~Again(t)  BY Zenon DEF LockInv, Again
<1> QED  BY Zenon, <1>2, <1>3, <1>4, <1>5, <1>6, <1>7 DEF Step

(* The steps of a thread that keeps to the rules, as far as another thread can tell.              *)
Discreet(t) ==
  /\ fence /\ ~fence' => pc[t] = "rvLower"
  /\ ~fence /\ fence' => device' = NoThread
  /\ reval # "ok" /\ reval' = "ok" => pc[t] = "rvRecord"
  /\ \/ device' = device
     \/ device' = NoThread /\ device = t
     \/ device' = t /\ device = NoThread /\ ~fence /\ ~fence'
  /\ suspect /\ ~suspect' => pc[t] = "rvBody"
  /\ pc[t] = "check" /\ reval # "ok" => pc'[t] = "undo"
  /\ pc[t] = "undo" => mode'[t] = "none"
  /\ pc[t] \in Turned /\ reval = "failed" => pc'[t] \in Turned /\ reval' = "failed"

LEMMA DiscreetStep ==
  ASSUME TypeOK, NEW t \in Threads, ThreadInv(t), LockInv(t), Call(t) \/ Step(t)
  PROVE  Discreet(t)
<1>1. /\ pc[t] \notin {"status", "index", "uZero", "uLower", "uReset", "uAgain"}
      /\ pc[t] = "out" => device = t
      /\ op[t] \notin Undisciplined
      /\ pc[t] = "rvRecord" => ret[t] \in {"ok", "failed"}
  BY Zenon DEF LockInv, ThreadInv
<1> USE <1>1, NoThreadAssumption DEF TypeOK, Goto, Return, shared, local, Discreet, Turned
<1>2. CASE Call(t)  BY <1>2 DEF Call, FirstLock
<1>3. CASE Get(t)  BY <1>3 DEF Get
<1>4. CASE Acquire(t)  BY <1>4 DEF Acquire, VolLock, AcquireRead, AcquireWrite, FreeToRead,
     FreeToWrite
<1>5. CASE Check(t)  BY <1>5 DEF Check
<1>6. CASE Undo(t)  BY <1>6, Unlocking DEF Undo
<1>7. CASE Peek(t)  BY <1>7, Unlocking DEF Peek
<1>8. CASE DevLock(t)  BY <1>8 DEF DevLock, Waiting
<1>9. CASE Cmd(t)  BY <1>9 DEF Cmd, Answer
<1>10. CASE Down(t)  BY <1>10 DEF Down, Downgrade
<1>11. CASE Out(t)  BY <1>11 DEF Out, Fencing, RecordsMoveAgain
<1>12. CASE Fail(t)  BY <1>12 DEF Fail
<1>13. CASE Finish(t)  BY <1>13, Unlocking DEF Finish
<1>14. CASE WaitRelease(t)  BY <1>14, Unlocking DEF WaitRelease
<1>15. CASE Wait(t)  BY <1>15, Destination DEF Wait
<1>16. CASE RvStart(t)  BY <1>16 DEF RvStart, HaveWriteLock
<1>17. CASE RvRelease(t)  BY <1>17, Unlocking DEF RvRelease
<1>18. CASE RvAcquire(t)  BY <1>18 DEF RvAcquire, VolLock, AcquireWrite, FreeToWrite
<1>19. CASE RvBody(t)  BY <1>19 DEF RvBody
<1>20. CASE RvLower(t)  BY <1>20 DEF RvLower
<1>21. CASE RvRecord(t)  BY <1>21 DEF RvRecord, Woken
<1>22. CASE RvUnlock(t)  BY <1>22, Unlocking, Destination DEF RvUnlock, FirstLock
<1>23. CASE Status(t)  BY <1>23 DEF Status, Answer
<1>24. CASE Index(t)  BY <1>24 DEF Index, Answer
<1>25. CASE Zero(t)  BY <1>25 DEF Zero
<1>26. CASE Lower(t)  BY <1>26 DEF Lower
<1>27. CASE Again(t)  BY <1>27, Unlocking DEF Again
<1> QED  BY Zenon, <1>2, <1>3, <1>4, <1>5, <1>6, <1>7, <1>8, <1>9, <1>10, <1>11, <1>12, <1>13,
     <1>14, <1>15, <1>16, <1>17, <1>18, <1>19, <1>20, <1>21, <1>22, <1>23, <1>24, <1>25, <1>26,
     <1>27 DEF Step

(* Of another thread, such a step changes nothing but that it may wake it. *)
Untouched(u) == Kept(u) /\ mode'[u] = mode[u] /\ (device = u => device' = u)

LEMMA OthersUntouched ==
  ASSUME TypeOK, NEW t \in Threads, ThreadInv(t), LockInv(t), Call(t) \/ Step(t),
         NEW u \in Threads, u # t
  PROVE  Untouched(u)
<1>1. Kept(u)  BY Zenon, OthersKept
<1>2. mode'[u] = mode[u]
  <2>1. UNCHANGED mode \/ AcquireRead(t) \/ AcquireWrite(t) \/ Downgrade(t) \/ Release(t)
    BY Zenon, LockMoves
  <2> QED  BY <2>1 DEF TypeOK, AcquireRead, AcquireWrite, Downgrade, Release
<1>3. device = u => device' = u
  <2>1. Discreet(t)  BY Zenon, DiscreetStep
  <2> QED  BY <2>1, NoThreadAssumption DEF Discreet
<1> QED  BY Zenon, <1>1, <1>2, <1>3 DEF Untouched

(* The write lock is taken by ltfs_get_volume_lock or by the upgrade of ltfs_revalidate. *)
LEMMA WriteTaken ==
  ASSUME TypeOK, NEW t \in Threads, LockInv(t), Call(t) \/ Step(t), mode[t] # "write", mode'[t] = "write"
  PROVE  pc'[t] = "check" \/ pc[t] = "rvAcquire"
<1> USE DEF TypeOK
<1>1. CASE Undo(t) \/ Peek(t) \/ Finish(t) \/ WaitRelease(t) \/ RvRelease(t) \/ RvUnlock(t) \/ Again(t)
  BY <1>1, Unlocking DEF Undo, Peek, Finish, WaitRelease, RvRelease, RvUnlock, Again
<1>2. CASE Acquire(t) \/ RvAcquire(t) \/ Down(t)
  BY <1>2 DEF Acquire, RvAcquire, Down, Downgrade, Goto
<1>3. ~UNCHANGED mode  OBVIOUS
<1>4. ~(Call(t) \/ Get(t) \/ Check(t) \/ DevLock(t) \/ Cmd(t) \/ Out(t) \/ Fail(t))
  BY Zenon, <1>3 DEF Call, Get, Check, DevLock, Cmd, Out, Fail
<1>5. ~(Wait(t) \/ RvStart(t) \/ RvBody(t) \/ RvLower(t) \/ RvRecord(t))
  BY Zenon, <1>3 DEF Wait, RvStart, RvBody, RvLower, RvRecord
<1>6. ~(Status(t) \/ Index(t) \/ Zero(t) \/ Lower(t))
  BY Zenon, <1>3 DEF Status, Index, Zero, Lower
<1> QED  BY Zenon, <1>1, <1>2, <1>4, <1>5, <1>6 DEF Step

(* A thread comes to revalidate from a command that answered NEED_REVAL.                          *)
LEMMA Arrivals ==
  ASSUME TypeOK, NEW t \in Threads, LockInv(t), Call(t) \/ Step(t), pc'[t] \in Chain \cup Checking
  PROVE  \/ Out(t) /\ pc'[t] = "rvStart" /\ ret[t] = "reval"
         \/ RvStart(t) \/ RvRelease(t) \/ RvAcquire(t) \/ RvBody(t) \/ RvLower(t) \/ RvRecord(t)
<1>1. op[t] \notin Undisciplined /\ pc[t] \notin {"status", "index", "uZero", "uLower", "uReset", "uAgain"}
  BY Zenon DEF LockInv
<1> USE <1>1 DEF TypeOK, Goto, Chain, Checking
<1>2. CASE Call(t) \/ Get(t) \/ Acquire(t)  BY <1>2 DEF Call, Get, Acquire
<1>3. CASE Check(t) \/ Undo(t) \/ Peek(t)  BY <1>3 DEF Check, Undo, Peek
<1>4. CASE DevLock(t)  BY <1>4 DEF DevLock
<1>5. CASE Cmd(t) \/ Down(t)  BY <1>5 DEF Cmd, Down
<1>6. CASE Out(t)  BY <1>6 DEF Out
<1>7. CASE Fail(t) \/ Finish(t) \/ WaitRelease(t)  BY <1>7 DEF Fail, Finish, WaitRelease
<1>8. CASE Wait(t)  BY <1>8, Destination DEF Wait
<1>9. CASE RvUnlock(t)  BY <1>9, Destination DEF RvUnlock
<1>10. CASE Status(t) \/ Index(t) \/ Zero(t) \/ Lower(t) \/ Again(t)
  BY <1>10 DEF Status, Index, Zero, Lower, Again
<1> QED  BY Zenon, <1>2, <1>3, <1>4, <1>5, <1>6, <1>7, <1>8, <1>9, <1>10 DEF Step

(* A sync, a write that has not yet given its write lock up: every thread that could have raised *)
(* the fence would be under the lock, too, or between its two locks, and then the writer has not  *)
(* yet passed its second look.                                                                    *)
LEMMA WriterUnfenced ==
  ASSUME AnyInv, DisciplinedInv, NEW t \in Threads, pc[t] = "dev", op[t] \in {"sync", "easync", "write"}
  PROVE  ~fence
<1>1. mode[t] = "write"  BY Zenon DEF DisciplinedInv, LockInv
<1>2. ASSUME NEW u \in Threads, pc[u] \in Chain \cup {"uLower"} PROVE FALSE
  <2>1. u # t  BY <1>2 DEF Chain
  <2>2. mode[u] = "none"  BY Zenon, <1>1, <2>1 DEF DisciplinedInv, Exclusion
  <2>3. LockInv(u) /\ ChainInv(u)  BY Zenon DEF DisciplinedInv
  <2>4. pc[u] = "rvAcquire"  BY <1>2, <2>2, <2>3 DEF LockInv, Unlocked, Chain
  <2>5. pc[t] \in {"check", "undo"}  BY Zenon, <1>1, <2>3, <2>4 DEF ChainInv
  <2> QED  BY <2>5
<1> QED  BY <1>2 DEF AnyInv, FenceHasOwner, Chain

(* The locks of the threads. *)
LEMMA LockSelf ==
  ASSUME TypeOK, Disciplined, NEW t \in Threads, ThreadInv(t), LockInv(t), Call(t) \/ Step(t),
         pc[t] = "dev" /\ op[t] \in {"sync", "easync", "write"} => ~fence
  PROVE  LockInv(t)'
<1>1. pc[t] \in Unlocked => mode[t] = "none"  BY Zenon DEF ThreadInv
<1>2. device = t => pc[t] \in {"cmd", "out", "down"}  BY DEF ThreadInv
<1> USE <1>1, <1>2 DEF TypeOK, Goto, Return, shared, local, LockInv, Unlocked, Checking, IndexOps,
        Undisciplined, Modes
<1>3. CASE Call(t)  BY <1>3, LoadsAssumption DEF Call, FirstLock, Disciplined, AllOps
<1>4. CASE Get(t)  BY <1>4 DEF Get
<1>5. CASE Acquire(t)  BY <1>5 DEF Acquire, VolLock, AcquireRead, AcquireWrite, FreeToRead,
     FreeToWrite
<1>6. CASE Check(t)  BY <1>6 DEF Check
<1>7. CASE Undo(t)  BY <1>7, Unlocking DEF Undo
<1>8. CASE Peek(t)  BY <1>8, Unlocking DEF Peek
<1>9. CASE DevLock(t)  BY <1>9 DEF DevLock, Waiting
<1>10. CASE Cmd(t)  BY <1>10 DEF Cmd, Answer
<1>11. CASE Down(t)  BY <1>11 DEF Down, Downgrade
<1>12. CASE Out(t)  BY <1>12 DEF Out, Fencing, RecordsMoveAgain
<1>13. CASE Fail(t)  BY <1>13 DEF Fail
<1>14. CASE Finish(t)  BY <1>14, Unlocking DEF Finish
<1>15. CASE WaitRelease(t)  BY <1>15, Unlocking DEF WaitRelease
<1>16. CASE Wait(t)  BY <1>16, Destination DEF Wait
<1>17. CASE RvStart(t)  BY <1>17 DEF RvStart, HaveWriteLock
<1>18. CASE RvRelease(t)  BY <1>18, Unlocking DEF RvRelease
<1>19. CASE RvAcquire(t)  BY <1>19 DEF RvAcquire, VolLock, AcquireWrite, FreeToWrite
<1>20. CASE RvBody(t)  BY <1>20 DEF RvBody
<1>21. CASE RvLower(t)  BY <1>21 DEF RvLower
<1>22. CASE RvRecord(t)  BY <1>22 DEF RvRecord, Woken
<1>23. CASE RvUnlock(t)  BY <1>23, Unlocking, Destination DEF RvUnlock, FirstLock
<1>24. CASE Status(t)  BY <1>24 DEF Status, Answer
<1>25. CASE Index(t)  BY <1>25 DEF Index, Answer
<1>26. CASE Zero(t)  BY <1>26 DEF Zero
<1>27. CASE Lower(t)  BY <1>27 DEF Lower
<1>28. CASE Again(t)  BY <1>28, Unlocking DEF Again
<1> QED  BY Zenon, <1>3, <1>4, <1>5, <1>6, <1>7, <1>8, <1>9, <1>10, <1>11, <1>12, <1>13, <1>14,
     <1>15, <1>16, <1>17, <1>18, <1>19, <1>20, <1>21, <1>22, <1>23, <1>24, <1>25, <1>26, <1>27,
     <1>28 DEF Step

LEMMA LockStep ==
  ASSUME TypeOK, AnyInv, Disciplined, DisciplinedInv, NEW t \in Threads, Call(t) \/ Step(t)
  PROVE  \A u \in Threads : LockInv(u)'
<1> SUFFICES ASSUME NEW u \in Threads PROVE LockInv(u)'  OBVIOUS
<1>1. ThreadInv(t) /\ LockInv(t) /\ LockInv(u)  BY Zenon DEF AnyInv, DisciplinedInv
<1>2. CASE u = t
  <2>1. pc[t] = "dev" /\ op[t] \in {"sync", "easync", "write"} => ~fence  BY Zenon, WriterUnfenced
  <2> QED  BY Zenon, <1>1, <1>2, <2>1, LockSelf
<1>3. CASE u # t
  <2>1. Untouched(u)  BY Zenon, <1>1, <1>3, OthersUntouched
  <2> QED  BY ZenonT(60), <1>1, <2>1 DEF Untouched, Kept, Woken, LockInv, Unlocked, Checking
<1> QED  BY Zenon, <1>2, <1>3

(* The volume lock excludes: every release is by a holder. *)
LEMMA ExclusionStep ==
  ASSUME TypeOK, DisciplinedInv, NEW t \in Threads, Call(t) \/ Step(t)
  PROVE  Exclusion'
<1>1. LockInv(t) /\ Exclusion /\ mode \in [Threads -> Modes]  BY Zenon DEF DisciplinedInv, TypeOK
<1>2. UNCHANGED mode \/ AcquireRead(t) \/ AcquireWrite(t) \/ Downgrade(t) \/ Release(t)
  BY Zenon, <1>1, LockMoves
<1> QED
  BY <1>1, <1>2 DEF Exclusion, AcquireRead, AcquireWrite, FreeToRead, FreeToWrite, Downgrade, Release, Modes

(* The device is given to nobody while the fence is up. *)
LEMMA DeviceStep ==
  ASSUME TypeOK, AnyInv, DisciplinedInv, NEW t \in Threads, Call(t) \/ Step(t)
  PROVE  (device # NoThread => ~fence)'
<1>1. Discreet(t)  BY Zenon, DiscreetStep DEF AnyInv, DisciplinedInv
<1>2. device # NoThread => ~fence  BY Zenon DEF DisciplinedInv
<1> QED  BY <1>1, <1>2 DEF Discreet, TypeOK

(* While one thread has got NEED_REVAL for a command no other revalidates: it would have raised  *)
(* the fence before, or have the write lock.                                                     *)
LEMMA Finder ==
  ASSUME DisciplinedInv, NEW t \in Threads, pc[t] = "out", NEW u \in Threads, u # t
  PROVE  pc[u] \notin Chain \cup Checking
<1>1. LockInv(t) /\ LockInv(u) /\ ChainInv(u)  BY Zenon DEF DisciplinedInv
<1>2. device = t /\ mode[t] # "none"  BY <1>1 DEF LockInv, Unlocked
<1>3. ~fence  BY <1>2, NoThreadAssumption DEF DisciplinedInv
<1>4. mode[u] # "write"  BY Zenon, <1>2 DEF DisciplinedInv, Exclusion
<1> QED  BY <1>1, <1>3, <1>4 DEF LockInv, ChainInv, Chain, Checking

(* A second thread cannot start a revalidation, see Finder. *)
LEMMA OneStep ==
  ASSUME TypeOK, AnyInv, DisciplinedInv, NEW t \in Threads, Call(t) \/ Step(t)
  PROVE  OneRevalidates'
<1> DEFINE Here(l) == l \in Chain \cup Checking
<1>1. ThreadInv(t) /\ LockInv(t)  BY Zenon DEF AnyInv, DisciplinedInv
<1>2. ASSUME NEW u \in Threads, u # t, Here(pc'[u]) PROVE Here(pc[u])
  <2>1. Untouched(u)  BY Zenon, <1>1, <1>2, OthersUntouched
  <2> QED  BY <1>2, <2>1 DEF Untouched, Kept, Woken, Chain, Checking
<1>3. ASSUME NEW u \in Threads, u # t, Here(pc[u]), Here(pc'[t]) PROVE FALSE
  <2>1. pc[t] \notin Chain \cup Checking  BY Zenon, <1>3 DEF DisciplinedInv, OneRevalidates
  <2>2. Out(t)
    <3>1. \/ Out(t)
          \/ RvStart(t) \/ RvRelease(t) \/ RvAcquire(t) \/ RvBody(t) \/ RvLower(t) \/ RvRecord(t)
      BY Zenon, <1>1, <1>3, Arrivals
    <3> QED
      BY Zenon, <2>1, <3>1 DEF RvStart, RvRelease, RvAcquire, RvBody, RvLower, RvRecord, Chain, Checking
  <2> QED  BY Zenon, <1>3, <2>2, Finder DEF Out
<1>4. ASSUME NEW u \in Threads, NEW v \in Threads, u # v, Here(pc'[u]), Here(pc'[v]) PROVE FALSE
  <2> HIDE DEF Here
  <2>1. CASE u # t /\ v # t
    <3>1. Here(pc[u]) /\ Here(pc[v])  BY Zenon, <1>2, <1>4, <2>1
    <3> QED  BY Zenon, <1>4, <3>1 DEF DisciplinedInv, OneRevalidates, Here
  <2>2. CASE u = t  BY Zenon, <1>2, <1>3, <1>4, <2>2
  <2>3. CASE v = t  BY Zenon, <1>2, <1>3, <1>4, <2>3
  <2> QED  BY Zenon, <2>1, <2>2, <2>3
<1> QED  BY Zenon, <1>4 DEF OneRevalidates

(* A thread on its way to revalidate, by its own steps: the fence goes up before it and vol->reval *)
(* tells; and when it gives its lock up it was not alone with it.                                  *)
LEMMA ChainSelf ==
  ASSUME TypeOK, NEW t \in Threads, ThreadInv(t), LockInv(t), ChainInv(t), Exclusion, Call(t) \/ Step(t)
  PROVE  ChainInv(t)'
<1> SUFFICES ASSUME pc'[t] \in Chain \cup Checking PROVE ChainInv(t)'
  BY DEF ChainInv, Chain, Checking
<1>1. \/ Out(t) /\ pc'[t] = "rvStart" /\ ret[t] = "reval"
      \/ RvStart(t) \/ RvRelease(t) \/ RvAcquire(t) \/ RvBody(t) \/ RvLower(t) \/ RvRecord(t)
  BY Zenon, Arrivals
<1>2. op[t] \notin Undisciplined  BY Zenon DEF LockInv
<1> USE DEF TypeOK, Goto, Return, shared, local, ChainInv, Chain, IndexOps
<1>3. CASE Out(t) /\ pc'[t] = "rvStart" /\ ret[t] = "reval"
  BY Zenon, <1>2, <1>3 DEF Out, Fencing, AllOps, Undisciplined
<1>4. CASE RvStart(t)  BY <1>2, <1>4 DEF RvStart, HaveWriteLock, Undisciplined
<1>5. CASE RvRelease(t)
  <2>1. mode[t] # "none" /\ \A u \in Threads : u # t => mode'[u] = mode[u]
    <3>1. mode[t] # "none"  BY <1>5 DEF LockInv, Unlocked, RvRelease
    <3> QED  BY Zenon, <1>5, <3>1, Unlocking DEF RvRelease
  <2>2. mode'[t] = "none"  BY Zenon, <1>5, Unlocking DEF RvRelease
  <2>3. \A u \in Threads : mode'[u] # "write"  BY <2>1, <2>2 DEF Exclusion
  <2> QED  BY <1>5, <2>3 DEF RvRelease
<1>6. CASE RvAcquire(t)  BY <1>6 DEF RvAcquire
<1>7. CASE RvBody(t)  BY <1>7 DEF RvBody
<1>8. CASE RvLower(t)  BY <1>8 DEF RvLower
<1>9. CASE RvRecord(t)  BY <1>9 DEF RvRecord
<1> QED  BY Zenon, <1>1, <1>3, <1>4, <1>5, <1>6, <1>7, <1>8, <1>9

(* Nobody else lowers its fence or sets vol->reval back, and who gets the write lock meanwhile     *)
(* turns back at the second look of ltfs_get_volume_lock.                                          *)
LEMMA ChainStep ==
  ASSUME TypeOK, AnyInv, DisciplinedInv, NEW t \in Threads, Call(t) \/ Step(t)
  PROVE  \A u \in Threads : ChainInv(u)'
<1> SUFFICES ASSUME NEW u \in Threads PROVE ChainInv(u)'  OBVIOUS
<1>1. ThreadInv(t) /\ LockInv(t) /\ ChainInv(t) /\ ChainInv(u) /\ Exclusion
  BY Zenon DEF AnyInv, DisciplinedInv
<1>2. CASE u = t  BY Zenon, <1>1, <1>2, ChainSelf
<1>3. CASE u # t
  <2>1. Untouched(u) /\ Discreet(t)  BY Zenon, <1>1, <1>3, OthersUntouched, DiscreetStep
  <2>2. pc'[u] \in Chain \cup Checking => pc'[u] = pc[u]
    BY <2>1 DEF Untouched, Kept, Woken, Chain, Checking
  <2>3. ASSUME pc[u] \in Chain \cup Checking PROVE pc[t] \notin Chain \cup Checking
    BY Zenon, <1>3, <2>3 DEF DisciplinedInv, OneRevalidates
  <2>4. op'[u] = op[u]  BY Zenon, <2>1 DEF Untouched, Kept
  <2>5. pc[u] \in Chain \cup Checking => (fence => fence') /\ (reval # "ok" => reval' # "ok")
    BY <2>1, <2>3 DEF Discreet, Chain, Checking
  <2>6. ASSUME pc[u] = "rvAcquire", NEW v \in Threads, mode'[v] = "write"
        PROVE  pc'[v] \in {"check", "undo"}
    <3>1. \A w \in Threads : mode[w] = "write" => pc[w] \in {"check", "undo"}
      BY Zenon, <1>1, <2>6 DEF ChainInv
    <3>2. reval # "ok" /\ pc[t] \notin Chain \cup Checking  BY <1>1, <2>3, <2>6 DEF ChainInv, Chain
    <3>3. CASE v # t
      <4>1. Untouched(v)  BY Zenon, <1>1, <3>3, OthersUntouched
      <4> QED  BY <2>6, <3>1, <4>1 DEF Untouched, Kept, Woken
    <3>4. CASE v = t
      <4>1. CASE mode[t] = "write"
        <5>1. pc[t] = "check"  BY <2>1, <2>6, <3>1, <3>4, <4>1 DEF Discreet
        <5> QED  BY <2>1, <3>2, <3>4, <5>1 DEF Discreet
      <4>2. CASE mode[t] # "write"
        BY <1>1, <2>6, <3>2, <3>4, <4>2, WriteTaken DEF Chain
      <4> QED  BY Zenon, <4>1, <4>2
    <3> QED  BY Zenon, <3>3, <3>4
  <2> QED  BY <1>1, <2>2, <2>4, <2>5, <2>6 DEF ChainInv, Chain, Checking
<1> QED  BY Zenon, <1>2, <1>3

(* A medium becomes suspect by the answer to a command, and its finder keeps it by its own steps. *)
Doubting(l, r) ==
  \/ l \in {"down", "out"} /\ r = "reval"
  \/ l \in Chain \ {"rvLower"}
  \/ l \in {"rvLower", "rvRecord"} /\ r = "failed"

LEMMA FinderKeeps ==
  ASSUME TypeOK, NEW t \in Threads, LockInv(t), Call(t) \/ Step(t), suspect',
         ~suspect \/ Doubting(pc[t], ret[t])
  PROVE  Doubting(pc'[t], ret'[t]) \/ (RvRecord(t) /\ ret[t] = "failed")
<1>1. /\ pc[t] \notin {"status", "index", "uZero", "uLower", "uReset", "uAgain"}
      /\ op[t] \notin Undisciplined
  BY Zenon DEF LockInv
<1> USE <1>1 DEF TypeOK, Goto, Return, shared, local, Doubting, Chain
<1>2. CASE Call(t)  BY <1>2 DEF Call, FirstLock
<1>3. CASE Get(t)  BY <1>3 DEF Get
<1>4. CASE Acquire(t)  BY <1>4 DEF Acquire, VolLock, AcquireRead, AcquireWrite, FreeToRead,
     FreeToWrite
<1>5. CASE Check(t)  BY <1>5 DEF Check
<1>6. CASE Undo(t)  BY <1>6, Unlocking DEF Undo
<1>7. CASE Peek(t)  BY <1>7, Unlocking DEF Peek
<1>8. CASE DevLock(t)  BY <1>8 DEF DevLock, Waiting
<1>9. CASE Cmd(t)  BY <1>9 DEF Cmd, Answer
<1>10. CASE Down(t)  BY <1>10 DEF Down, Downgrade
<1>11. CASE Out(t)  BY <1>11 DEF Out, Undisciplined
<1>12. CASE Fail(t)  BY <1>12 DEF Fail
<1>13. CASE Finish(t)  BY <1>13, Unlocking DEF Finish
<1>14. CASE WaitRelease(t)  BY <1>14, Unlocking DEF WaitRelease
<1>15. CASE Wait(t)  BY <1>15, Destination DEF Wait
<1>16. CASE RvStart(t)  BY <1>16 DEF RvStart, HaveWriteLock
<1>17. CASE RvRelease(t)  BY <1>17, Unlocking DEF RvRelease
<1>18. CASE RvAcquire(t)  BY <1>18 DEF RvAcquire, VolLock, AcquireWrite, FreeToWrite
<1>19. CASE RvBody(t)  BY Zenon, <1>19 DEF RvBody
<1>20. CASE RvLower(t)  BY <1>20 DEF RvLower
<1>21. CASE RvRecord(t)  BY Zenon, <1>21 DEF RvRecord
<1>22. CASE RvUnlock(t)  BY <1>22, Unlocking, Destination DEF RvUnlock, FirstLock
<1>23. CASE Status(t)  BY <1>23 DEF Status, Answer
<1>24. CASE Index(t)  BY <1>24 DEF Index, Answer
<1>25. CASE Zero(t)  BY <1>25 DEF Zero
<1>26. CASE Lower(t)  BY <1>26 DEF Lower
<1>27. CASE Again(t)  BY <1>27, Unlocking DEF Again
<1> QED  BY Zenon, <1>2, <1>3, <1>4, <1>5, <1>6, <1>7, <1>8, <1>9, <1>10, <1>11, <1>12, <1>13,
     <1>14, <1>15, <1>16, <1>17, <1>18, <1>19, <1>20, <1>21, <1>22, <1>23, <1>24, <1>25, <1>26,
     <1>27 DEF Step

(* A suspect medium stays in the hands of its finder until it is checked; when the check fails,  *)
(* the write lock of the checker says that nobody is past the second look of ltfs_get_volume_lock. *)
LEMMA SuspectStep ==
  ASSUME TypeOK, AnyInv, DisciplinedInv, NEW t \in Threads, Call(t) \/ Step(t)
  PROVE  SuspectInv'
<1> SUFFICES ASSUME suspect'
             PROVE  \/ \E u \in Threads : Doubting(pc'[u], ret'[u])
                    \/ reval' = "failed" /\ \A u \in Threads : pc'[u] \in Turned
  BY Zenon DEF SuspectInv, Doubting
<1>1. ThreadInv(t) /\ LockInv(t)  BY Zenon DEF AnyInv, DisciplinedInv
<1>2. Discreet(t)  BY Zenon, <1>1, DiscreetStep
<1>3. \A u \in Threads : u # t => Untouched(u)  BY Zenon, <1>1, OthersUntouched
<1>4. ASSUME RvRecord(t), ret[t] = "failed"
      PROVE  reval' = "failed" /\ \A u \in Threads : pc'[u] \in Turned
  <2>1. pc[t] = "rvRecord" /\ pc'[t] = "rvUnlock" /\ reval' = "failed"  BY ZenonT(20), <1>4 DEF RvRecord
  <2>2. mode[t] = "write"  BY ZenonT(20), <1>1, <2>1 DEF LockInv, Checking
  <2>3. ASSUME NEW u \in Threads, u # t PROVE pc'[u] \in Turned
    <3>1. mode[u] = "none"  BY Zenon, <2>2, <2>3 DEF DisciplinedInv, Exclusion
    <3>2. LockInv(u)  BY Zenon DEF DisciplinedInv
    <3>3. pc[u] \notin Chain  BY <2>1, <2>3 DEF DisciplinedInv, OneRevalidates, Checking
    <3>4. pc'[u] \in {pc[u], Woken(pc[u])}  BY Zenon, <1>3, <2>3 DEF Untouched, Kept
    <3> QED  BY <3>1, <3>2, <3>3, <3>4 DEF LockInv, Unlocked, Chain, Turned, Woken
  <2> QED  BY <2>1, <2>3 DEF Turned
<1>5. CASE ~suspect  BY Zenon, <1>1, <1>4, <1>5, FinderKeeps
<1>6. ASSUME NEW u \in Threads, Doubting(pc[u], ret[u])
      PROVE  \/ Doubting(pc'[u], ret'[u])
             \/ reval' = "failed" /\ \A v \in Threads : pc'[v] \in Turned
  <2>1. CASE u = t  BY Zenon, <1>1, <1>4, <1>6, <2>1, FinderKeeps
  <2>2. CASE u # t
    <3>1. Untouched(u)  BY Zenon, <1>3, <2>2
    <3> QED  BY <1>6, <3>1 DEF Untouched, Kept, Woken, Doubting, Chain
  <2> QED  BY Zenon, <2>1, <2>2
<1>7. ASSUME reval = "failed", \A u \in Threads : pc[u] \in Turned
      PROVE  reval' = "failed" /\ \A u \in Threads : pc'[u] \in Turned
  <2>1. pc'[t] \in Turned /\ reval' = "failed"  BY Zenon, <1>2, <1>7 DEF Discreet
  <2>2. ASSUME NEW u \in Threads, u # t PROVE pc'[u] \in Turned
    <3>1. pc[u] \in Turned /\ pc'[u] \in {pc[u], Woken(pc[u])}  BY Zenon, <1>3, <1>7, <2>2 DEF Untouched, Kept
    <3> QED  BY <3>1 DEF Turned, Woken
  <2> QED  BY Zenon, <2>1, <2>2
<1>8. CASE suspect
  <2>1. \/ \E u \in Threads : Doubting(pc[u], ret[u])
        \/ reval = "failed" /\ \A u \in Threads : pc[u] \in Turned
    BY Zenon, <1>8 DEF DisciplinedInv, SuspectInv, Doubting
  <2> QED  BY Zenon, <1>6, <1>7, <2>1
<1> QED  BY Zenon, <1>5, <1>8

(* Every step keeps the invariant. *)
LEMMA StepRInv == RInv /\ [Next]_vars => RInv'
<1> SUFFICES ASSUME RInv, [Next]_vars PROVE RInv'  OBVIOUS
<1>1. CASE UNCHANGED vars
  <2> USE <1>1 DEF vars
  <2>1. TypeOK'  BY DEF RInv, TypeOK
  <2>2. ASSUME NEW t \in Threads PROVE ThreadInv(t)' /\ UnmountInv(t)'
    <3>1. ThreadInv(t) /\ UnmountInv(t)  BY Zenon DEF RInv, AnyInv
    <3> QED  BY <3>1 DEF ThreadInv, UnmountInv
  <2>3. FenceHasOwner' /\ (reval = "running" => \E t \in Threads : pc[t] \in Chain \cup {"rvRecord"})'
    BY Zenon DEF RInv, AnyInv, FenceHasOwner
  <2>4. ASSUME Disciplined' PROVE DisciplinedInv'
    <3>1. DisciplinedInv  BY <2>4 DEF RInv, Disciplined
    <3>2. ASSUME NEW t \in Threads PROVE LockInv(t)' /\ ChainInv(t)'
      <4>1. LockInv(t) /\ ChainInv(t)  BY Zenon, <3>1 DEF DisciplinedInv
      <4> QED  BY <4>1 DEF LockInv, ChainInv
    <3>3. Exclusion' /\ (device # NoThread => ~fence)' /\ OneRevalidates' /\ SuspectInv'
      BY Zenon, <3>1 DEF DisciplinedInv, Exclusion, OneRevalidates, SuspectInv
    <3> QED  BY Zenon, <3>2, <3>3 DEF DisciplinedInv
  <2> QED  BY Zenon, <2>1, <2>2, <2>3, <2>4 DEF RInv, AnyInv
<1>2. ASSUME NEW t \in Threads, Call(t) \/ Step(t), UNCHANGED load PROVE RInv'
  <2>1. TypeOK /\ AnyInv /\ ThreadInv(t)  BY Zenon DEF RInv, AnyInv
  <2>2. TypeOK'  BY Zenon, <1>2, <2>1, TypeStep
  <2>3. AnyInv'  BY Zenon, <1>2, <2>1, ThreadStep, UnmountStep, OwnerStep DEF AnyInv
  <2>4. ASSUME Disciplined' PROVE DisciplinedInv'
    <3>1. Disciplined  BY <1>2, <2>4 DEF Disciplined
    <3>2. DisciplinedInv  BY Zenon, <3>1 DEF RInv
    <3>3. \A u \in Threads : LockInv(u)' /\ ChainInv(u)'
      BY Zenon, <1>2, <2>1, <3>1, <3>2, LockStep, ChainStep
    <3>4. Exclusion' /\ (device # NoThread => ~fence)' /\ OneRevalidates' /\ SuspectInv'
      BY Zenon, <1>2, <2>1, <3>2, ExclusionStep, DeviceStep, OneStep, SuspectStep
    <3> QED  BY Zenon, <3>3, <3>4 DEF DisciplinedInv
  <2> QED  BY Zenon, <2>2, <2>3, <2>4 DEF RInv
<1> QED  BY Zenon, <1>1, <1>2 DEF Next, Rest

(* The invariant of the locking wrappers and of ltfs_revalidate, see RInv. *)
THEOREM RevalidationInvariant == Spec => []RInv
  BY InitRInv, StepRInv, PTL DEF Spec

-------------------------------------------------------------------------------
(* vol->reval has only its three values and every thread is at a known place. *)
THEOREM Types == Spec => []TypeOK
  BY RevalidationInvariant, PTL DEF RInv

(* A suspect medium is safe: its finder has the device, or the fence and then the write lock. *)
LEMMA UntouchedFromRInv == RInv => SuspectMediumUntouched
<1> SUFFICES ASSUME RInv, Disciplined, suspect, NEW u \in Threads
             PROVE  pc[u] \notin {"cmd", "index", "status"}
  BY Zenon DEF SuspectMediumUntouched
<1>1. DisciplinedInv /\ TypeOK  BY Zenon DEF RInv
<1>2. LockInv(u)  BY Zenon, <1>1 DEF DisciplinedInv
<1> SUFFICES ASSUME pc[u] = "cmd" PROVE FALSE  BY <1>2 DEF LockInv
<1>3. device = u /\ mode[u] # "none"  BY <1>2 DEF LockInv, Unlocked
<1>4. ~fence  BY <1>1, <1>3, NoThreadAssumption DEF DisciplinedInv
<1>5. PICK t \in Threads : pc[t] \in {"down", "out"} \/ pc[t] \in Chain \cup {"rvRecord"}
  BY <1>1 DEF DisciplinedInv, SuspectInv, Turned, Chain
<1>6. LockInv(t) /\ ChainInv(t)  BY Zenon, <1>1 DEF DisciplinedInv
<1>7. CASE pc[t] \in {"down", "out"}  BY <1>3, <1>6, <1>7 DEF LockInv
<1>8. CASE pc[t] \in Chain \cup {"rvRecord"}
  <2>1. mode[t] = "write"  BY <1>4, <1>6, <1>8 DEF LockInv, ChainInv, Chain, Checking
  <2>2. t # u  BY <1>8 DEF Chain
  <2> QED  BY Zenon, <1>1, <1>3, <2>1, <2>2 DEF DisciplinedInv, Exclusion
<1> QED  BY Zenon, <1>5, <1>7, <1>8

(* From a NEED_REVAL answer until a revalidation has succeeded no thread is at a tape command. *)
THEOREM SuspectUntouched == Spec => []SuspectMediumUntouched
  BY UntouchedFromRInv, RevalidationInvariant, PTL

(* A thread that checks the medium has the write lock, and whoever has the device has some lock. *)
LEMMA AloneFromRInv == RInv => RevalidationAlone
<1> SUFFICES ASSUME RInv, Disciplined, NEW t \in Threads, NEW u \in Threads, t # u, pc[t] \in Checking
             PROVE  /\ device = NoThread
                    /\ mode[u] = "none"
                    /\ pc[u] \notin Chain \cup Checking
  BY DEF RevalidationAlone, Checking, Chain
<1>1. DisciplinedInv /\ AnyInv /\ device \in Threads \cup {NoThread}  BY Zenon DEF RInv, TypeOK
<1>2. mode[t] = "write" /\ \A v \in Threads : v # t => mode[v] = "none"
  BY Zenon, <1>1 DEF DisciplinedInv, LockInv, Exclusion
<1>3. ASSUME NEW v \in Threads, device = v PROVE FALSE
  <2>1. ThreadInv(v) /\ LockInv(v)  BY Zenon, <1>1 DEF AnyInv, DisciplinedInv
  <2>2. pc[v] \in {"cmd", "down", "out"}  BY Zenon, <1>3, <2>1 DEF ThreadInv
  <2>3. v # t /\ mode[v] # "none"  BY <2>1, <2>2 DEF LockInv, Unlocked, Checking
  <2> QED  BY Zenon, <1>2, <2>3
<1>4. pc[u] \notin Chain \cup Checking  BY Zenon, <1>1 DEF DisciplinedInv, OneRevalidates
<1> QED  BY Zenon, <1>1, <1>2, <1>3, <1>4

(* The check of the medium runs with the device mutex free and the volume to itself. *)
THEOREM CheckAlone == Spec => []RevalidationAlone
  BY AloneFromRInv, RevalidationInvariant, PTL

(* The fence is up only while the thread that raised it is on its way to lower it. *)
THEOREM FenceOwned == Spec => []FenceHasOwner
  BY RevalidationInvariant, PTL DEF RInv, AnyInv

(* ltfs_sync_index, a write and ltfs_unmount never find the device fenced. *)
THEOREM SyncUnfenced == Spec => []SyncNeverFenced
<1>1. RInv => SyncNeverFenced
  <2> SUFFICES ASSUME RInv, NEW t \in Threads
               PROVE  \/ op[t] = "unmount"
                      \/ Disciplined /\ op[t] \in {"sync", "easync", "write"}
                      => ret[t] # "fenced"
    BY Zenon DEF SyncNeverFenced
  <2>1. ThreadInv(t) /\ (Disciplined => LockInv(t))  BY Zenon DEF RInv, AnyInv, DisciplinedInv
  <2> QED  BY Zenon, <2>1 DEF ThreadInv, LockInv
<1> QED  BY <1>1, RevalidationInvariant, PTL

(* When every request has returned no lock, no device, no fence and no revalidation is left. *)
THEOREM RestIsClean == Spec => []CleanAtRest
<1>1. RInv => CleanAtRest
  <2> SUFFICES ASSUME RInv, \A t \in Threads : pc[t] = "idle"
               PROVE  /\ ~fence /\ device = NoThread /\ reval # "running"
                      /\ \A t \in Threads : mode[t] = "none"
    BY Zenon DEF CleanAtRest
  <2>1. AnyInv /\ device \in Threads \cup {NoThread}  BY Zenon DEF RInv, TypeOK
  <2>2. ~fence /\ reval # "running"  BY <2>1 DEF AnyInv, FenceHasOwner, Chain
  <2>3. ASSUME NEW t \in Threads PROVE device # t /\ mode[t] = "none"
    <3>1. ThreadInv(t)  BY Zenon, <2>1 DEF AnyInv
    <3> QED  BY <3>1 DEF ThreadInv, Unlocked
  <2> QED  BY Zenon, <2>1, <2>2, <2>3
<1> QED  BY <1>1, RevalidationInvariant, PTL

(* A thread that is about to release vol->lock holds it. *)
THEOREM ReleaseByHolder == Spec => []ReleasedByHolder
<1>1. RInv => ReleasedByHolder
  <2>1. ASSUME RInv, Disciplined, NEW t \in Threads PROVE LockInv(t)  BY Zenon, <2>1 DEF RInv, DisciplinedInv
  <2> QED  BY <2>1 DEF LockInv, Unlocked, ReleasedByHolder
<1> QED  BY <1>1, RevalidationInvariant, PTL

(* An index is written under the write lock on the volume. *)
THEOREM IndexUnderWriteLock == Spec => []IndexWrittenUnderWriteLock
<1>1. RInv => IndexWrittenUnderWriteLock
  BY Zenon DEF RInv, DisciplinedInv, LockInv, IndexWrittenUnderWriteLock
<1> QED  BY <1>1, RevalidationInvariant, PTL

(* A thread at a tape command owns the device mutex. *)
THEOREM DeviceOwned == Spec => []DeviceUsedByOwner
<1>1. RInv => DeviceUsedByOwner
  BY Zenon DEF RInv, DisciplinedInv, LockInv, DeviceUsedByOwner
<1> QED  BY <1>1, RevalidationInvariant, PTL

-------------------------------------------------------------------------------
(* A step at the place where the result is recorded is RvRecord. *)
LEMMA Recording ==
  ASSUME NEW t \in Threads, Call(t) \/ Step(t), pc[t] = "rvRecord"
  PROVE  reval' = ret[t] /\ suspect' = suspect
<1>1. ~(Call(t) \/ Get(t) \/ Acquire(t) \/ Check(t) \/ Undo(t) \/ Peek(t))
  BY Zenon DEF Call, Get, Acquire, Check, Undo, Peek
<1>2. ~(DevLock(t) \/ Cmd(t) \/ Down(t) \/ Out(t) \/ Fail(t) \/ Finish(t))
  BY Zenon DEF DevLock, Cmd, Down, Out, Fail, Finish
<1>3. ~(WaitRelease(t) \/ Wait(t) \/ RvStart(t) \/ RvRelease(t) \/ RvAcquire(t))
  BY Zenon DEF WaitRelease, Wait, RvStart, RvRelease, RvAcquire
<1>4. ~(RvBody(t) \/ RvLower(t) \/ RvUnlock(t) \/ Again(t))
  BY Zenon DEF RvBody, RvLower, RvUnlock, Again
<1>5. ~(Status(t) \/ Index(t) \/ Zero(t) \/ Lower(t))
  BY Zenon DEF Status, Index, Zero, Lower
<1> QED  BY Zenon, <1>1, <1>2, <1>3, <1>4, <1>5 DEF Step, RvRecord

(* The thread that records the result of its check is the only one that could doubt the medium. *)
LEMMA TrustedSteps == RInv /\ [Next]_vars => [TrustedStep]_vars
<1> SUFFICES ASSUME RInv, Disciplined, reval # "ok", reval' = "ok", Next PROVE ~suspect'
  BY DEF TrustedStep
<1>1. ~UNCHANGED reval  OBVIOUS
<1>2. PICK t \in Threads : Call(t) \/ Step(t)  BY <1>1 DEF Next, Rest, vars
<1>3. TypeOK /\ ThreadInv(t) /\ DisciplinedInv  BY Zenon DEF RInv, AnyInv
<1>4. LockInv(t)  BY Zenon, <1>3 DEF DisciplinedInv
<1>5. pc[t] = "rvRecord"
  <2>1. Discreet(t)  BY Zenon, <1>2, <1>3, <1>4, DiscreetStep
  <2> QED  BY Zenon, <2>1 DEF Discreet
<1>6. mode[t] = "write"  BY <1>4, <1>5 DEF LockInv, Checking
<1>7. ret[t] = "ok" /\ suspect' = suspect  BY <1>2, <1>5, Recording
<1>8. ASSUME NEW u \in Threads, u # t PROVE pc[u] \in Unlocked \ Chain
  <2>1. mode[u] = "none" /\ LockInv(u)  BY Zenon, <1>3, <1>6, <1>8 DEF DisciplinedInv, Exclusion
  <2>2. pc[u] \notin Chain  BY <1>3, <1>5, <1>8 DEF DisciplinedInv, OneRevalidates, Checking
  <2> QED  BY Zenon, <2>1, <2>2 DEF LockInv
<1> QED  BY <1>3, <1>5, <1>7, <1>8 DEF DisciplinedInv, SuspectInv, Unlocked, Chain, Turned

(* ltfs_revalidate tells the waiting threads to go on only when the medium is vouched for. *)
THEOREM TrustRegained == Spec => TrustedAgain
  BY TrustedSteps, RevalidationInvariant, PTL DEF Spec, TrustedAgain

(* A mount that is used without the operations that break the rules uses vol->lock as            *)
(* ReadWriteLock, which MrswLock implements, specifies it: every change of a hold is an acquire, *)
(* a release by the holder or a downgrade.                                                       *)
THEOREM VolumeLockDiscipline == Spec => [][Disciplined => [RWNext]_mode]_vars
<1>1. RInv /\ [Next]_vars => [Disciplined => [RWNext]_mode]_vars
  <2> SUFFICES ASSUME RInv, Disciplined, Next PROVE [RWNext]_mode
    OBVIOUS
  <2>1. CASE Rest  BY <2>1 DEF Rest, vars
  <2>2. ASSUME NEW t \in Threads, Call(t) \/ Step(t) PROVE [RWNext]_mode
    <3>1. LockInv(t)  BY Zenon DEF RInv, DisciplinedInv
    <3> QED  BY Zenon, <2>2, <3>1, LockMoves DEF RWNext
  <2> QED  BY Zenon, <2>1, <2>2 DEF Next
<1> QED  BY <1>1, RevalidationInvariant, PTL DEF Spec

-------------------------------------------------------------------------------
(* The refinement of DriveAccess.  Busy are the places of a command and of the check.            *)
Busy == {"cmd", "index", "status", "rvBody"}

(* A step of one thread takes no other thread to a command or away from it. *)
LEMMA OthersStay ==
  ASSUME TypeOK, NEW t \in Threads, Call(t) \/ Step(t), NEW u \in Threads, u # t
  PROVE  pc'[u] = pc[u] \/ (pc[u] \notin Busy /\ pc'[u] \notin Busy)
<1>1. Kept(u)  BY Zenon, OthersKept
<1> QED  BY <1>1 DEF Kept, Woken, Busy

(* The five kinds of steps: a command is sent or answered, a check begins or ends, and the rest, *)
(* which may only shut the volume, or open it as TrustedStep says.                               *)
Sends(t) == pc[t] \notin Busy /\ pc'[t] = "cmd" /\ device' = t /\ UNCHANGED <<suspect, reval>>
Hears(t) == pc[t] = "cmd" /\ pc'[t] \notin Busy /\ (suspect => suspect') /\ UNCHANGED reval
Begins(t) == pc[t] \notin Busy /\ pc'[t] = "rvBody" /\ reval' # "ok" /\ UNCHANGED suspect
Ends(t) == pc[t] = "rvBody" /\ pc'[t] \notin Busy /\ (suspect' => suspect) /\ UNCHANGED reval
Elsewhere(t) == pc[t] \notin Busy /\ pc'[t] \notin Busy /\ UNCHANGED suspect

LEMMA Kinds ==
  ASSUME RInv, Disciplined, NEW t \in Threads, Call(t) \/ Step(t)
  PROVE  Sends(t) \/ Hears(t) \/ Begins(t) \/ Ends(t) \/ Elsewhere(t)
<1>1. LockInv(t) /\ ChainInv(t) /\ pc \in [Threads -> Labels] /\ ret \in [Threads -> Rets]
  BY DEF RInv, DisciplinedInv, TypeOK
<1> USE <1>1 DEF Sends, Hears, Begins, Ends, Elsewhere, Busy, Goto, Return, shared, local
<1>2. CASE Call(t)  BY Zenon, <1>2 DEF Call
<1>3. CASE Get(t) \/ Acquire(t)  BY <1>3 DEF Get, Acquire
<1>4. CASE Check(t)  BY <1>4 DEF Check, LockInv, Undisciplined
<1>5. CASE Undo(t) \/ Peek(t)  BY <1>5 DEF Undo, Peek
<1>6. CASE DevLock(t)  BY <1>6 DEF DevLock, LockInv, Undisciplined
<1>7. CASE Cmd(t)  BY Zenon, <1>7 DEF Cmd, Answer
<1>8. CASE Down(t)  BY <1>8 DEF Down, LockInv
<1>9. CASE Out(t) \/ Fail(t) \/ Finish(t) \/ WaitRelease(t)  BY <1>9 DEF Out, Fail, Finish, WaitRelease
<1>10. CASE Wait(t)  BY <1>10, Destination DEF Wait
<1>11. CASE RvStart(t) \/ RvRelease(t)  BY <1>11 DEF RvStart, RvRelease
<1>12. CASE RvAcquire(t)  BY Zenon, <1>12 DEF RvAcquire, ChainInv
<1>13. CASE RvBody(t)  BY Zenon, <1>13 DEF RvBody
<1>14. CASE RvLower(t) \/ RvRecord(t)  BY <1>14 DEF RvLower, RvRecord
<1>15. CASE RvUnlock(t)  BY <1>15, Destination DEF RvUnlock
<1>16. CASE Status(t) \/ Index(t) \/ Zero(t) \/ Lower(t) \/ Again(t)
  BY <1>16 DEF Status, Index, Zero, Lower, Again, LockInv
<1> QED
  BY Zenon, <1>2, <1>3, <1>4, <1>5, <1>6, <1>7, <1>8, <1>9, <1>10, <1>11, <1>12, <1>13, <1>14, <1>15,
     <1>16
     DEF Step

(* In a mount that keeps to the rules, each step is one of DriveAccess, or none. *)
LEMMA DisciplinedAccess ==
  ASSUME RInv, RInv', Disciplined, UNCHANGED load, NEW t \in Threads, Call(t) \/ Step(t),
         [TrustedStep]_vars
  PROVE  [Access!Next]_Access!vars
<1>1. Disciplined'  BY DEF Disciplined
<1>2. \A u \in Threads : u # t => (pc'[u] = pc[u] \/ (pc[u] \notin Busy /\ pc'[u] \notin Busy))
  BY Zenon, OthersStay DEF RInv
<1>3. /\ Using = {u \in Threads : pc[u] = "cmd"} /\ Using' = {u \in Threads : pc'[u] = "cmd"}
      /\ CheckingMedium = {u \in Threads : pc[u] = "rvBody"}
      /\ CheckingMedium' = {u \in Threads : pc'[u] = "rvBody"}
  <2>1. \A u \in Threads : pc[u] \notin {"index", "status"} /\ pc'[u] \notin {"index", "status"}
    <3>1. \A u \in Threads : LockInv(u) /\ LockInv(u)'  BY Zenon, <1>1 DEF RInv, DisciplinedInv
    <3> QED  BY Zenon, <3>1 DEF LockInv
  <2> QED  BY <1>1, <2>1 DEF Using, CheckingMedium
<1>4. (\A u \in Threads : pc'[u] = "cmd" => device' = u) /\ device' \in Threads \cup {NoThread}
  BY <1>1 DEF RInv, DisciplinedInv, LockInv, TypeOK
<1>5. \A u, v \in Threads : u # v /\ pc'[u] = "rvBody" => device' = NoThread /\ pc'[v] # "rvBody"
  <2>1. RevalidationAlone'  BY AloneFromRInv, PTL
  <2> QED  BY <1>1, <2>1 DEF RevalidationAlone
<1>6. (\E u \in Threads : pc'[u] = "cmd") => ~suspect'
  <2>1. SuspectMediumUntouched'  BY UntouchedFromRInv, PTL
  <2> QED  BY ZenonT(20), <1>1, <2>1 DEF SuspectMediumUntouched
<1> USE <1>1, <1>2, <1>3 DEF Busy, Access!Next, Access!vars, Access!Unused
<1>7. CASE Sends(t)
  <2>1. ~suspect /\ ~suspect' /\ reval' = reval  BY <1>6, <1>7 DEF Sends
  <2>2. Using = {}  BY <1>4, <1>7 DEF Sends
  <2>3. CheckingMedium = {} /\ CheckingMedium' = {}  BY <1>5, <1>7, NoThreadAssumption DEF Sends
  <2>4. Using' = {t}  BY <1>4, <1>7 DEF Sends
  <2> QED  BY ZenonT(60), <2>1, <2>2, <2>3, <2>4 DEF Access!Issue
<1>8. CASE Hears(t)
  <2>1. t \in Using /\ Using' = Using \ {t}  BY <1>8 DEF Hears
  <2>2. CheckingMedium' = CheckingMedium  BY <1>8 DEF Hears
  <2> QED  BY Zenon, <1>8, <2>1, <2>2 DEF Hears, Access!Answered
<1>9. CASE Begins(t)
  <2>1. Using = {} /\ Using' = {}  BY <1>4, <1>5, <1>9, NoThreadAssumption DEF Begins
  <2>2. CheckingMedium = {} /\ CheckingMedium' = {t}  BY <1>5, <1>9 DEF Begins
  <2> QED  BY <1>9, <2>1, <2>2 DEF Begins, Access!BeginCheck
<1>10. CASE Ends(t)
  <2>1. t \in CheckingMedium /\ CheckingMedium' = CheckingMedium \ {t}  BY <1>10 DEF Ends
  <2>2. Using' = Using  BY <1>10 DEF Ends
  <2> QED  BY Zenon, <1>10, <2>1, <2>2 DEF Ends, Access!EndCheck
<1>11. CASE Elsewhere(t)
  <2>1. Using' = Using /\ CheckingMedium' = CheckingMedium  BY <1>11 DEF Elsewhere
  <2>2. suspect' = suspect /\ (reval # "ok" /\ reval' = "ok" => ~suspect')
    BY <1>11 DEF Elsewhere, TrustedStep, vars
  <2> QED  BY <2>1, <2>2 DEF Access!Shut, Access!Reopen
<1> QED  BY Zenon, <1>7, <1>8, <1>9, <1>10, <1>11, Kinds

(* A step of any mount is a step of DriveAccess, or none. *)
LEMMA AccessStep == RInv /\ RInv' /\ [Next]_vars /\ [TrustedStep]_vars => [Access!Next]_Access!vars
<1> SUFFICES ASSUME RInv, RInv', [Next]_vars, [TrustedStep]_vars PROVE [Access!Next]_Access!vars
  OBVIOUS
<1>1. CASE UNCHANGED vars
  BY <1>1 DEF vars, Access!vars, Using, CheckingMedium, Disciplined
<1>2. ASSUME NEW t \in Threads, Call(t) \/ Step(t), UNCHANGED load PROVE [Access!Next]_Access!vars
  <2>1. CASE Disciplined  BY <1>2, <2>1, DisciplinedAccess
  <2>2. CASE ~Disciplined
    <3>1. ~Disciplined'  BY <1>2, <2>2 DEF Disciplined
    <3> QED  BY <2>2, <3>1 DEF Access!vars, Using, CheckingMedium
  <2> QED  BY <2>1, <2>2
<1> QED  BY <1>1, <1>2 DEF Next, Rest

(* The locking wrappers, the fence and ltfs_revalidate implement DriveAccess: one thread at a    *)
(* time uses the drive, only while the drive vouches for the medium, the check has the drive to  *)
(* itself, and requests are let in again only when the drive vouches for the medium.             *)
THEOREM AccessRefinement == Spec => ImplementsDriveAccess
<1>1. Init => Access!Init
  BY DEF Init, Access!Init, Using, CheckingMedium
<1> QED
  BY <1>1, AccessStep, TrustedSteps, RevalidationInvariant, PTL
     DEF Spec, ImplementsDriveAccess, Access!Spec
===============================================================================
