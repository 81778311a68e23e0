---------------------------- MODULE MrswLockProofs ----------------------------
(***************************************************************************)
(* Proofs about the multi-reader single-writer lock, for any set of        *)
(* threads: the inductive invariant, the flag that release_mrsw trusts,    *)
(* the owner of long_lock, and that the coded lock implements the abstract *)
(* one.                                                                    *)
(***************************************************************************)
EXTENDS MrswLock, TLAPS

(* How long a prover may take for a step that does not say so. *)
USE SMTT(40), ZenonT(40)

(* init_mrsw() establishes the invariant. *)
LEMMA InitIInv == Init => IInv
  BY ZenonT(60), NoThreadAssumption
     DEF Init, IInv, TypeOK, Labels, WriteOps, ReadOps, MutexLabels,
         WriteLabels, ReadLabels, FlagLabels

(* The steps of the acquire functions keep the invariant. *)
LEMMA AcquiringIInv ==
  ASSUME IInv, NEW t \in Threads, Acquiring(t)
  PROVE  IInv'
<1> USE NoThreadAssumption
    DEF IInv, TypeOK, Labels, WriteOps, ReadOps, MutexLabels, WriteLabels,
        ReadLabels, FlagLabels, LongLabels, GoTo, LockMutex, UnlockMutex, RwFree
<1>1. CASE EnterBlocking(t)    BY <1>1 DEF EnterBlocking
<1>2. CASE TryFailsOnMutex(t)  BY <1>2 DEF TryFailsOnMutex
<1>3. CASE WrLock(t)           BY <1>3 DEF WrLock
<1>4. CASE TryFailsOnRw(t)     BY <1>4 DEF TryFailsOnRw
<1>5. CASE SetWriter(t)        BY <1>5 DEF SetWriter
<1>6. CASE SetLong(t)          BY <1>6 DEF SetLong
<1>7. CASE Gate(t)             BY ZenonT(60), <1>7 DEF Gate
<1>8. CASE Ungate(t)           BY <1>8 DEF Ungate
<1>9. CASE RdLock(t)           BY <1>9 DEF RdLock
<1>10. CASE CheckLong(t)       BY <1>10 DEF CheckLong
<1>11. CASE TryGate(t)         BY <1>11 DEF TryGate
<1> QED
  BY <1>1, <1>2, <1>3, <1>4, <1>5, <1>6, <1>7, <1>8, <1>9, <1>10, <1>11
     DEF Acquiring

(* The steps of the release functions and of the downgrade keep it. *)
LEMMA ReleasingIInv ==
  ASSUME IInv, NEW t \in Threads, Releasing(t)
  PROVE  IInv'
<1> USE NoThreadAssumption
    DEF IInv, TypeOK, Labels, WriteOps, ReadOps, MutexLabels, WriteLabels,
        ReadLabels, FlagLabels, LongLabels, GoTo, UnlockMutex, UnlockRw
<1>1. CASE ReleaseWrite(t)  BY <1>1 DEF ReleaseWrite
<1>2. CASE ReleaseRead(t)   BY <1>2 DEF ReleaseRead, UnlockRead
<1>3. CASE ReleaseAny(t)
  <2>1. CASE writer
    <3>1. pc[t] = "writing"  BY <1>3, <2>1 DEF ReleaseAny
    <3> QED  BY <1>3, <2>1, <3>1 DEF ReleaseAny
  <2>2. CASE ~writer
    <3>1. pc[t] = "reading"  BY <1>3, <2>2 DEF ReleaseAny
    <3> QED  BY <1>3, <2>2, <3>1 DEF ReleaseAny, UnlockRead
  <2> QED  BY <2>1, <2>2
<1>4. CASE ClearWriter(t)   BY ZenonT(60), <1>4 DEF ClearWriter
<1>5. CASE ClearLong(t)     BY ZenonT(60), <1>5 DEF ClearLong
<1>6. CASE UnlockWrite(t)   BY <1>6 DEF UnlockWrite
<1>7. CASE DownRdLock(t)    BY <1>7 DEF DownRdLock
<1>8. CASE LeaveMutex(t)    BY <1>8 DEF LeaveMutex
<1> QED
  BY Zenon, <1>1, <1>2, <1>3, <1>4, <1>5, <1>6, <1>7, <1>8 DEF Releasing

(* Every step of the lock keeps it. *)
LEMMA NextIInv == IInv /\ [Next]_vars => IInv'
<1> SUFFICES ASSUME IInv, [Next]_vars PROVE IInv'
  OBVIOUS
<1>1. CASE UNCHANGED vars
  BY <1>1 DEF vars, IInv, TypeOK
<1>2. ASSUME NEW t \in Threads, Call(t) \/ WriteToRead(t)
      PROVE  IInv'
  BY <1>2, NoThreadAssumption
     DEF Call, WriteToRead, GoTo, IInv, TypeOK, Labels, WriteOps, ReadOps,
         MutexLabels, WriteLabels, ReadLabels, FlagLabels, LongLabels
<1> QED
  BY <1>1, <1>2, AcquiringIInv, ReleasingIInv DEF Next

(* In every reachable state of the lock the place of each thread in the    *)
(* code says exactly which of exclusive_mutex and rw_lock it has, and the  *)
(* two flags belong to the thread that writes.                             *)
THEOREM LockInvariant == Spec => []IInv
<1>1. Init => IInv  BY InitIInv
<1>2. IInv /\ [Next]_vars => IInv'  BY NextIInv
<1> QED  BY <1>1, <1>2, PTL DEF Spec

(* release_mrsw always takes the branch that matches the lock its caller   *)
(* holds.                                                                  *)
THEOREM WriterFlag == Spec => []WriterFlagNamesHolder
<1>1. IInv => WriterFlagNamesHolder
  BY Zenon, NoThreadAssumption DEF IInv, TypeOK, WriterFlagNamesHolder, FlagLabels, WriteLabels, ReadLabels
<1> QED  BY <1>1, LockInvariant, PTL

(* acquireread_mrsw_short refuses a reader only while a writer that asked  *)
(* for the long lock has it.                                               *)
THEOREM LongLock == Spec => []LongLockHasOwner
<1>1. IInv => LongLockHasOwner
  BY NoThreadAssumption DEF IInv, TypeOK, LongLockHasOwner, LongLabels, WriteLabels, MutexLabels
<1> QED  BY <1>1, LockInvariant, PTL

------------------------------------------------------------------------------
(* The refinement.  Under the invariant the protection of a thread is a    *)
(* function of its label, so a step changes LockMode only at the thread    *)
(* that takes it.                                                          *)
LabelMode(l) ==
  IF l \in WriteLabels THEN "write"
  ELSE IF l \in ReadLabels \cup {"down_rdlock"} THEN "read"
  ELSE "none"

(* The refinement mapping, read off the labels. *)
LEMMA ModeIsLabel ==
  /\ IInv => LockMode = [t \in Threads |-> LabelMode(pc[t])]
  /\ IInv' => LockMode' = [t \in Threads |-> LabelMode(pc'[t])]
  BY NoThreadAssumption
     DEF IInv, TypeOK, LockMode, LabelMode, WriteLabels, ReadLabels

(* A step of one thread changes the protection of that thread only. *)
LEMMA StepMode ==
  ASSUME IInv, IInv', NEW t \in Threads, NEW l, GoTo(t, l)
  PROVE  LockMode' = [LockMode EXCEPT ![t] = LabelMode(l)]
  BY ModeIsLabel DEF GoTo, IInv, TypeOK

(* A step that keeps the thread's protection is a stuttering step of the   *)
(* abstract lock.                                                          *)
LEMMA QuietStep ==
  ASSUME IInv, IInv', NEW t \in Threads, NEW l, GoTo(t, l),
         LabelMode(l) = LabelMode(pc[t])
  PROVE  UNCHANGED LockMode
<1>1. LockMode' = [LockMode EXCEPT ![t] = LabelMode(pc[t])]
  BY StepMode
<1>2. LockMode = [u \in Threads |-> LabelMode(pc[u])]
  BY ModeIsLabel
<1> QED  BY <1>1, <1>2

(* The four kinds of step that change a thread's protection. *)
LEMMA LoudStep ==
  ASSUME IInv, IInv', NEW t \in Threads,
         WrLock(t) \/ RdLock(t) \/ UnlockWrite(t) \/ (pc[t] = "reading" /\ UnlockRead(t))
  PROVE  RW!RWNext
<1> DEFINE M == [u \in Threads |-> LabelMode(pc[u])]
<1>1. LockMode = M  BY ModeIsLabel
<1>2. CASE WrLock(t)
  <2>1. LockMode' = [LockMode EXCEPT ![t] = "write"]
    BY <1>2, StepMode DEF WrLock, LabelMode, WriteLabels
  <2>2. RW!FreeToWrite
    <3>1. \A u \in Threads : pc[u] \notin WriteLabels \cup ReadLabels
      BY <1>2, NoThreadAssumption DEF WrLock, RwFree, IInv
    <3>2. \A u \in Threads : pc[u] # "down_rdlock"
      BY <1>2 DEF WrLock, IInv, MutexLabels
    <3> QED  BY <1>1, <3>1, <3>2 DEF RW!FreeToWrite, LabelMode
  <2> QED  BY Zenon, <2>1, <2>2 DEF RW!RWNext, RW!AcquireWrite
<1>3. CASE RdLock(t)
  <2>1. LockMode' = [LockMode EXCEPT ![t] = "read"]
    BY <1>3, StepMode DEF RdLock, LabelMode, WriteLabels, ReadLabels
  <2>2. RW!FreeToRead
    <3>1. \A u \in Threads : pc[u] \notin WriteLabels
      BY <1>3, NoThreadAssumption DEF RdLock, IInv
    <3> QED  BY <1>1, <3>1 DEF RW!FreeToRead, LabelMode
  <2>3. LockMode[t] = "none"
    BY <1>1, <1>3 DEF RdLock, LabelMode, WriteLabels, ReadLabels
  <2> QED  BY Zenon, <2>1, <2>2, <2>3 DEF RW!RWNext, RW!AcquireRead
<1>4. CASE UnlockWrite(t)
  <2>1. LockMode[t] = "write"
    BY <1>1, <1>4 DEF UnlockWrite, LabelMode, WriteLabels
  <2>2. CASE pc[t] = "rel_rw"
    <3>1. LockMode' = [LockMode EXCEPT ![t] = "none"]
      BY <1>4, <2>2, StepMode DEF UnlockWrite, LabelMode, WriteLabels, ReadLabels
    <3> QED  BY Zenon, <2>1, <3>1 DEF RW!RWNext, RW!Release
  <2>3. CASE pc[t] = "down_unlock"
    <3>1. LockMode' = [LockMode EXCEPT ![t] = "read"]
      BY <1>4, <2>3, StepMode DEF UnlockWrite, LabelMode, WriteLabels
    <3> QED  BY Zenon, <2>1, <3>1 DEF RW!RWNext, RW!Downgrade
  <2> QED  BY <1>4, <2>2, <2>3 DEF UnlockWrite
<1>5. CASE pc[t] = "reading" /\ UnlockRead(t)
  <2>1. LockMode[t] = "read"
    BY <1>1, <1>5 DEF LabelMode, WriteLabels, ReadLabels
  <2>2. LockMode' = [LockMode EXCEPT ![t] = "none"]
    BY <1>5, StepMode DEF UnlockRead, LabelMode, WriteLabels, ReadLabels
  <2> QED  BY Zenon, <2>1, <2>2 DEF RW!RWNext, RW!Release
<1> QED  BY <1>2, <1>3, <1>4, <1>5

(* Every step of the coded lock is a step of the abstract one, or none. *)
LEMMA NextRefines ==
  ASSUME IInv, IInv', NEW t \in Threads,
         Call(t) \/ WriteToRead(t) \/ Acquiring(t) \/ Releasing(t)
  PROVE  [RW!RWNext]_LockMode
<1>1. CASE WrLock(t) \/ RdLock(t) \/ UnlockWrite(t) \/ ReleaseRead(t)
  BY <1>1, LoudStep DEF ReleaseRead
<1>2. CASE ReleaseAny(t)
  <2>1. CASE writer
    <3>1. pc[t] = "writing" /\ GoTo(t, "rel_writer")
      BY <1>2, <2>1, NoThreadAssumption
         DEF ReleaseAny, IInv, TypeOK, FlagLabels, WriteLabels, ReadLabels
    <3> QED  BY <3>1, QuietStep DEF LabelMode, WriteLabels
  <2>2. CASE ~writer
    <3>1. pc[t] = "reading" /\ UnlockRead(t)
      BY <1>2, <2>2 DEF ReleaseAny, IInv, FlagLabels
    <3> QED  BY <3>1, LoudStep
  <2> QED  BY <2>1, <2>2
<1>3. CASE \/ Call(t) \/ WriteToRead(t) \/ EnterBlocking(t) \/ TryFailsOnMutex(t)
           \/ TryFailsOnRw(t) \/ SetWriter(t) \/ SetLong(t) \/ Gate(t)
           \/ Ungate(t) \/ CheckLong(t) \/ TryGate(t) \/ ReleaseWrite(t)
           \/ ClearWriter(t) \/ ClearLong(t) \/ DownRdLock(t) \/ LeaveMutex(t)
  <2>1. PICK l : GoTo(t, l) /\ LabelMode(l) = LabelMode(pc[t])
    BY <1>3
       DEF Call, WriteToRead, EnterBlocking, TryFailsOnMutex, TryFailsOnRw,
           SetWriter, SetLong, Gate, Ungate, CheckLong, TryGate, ReleaseWrite,
           ClearWriter, ClearLong, DownRdLock, LeaveMutex,
           LabelMode, WriteLabels, ReadLabels
  <2> QED  BY <2>1, QuietStep
<1> QED  BY <1>1, <1>2, <1>3 DEF Acquiring, Releasing

(* The coded lock implements the abstract one, for any set of threads: a   *)
(* writer is alone, and a downgrade lets no other writer in although       *)
(* writetoread_mrsw unlocks rw_lock on the way.                            *)
THEOREM LockRefinement == Spec => ImplementsReadWriteLock
<1>1. Init => RW!RWInit
  BY NoThreadAssumption DEF Init, RW!RWInit, LockMode
<1>2. IInv /\ IInv' /\ [Next]_vars => [RW!RWNext]_LockMode
  <2> SUFFICES ASSUME IInv, IInv', [Next]_vars PROVE [RW!RWNext]_LockMode
    OBVIOUS
  <2>1. CASE UNCHANGED vars
    BY <2>1 DEF vars, LockMode
  <2>2. CASE Next
    BY <2>2, NextRefines DEF Next
  <2> QED  BY <2>1, <2>2
<1> QED
  BY <1>1, <1>2, LockInvariant, PTL DEF Spec, ImplementsReadWriteLock, RW!RWSpec
==============================================================================
