---------------------------- MODULE ReadWriteLock ----------------------------
(***************************************************************************)
(* What the rest of libaltfs relies on when it takes a                     *)
(* MultiReaderSingleWriter lock: many readers or one writer, a lock is     *)
(* taken and given back in one step, and a writer may turn its lock into a *)
(* read lock without letting another writer in between.  MrswLock is the   *)
(* lock as it is coded, and implements this module.                        *)
(***************************************************************************)
CONSTANT Threads

VARIABLE mode    \* mode[t]: the protection thread t has

Modes == {"none", "read", "write"}

RWInit == mode = [t \in Threads |-> "none"]

(* The lock is free for a reader when nobody writes, for a writer when     *)
(* nobody holds it at all.                                                 *)
FreeToRead == \A t \in Threads : mode[t] # "write"
FreeToWrite == \A t \in Threads : mode[t] = "none"

AcquireRead(t) ==
  /\ mode[t] = "none"
  /\ FreeToRead
  /\ mode' = [mode EXCEPT ![t] = "read"]

AcquireWrite(t) ==
  /\ FreeToWrite
  /\ mode' = [mode EXCEPT ![t] = "write"]

Release(t) ==
  /\ mode[t] # "none"
  /\ mode' = [mode EXCEPT ![t] = "none"]

Downgrade(t) ==
  /\ mode[t] = "write"
  /\ mode' = [mode EXCEPT ![t] = "read"]

RWNext ==
  \E t \in Threads :
    AcquireRead(t) \/ AcquireWrite(t) \/ Release(t) \/ Downgrade(t)

RWSpec == RWInit /\ [][RWNext]_mode

(* A thread that writes is alone: no other thread reads or writes under    *)
(* the same lock.                                                          *)
Exclusion ==
  \A t, u \in Threads : t # u /\ mode[t] = "write" => mode[u] = "none"
==============================================================================
