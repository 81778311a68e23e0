--------------------------- MODULE MCRevalidation ---------------------------
(* Revalidation for TLC: the threads are interchangeable. *)
EXTENDS Revalidation, TLC

Symmetry == Permutations(Threads)

(* Requests for data, capacity and syncs, twice per thread; attributes set beside *)
(* them; and the attributes that reach the drive or sync in their own ways, and   *)
(* the unmount.                                                                   *)
Requests == [ops |-> {"cap", "write", "sync"}, calls |-> 2]
Settings == [ops |-> {"setx", "easync", "write", "sync"}, calls |-> 1]
Attributes == [ops |-> {"tur", "getx", "logpage", "fullsync", "easync", "unmount"}, calls |-> 1]
SafetyLoads == {Requests, Settings, Attributes}

LivenessLoads == {[ops |-> {"tur", "write", "sync", "setx"}, calls |-> 2]}
=============================================================================
