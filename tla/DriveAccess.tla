---------------------------- MODULE DriveAccess ----------------------------
(***************************************************************************)
(* What the fence and the revalidation promise together: who may use the   *)
(* drive, and when.  One thread at a time has a command at the drive, and  *)
(* only while the drive vouches for the medium.  After an answer that      *)
(* takes this back the medium is checked by one thread that has the drive  *)
(* to itself, and requests are let in again only when the drive vouches    *)
(* for the medium.  Revalidation is how the library does it with its       *)
(* locks, and implements this module.                                      *)
(***************************************************************************)
CONSTANT Threads

VARIABLES vouched,   \* the drive vouches for the medium
          users,     \* threads with a command at the drive
          checkers,  \* threads that check the medium
          open       \* requests are let in

vars == <<vouched, users, checkers, open>>

Init == vouched = TRUE /\ users = {} /\ checkers = {} /\ open = TRUE

Unused == users = {} /\ checkers = {}

(* A command is sent to the drive. *)
Issue(t) ==
  /\ vouched /\ Unused
  /\ users' = {t}
  /\ UNCHANGED <<vouched, checkers, open>>

(* Its answer may be that the medium has to be checked. *)
Answered(t) ==
  /\ t \in users
  /\ users' = users \ {t}
  /\ vouched' \in {vouched, FALSE}
  /\ UNCHANGED <<checkers, open>>

(* A check begins with no request let in, and ends well or not. *)
BeginCheck(t) ==
  /\ Unused
  /\ checkers' = {t}
  /\ open' = FALSE
  /\ UNCHANGED <<vouched, users>>

EndCheck(t) ==
  /\ t \in checkers
  /\ checkers' = checkers \ {t}
  /\ vouched' \in {vouched, TRUE}
  /\ UNCHANGED <<users, open>>

(* No request is let in: the volume has failed, or a check is to come. *)
Shut == open' = FALSE /\ UNCHANGED <<vouched, users, checkers>>

Reopen == vouched /\ open' = TRUE /\ UNCHANGED <<vouched, users, checkers>>

Next ==
  \/ \E t \in Threads : Issue(t) \/ Answered(t) \/ BeginCheck(t) \/ EndCheck(t)
  \/ Shut \/ Reopen

Spec == Init /\ [][Next]_vars
=============================================================================
