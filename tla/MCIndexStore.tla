---------------------------- MODULE MCIndexStore ----------------------------
(* Volumes for TLC. *)
EXTENDS IndexStore

(* Full indexes only (full_index_interval is negative), data on the data partition. *)
Plain ==
    [parts |-> {"dp"}, types |-> {"full"}, interval |-> -1, extra |-> FALSE, mam |-> FALSE,
     crashes |-> 1, faults |-> 0]

(* MAM writes that fail unnoticed, and two crashes. *)
Crashing == {[Plain EXCEPT !.mam = TRUE, !.crashes = 2]}

(* Incremental indexes and two crashes; a refused command; data on both partitions, *)
(* a full index after each incremental one, and altfsck --full-recovery.            *)
Policies ==
    {[Plain EXCEPT !.types = {"auto"}, !.crashes = 2],
     [Plain EXCEPT !.faults = 1],
     [Plain EXCEPT !.parts = {"ip", "dp"}, !.types = {"auto", "full"}, !.interval = 1, !.extra = TRUE]}

(* Data on both partitions. *)
Placed == {[Plain EXCEPT !.parts = {"ip", "dp"}]}
=============================================================================
