---------------------------- MODULE DriverCommon ----------------------------
(***************************************************************************)
(* What the tape drivers share: the private data of an open drive, the     *)
(* errors that call for a dump (vendor_compat.c), the count of the open    *)
(* drives of an adapter (open_factor.c), and the pseudo errors that a test *)
(* asks for through an extended attribute.                                 *)
(***************************************************************************)
EXTENDS ScsiTape

CONSTANTS
  Threshold,   \* THRESHOLD_FORCE_WRITE_NO_WRITE
  MaxDumps     \* MAX_TAKE_DUMP_ATTEMPTS

ASSUME DriverCommonAssumption == {Threshold, MaxDumps} \subseteq Nat

(* struct sg_data and the position of the caller, before the first open. *)
Private(vendor) ==
  [open |-> FALSE, fd |-> NoPath, host |-> NoPath, loaded |-> FALSE, is_reserved |-> FALSE,
   is_tape_locked |-> FALSE, is_reconnecting |-> FALSE, clear_by_pc |-> FALSE,
   force_writeperm |-> 0, force_readperm |-> 0, write_counter |-> 0, read_counter |-> 0,
   use_sili |-> FALSE, is_data_key_set |-> FALSE, is_worm |-> FALSE, crc |-> FALSE,
   recursive_counter |-> 0, openfactor |-> [p \in Paths |-> 0], vendor |-> vendor,
   pos |-> At(0, 0), ew |-> 0, got |-> FM,
   param_blksize |-> FALSE, worm_said |-> FALSE]

(* The fields of the private data that a new handle starts with: calloc. *)
Fresh(s) ==
  [f \in DOMAIN s |-> IF f \in DOMAIN Private(s.vendor) \ {"openfactor", "pos", "ew"} THEN Private(s.vendor)[f] ELSE s[f]]

-----------------------------------------------------------------------------
(* is_drive_state_notice *)
is_drive_state_notice(s, ret) ==
  \/ ret \in UnitAttentions \cup {"MEDIA_REMOVAL_PREV"} /\ ~(s.loaded /\ ret = "POR_OR_BUS_RESET")
  \/ ret \in {"NO_MEDIUM", "NEED_INITIALIZE"} /\ ~s.loaded

(* The errors from EDEV_NOT_READY up to EDEV_INTERNAL_ERROR that the model has. *)
DriveErrors ==
  {"NO_MEDIUM", "NEED_INITIALIZE", "DATA_PROTECT", "HARDWARE_ERROR", "LBP_READ_ERROR", "READ_PERM",
   "WRITE_PERM", "MEDIA_REMOVAL_PREV", "EOD_DETECTED", "OVERFLOW", "KEY_REQUIRED"} \cup UnitAttentions

is_dump_required(s, ret) == ret \in DriveErrors /\ ~is_drive_state_notice(s, ret)

capture_unforced(ret) == ret \in {"HARDWARE_ERROR", "LBP_READ_ERROR", "READ_PERM", "WRITE_PERM"}

-----------------------------------------------------------------------------
(* open_factor.c: each path of the model is on an adapter of its own, and  *)
(* the host number 0 of a driver that lost its path is no adapter of it.   *)

increment_openfactor(s) == IF s.host = NoPath THEN s ELSE [s EXCEPT !.openfactor[s.host] = @ + 1]

decrement_openfactor(s) ==
  IF s.host = NoPath \/ s.openfactor[s.host] = 0 THEN s ELSE [s EXCEPT !.openfactor[s.host] = @ - 1]

get_openfactor(s, p) == s.openfactor[p]

-----------------------------------------------------------------------------
(* Pseudo errors: forceErrorWrite and forceErrorRead.                      *)

ClearForcePerm(s) ==
  [s EXCEPT !.clear_by_pc = FALSE, !.force_writeperm = 0, !.force_readperm = 0,
            !.write_counter = 0, !.read_counter = 0]

(* What a write does before its command: fail, pretend, or go on.  The counters stop at the *)
(* first value past their limit: a larger one decides nothing else.                         *)
ForcedWrite(s, Go(_)) ==
  LET t == [s EXCEPT !.write_counter = IF @ > s.force_writeperm THEN @ ELSE @ + 1]
  IN  CASE s.force_writeperm = 0 -> Go(s)
        [] s.force_writeperm > 0 /\ t.write_counter > t.force_writeperm -> Out(t, "WRITE_PERM")
        [] s.force_writeperm > 0 /\ t.write_counter <= t.force_writeperm
             /\ t.write_counter > t.force_writeperm - Threshold -> Out([t EXCEPT !.pos.b = @ + 1], "GOOD")
        [] OTHER -> Go(t)

ForcedRead(s, Go(_)) ==
  LET t == [s EXCEPT !.read_counter = IF @ > s.force_readperm THEN @ ELSE @ + 1]
  IN  IF s.force_readperm = 0 THEN Go(s)
      ELSE IF t.read_counter > t.force_readperm THEN Out(t, "READ_PERM") ELSE Go(t)

(* READ POSITION gives the position of the caller its block and its warnings. *)
Positioned(s) == [s EXCEPT !.pos = s.at, !.ew = Warning(s)]

(* A record that was written is counted, and a warning of the drive is no error. *)
Completed(outs) ==
  {CASE o.ret = "EARLY_WARNING"      -> [s |-> [o.s EXCEPT !.ew = 2], ret |-> "GOOD"]
     [] o.ret = "PROG_EARLY_WARNING" -> [s |-> [o.s EXCEPT !.ew = 1], ret |-> "GOOD"]
     [] o.ret = "GOOD"               -> [s |-> [o.s EXCEPT !.ew = 0], ret |-> "GOOD"]
     [] OTHER                        -> o : o \in outs}

(* A warning of the command that the position of the drive does not show is kept. *)
AtLeast(ew, outs) ==
  {[o EXCEPT !.s.ew = IF o.ret = "GOOD" /\ ew > @ THEN ew ELSE @] : o \in outs}

=============================================================================
