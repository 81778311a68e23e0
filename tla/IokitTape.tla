------------------------------ MODULE IokitTape ------------------------------
(***************************************************************************)
(* The macOS driver (tape_drivers/osx/iokit): iokit_service.c finds a      *)
(* drive by its number and takes it from the kernel, iokit_scsi.c passes   *)
(* one command, iokit_tape.c makes the operations of struct tape_ops of    *)
(* them.  It has one path: what it loses it does not look for, and an      *)
(* error of a command is the result of the operation.                      *)
(*                                                                         *)
(* The interface of the kernel to a drive exists once, so LTFS gives it up *)
(* before it forks (iokit_close_raw) and finds it again (iokit_reopen).    *)
(* Modelled for LTO drives, without the layout of pages and parameters.    *)
(***************************************************************************)
EXTENDS DriverCommon

(* The commands of a dump are commands: their errors are processed like any other. *)
RECURSIVE iokit_command(_, _)
RECURSIVE iokit_checked(_, _)
RECURSIVE iokit_process_errors(_, _, _)

(* iokit_issue_cdb_command *)
iokit_issue_cdb_command(s, c) ==
  IF s.fd = NoPath THEN Out(s, "LTFS_NULL_ARG")
  ELSE {[o EXCEPT !.ret = IF @ = "lost" THEN "INTERNAL_ERROR" ELSE @] : o \in Transport(s, c)}

(* if (ret < 0) _process_errors(...): the result stays. *)
iokit_checked(outs, dump) ==
  Then(outs, LAMBDA o : IF Failed(o.ret) THEN Return(iokit_process_errors(o.s, o.ret, dump), o.ret) ELSE {o})

iokit_command(s, c) == iokit_checked(iokit_issue_cdb_command(s, c), TRUE)

iokit_cdb_read_buffer(s) == iokit_command(s, Plain("READ_BUFFER"))

iokit_cdb_force_dump(s) == iokit_command(s, Plain("SEND_DIAGNOSTIC"))

iokit_get_dump(s) ==
  Then(iokit_cdb_read_buffer(s), LAMBDA o :
    iokit_cdb_read_buffer(o.s) \cup (IF Failed(o.ret) THEN Out(o.s, "GOOD") ELSE {}))

(* _take_dump: nothing counts how often a dump fails within a dump. *)
iokit_take_dump(s, unforced) ==
  LET Forced(t) == Anyway(iokit_cdb_force_dump(t), LAMBDA u : Return(iokit_get_dump(u), "GOOD"))
  IN  CASE s.vendor # "IBM" -> Out(s, "GOOD")
        [] s.vendor = "IBM" /\ unforced -> Anyway(iokit_get_dump(s), Forced)
        [] OTHER -> Forced(s)

iokit_process_errors(s, ret, dump) ==
  IF dump /\ is_dump_required(s, ret) THEN iokit_take_dump(s, capture_unforced(ret)) ELSE Out(s, "GOOD")

-----------------------------------------------------------------------------
(* Persistent reservation.                                                 *)

iokit_cdb_pri(s) == iokit_command(s, Plain("PRI"))

iokit_fetch_reservation_key(s) ==
  Then(iokit_cdb_pri(s), LAMBDA o : Out(o.s, IF Failed(o.ret) \/ o.s.res = NoPath THEN "INTERNAL_ERROR" ELSE "GOOD"))

iokit_cdb_pro(s, action, on) ==
  Then(iokit_issue_cdb_command(s, Cmd(action, on, 0)), LAMBDA o :
    IF action = "RESERVE" /\ o.ret = "RESERVATION_CONFLICT"
    THEN Return(iokit_fetch_reservation_key(o.s), o.ret)
    ELSE iokit_checked({o}, TRUE))

RECURSIVE iokit_register_key(_, _)
iokit_register_key(s, on) ==
  Then(iokit_cdb_pro(s, "REGISTER", on), LAMBDA o :
    IF o.ret = "RESERVATION_PREEMPTED" THEN iokit_register_key(o.s, on) ELSE {o})

(* iokit_reserve: the key is registered again, once. *)
iokit_reserve(s) ==
  LET Pro(t) == iokit_cdb_pro(t, "RESERVE", TRUE)
  IN  Then(Pro(s), LAMBDA o :
        IF o.ret \in {"RESERVATION_PREEMPTED", "RESERVATION_CONFLICT"}
        THEN Anyway(iokit_register_key(o.s, TRUE), Pro) ELSE {o})

iokit_release(s) == iokit_cdb_pro(s, "RELEASE", TRUE)

-----------------------------------------------------------------------------
(* Position.                                                               *)

iokit_peek(s) == iokit_command(s, Plain("READ_POSITION"))

iokit_readpos(s) == OnGood(iokit_peek(s), LAMBDA t : Out(Positioned(t), "GOOD"))

iokit_rewind(s) ==
  OnGood(iokit_command(s, Plain("REWIND")), LAMBDA t : iokit_readpos(ClearForcePerm(t)))

iokit_locate(s, dest) ==
  LET pc    == s.pos.p # dest.p
      t     == IF pc /\ s.clear_by_pc THEN ClearForcePerm(s) ELSE s
      moved == Then(iokit_issue_cdb_command(t, Cmd("LOCATE", IF pc THEN dest.p ELSE SamePartition, dest.b)),
                    LAMBDA o : IF dest.b = BlockMax /\ o.ret = "EOD_DETECTED" THEN Out(o.s, "GOOD")
                               ELSE iokit_checked({o}, TRUE))
  IN  Then(moved, LAMBDA o :
        {[r EXCEPT !.ret = IF Failed(o.ret) THEN o.ret ELSE @] : r \in iokit_readpos(o.s)})

iokit_space(s, type, n) == OnGood(iokit_command(s, Cmd("SPACE", type, n)), iokit_readpos)

-----------------------------------------------------------------------------
(* Records.                                                                *)

(* _cdb_read: a missing key is no trouble of the drive as long as none was set. *)
iokit_cdb_read(s) ==
  Then(iokit_issue_cdb_command(s, Plain("READ")), LAMBDA o :
    CASE o.ret = "GOOD" -> Out(o.s, "COUNT")
      [] o.ret = "mismatch" -> Out(o.s, "LENGTH_MISMATCH")
      [] o.ret \in {"FILEMARK_DETECTED", "corrupt", "whole"} -> {o}
      [] o.ret = "KEY_REQUIRED" /\ ~o.s.is_data_key_set -> {o}
      [] OTHER -> iokit_checked({o}, TRUE))

iokit_read_done(o) ==
  LET t == [o.s EXCEPT !.pos.b = @ + 1]
  IN  CASE o.ret = "FILEMARK_DETECTED" -> Out(t, "GOOD")
        [] o.ret = "corrupt" /\ t.crc -> Return(iokit_take_dump(t, FALSE), "LBP_READ_ERROR")
        [] o.ret = "corrupt" /\ ~t.crc -> Out(t, "COUNT")
        [] o.ret \in {"COUNT", "whole"} -> Out(t, "COUNT")
        [] OTHER -> {o}

(* The first block of a partition is also read again when it looks like a filemark, if it may *)
(* have any size: it is a label then.                                                         *)
RECURSIVE iokit_read_retry(_, _)
iokit_read_retry(s, retried) ==
  Then(iokit_cdb_read(s), LAMBDA o :
    LET Again == OnGood(iokit_locate(o.s, At(o.s.pos.p, 0)), LAMBDA t :
                   Then(iokit_cdb_read([t EXCEPT !.use_sili = FALSE]), iokit_read_done))
    IN  CASE o.ret = "LENGTH_MISMATCH" /\ retried -> Return(iokit_readpos(o.s), o.ret)
          [] o.ret = "LENGTH_MISMATCH" /\ ~retried ->
               OnGood(iokit_locate(o.s, o.s.pos), LAMBDA t : iokit_read_retry(t, o.s.pos # At(0, 0)))
          [] o.ret = "whole" /\ o.s.pos.b = 0 -> Again
          [] o.ret = "FILEMARK_DETECTED" /\ o.s.pos.b = 0 -> Again \cup iokit_read_done(o)
          [] OTHER -> iokit_read_done(o))

iokit_read(s) == ForcedRead(s, LAMBDA t : iokit_read_retry(t, FALSE))

iokit_cdb_write(s, d) == iokit_checked(Completed(iokit_issue_cdb_command(s, Cmd("WRITE", d, 0))), TRUE)

iokit_write(s, d) ==
  ForcedWrite(s, LAMBDA t : OnGood(iokit_cdb_write(t, d), LAMBDA u : Out([u EXCEPT !.pos.b = @ + 1], "GOOD")))

iokit_writefm(s, n) ==
  OnGood(iokit_checked(Completed(iokit_issue_cdb_command(s, Cmd("WRITE_FM", n, 0))), TRUE), LAMBDA t :
    AtLeast(t.ew, iokit_readpos(t)))

-----------------------------------------------------------------------------
(* Pages, parameters and attributes.                                       *)

iokit_modesense(s, page) == Counted(iokit_command(s, Plain("MODE_SENSE")))

iokit_modeselect(s, c) == iokit_command(s, c)

iokit_logsense(s) == Counted(iokit_command(s, Plain("LOG_SENSE")))

iokit_inquiry_page(s) == iokit_command(s, Plain("INQUIRY"))

(* iokit_test_unit_ready: print_msg is never true, so no error of it is processed. *)
iokit_test_unit_ready(s) == iokit_issue_cdb_command(s, Plain("TUR"))

iokit_write_attribute(s, attr, v) == iokit_command(s, Cmd("WRITE_ATTRIBUTE", attr, v))

iokit_read_attribute(s) == iokit_command(s, Plain("READ_ATTRIBUTE"))

iokit_allow_overwrite(s) == iokit_command(s, Plain("ALLOW_OVERWRITE"))

iokit_remaining_capacity(s) ==
  {[o EXCEPT !.ret = IF @ = "COUNT" THEN "GOOD" ELSE @] : o \in iokit_logsense(s)}

iokit_get_tape_alert(s) == iokit_remaining_capacity(s)

iokit_get_eod_status(s, p) ==
  Then(iokit_logsense(s), LAMBDA o :
    Out(o.s, IF Failed(o.ret) THEN "EOD_UNKNOWN" ELSE IF p \in o.s.noeod THEN "EOD_MISSING" ELSE "EOD_GOOD"))

iokit_get_cartridge_health(s) == Anyway(iokit_logsense(s), LAMBDA t : Return(iokit_logsense(t), "GOOD"))

iokit_get_xattr(s) == Out(s, "GOOD") \cup iokit_remaining_capacity(s)

iokit_cdb_read_block_limits(s) == Counted(iokit_command(s, Plain("READ_BLOCK_LIMITS")))

iokit_change_page(s, page, c) == OnSuccess(iokit_modesense(s, page), LAMBDA t : iokit_modeselect(t, c))

iokit_set_compression(s) == iokit_change_page(s, "COMPRESSION", Plain("MODE_SELECT"))

iokit_set_lbp(s, on) ==
  OnGood(iokit_change_page(s, "DP_CTRL", Cmd("SET_LBP", on, 0)), LAMBDA t : Out([t EXCEPT !.crc = on], "GOOD"))

iokit_set_default(s) ==
  LET t == [s EXCEPT !.use_sili = TRUE]
  IN  IF s.vendor = "IBM" THEN iokit_set_lbp(t, TRUE) ELSE Out(t, "GOOD")

iokit_cdb_prevent_allow_medium_removal(s, on) == iokit_command(s, Cmd("PREVENT", on, 0))

(* iokit_set_xattr: only a negative count of forceErrorWrite is taken, the counter of the writes *)
(* goes on, and the result is LTFS_NO_XATTR whatever was set.                                    *)
iokit_set_xattr(s, name, count, negative) ==
  LET AtLeastThreshold(n) == IF n > 0 /\ n < Threshold THEN Threshold ELSE n
      t == IF negative THEN [s EXCEPT !.force_writeperm = count, !.clear_by_pc = TRUE] ELSE s
  IN  IF name = "forceErrorWrite"
      THEN Out([t EXCEPT !.force_writeperm = AtLeastThreshold(@)], "LTFS_NO_XATTR")
      ELSE Out([s EXCEPT !.force_readperm = count, !.read_counter = 0], "LTFS_NO_XATTR")

(* iokit_get_parameters: an error of the block limits ends up in max_blksize. *)
iokit_get_parameters(s) ==
  LET Limits(t) == Then(iokit_cdb_read_block_limits(t), LAMBDA o :
                     Out([o.s EXCEPT !.param_blksize = ~Failed(o.ret)], "GOOD"))
  IN  IF s.loaded THEN OnSuccess(iokit_modesense(s, "DEVICE_CONFIG"), Limits) ELSE Limits(s)

(* is_encryption_capable: not of an LTO drive; and of an enterprise drive, is_ame takes the length *)
(* that modesense returns for an error.                                                            *)
iokit_is_encryption_capable(s) == Out(s, "INTERNAL_ERROR")

iokit_set_key(s, key) == iokit_is_encryption_capable(s)

iokit_get_keyalias(s) == iokit_is_encryption_capable(s)

-----------------------------------------------------------------------------
(* The cartridge.                                                          *)

iokit_cdb_load_unload(s, op) ==
  Then(iokit_issue_cdb_command(s, Plain(op)), LAMBDA o :
    iokit_checked({[o EXCEPT !.s = ClearForcePerm(@)]}, TRUE))

iokit_load(s) ==
  Then(iokit_cdb_load_unload(s, "LOAD"), LAMBDA o :
    Anyway(iokit_readpos(ClearForcePerm(o.s)), LAMBDA t :
      IF Failed(o.ret) THEN Out(t, o.ret)
      ELSE OnSuccess(iokit_modesense([t EXCEPT !.loaded = TRUE], "SUPPORTEDPAGE"), LAMBDA u :
             Out([u EXCEPT !.is_worm = @ \/ u.worm], "GOOD"))))

iokit_unload(s) ==
  OnGood(iokit_cdb_load_unload(s, "UNLOAD"), LAMBDA t :
    Out([t EXCEPT !.loaded = FALSE, !.pos = At(0, 0)], "GOOD"))

iokit_erase(s, long) ==
  iokit_checked(OnGood(iokit_issue_cdb_command(s, Plain("ERASE")), LAMBDA t :
                  IF long THEN iokit_command(t, Plain("REQUEST_SENSE")) ELSE Out(t, "GOOD")), TRUE)

iokit_setcap(s) == iokit_command(s, Plain("SET_CAPACITY"))

iokit_format(s) ==
  Then(iokit_command(s, Plain("FORMAT")), LAMBDA o : Return(iokit_modesense(o.s, "SUPPORTEDPAGE"), o.ret))

iokit_takedump_drive(s, unforced) == Return(iokit_take_dump(s, unforced), "GOOD")

iokit_get_worm_status(s) ==
  IF s.loaded THEN Out([s EXCEPT !.worm_said = s.is_worm], "GOOD") ELSE Out([s EXCEPT !.worm_said = FALSE], "UNKNOWN")

iokit_get_next_block_to_xfer(s) == iokit_command(s, Plain("READ_POSITION"))

iokit_grao(s) == Out(s, "UNSUPPORTED_COMMAND")

iokit_rrao(s) == Out(s, "UNSUPPORTED_COMMAND")

-----------------------------------------------------------------------------
(* The handle.                                                             *)

(* iokit_find_ssc_device: the interface to the drive, unless another process has it. *)
iokit_find_ssc_device(s, p) ==
  Out(s, "DEVICE_UNOPENABLE") \cup (IF p \in s.live THEN Out([s EXCEPT !.fd = p, !.host = p], "GOOD") ELSE {})

iokit_free_device(s) == [s EXCEPT !.fd = NoPath]

(* iokit_obtain_exclusive_access: the kernel may refuse it. *)
iokit_obtain_exclusive_access(s) == Out(s, "GOOD") \cup Out(s, "DEVICE_BUSY")

iokit_get_drive_identifier(s) ==
  LET Inquiry(t) == iokit_issue_cdb_command(t, Plain("INQUIRY"))
  IN  OnGood(Inquiry(s), Inquiry)

(* The first drive whose serial number begins with the name: each is opened to ask it. *)
RECURSIVE iokit_find_serial(_, _)
iokit_find_serial(s, cand) ==
  IF cand = {} THEN Out(s, "DEVICE_UNOPENABLE")
  ELSE LET p == CHOOSE p \in cand : \A q \in cand : p <= q
       IN  Then(OnGood(iokit_find_ssc_device(s, p), iokit_get_drive_identifier), LAMBDA o :
             IF Failed(o.ret) THEN iokit_find_serial(iokit_free_device(o.s), cand \ {p}) ELSE {o})

(* iokit_open: by the number of the drive, or by its serial number.  The results of RSOC and of *)
(* the registration are not used.                                                               *)
iokit_open(s, path) ==
  LET found == IF path = NoPath THEN iokit_find_serial(s, s.live) ELSE iokit_find_ssc_device(s, path)
      Taken(t) == OnGood(iokit_obtain_exclusive_access(t), iokit_get_drive_identifier)
      Ready(t) == Anyway(iokit_command(t, Plain("RSOC")), LAMBDA u :
                    Anyway(iokit_register_key(u, TRUE), LAMBDA v : Out([v EXCEPT !.open = TRUE], "GOOD")))
  IN  Then(OnGood(found, Taken), LAMBDA o :
        IF Failed(o.ret) THEN Out(Fresh(o.s), o.ret) ELSE Ready(o.s))

(* iokit_reopen: the drive of the same number must have the same serial number. *)
iokit_reopen(s) ==
  Then(iokit_find_ssc_device(s, s.host), LAMBDA f :
    IF Failed(f.ret) THEN {f}
    ELSE Then(OnGood(iokit_obtain_exclusive_access(f.s), iokit_get_drive_identifier), LAMBDA o :
           IF Failed(o.ret) THEN Out(iokit_free_device(o.s), o.ret) ELSE {o}))

(* iokit_close_raw: the reservation and the medium stay as they are. *)
iokit_close_raw(s) == Out(iokit_free_device(s), "GOOD")

iokit_close(s) ==
  Anyway(iokit_set_lbp(s, FALSE), LAMBDA t :
    Anyway(iokit_register_key(t, FALSE), LAMBDA u : Out(Fresh(u), "GOOD")))

=============================================================================
