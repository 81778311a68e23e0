----------------------------- MODULE ScsipiTape -----------------------------
(***************************************************************************)
(* The NetBSD driver (tape_drivers/netbsd/scsipi-ibmtape), made from an    *)
(* older sg driver.  Its commands go through SCIOCCOMMAND, which tells a   *)
(* lost path, a conflict of reservations and a full queue from each other  *)
(* as little as scsipi_issue_cdb_command does: they are one driver error.  *)
(* So nothing ever asks for the reconnection, the check after a failover   *)
(* or the retry after a failed allocation that the driver still holds, and *)
(* they are not modelled (_reconnect_device, _get_device_list for it,      *)
(* _handle_block_allocation_failure).                                      *)
(***************************************************************************)
EXTENDS DriverCommon

(* The commands of a dump are commands: their errors are processed like any other. *)
RECURSIVE scsipi_command(_, _)
RECURSIVE scsipi_checked(_, _)
RECURSIVE scsipi_process_errors(_, _, _)

(* scsipi_issue_cdb_command *)
scsipi_issue_cdb_command(s, c) ==
  IF s.fd = NoPath THEN Out(s, "DRIVER_ERROR")
  ELSE {[o EXCEPT !.ret = IF @ \in {"lost", "RESERVATION_CONFLICT"} THEN "DRIVER_ERROR" ELSE @]
          : o \in Transport(s, c)}

scsipi_checked(outs, dump) ==
  Then(outs, LAMBDA o : IF Failed(o.ret) THEN Return(scsipi_process_errors(o.s, o.ret, dump), o.ret) ELSE {o})

scsipi_command(s, c) == scsipi_checked(scsipi_issue_cdb_command(s, c), TRUE)

scsipi_cdb_read_buffer(s) == scsipi_command(s, Plain("READ_BUFFER"))

scsipi_cdb_force_dump(s) == scsipi_command(s, Plain("SEND_DIAGNOSTIC"))

scsipi_get_dump(s) ==
  Then(scsipi_cdb_read_buffer(s), LAMBDA o :
    scsipi_cdb_read_buffer(o.s) \cup (IF Failed(o.ret) THEN Out(o.s, "GOOD") ELSE {}))

(* _take_dump: of every drive, and within a dump again. *)
scsipi_take_dump(s, unforced) ==
  LET Forced(t) == Anyway(scsipi_cdb_force_dump(t), LAMBDA u : Return(scsipi_get_dump(u), "GOOD"))
  IN  IF unforced THEN Anyway(scsipi_get_dump(s), Forced) ELSE Forced(s)

scsipi_process_errors(s, ret, dump) ==
  IF dump /\ is_dump_required(s, ret) THEN scsipi_take_dump(s, capture_unforced(ret)) ELSE Out(s, "GOOD")

-----------------------------------------------------------------------------
(* The device file and the reservation.                                    *)

scsipi_raw_open(s, p) ==
  LET Id(t) == scsipi_issue_cdb_command(t, Plain("INQUIRY"))
  IN  Then(OnGood(Id([s EXCEPT !.fd = p]), Id), LAMBDA o :
        IF Failed(o.ret) THEN Out([o.s EXCEPT !.fd = NoPath], o.ret) ELSE {o})

scsipi_raw_tur(s) == scsipi_issue_cdb_command(s, Plain("TUR"))

RECURSIVE scsipi_clear_por_raw(_, _)
scsipi_clear_por_raw(s, i) ==
  IF i = 3 THEN {s}
  ELSE UNION {IF o.ret \in {"GOOD", "NO_MEDIUM"} THEN {o.s} ELSE scsipi_clear_por_raw(o.s, i + 1)
                : o \in scsipi_raw_tur(s)}

scsipi_cdb_pro(s, action, on) == scsipi_command(s, Cmd(action, on, 0))

RECURSIVE scsipi_register_key(_, _)
scsipi_register_key(s, on) ==
  Then(scsipi_cdb_pro(s, "REGISTER", on), LAMBDA o :
    IF o.ret = "RESERVATION_PREEMPTED" THEN scsipi_register_key(o.s, on) ELSE {o})

scsipi_reserve(s) ==
  LET Pro(t) == scsipi_cdb_pro(t, "RESERVE", TRUE)
      tried  == Then(Pro(s), LAMBDA o :
                  IF o.ret = "RESERVATION_PREEMPTED" THEN Anyway(scsipi_register_key(o.s, TRUE), Pro) ELSE {o})
  IN  OnGood(tried, LAMBDA t : Out([t EXCEPT !.is_reserved = TRUE], "GOOD"))

scsipi_release(s) ==
  OnGood(scsipi_cdb_pro(s, "RELEASE", TRUE), LAMBDA t : Out([t EXCEPT !.is_reserved = FALSE], "GOOD"))

-----------------------------------------------------------------------------
(* Position.                                                               *)

scsipi_peek(s) == scsipi_command(s, Plain("READ_POSITION"))

(* scsipi_ibmtape_readpos asks for the extended form (0x08) with an allocation length of 0, and      *)
(* takes the position from the places it has in the long form (0x06): the buffer holds what was      *)
(* there before, or, when the drive sends the data all the same, a count of blocks for the partition. *)
(* The right position and the two ends of the tape stand for all that this can be.                   *)
scsipi_readpos(s) ==
  OnGood(scsipi_peek(s), LAMBDA t :
    {[s |-> [t EXCEPT !.pos = q, !.ew = w], ret |-> "GOOD"]
       : q \in {t.at, At(0, 0), At(1, Cap)}, w \in {0, 2}})

scsipi_rewind(s) ==
  OnGood(scsipi_command(s, Plain("REWIND")), LAMBDA t : scsipi_readpos(ClearForcePerm(t)))

scsipi_locate(s, dest) ==
  LET pc    == s.pos.p # dest.p
      t     == IF pc /\ s.clear_by_pc THEN ClearForcePerm(s) ELSE s
      moved == Then(scsipi_issue_cdb_command(t, Cmd("LOCATE", IF pc THEN dest.p ELSE SamePartition, dest.b)),
                    LAMBDA o : IF dest.b = BlockMax /\ o.ret = "EOD_DETECTED" THEN Out(o.s, "GOOD")
                               ELSE scsipi_checked({o}, TRUE))
  IN  Then(moved, LAMBDA o :
        {[r EXCEPT !.ret = IF Failed(o.ret) THEN o.ret ELSE @] : r \in scsipi_readpos(o.s)})

scsipi_space(s, type, n) == OnGood(scsipi_command(s, Cmd("SPACE", type, n)), scsipi_readpos)

-----------------------------------------------------------------------------
(* Records.                                                                *)

scsipi_cdb_read(s) ==
  Then(scsipi_issue_cdb_command(s, Plain("READ")), LAMBDA o :
    CASE o.ret = "GOOD" -> Out(o.s, "COUNT")
      [] o.ret = "mismatch" -> Out(o.s, "LENGTH_MISMATCH")
      [] o.ret \in {"FILEMARK_DETECTED", "corrupt", "whole"} -> {o}
      [] o.ret = "KEY_REQUIRED" /\ ~o.s.is_data_key_set -> {o}
      [] OTHER -> scsipi_checked({o}, TRUE))

scsipi_read_done(o) ==
  LET t == [o.s EXCEPT !.pos.b = @ + 1]
  IN  CASE o.ret = "FILEMARK_DETECTED" -> Out(t, "GOOD")
        [] o.ret = "corrupt" /\ t.crc -> Return(scsipi_take_dump(t, FALSE), "LBP_READ_ERROR")
        [] o.ret = "corrupt" /\ ~t.crc -> Out(t, "COUNT")
        [] o.ret \in {"COUNT", "whole"} -> Out(t, "COUNT")
        [] OTHER -> {o}

RECURSIVE scsipi_start_read(_, _)
scsipi_start_read(s, retried) ==
  Then(scsipi_cdb_read(s), LAMBDA o :
    CASE o.ret = "LENGTH_MISMATCH" /\ retried -> Return(scsipi_readpos(o.s), o.ret)
      [] o.ret = "LENGTH_MISMATCH" /\ ~retried ->
           OnGood(scsipi_locate(o.s, o.s.pos), LAMBDA t : scsipi_start_read(t, o.s.pos # At(0, 0)))
      [] o.ret = "whole" /\ o.s.pos.b = 0 ->
           OnGood(scsipi_locate(o.s, At(o.s.pos.p, 0)), LAMBDA t :
             Then(scsipi_cdb_read([t EXCEPT !.use_sili = FALSE]), scsipi_read_done))
      [] OTHER -> scsipi_read_done(o))

scsipi_read(s) == ForcedRead(s, LAMBDA t : scsipi_start_read(t, FALSE))

scsipi_cdb_write(s, d) == scsipi_checked(Completed(scsipi_issue_cdb_command(s, Cmd("WRITE", d, 0))), TRUE)

scsipi_write(s, d) ==
  ForcedWrite(s, LAMBDA t : OnGood(scsipi_cdb_write(t, d), LAMBDA u : Out([u EXCEPT !.pos.b = @ + 1], "GOOD")))

scsipi_writefm(s, n) ==
  OnGood(scsipi_checked(Completed(scsipi_issue_cdb_command(s, Cmd("WRITE_FM", n, 0))), TRUE), LAMBDA t :
    AtLeast(t.ew, scsipi_readpos(t)))

-----------------------------------------------------------------------------
(* Pages, parameters and attributes.                                       *)

(* scsipi_ibmtape_modesense returns 0, not a length. *)
scsipi_modesense(s, page) == scsipi_command(s, Plain("MODE_SENSE"))

scsipi_modeselect(s, c) == scsipi_command(s, c)

scsipi_logsense(s) == Counted(scsipi_command(s, Plain("LOG_SENSE")))

scsipi_inquiry_page(s) == scsipi_command(s, Plain("INQUIRY"))

scsipi_test_unit_ready(s) == scsipi_checked(scsipi_issue_cdb_command(s, Plain("TUR")), FALSE)

scsipi_write_attribute(s, attr, v) == scsipi_command(s, Cmd("WRITE_ATTRIBUTE", attr, v))

scsipi_read_attribute(s) == scsipi_command(s, Plain("READ_ATTRIBUTE"))

scsipi_allow_overwrite(s) == scsipi_command(s, Plain("ALLOW_OVERWRITE"))

scsipi_remaining_capacity(s) ==
  {[o EXCEPT !.ret = IF @ = "COUNT" THEN "GOOD" ELSE @] : o \in scsipi_logsense(s)}

scsipi_get_tape_alert(s) == scsipi_remaining_capacity(s)

scsipi_get_eod_status(s, p) ==
  Then(scsipi_logsense(s), LAMBDA o :
    Out(o.s, IF Failed(o.ret) THEN "EOD_UNKNOWN" ELSE IF p \in o.s.noeod THEN "EOD_MISSING" ELSE "EOD_GOOD"))

scsipi_get_cartridge_health(s) == Anyway(scsipi_logsense(s), LAMBDA t : Return(scsipi_logsense(t), "GOOD"))

scsipi_get_xattr(s) == Out(s, "GOOD") \cup scsipi_remaining_capacity(s)

scsipi_cdb_read_block_limits(s) == Counted(scsipi_command(s, Plain("READ_BLOCK_LIMITS")))

scsipi_change_page(s, page, c) == OnSuccess(scsipi_modesense(s, page), LAMBDA t : scsipi_modeselect(t, c))

scsipi_set_compression(s) == scsipi_change_page(s, "COMPRESSION", Plain("MODE_SELECT"))

scsipi_set_lbp(s, on) ==
  OnGood(scsipi_change_page(s, "DP_CTRL", Cmd("SET_LBP", on, 0)), LAMBDA t : Out([t EXCEPT !.crc = on], "GOOD"))

scsipi_set_default(s) == scsipi_set_lbp([s EXCEPT !.use_sili = TRUE], TRUE)

scsipi_cdb_prevent_allow_medium_removal(s, on) ==
  OnGood(scsipi_command(s, Cmd("PREVENT", on, 0)), LAMBDA t : Out([t EXCEPT !.is_tape_locked = on], "GOOD"))

scsipi_set_xattr(s, name, count, negative) ==
  IF name = "forceErrorWrite"
  THEN Out([s EXCEPT !.force_writeperm = IF count > 0 /\ count < Threshold THEN Threshold ELSE count,
                     !.clear_by_pc = negative, !.write_counter = 0], "GOOD")
  ELSE Out([s EXCEPT !.force_readperm = count, !.clear_by_pc = negative, !.read_counter = 0], "GOOD")

scsipi_get_parameters(s) ==
  LET Limits(t) == Then(scsipi_cdb_read_block_limits(t), LAMBDA o :
                     Out([o.s EXCEPT !.param_blksize = ~Failed(o.ret)], "GOOD"))
  IN  IF s.loaded THEN OnSuccess(scsipi_modesense(s, "DEVICE_CONFIG"), Limits) ELSE Limits(s)

(* is_encryption_capable: of enterprise drives only. *)
scsipi_is_encryption_capable(s) == Out(s, "INTERNAL_ERROR")

scsipi_set_key(s, key) == scsipi_is_encryption_capable(s)

scsipi_get_keyalias(s) == scsipi_is_encryption_capable(s)

-----------------------------------------------------------------------------
(* The cartridge.                                                          *)

scsipi_cdb_load_unload(s, op) ==
  Then(scsipi_issue_cdb_command(s, Plain(op)), LAMBDA o :
    IF o.ret = "MEDIUM_MAY_BE_CHANGED" THEN Out(o.s, "GOOD") ELSE scsipi_checked({o}, TRUE))

(* scsipi_ibmtape_medium_configuration: is_worm is set either way; its result is not used. *)
scsipi_medium_configuration(s) ==
  Then(scsipi_modesense(s, "MEDIUM_CONFIGURATION"), LAMBDA o :
    Out(IF Failed(o.ret) THEN o.s ELSE [o.s EXCEPT !.is_worm = o.s.worm], "GOOD"))

(* scsipi_ibmtape_load: the type of a cartridge that the first page leaves out is in another. *)
scsipi_load(s) ==
  Then(scsipi_cdb_load_unload(s, "LOAD"), LAMBDA o :
    Anyway(scsipi_readpos(ClearForcePerm(o.s)), LAMBDA t :
      IF Failed(o.ret) THEN Out(t, o.ret)
      ELSE OnSuccess(scsipi_modesense([t EXCEPT !.loaded = TRUE], "SUPPORTEDPAGE"), LAMBDA u :
             Out([u EXCEPT !.is_worm = @ \/ u.worm], "GOOD") \cup scsipi_medium_configuration(u))))

scsipi_unload(s) ==
  Then(scsipi_cdb_load_unload(s, "UNLOAD"), LAMBDA o :
    LET t == ClearForcePerm(o.s)
    IN  IF Failed(o.ret) THEN Return(scsipi_readpos(t), o.ret)
        ELSE Out([t EXCEPT !.loaded = FALSE, !.pos = At(0, 0)], o.ret))

scsipi_erase(s, long) ==
  scsipi_checked(OnGood(scsipi_issue_cdb_command(s, Plain("ERASE")), LAMBDA t :
                   IF long THEN scsipi_command(t, Plain("REQUEST_SENSE")) ELSE Out(t, "GOOD")), TRUE)

scsipi_setcap(s) == scsipi_command(s, Plain("SET_CAPACITY"))

scsipi_format(s) ==
  Then(scsipi_command(s, Plain("FORMAT")), LAMBDA o : Return(scsipi_modesense(o.s, "SUPPORTEDPAGE"), o.ret))

scsipi_takedump_drive(s, unforced) == Return(scsipi_take_dump(s, unforced), "GOOD")

(* scsipi_ibmtape_get_worm_status: never. *)
scsipi_get_worm_status(s) == Out([s EXCEPT !.worm_said = FALSE], "GOOD")

scsipi_get_next_block_to_xfer(s) == scsipi_command(s, Plain("READ_POSITION"))

scsipi_grao(s) == Out(s, "UNSUPPORTED_COMMAND")

scsipi_rrao(s) == Out(s, "UNSUPPORTED_COMMAND")

-----------------------------------------------------------------------------
(* The handle.  The device is opened by the name of its file.              *)

(* scsipi_ibmtape_open returns the result of _raw_open, not of the registration. *)
scsipi_open(s, path) ==
  IF path = NoPath THEN Out(s, "DEVICE_UNOPENABLE")
  ELSE Then(scsipi_raw_open(s, path), LAMBDA o :
         IF Failed(o.ret) THEN Out(Fresh(o.s), o.ret)
         ELSE UNION {Anyway(scsipi_register_key(t, TRUE), LAMBDA u : Out([u EXCEPT !.open = TRUE], "GOOD"))
                       : t \in scsipi_clear_por_raw(o.s, 0)})

scsipi_reopen(s) == Out(s, "GOOD")

scsipi_close_raw(s) == Out([s EXCEPT !.fd = NoPath], "GOOD")

scsipi_close(s) ==
  Anyway(scsipi_set_lbp(s, FALSE), LAMBDA t :
    Anyway(scsipi_register_key(t, FALSE), LAMBDA u : Out(Fresh(u), "UNKNOWN")))

=============================================================================
