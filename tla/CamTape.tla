------------------------------ MODULE CamTape ------------------------------
(***************************************************************************)
(* The FreeBSD driver (tape_drivers/freebsd/cam).  Records and positions   *)
(* go through the tape driver of the kernel, sa(4), whose open reserves    *)
(* the drive and locks the medium, and whose close undoes both; all else   *)
(* goes to the drive as a CCB of the pass device.  It has one path and     *)
(* reconnects nothing.  Modelled for LTO drives, without the layout of     *)
(* pages; what the drive never answers here is left out (a changed         *)
(* configuration, a changed time stamp, an operation in progress).         *)
(***************************************************************************)
EXTENDS DriverCommon

(* An error may ask for a log page, and the error of that command is processed like any other. *)
RECURSIVE cam_command(_, _)
RECURSIVE cam_checked(_, _)
RECURSIVE cam_process_errors(_, _, _)

(* camtape_ccb2rc: a CCB to the pass device. *)
cam_send_ccb(s, c) ==
  {[o EXCEPT !.ret = CASE @ = "lost" -> "DEVICE_UNOPENABLE"
                       [] @ = "RESERVATION_CONFLICT" -> "TARGET_ERROR"
                       [] OTHER -> @] : o \in Transport(s, c)}

(* camtape_ioctlrc2err: a request to sa(4), and the sense data it latched, if any. *)
cam_ioctl(s, c) ==
  {[o EXCEPT !.ret = CASE @ = "lost" /\ o.s.fd \notin o.s.live -> "CANNOT_GET_SENSE"
                       [] @ = "lost" /\ o.s.fd \in o.s.live    -> "NO_SENSE"
                       [] @ = "RESERVATION_CONFLICT"           -> "NO_SENSE"
                       [] OTHER -> @] : o \in Transport(s, c)}

(* A request to sa(4) of which only errno is looked at. *)
cam_errno(outs) == {[o EXCEPT !.ret = IF Failed(@) THEN "ERRNO" ELSE @] : o \in outs}

(* camtape_process_errors: the result of the operation stays. *)
cam_checked(outs, dump) ==
  Then(outs, LAMBDA o : IF Failed(o.ret) THEN Return(cam_process_errors(o.s, o.ret, dump), o.ret) ELSE {o})

cam_command(s, c) == cam_checked(cam_send_ccb(s, c), TRUE)

(* The commands of a dump take no dump of their own. *)
cam_readbuffer(s) == cam_checked(cam_send_ccb(s, Plain("READ_BUFFER")), FALSE)

cam_forcedump_drive(s) == cam_checked(cam_send_ccb(s, Plain("SEND_DIAGNOSTIC")), FALSE)

cam_getdump_drive(s) ==
  Then(cam_readbuffer(s), LAMBDA o : cam_readbuffer(o.s) \cup (IF Failed(o.ret) THEN Out(o.s, "GOOD") ELSE {}))

cam_takedump_drive(s, unforced) ==
  LET Forced(t) == Anyway(cam_forcedump_drive(t), LAMBDA u : Return(cam_getdump_drive(u), "GOOD"))
  IN  CASE s.vendor # "IBM" -> Out(s, "GOOD")
        [] s.vendor = "IBM" /\ unforced -> Anyway(cam_getdump_drive(s), Forced)
        [] OTHER -> Forced(s)

cam_logsense(s) == Counted(cam_command(s, Plain("LOG_SENSE")))

(* Without sense data LOG SENSE tells whether the drive transfers data; its length is never 0, so *)
(* no dump follows.                                                                               *)
cam_process_errors(s, ret, dump) ==
  CASE dump /\ ret \in {"NO_SENSE", "OVERRUN"} -> cam_logsense(s)
    [] dump /\ ret \notin {"NO_SENSE", "OVERRUN"} /\ is_dump_required(s, ret) ->
         cam_takedump_drive(s, capture_unforced(ret))
    [] OTHER -> Out(s, "GOOD")

-----------------------------------------------------------------------------
(* Reservation and lock belong to sa(4).                                   *)

cam_reserve(s) == Out(s, "GOOD")

cam_release(s) == Out(s, "GOOD")

cam_cdb_prevent_allow_medium_removal(s, on) == Out(s, "GOOD")

-----------------------------------------------------------------------------
(* Position.                                                               *)

(* camtape_getstatus: sa(4) asks the drive for its position. *)
cam_getstatus(s) == cam_checked(cam_errno(Transport(s, Plain("READ_POSITION"))), TRUE)

cam_peek(s) == cam_getstatus(s)

cam_readpos(s) == OnGood(cam_getstatus(s), LAMBDA t : Out(Positioned(t), "GOOD"))

(* The position is read whatever became of the request, and the result is that of the request. *)
cam_moved(outs) == Then(outs, LAMBDA o : Then(cam_readpos(o.s), LAMBDA r : cam_checked(Out(r.s, o.ret), TRUE)))

cam_rewind(s) ==
  {[o EXCEPT !.s = ClearForcePerm(@)] : o \in cam_moved(cam_ioctl(s, Plain("REWIND")))}

cam_locate(s, dest) ==
  LET pc    == s.pos.p # dest.p
      t     == IF pc /\ s.clear_by_pc THEN ClearForcePerm(s) ELSE s
      sent  == cam_ioctl(t, Cmd("LOCATE", IF pc THEN dest.p ELSE SamePartition, dest.b))
      moved == Then(sent, LAMBDA o : IF dest.b = BlockMax /\ o.ret = "EOD_DETECTED" THEN Out(o.s, "GOOD")
                                     ELSE cam_checked({o}, TRUE))
  IN  Then(moved, LAMBDA o : Return(cam_readpos(o.s), o.ret))

cam_space(s, type, n) == cam_moved(cam_ioctl(s, Cmd("SPACE", type, n)))

-----------------------------------------------------------------------------
(* Records.                                                                *)

(* A block longer than was asked for is an overrun: the position of the caller stays before it. *)
cam_read_record(s) ==
  Then(cam_ioctl(s, Plain("READ")), LAMBDA o :
    LET t == [o.s EXCEPT !.pos.b = @ + 1]
    IN  CASE o.ret = "FILEMARK_DETECTED" -> Out(t, "GOOD")
          [] o.ret \in {"GOOD", "whole"} -> Out(t, "COUNT")
          [] o.ret = "corrupt" -> Out(t, IF t.crc THEN "LBP_READ_ERROR" ELSE "COUNT")
          [] o.ret = "mismatch" -> cam_checked(Out(o.s, "OVERRUN"), TRUE)
          [] o.ret = "KEY_REQUIRED" /\ ~o.s.is_data_key_set -> {o}
          [] OTHER -> cam_checked({o}, TRUE))

cam_read(s) == ForcedRead(s, cam_read_record)

(* write(2) of sa(4): near the end of the partition it may take nothing, to say so ("short"). *)
cam_write_call(s, d) ==
  {[o EXCEPT !.ret = IF @ \in {"EARLY_WARNING", "PROG_EARLY_WARNING"} THEN "GOOD" ELSE @]
     : o \in cam_ioctl(s, Cmd("WRITE", d, 0))}
  \cup (IF s.fd \in s.live /\ Warning(s) # 0 THEN Out(s, "short") ELSE {})

(* Mutation: the record is counted although the call that should write it took nothing. *)
cam_write_record_Short(s, d) ==
  Then(cam_write_call(s, d), LAMBDA o : Out([o.s EXCEPT !.pos.b = @ + 1], IF o.ret = "short" THEN "GOOD" ELSE o.ret))

(* A short write is tried once more. *)
cam_write_record(s, d) ==
  LET Done(o)  == IF Failed(o.ret) THEN cam_checked({o}, TRUE) ELSE Out([o.s EXCEPT !.pos.b = @ + 1], "GOOD")
      Again(t) == Then(cam_write_call(t, d), LAMBDA o :
                    IF o.ret = "short" THEN Anyway(cam_readpos(o.s), LAMBDA u : Done([s |-> u, ret |-> "NO_SENSE"]))
                    ELSE Done(o))
  IN  Then(cam_write_call(s, d), LAMBDA o : IF o.ret = "short" THEN Anyway(cam_readpos(o.s), Again) ELSE Done(o))

cam_write(s, d) == ForcedWrite(s, LAMBDA t : cam_write_record(t, d))

(* camtape_writefm: a warning is no error, and at a position with a warning no error is one. *)
cam_writefm(s, n) ==
  Then(cam_ioctl(s, Cmd("WRITE_FM", n, 0)), LAMBDA o :
    Anyway(cam_readpos(o.s), LAMBDA t :
      CASE o.ret = "EARLY_WARNING" -> Out([t EXCEPT !.ew = 2], "GOOD")
        [] o.ret = "PROG_EARLY_WARNING" -> Out([t EXCEPT !.ew = IF @ = 2 THEN 2 ELSE 1], "GOOD")
        [] o.ret \notin {"EARLY_WARNING", "PROG_EARLY_WARNING"} /\ t.ew # 0 -> Out(t, "GOOD")
        [] OTHER -> cam_checked(Out(t, o.ret), TRUE)))

-----------------------------------------------------------------------------
(* Pages, parameters and attributes.                                       *)

(* camtape_modesense returns 0, not a length. *)
cam_modesense(s, page) == cam_command(s, Plain("MODE_SENSE"))

cam_modeselect(s, c) == cam_command(s, c)

cam_inquiry_page(s) == cam_command(s, Plain("INQUIRY"))

cam_test_unit_ready(s) ==
  Then(cam_send_ccb(s, Plain("TUR")), LAMBDA o :
    cam_checked({o}, o.ret \notin {"NEED_INITIALIZE", "NO_MEDIUM", "MEDIUM_MAY_BE_CHANGED"}))

cam_write_attribute(s, attr, v) == cam_command(s, Cmd("WRITE_ATTRIBUTE", attr, v))

cam_read_attribute(s) == cam_command(s, Plain("READ_ATTRIBUTE"))

cam_allow_overwrite(s) ==
  Then(cam_send_ccb(s, Plain("ALLOW_OVERWRITE")), LAMBDA o :
    IF o.ret = "EOD_DETECTED" THEN Out(o.s, "GOOD") ELSE cam_checked({o}, TRUE))

cam_remaining_capacity(s) == {[o EXCEPT !.ret = IF @ = "COUNT" THEN "GOOD" ELSE @] : o \in cam_logsense(s)}

cam_get_tape_alert(s) == cam_remaining_capacity(s)

cam_get_eod_status(s, p) ==
  Then(cam_logsense(s), LAMBDA o :
    Out(o.s, IF Failed(o.ret) THEN "EOD_UNKNOWN" ELSE IF p \in o.s.noeod THEN "EOD_MISSING" ELSE "EOD_GOOD"))

cam_get_cartridge_health(s) == Anyway(cam_logsense(s), LAMBDA t : Return(cam_logsense(t), "GOOD"))

cam_get_xattr(s) == Out(s, "GOOD") \cup cam_remaining_capacity(s)

cam_set_compression(s) ==
  OnGood(cam_modesense(s, "COMPRESSION"), LAMBDA t : cam_modeselect(t, Plain("MODE_SELECT")))

(* camtape_set_lbp: sa(4) changes the mode page.  The checksum functions are set, never taken away. *)
cam_set_lbp(s, on) ==
  OnGood(cam_modesense(s, "INIT_EXT"), LAMBDA t :
    OnGood(cam_checked(cam_errno(Transport(t, Cmd("SET_LBP", on, 0))), TRUE), LAMBDA u :
      Out([u EXCEPT !.crc = @ \/ on], "GOOD")))

(* A parameter of sa(4) itself: SILI, the model of the end of a tape. *)
cam_parameter(s) == Out(s, IF s.fd \in s.live THEN "GOOD" ELSE "DRIVER_ERROR")

cam_set_default(s) ==
  OnGood(cam_parameter(s), LAMBDA t :
    OnGood(IF t.vendor = "IBM" THEN cam_set_lbp(t, TRUE) ELSE Out(t, "GOOD"), cam_parameter))

(* camtape_set_xattr: a negative count is a large one, and a count is not started again. *)
cam_set_xattr(s, name, count, negative) ==
  LET n == IF negative THEN 0 ELSE count
  IN  IF name = "forceErrorWrite"
      THEN Out([s EXCEPT !.force_writeperm = IF n > 0 /\ n < Threshold THEN Threshold ELSE n], "GOOD")
      ELSE Out([s EXCEPT !.force_readperm = n, !.read_counter = 0], "GOOD")

(* camtape_get_parameters: without the status of sa(4) the block size is 0, less the checksum. *)
cam_get_parameters(s) ==
  Then(cam_getstatus(s), LAMBDA o :
    LET t == [o.s EXCEPT !.param_blksize = ~Failed(o.ret)]
    IN  IF t.loaded THEN cam_modesense(t, "SUPPORTEDPAGE") ELSE Out(t, "GOOD"))

(* is_encryption_capable: a drive whose applications manage its keys says so in a page. *)
cam_is_encryption_capable(s) ==
  Then(cam_modesense(s, "READ_WRITE_CTRL"), LAMBDA o : Out(o.s, IF Failed(o.ret) THEN "INTERNAL_ERROR" ELSE "GOOD"))

(* camtape_get_encryption_state, camtape_set_encryption_state: an error is processed once more. *)
cam_set_encryption_state(s) ==
  LET State(t) == cam_checked(OnGood(cam_modesense(t, "INIT_EXT"), LAMBDA u : cam_modesense(u, "READ_WRITE_CTRL")), TRUE)
  IN  cam_checked(OnGood(State(s), LAMBDA t : Out(t, "GOOD") \cup cam_modeselect(t, Plain("MODE_SELECT"))), TRUE)

(* camtape_set_key: no key to copy ends the process. *)
cam_set_key(s, key) ==
  LET Page(t) == OnGood(cam_modesense([t EXCEPT !.is_data_key_set = key # 0], "ENC_PARAM"), LAMBDA u :
                   IF key = 0 THEN Out(u, "CRASHED") ELSE cam_modeselect(u, Cmd("SET_KEY", key, 0)))
  IN  cam_checked(OnGood(cam_is_encryption_capable(s), LAMBDA t : OnGood(cam_set_encryption_state(t), Page)), TRUE)

cam_get_keyalias(s) ==
  LET Spin(t) == cam_command(t, Plain("SPIN"))
  IN  OnGood(cam_is_encryption_capable(s), LAMBDA t : OnGood(Spin(t), Spin))

-----------------------------------------------------------------------------
(* The cartridge.                                                          *)

(* MTLOAD, MTOFFL: sa(4) allows the removal before it ejects. *)
cam_load_unload(s, load) ==
  LET t == IF load THEN s ELSE [s EXCEPT !.locked = @ /\ s.fd \notin s.live]
  IN  Then(cam_ioctl(t, Plain(IF load THEN "LOAD" ELSE "UNLOAD")), LAMBDA o :
        CASE Failed(o.ret) -> Anyway(cam_readpos(o.s), LAMBDA u :
                                cam_checked(Out(u, o.ret), o.ret \notin {"NO_MEDIUM", "MEDIUM_MAY_BE_CHANGED"}))
          [] ~Failed(o.ret) /\ load -> Return(cam_readpos(o.s), "GOOD")
          [] OTHER -> Out([o.s EXCEPT !.pos = At(0, 0)], "GOOD"))

cam_load(s) ==
  OnGood(cam_load_unload(s, TRUE), LAMBDA t :
    OnGood(cam_modesense(t, "SUPPORTEDPAGE"), LAMBDA u :
      Out([ClearForcePerm(u) EXCEPT !.loaded = TRUE, !.is_worm = u.worm], "GOOD")))

cam_unload(s) ==
  Then(cam_load_unload(s, FALSE), LAMBDA o :
    LET t == ClearForcePerm(o.s)
    IN  Out(IF Failed(o.ret) THEN t ELSE [t EXCEPT !.loaded = FALSE, !.is_worm = FALSE], o.ret))

(* camtape_erase: a long erase is waited for only when it says that it is in progress. *)
cam_erase(s, long) == cam_moved(IF long THEN cam_command(s, Plain("ERASE")) ELSE cam_ioctl(s, Plain("ERASE")))

cam_setcap(s) == cam_command(s, Plain("SET_CAPACITY"))

cam_format(s) ==
  OnGood(cam_command(s, Plain("FORMAT")), LAMBDA t : Return(cam_modesense(t, "SUPPORTEDPAGE"), "GOOD"))

cam_get_worm_status(s) ==
  IF s.loaded THEN Out([s EXCEPT !.worm_said = s.is_worm], "GOOD") ELSE Out([s EXCEPT !.worm_said = FALSE], "UNKNOWN")

cam_get_next_block_to_xfer(s) == cam_command(s, Plain("READ_POSITION"))

cam_grao(s) == Out(s, "UNSUPPORTED_COMMAND")

cam_rrao(s) == Out(s, "UNSUPPORTED_COMMAND")

-----------------------------------------------------------------------------
(* The handle.                                                             *)

(* open(2) of sa(4): a drive that another host reserved is busy. *)
cam_open_sa_pass(s, p) ==
  CASE p \notin s.live -> Out(s, "DEVICE_UNOPENABLE")
    [] p \in s.live /\ s.res = OtherHost -> Out(s, "DEVICE_BUSY")
    [] OTHER -> Out([s EXCEPT !.fd = p, !.res = p, !.locked = s.medium # "out"], "GOOD")

cam_close_sa_pass(s) ==
  IF s.fd \in s.live THEN [s EXCEPT !.fd = NoPath, !.res = IF @ = s.fd THEN NoPath ELSE @, !.locked = FALSE]
  ELSE [s EXCEPT !.fd = NoPath]

cam_open(s, path) ==
  IF path = NoPath THEN Out(s, "DEVICE_UNOPENABLE")
  ELSE OnGood(cam_open_sa_pass(s, path), LAMBDA t : Out([t EXCEPT !.open = TRUE], "GOOD"))

cam_reopen(s) == Out(s, "GOOD")

cam_close_raw(s) == Out(cam_close_sa_pass(s), "GOOD")

cam_close(s) ==
  LET Rewound(t) == IF t.loaded THEN cam_rewind(t) ELSE Out(t, "GOOD")
  IN  Anyway(Rewound(s), LAMBDA t :
        Anyway(cam_set_lbp(t, FALSE), LAMBDA u : Out(Fresh(cam_close_sa_pass(u)), "GOOD")))

=============================================================================
