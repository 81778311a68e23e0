------------------------------- MODULE SgTape -------------------------------
(***************************************************************************)
(* The Linux driver (tape_drivers/linux/sg): sg_scsi_tape.c passes one     *)
(* command to the drive, sg_tape.c makes the operations of struct tape_ops *)
(* of them.  A lost connection is answered within the call that met it:    *)
(* the driver looks for another path to the same drive, recovers the       *)
(* reservation, and tells the operation to find out how far it got.        *)
(*                                                                         *)
(* Left out: timeouts of a command (get_timeout), memory exhaustion, the   *)
(* layout of pages and parameters.                                         *)
(***************************************************************************)
EXTENDS DriverCommon

RECURSIVE sg_issue_cdb_command(_, _)
(* The commands of a dump are commands: their errors are processed like any other. *)
RECURSIVE sg_command(_, _)
RECURSIVE sg_checked(_, _)
RECURSIVE sg_process_errors(_, _, _)

-----------------------------------------------------------------------------
(* One command.                                                            *)

(* The status of the host, the driver and the drive; a requeued command is sent again. *)
sg_issue_cdb_command(s, c) ==
  IF s.fd = NoPath THEN Out(s, "NO_CONNECTION")
  ELSE Then(Transport(s, c), LAMBDA o :
         CASE o.ret = "lost"    -> Out(o.s, "CONNECTION_LOST")
           [] o.ret = "nomem"   -> Out(o.s, "BUFFER_ALLOCATE_ERROR")
           [] o.ret = "requeue" -> sg_issue_cdb_command(o.s, c)
           [] OTHER             -> {o})

(* if (ret < 0) { ret_ep = _process_errors(...); if (ret_ep < 0) ret = ret_ep; } *)
sg_checked(outs, dump) ==
  Then(outs, LAMBDA o : IF Failed(o.ret) THEN Override(sg_process_errors(o.s, o.ret, dump), o.ret) ELSE {o})

sg_command(s, c) == sg_checked(sg_issue_cdb_command(s, c), TRUE)

sg_cdb_read_buffer(s) == sg_command(s, Plain("READ_BUFFER"))

sg_cdb_force_dump(s) == sg_command(s, Plain("SEND_DIAGNOSTIC"))

(* _get_dump: the capacity is used unchecked, so it may tell nothing to transfer. *)
sg_get_dump(s) ==
  Then(sg_cdb_read_buffer(s), LAMBDA o :
    sg_cdb_read_buffer(o.s) \cup (IF Failed(o.ret) THEN Out(o.s, "GOOD") ELSE {}))

sg_take_dump(s, unforced) ==
  LET t      == [s EXCEPT !.recursive_counter = @ + 1]
      Forced(x) == Anyway(sg_cdb_force_dump(x), LAMBDA y : sg_get_dump(y))
      dumped == IF unforced THEN Anyway(sg_get_dump(t), LAMBDA x : Forced(x)) ELSE Forced(t)
  IN  CASE s.recursive_counter > MaxDumps -> Out(s, "GOOD")
        [] s.recursive_counter <= MaxDumps /\ s.vendor # "IBM" -> Out(t, "GOOD")
        [] OTHER -> {[s |-> [o.s EXCEPT !.recursive_counter = 0], ret |-> "GOOD"] : o \in dumped}

-----------------------------------------------------------------------------
(* Paths.                                                                  *)

(* _raw_open: the device file opens for one user, and the drive says who it is. *)
sg_raw_open(s, p) ==
  LET opened == [s EXCEPT !.fd = p]
      Id(t)  == sg_issue_cdb_command(t, Plain("INQUIRY"))
  IN  Then(OnGood(Id(opened), Id), LAMBDA o :
        IF Failed(o.ret) THEN Out([o.s EXCEPT !.fd = NoPath], o.ret)
        ELSE Out([o.s EXCEPT !.host = p], "GOOD"))

sg_raw_tur(s) == sg_issue_cdb_command(s, Plain("TUR"))

RECURSIVE sg_clear_por_raw(_, _)
sg_clear_por_raw(s, i) ==
  IF i = 3 THEN {s}
  ELSE UNION {IF o.ret \in {"GOOD", "NO_MEDIUM"} THEN {o.s} ELSE sg_clear_por_raw(o.s, i + 1) : o \in sg_raw_tur(s)}

sg_clear_por(s, F(_)) == UNION {F(t) : t \in sg_clear_por_raw(s, 0)}

(* _get_stable_tur_response_raw: three times the same answer, unit attentions aside. *)
RECURSIVE sg_stable_tur(_, _, _)
sg_stable_tur(s, ret, i) ==
  IF i = 3 THEN Out(s, ret)
  ELSE Then(sg_raw_tur(s), LAMBDA o :
         IF o.ret \in UnitAttentions THEN sg_stable_tur(o.s, "UNKNOWN", 0)
         ELSE sg_stable_tur(o.s, o.ret, IF o.ret = ret THEN i + 1 ELSE 1))

sg_get_stable_tur_response(s) == sg_stable_tur(s, "UNKNOWN", 0)

(* sg_get_device_list with _create_open_order: the device files through which the drive answers. *)
sg_create_open_order(s) == s.live

(* _order_cmp *)
sg_order_cmp(s, p, q) ==
  \/ get_openfactor(s, p) < get_openfactor(s, q)
  \/ get_openfactor(s, p) = get_openfactor(s, q) /\ p <= q

NextPath(s, cand) == CHOOSE p \in cand : \A q \in cand : sg_order_cmp(s, p, q)

-----------------------------------------------------------------------------
(* Persistent reservation.                                                 *)

sg_cdb_pri(s) == sg_command(s, Plain("PRI"))

(* _fetch_reservation_key: the holder is s.res of the outcome. *)
sg_fetch_reservation_key(s) ==
  OnGood(sg_cdb_pri(s), LAMBDA t : Out(t, IF t.res = NoPath THEN "NO_RESERVATION_HOLDER" ELSE "GOOD"))

(* _cdb_pro: a conflict of a reservation only reads who holds it. *)
sg_cdb_pro(s, action, on) ==
  Then(sg_issue_cdb_command(s, Cmd(action, on, 0)), LAMBDA o :
    IF action = "RESERVE" /\ o.ret = "RESERVATION_CONFLICT"
    THEN Return(sg_fetch_reservation_key(o.s), o.ret)
    ELSE sg_checked({o}, TRUE))

RECURSIVE sg_register_key(_, _)
sg_register_key(s, on) ==
  Then(sg_cdb_pro(s, "REGISTER", on), LAMBDA o :
    IF o.ret = "RESERVATION_PREEMPTED" THEN sg_register_key(o.s, on) ELSE {o})

sg_reserve(s) ==
  LET Pro(t) == sg_cdb_pro(t, "RESERVE", TRUE)
      tried  == Then(Pro(s), LAMBDA o :
                  IF o.ret \in {"RESERVATION_PREEMPTED", "RESERVATION_CONFLICT"}
                  THEN Anyway(sg_register_key(o.s, TRUE), Pro) ELSE {o})
  IN  OnGood(tried, LAMBDA t : Out([t EXCEPT !.is_reserved = TRUE], "GOOD"))

sg_release(s) ==
  OnGood(sg_cdb_pro(s, "RELEASE", TRUE), LAMBDA t : Out([t EXCEPT !.is_reserved = FALSE], "GOOD"))

-----------------------------------------------------------------------------
(* A lost connection.                                                      *)

RECURSIVE sg_open_another(_, _)
sg_open_another(s, cand) ==
  IF cand = {} THEN Out(s, "NO_CONNECTION")
  ELSE LET p == NextPath(s, cand)
       IN  Then(sg_raw_open(s, p), LAMBDA o :
             IF Failed(o.ret) /\ cand # {p} THEN sg_open_another(o.s, cand \ {p}) ELSE {o})

(* Another path was selected: its registration takes the reservation over. *)
sg_take_over(s) ==
  Anyway(sg_register_key(s, TRUE), LAMBDA t :
    OnGood(sg_cdb_pro(t, "PREEMPT", TRUE), LAMBDA u : sg_clear_por(u, LAMBDA v : Out(v, "NEED_FAILOVER"))))

(* No holder: the drive was reset.  Any other answer means the same path as before. *)
sg_same_path(s) ==
  Then(sg_fetch_reservation_key(s), LAMBDA o :
    IF o.ret = "NO_RESERVATION_HOLDER"
    THEN Anyway(sg_register_key(o.s, TRUE), LAMBDA t :
           OnGood(sg_reserve(t), LAMBDA u : sg_clear_por(u, LAMBDA v : Out(v, "REAL_POWER_ON_RESET"))))
    ELSE sg_clear_por(o.s, LAMBDA v : Out(v, "NEED_FAILOVER")))

sg_recover_reservation(s) ==
  LET Again(t) == Then(sg_get_stable_tur_response(t), LAMBDA o :
                    IF o.ret = "RESERVATION_CONFLICT" THEN sg_take_over(o.s) ELSE sg_same_path(o.s))
  IN  Then(sg_get_stable_tur_response(s), LAMBDA o :
        IF o.ret = "RESERVATION_CONFLICT" THEN sg_take_over(o.s) ELSE sg_clear_por(o.s, Again))

sg_reconnect_device(s) ==
  LET closed == [decrement_openfactor(s) EXCEPT !.fd = NoPath, !.host = NoPath]
  IN  OnGood(sg_open_another(closed, sg_create_open_order(closed)), LAMBDA t :
        sg_clear_por(increment_openfactor(t), sg_recover_reservation))

(* _process_errors: the result is that of the reconnection. *)
sg_process_errors(s, ret, dump) ==
  LET lost == ~s.is_reconnecting /\ ret = "CONNECTION_LOST"
      Reconnected == {[o EXCEPT !.s.is_reconnecting = FALSE]
                        : o \in sg_reconnect_device([s EXCEPT !.is_reconnecting = TRUE])}
  IN  CASE ret = "NO_CONNECTION" -> Out(s, ret)
        [] ret # "NO_CONNECTION" /\ lost -> Reconnected
        [] ret # "NO_CONNECTION" /\ ~lost /\ dump /\ is_dump_required(s, ret) ->
             sg_take_dump(s, capture_unforced(ret))
        [] OTHER -> Out(s, "GOOD")

-----------------------------------------------------------------------------
(* Position.                                                               *)

(* The position of the drive, into a local of the caller: s.at of a good outcome. *)
sg_peek(s) == sg_command(s, Plain("READ_POSITION"))

sg_readpos(s) == OnGood(sg_peek(s), LAMBDA t : Out(Positioned(t), "GOOD"))

sg_rewind(s) ==
  OnGood(sg_command(s, Plain("REWIND")), LAMBDA t : sg_readpos(ClearForcePerm(t)))

(* sg_locate: the partition changes when the position of the caller says that it must, and the *)
(* position is read whatever came of it.                                                       *)
sg_locate(s, dest) ==
  LET pc    == s.pos.p # dest.p
      t     == IF pc /\ s.clear_by_pc THEN ClearForcePerm(s) ELSE s
      cmd   == Cmd("LOCATE", IF pc THEN dest.p ELSE SamePartition, dest.b)
      moved == Then(sg_issue_cdb_command(t, cmd), LAMBDA o :
                 IF dest.b = BlockMax /\ o.ret = "EOD_DETECTED" THEN Out(o.s, "GOOD")
                 ELSE sg_checked({o}, TRUE))
  IN  Then(moved, LAMBDA o :
        {[r EXCEPT !.ret = IF Failed(o.ret) THEN o.ret ELSE @] : r \in sg_readpos(o.s)})

sg_space(s, type, n) == OnGood(sg_command(s, Cmd("SPACE", type, n)), LAMBDA t : sg_readpos(t))

-----------------------------------------------------------------------------
(* Records.                                                                *)

(* _cdb_read: a filemark is no error, and a length that does not add up is returned at once. *)
sg_cdb_read(s) ==
  Then(sg_issue_cdb_command(s, Plain("READ")), LAMBDA o :
    CASE o.ret = "GOOD" -> Out(o.s, "COUNT")
      [] o.ret = "mismatch" -> Out(o.s, "LENGTH_MISMATCH")
      [] o.ret \in {"FILEMARK_DETECTED", "corrupt", "whole"} -> {o}
      [] o.ret = "KEY_REQUIRED" /\ ~o.s.is_data_key_set -> {o}
      [] OTHER -> sg_checked({o}, TRUE))

(* _handle_block_allocation_failure: the drive tells whether it got the command. *)
sg_allocation_failed(s) ==
  OnGood(sg_peek(s), LAMBDA t :
    CASE t.at.p # t.pos.p -> Out(t, "GOOD")
      [] t.at.p = t.pos.p /\ t.at.b = t.pos.b -> Out(t, "RETRY")
      [] t.at.p = t.pos.p /\ t.at.b = t.pos.b + 1 ->
           OnGood(sg_space(t, "B", 1), LAMBDA u :
             OnGood(sg_peek(u), LAMBDA v : Out(v, IF v.at.b = v.pos.b THEN "RETRY" ELSE "BAD_LOCATE")))
      [] OTHER -> Out(t, "BUFFER_ALLOCATE_ERROR"))

(* The end of sg_read: a filemark counts as a block of length 0, a bad checksum is a dump. *)
sg_read_done(o) ==
  LET t == [o.s EXCEPT !.pos.b = @ + 1]
  IN  CASE o.ret = "FILEMARK_DETECTED" -> Out(t, "GOOD")
        [] o.ret = "corrupt" /\ t.crc -> Return(sg_take_dump(t, FALSE), "LBP_READ_ERROR")
        [] o.ret = "corrupt" /\ ~t.crc -> Out(t, "COUNT")
        [] o.ret = "whole" -> Out(t, "COUNT")
        [] o.ret \in {"COUNT", "GOOD"} -> Out(t, o.ret)
        [] OTHER -> {o}

(* Mutation: the block is read again from where the drive is. *)
sg_read_again_Here(s) == Out(s, "GOOD")

(* A block whose length did not match is read again from its start. *)
sg_read_again(s) == sg_locate(s, s.pos)

(* The loop of sg_read: one retry after a length mismatch, except at the start of the tape; a    *)
(* label read with the length of the buffer is read again without the SILI bit.                  *)
RECURSIVE sg_start_read(_, _)
sg_start_read(s, retried) ==
  Then(sg_cdb_read(s), LAMBDA o :
    CASE o.ret = "LENGTH_MISMATCH" /\ retried -> Return(sg_readpos(o.s), o.ret)
      [] o.ret = "LENGTH_MISMATCH" /\ ~retried ->
           OnGood(sg_read_again(o.s), LAMBDA t : sg_start_read(t, o.s.pos # At(0, 0)))
      [] o.ret = "whole" /\ o.s.pos.b = 0 ->
           OnGood(sg_locate(o.s, At(o.s.pos.p, 0)), LAMBDA t :
             Then(sg_cdb_read([t EXCEPT !.use_sili = FALSE]), sg_read_done))
      [] o.ret = "BUFFER_ALLOCATE_ERROR" ->
           Then(sg_allocation_failed(o.s), LAMBDA r :
             IF r.ret = "RETRY" THEN sg_start_read(r.s, retried) ELSE sg_read_done(r))
      [] OTHER -> sg_read_done(o))

sg_read(s) == ForcedRead(s, LAMBDA t : sg_start_read(t, FALSE))

sg_cdb_write(s, d) ==
  sg_checked(Completed(sg_issue_cdb_command(s, Cmd("WRITE", d, 0))), TRUE)

(* Mutation: a write that switched the path is taken for done. *)
sg_failed_over_Trusting(s, n) ==
  OnGood(sg_peek(s), LAMBDA t : Out([t EXCEPT !.pos.b = @ + n], "GOOD"))

(* After a switch of paths: did the n records reach the tape? *)
sg_failed_over(s, n) ==
  Then(sg_peek(s), LAMBDA o :
    IF Failed(o.ret) THEN Out(o.s, "NEED_FAILOVER")
    ELSE IF o.s.at = At(o.s.pos.p, o.s.pos.b + n) THEN Out(Positioned(o.s), "GOOD")
    ELSE Out(o.s, "POR_OR_BUS_RESET"))

RECURSIVE sg_start_write(_, _)
sg_start_write(s, d) ==
  Then(sg_cdb_write(s, d), LAMBDA o :
    CASE o.ret = "GOOD" -> Out([o.s EXCEPT !.pos.b = @ + 1], "GOOD")
      [] o.ret = "NEED_FAILOVER" -> sg_failed_over(o.s, 1)
      [] o.ret = "BUFFER_ALLOCATE_ERROR" ->
           Then(sg_allocation_failed(o.s), LAMBDA r :
             IF r.ret = "RETRY" THEN sg_start_write(r.s, d) ELSE {r})
      [] OTHER -> {o})

sg_write(s, d) == ForcedWrite(s, LAMBDA t : sg_start_write(t, d))

sg_writefm(s, n) ==
  Then(sg_checked(Completed(sg_issue_cdb_command(s, Cmd("WRITE_FM", n, 0))), TRUE), LAMBDA o :
    CASE o.ret = "GOOD" -> AtLeast(o.s.ew, sg_readpos(o.s))
      [] o.ret = "NEED_FAILOVER" -> sg_failed_over(o.s, n)
      [] OTHER -> {o})

-----------------------------------------------------------------------------
(* Pages, parameters and attributes.  What they hold is left out.          *)

HpUnsupported(s, page) == s.vendor = "HP" /\ page \in {"READ_WRITE_CTRL", "DEV_CONFIG_EXT"}

(* sg_modesense: the pages HP drives do not have are refused, others return their length. *)
sg_modesense(s, page) ==
  IF HpUnsupported(s, page) THEN Out(s, "UNSUPPORTED_COMMAND") ELSE Counted(sg_command(s, Plain("MODE_SENSE")))

sg_modeselect(s, c) == sg_command(s, c)

sg_logsense(s) == Counted(sg_command(s, Plain("LOG_SENSE")))

sg_inquiry_page(s) == sg_command(s, Plain("INQUIRY"))

sg_test_unit_ready(s) == sg_checked(sg_issue_cdb_command(s, Plain("TUR")), FALSE)

sg_write_attribute(s, attr, v) == sg_command(s, Cmd("WRITE_ATTRIBUTE", attr, v))

(* The attribute that was read is s.cm of a good outcome. *)
sg_read_attribute(s) == sg_command(s, Plain("READ_ATTRIBUTE"))

sg_allow_overwrite(s) == sg_command(s, Plain("ALLOW_OVERWRITE"))

sg_remaining_capacity(s) ==
  {[o EXCEPT !.ret = IF @ = "COUNT" THEN "GOOD" ELSE @] : o \in sg_logsense(s)}

sg_get_tape_alert(s) == sg_remaining_capacity(s)

(* No error: the end of data of a partition is good, missing or unknown. *)
sg_get_eod_status(s, p) ==
  Then(sg_logsense(s), LAMBDA o :
    Out(o.s, IF Failed(o.ret) THEN "EOD_UNKNOWN" ELSE IF p \in o.s.noeod THEN "EOD_MISSING" ELSE "EOD_GOOD"))

(* sg_get_cartridge_health: two log pages, and a page that cannot be had is no error. *)
sg_get_cartridge_health(s) == Anyway(sg_logsense(s), LAMBDA t : Return(sg_logsense(t), "GOOD"))

(* sg_get_xattr: a rate that is fetched again when it is old. *)
sg_get_xattr(s) == Out(s, "GOOD") \cup sg_remaining_capacity(s)

sg_cdb_read_block_limits(s) == Counted(sg_command(s, Plain("READ_BLOCK_LIMITS")))

(* A mode page is read, changed and written back. *)
sg_change_page(s, page, c) ==
  OnSuccess(sg_modesense(s, page), LAMBDA t : sg_modeselect(t, c))

sg_set_compression(s) == sg_change_page(s, "COMPRESSION", Plain("MODE_SELECT"))

sg_set_lbp(s, on) ==
  OnGood(sg_change_page(s, "DP_CTRL", Cmd("SET_LBP", on, 0)), LAMBDA t : Out([t EXCEPT !.crc = on], "GOOD"))

sg_set_default(s) ==
  LET t == [s EXCEPT !.use_sili = TRUE]
  IN  IF s.vendor = "IBM" THEN sg_set_lbp(t, TRUE) ELSE Out(t, "GOOD")

sg_cdb_prevent_allow_medium_removal(s, on) ==
  OnGood(sg_command(s, Cmd("PREVENT", on, 0)), LAMBDA t : Out([t EXCEPT !.is_tape_locked = on], "GOOD"))

(* sg_set_xattr: forceErrorWrite takes a count, forceErrorRead too; a negative one lasts until *)
(* the partition changes.                                                                      *)
sg_set_xattr(s, name, count, negative) ==
  IF name = "forceErrorWrite"
  THEN Out([s EXCEPT !.force_writeperm = IF count > 0 /\ count < Threshold THEN Threshold ELSE count,
                     !.clear_by_pc = negative, !.write_counter = 0], "GOOD")
  ELSE Out([s EXCEPT !.force_readperm = count, !.clear_by_pc = negative, !.read_counter = 0], "GOOD")

-----------------------------------------------------------------------------
(* Encryption.                                                             *)

sg_cdb_spin(s) == sg_command(s, Plain("SPIN"))

sg_cdb_spout(s, key) == sg_command(s, Cmd("SET_KEY", key, 0))

(* is_encryption_capable of an LTO drive, with is_tde_capable. *)
sg_is_encryption_capable(s) ==
  Then(sg_cdb_spin(s), LAMBDA o : Out(o.s, IF Failed(o.ret) THEN "INTERNAL_ERROR" ELSE "GOOD"))

(* sg_set_key: goto free when modesense gives anything but DEVICE_GOOD, its length too. *)
sg_set_key(s, key) ==
  LET Sensed(t) == {[o EXCEPT !.ret = IF @ = "UNSUPPORTED_COMMAND" THEN "GOOD" ELSE @]
                      : o \in sg_modesense(t, "READ_WRITE_CTRL")}
      Sent(t)   == OnGood(sg_cdb_spout(t, key), LAMBDA u : Sensed([u EXCEPT !.is_data_key_set = key # 0]))
  IN  OnGood(sg_is_encryption_capable(s), LAMBDA t : OnGood(Sensed(t), Sent))

(* _get_media_encrypted: whatever cannot be told is "unknown". *)
sg_get_media_encrypted(s) == IF s.vendor = "HP" THEN sg_cdb_spin(s) ELSE sg_modesense(s, "READ_WRITE_CTRL")

sg_get_drive_decrypting(s) == IF s.vendor = "HP" THEN sg_cdb_spin(s) ELSE Out(s, "GOOD")

(* sg_get_parameters: an error of the block limits ends up in max_blksize. *)
sg_get_parameters(s) ==
  LET Limits(t) == Then(sg_cdb_read_block_limits(t), LAMBDA o :
                     Out([o.s EXCEPT !.param_blksize = ~Failed(o.ret)], "GOOD"))
      Crypto(t) == Anyway(sg_get_media_encrypted(t), LAMBDA u : Anyway(sg_get_drive_decrypting(u), Limits))
  IN  IF ~s.loaded THEN Limits(s)
      ELSE OnSuccess(sg_modesense(s, "DEVICE_CONFIG"), Crypto)

sg_get_keyalias(s) ==
  OnGood(sg_is_encryption_capable(s), LAMBDA t : OnGood(sg_cdb_spin(t), sg_cdb_spin))

-----------------------------------------------------------------------------
(* The cartridge.                                                          *)

(* A medium change that the drive reports is what was asked for. *)
sg_cdb_load_unload(s, op) ==
  Then(sg_issue_cdb_command(s, Plain(op)), LAMBDA o :
    IF o.ret = "MEDIUM_MAY_BE_CHANGED" THEN Out(o.s, "GOOD") ELSE sg_checked({o}, TRUE))

(* sg_load: nothing sets is_worm back to false. *)
sg_load(s) ==
  Then(sg_cdb_load_unload(s, "LOAD"), LAMBDA o :
    Anyway(sg_readpos(ClearForcePerm(o.s)), LAMBDA t :
      IF Failed(o.ret) THEN Out(t, o.ret)
      ELSE OnSuccess(sg_modesense([t EXCEPT !.loaded = TRUE], "SUPPORTEDPAGE"), LAMBDA u :
             Out([u EXCEPT !.is_worm = @ \/ u.worm], "GOOD"))))

sg_unload(s) ==
  Then(sg_cdb_load_unload(s, "UNLOAD"), LAMBDA o :
    LET t == ClearForcePerm(o.s)
    IN  IF Failed(o.ret) THEN Return(sg_readpos(t), o.ret)
        ELSE Out([t EXCEPT !.loaded = FALSE, !.pos = At(0, 0)], o.ret))

(* sg_erase: a long erase is polled; the position of the caller stays. *)
sg_erase(s, long) ==
  sg_checked(OnGood(sg_issue_cdb_command(s, Plain("ERASE")), LAMBDA t :
               IF long THEN sg_command(t, Plain("REQUEST_SENSE")) ELSE Out(t, "GOOD")), TRUE)

sg_setcap(s) == sg_command(s, Plain("SET_CAPACITY"))

(* sg_format: the cartridge type is read back, and its result is not used. *)
sg_format(s) ==
  Then(sg_command(s, Plain("FORMAT")), LAMBDA o : Return(sg_modesense(o.s, "SUPPORTEDPAGE"), o.ret))

sg_takedump_drive(s, unforced) == Return(sg_take_dump(s, unforced), "GOOD")

sg_get_worm_status(s) ==
  IF s.loaded THEN Out([s EXCEPT !.worm_said = s.is_worm], "GOOD") ELSE Out([s EXCEPT !.worm_said = FALSE], "UNKNOWN")

sg_get_next_block_to_xfer(s) == sg_command(s, Plain("READ_POSITION"))

(* sg_grao and sg_rrao, for the drives that have them. *)
sg_grao(s) == sg_command(s, Plain("GRAO"))

sg_rrao(s) == sg_command(s, Plain("RRAO"))

-----------------------------------------------------------------------------
(* The handle.                                                             *)

sg_unusable(s) == [s EXCEPT !.fd = NoPath]

(* The loop of sg_open over the paths: the first that nobody reserved, or this node on it. *)
RECURSIVE sg_open_paths(_, _, _)
sg_open_paths(s, cand, by_other) ==
  IF cand = {} THEN Out(s, IF by_other THEN "RESERVATION_CONFLICT" ELSE "DEVICE_UNOPENABLE")
  ELSE LET p    == NextPath(s, cand)
           Rest(t, other) == sg_open_paths(sg_unusable(t), cand \ {p}, by_other \/ other)
       IN  Then(sg_raw_open(s, p), LAMBDA o :
             IF Failed(o.ret) THEN Rest(o.s, FALSE)
             ELSE sg_clear_por(o.s, LAMBDA t :
               Then(sg_fetch_reservation_key(t), LAMBDA f :
                 CASE f.ret = "NO_RESERVATION_HOLDER" -> Out(f.s, "GOOD")
                   [] f.ret = "GOOD" /\ f.s.res \in Paths ->
                        Then(sg_cdb_pro(f.s, "RESERVE", TRUE), LAMBDA r :
                          IF Failed(r.ret) THEN Rest(r.s, FALSE)
                          ELSE Out([r.s EXCEPT !.is_reserved = TRUE], "GOOD"))
                   [] OTHER -> Rest(f.s, f.ret = "GOOD"))))

(* sg_open by the name of a device file, or by serial number when path is NoPath. *)
sg_open(s, path) ==
  LET found == IF path = NoPath THEN sg_open_paths(s, sg_create_open_order(s), FALSE) ELSE sg_raw_open(s, path)
      Ready(t) == Anyway(sg_command(increment_openfactor(t), Plain("RSOC")), LAMBDA u :
                    sg_clear_por(u, LAMBDA v :
                      Anyway(sg_register_key(v, TRUE), LAMBDA w : Out([w EXCEPT !.open = TRUE], "GOOD"))))
  IN  Then(found, LAMBDA o : IF Failed(o.ret) THEN Out(Fresh(o.s), o.ret) ELSE Ready(o.s))

(* sg_reopen does nothing, and sg_close_raw leaves no descriptor behind. *)
sg_reopen(s) == Out(s, "GOOD")

sg_close_raw(s) == Out([s EXCEPT !.fd = NoPath], "GOOD")

sg_close(s) ==
  Anyway(sg_set_lbp(s, FALSE), LAMBDA t :
    Anyway(sg_register_key(t, FALSE), LAMBDA u : Out(Fresh(decrement_openfactor(u)), "UNKNOWN")))

=============================================================================
