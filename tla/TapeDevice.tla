----------------------------- MODULE TapeDevice -----------------------------
(***************************************************************************)
(* The tape device (libltfs/tape.c) over a driver: the position, the       *)
(* append positions, the space left and the errors that LTFS remembers of  *)
(* a drive, and the sequences of operations of the driver that a call of   *)
(* LTFS is made of.  The calls of a volume hold the device lock, so one    *)
(* call of this module is one step.                                        *)
(*                                                                         *)
(* Left out: the clock (the answer to TEST UNIT READY and the capacity are *)
(* old enough to be asked for again, or not), sizes, and medium_modified,  *)
(* which only chooses the exit code of altfsck.                            *)
(***************************************************************************)
EXTENDS DriverCommon

(* struct tape_ops: the operations of the driver in use, as dev->backend points to them. *)
CONSTANTS
  backend_open(_, _), backend_reopen(_), backend_close(_), backend_close_raw(_), backend_load(_),
  backend_unload(_), backend_reserve_unit(_), backend_release_unit(_), backend_medium_removal(_, _),
  backend_test_unit_ready(_), backend_remaining_capacity(_), backend_set_compression(_),
  backend_allow_overwrite(_), backend_get_parameters(_), backend_set_default(_), backend_rewind(_),
  backend_locate(_, _), backend_readpos(_), backend_peek(_), backend_space(_, _, _), backend_write(_, _),
  backend_writefm(_, _), backend_read(_), backend_erase(_, _), backend_setcap(_), backend_format(_),
  backend_modesense(_, _), backend_modeselect(_, _), backend_read_attribute(_),
  backend_write_attribute(_, _, _), backend_get_eod_status(_, _), backend_get_tape_alert(_),
  backend_set_key(_, _), backend_get_keyalias(_), backend_set_xattr(_, _, _, _), backend_get_worm_status(_),
  backend_get_next_block_to_xfer(_), backend_get_cartridge_health(_), backend_get_xattr(_),
  backend_logsense(_), backend_takedump(_), backend_grao(_), backend_rrao(_)

CONSTANTS
  FirstIndex,   \* the block behind the label, 4 in the code
  LoadTries,    \* tape_is_cartridge_loadable: 300 in the code
  ReadyTries    \* tape_wait_device_ready: 30 in the code

ASSUME TapeDeviceAssumption == {FirstIndex, LoadTries, ReadyTries} \subseteq Nat

NEED_REVAL(ret) ==
  ret \in {"POR_OR_BUS_RESET", "MEDIUM_MAY_BE_CHANGED", "RESERVATION_PREEMPTED", "REAL_POWER_ON_RESET",
           "NEED_FAILOVER"}

IS_WRITE_PERM(ret) == ret \in {"WRITE_PERM", "RW_PERM"}

(* tape_device_alloc: struct device_data. *)
tape_device_alloc ==
  [append_pos |-> [p \in Partitions |-> 0], space |-> [p \in Partitions |-> "WRITABLE"],
   write_protected |-> FALSE, write_error |-> FALSE, device_reserved |-> FALSE, medium_locked |-> FALSE,
   append_only_mode |-> FALSE]

-----------------------------------------------------------------------------
(* Reservation and lock of the medium.                                     *)

RECURSIVE tape_reserve_device(_)
tape_reserve_device(s) ==
  IF s.device_reserved THEN Out(s, "GOOD")
  ELSE Then(backend_reserve_unit(s), LAMBDA o :
         CASE NEED_REVAL(o.ret) -> tape_reserve_device(o.s)
           [] o.ret = "GOOD"    -> Out([o.s EXCEPT !.device_reserved = TRUE], "GOOD")
           [] OTHER             -> {o})

RECURSIVE tape_release_device(_)
tape_release_device(s) ==
  IF ~s.device_reserved THEN Out(s, "GOOD")
  ELSE Then(backend_release_unit(s), LAMBDA o :
         IF NEED_REVAL(o.ret) THEN tape_release_device(o.s)
         ELSE Out([o.s EXCEPT !.device_reserved = o.ret # "GOOD"], "GOOD"))

RECURSIVE tape_prevent_medium_removal(_)
tape_prevent_medium_removal(s) ==
  IF s.medium_locked THEN Out(s, "GOOD")
  ELSE Then(backend_medium_removal(s, TRUE), LAMBDA o :
         CASE NEED_REVAL(o.ret) -> tape_prevent_medium_removal(o.s)
           [] o.ret = "GOOD"    -> Out([o.s EXCEPT !.medium_locked = TRUE], "GOOD")
           [] OTHER             -> {o})

RECURSIVE tape_allow_medium_removal(_, _)
tape_allow_medium_removal(s, force) ==
  IF ~s.medium_locked /\ ~force THEN Out(s, "GOOD")
  ELSE Then(backend_medium_removal(s, FALSE), LAMBDA o :
         IF NEED_REVAL(o.ret) THEN tape_allow_medium_removal(o.s, force)
         ELSE Out([o.s EXCEPT !.medium_locked = o.ret # "GOOD"], "GOOD"))

-----------------------------------------------------------------------------
(* Encryption keys.                                                        *)

tape_force_read_only(s) == [s EXCEPT !.write_protected = TRUE]

(* A key that is set past the first block makes the cartridge read only. *)
tape_set_key(s, key) ==
  LET Set(t, past) == Then(backend_set_key(t, key), LAMBDA o :
                        IF ~Failed(o.ret) /\ past THEN Out(tape_force_read_only(o.s), o.ret) ELSE {o})
  IN  IF key = 0 THEN Set(s, FALSE)
      ELSE OnGood(backend_peek(s), LAMBDA t : Set([t EXCEPT !.is_key_set = TRUE], t.at.b # 0))

tape_clear_key(s) == IF s.kmi \/ s.is_key_set THEN tape_set_key(s, 0) ELSE Out(s, "GOOD")

tape_get_keyalias(s) == backend_get_keyalias(s)

-----------------------------------------------------------------------------
(* Position.                                                               *)

tape_rewind(s) == backend_rewind(s)

tape_update_position(s) == backend_readpos(s)

(* A warning at the position is remembered for its partition. *)
note_space(s) ==
  LET p == s.pos.p
  IN  [s EXCEPT !.space[p] = CASE s.ew = 2 -> "NO_SPACE"
                               [] s.ew = 1 /\ @ # "NO_SPACE" -> "LESS_SPACE"
                               [] OTHER -> @]

(* LOCATE is a read: a write error of it makes no sense. *)
no_write_perm(o) == IF IS_WRITE_PERM(o.ret) THEN [o EXCEPT !.ret = "LOCATE_ERROR"] ELSE o

(* tape_seek sends nothing when the position it remembers is the one asked for, (0,0) excepted. *)
already_there(s, dest) == dest = s.pos /\ dest # At(0, 0)

reached(s, dest) == s.pos.p = dest.p /\ dest.b \in {BlockMax, s.pos.b}

tape_seek(s, dest) ==
  LET moved == IF already_there(s, dest) THEN Out(s, "GOOD")
               ELSE {IF Failed(o.ret) THEN no_write_perm(o) ELSE [o EXCEPT !.s = note_space(@)]
                       : o \in backend_locate(s, dest)}
  IN  {[o EXCEPT !.ret = IF @ = "GOOD" /\ ~reached(o.s, dest) THEN "BAD_LOCATE" ELSE @] : o \in moved}

tape_seek_eod(s, p) ==
  Then(backend_locate(s, At(p, BlockMax)), LAMBDA o :
    CASE Failed(o.ret) -> {no_write_perm(o)}
      [] ~Failed(o.ret) /\ o.s.pos.p # p -> Out(o.s, "BAD_LOCATE")
      [] OTHER -> Out([note_space(o.s) EXCEPT !.append_pos[p] = o.s.pos.b], "GOOD"))

tape_set_append_position(s, p, b) == Out([s EXCEPT !.append_pos[p] = b], "GOOD")

(* The index partition of a WORM cartridge is only appended to. *)
tape_set_ip_append_position(s, p, b) ==
  Then(backend_get_worm_status(s), LAMBDA o :
    tape_set_append_position(o.s, p, IF o.ret = "GOOD" /\ o.s.worm_said THEN 0 ELSE b))

(* An append position of 0 means the end of data.  In append-only mode a position before it is *)
(* unlocked first, and a failure of that is returned with the position taken all the same.      *)
tape_seek_append_position(s, p, unlock) ==
  LET b == IF s.append_pos[p] = 0 THEN BlockMax ELSE s.append_pos[p]
      Unlocked(t) == IF unlock /\ t.append_only_mode /\ b # BlockMax THEN backend_allow_overwrite(t) ELSE Out(t, "GOOD")
  IN  Then(tape_seek(s, At(p, b)), LAMBDA o :
        IF Failed(o.ret) THEN Out([o.s EXCEPT !.write_error = TRUE], o.ret)
        ELSE {[r EXCEPT !.s.append_pos[p] = IF @ = 0 THEN r.s.pos.b ELSE @] : r \in Unlocked(o.s)})

tape_spacefm(s, type, n) == backend_space(s, type, n)

tape_locate_next_index(s) == tape_spacefm(s, "FM_F", 1)

tape_locate_previous_index(s) == OnGood(tape_spacefm(s, "FM_B", 4), LAMBDA t : tape_spacefm(t, "FM_F", 1))

tape_locate_first_index(s, p) == OnGood(tape_seek(s, At(p, FirstIndex)), LAMBDA t : tape_spacefm(t, "FM_F", 1))

tape_locate_last_index(s, p) ==
  OnGood(tape_seek_eod(s, p), LAMBDA t : OnGood(tape_spacefm(t, "FM_B", 2), LAMBDA u : tape_spacefm(u, "FM_F", 1)))

-----------------------------------------------------------------------------
(* Records.                                                                *)

(* tape_read_only: why a partition takes no more, or "GOOD". *)
tape_read_only(s, p) ==
  CASE s.write_protected -> "WRITE_PROTECT"
    [] ~s.write_protected /\ s.write_error -> "WRITE_ERROR"
    [] ~s.write_protected /\ ~s.write_error /\ s.space[p] # "WRITABLE" -> s.space[p]
    [] OTHER -> "GOOD"

(* Why a write is refused before it reaches the driver, or "GOOD". *)
refused(s, ignore_less, ignore_nospc) ==
  LET no == tape_read_only(s, s.pos.p)
  IN  IF (no = "NO_SPACE" /\ ignore_nospc) \/ (no = "LESS_SPACE" /\ ignore_less) THEN "GOOD" ELSE no

(* A real error refuses all further writes. *)
write_failed(o) == IF NEED_REVAL(o.ret) THEN o ELSE [o EXCEPT !.s.write_error = TRUE]

(* The end of a write: the warnings of the position, and the new append position. *)
appended(s, ret, ignore_less, ignore_nospc) ==
  LET p    == s.pos.p
      full == s.ew = 2
      less == s.ew = 1
  IN  [s |-> [s EXCEPT !.space[p] = IF full THEN "NO_SPACE" ELSE IF less THEN "LESS_SPACE" ELSE @,
                       !.append_pos[p] = s.pos.b],
       ret |-> CASE full /\ ~ignore_nospc -> "NO_SPACE"
                 [] less /\ ~ignore_less  -> "LESS_SPACE"
                 [] OTHER                 -> ret]

tape_write(s, d, ignore_less, ignore_nospc) ==
  LET Wrote(o) == IF Failed(o.ret) THEN {write_failed(o)}
                  ELSE {appended(o.s, "COUNT", ignore_less, ignore_nospc)}
      no       == refused(s, ignore_less, ignore_nospc)
  IN  IF Failed(no) THEN Out(s, no) ELSE Then(backend_write(s, d), Wrote)

(* tape_write_filemark: the drive flushes on the second command, of no filemark. *)
tape_write_filemark(s, n, ignore_less, ignore_nospc) ==
  LET Flush(t)  == IF n > 0 THEN backend_writefm(t, 0) ELSE Out(t, "GOOD")
      Done(o)   == IF Failed(o.ret) THEN {write_failed(o)} ELSE {appended(o.s, "GOOD", ignore_less, ignore_nospc)}
      no        == refused(s, ignore_less, ignore_nospc)
  IN  IF Failed(no) THEN Out(s, no)
      ELSE Then(backend_writefm(s, n), LAMBDA o :
             IF Failed(o.ret) THEN {write_failed(o)} ELSE Then(Flush(o.s), Done))

(* kmi_get_key, of the library for keys: the key of an alias, or none. *)
kmi_get_key(alias) == {alias, 0}

(* tape_read: a block of another key is read again with the key of its alias.  Until that works *)
(* the result is the first one.                                                                 *)
tape_read(s) ==
  LET alias(t) == IF t.at.b < Len(Here(t)) THEN KeyOf(Here(t)[t.at.b + 1]) ELSE 0
      Kept(o)  == {[o EXCEPT !.ret = "KEY_REQUIRED"]}
      With(t, key) == Then(tape_set_key(t, key), LAMBDA o : IF Failed(o.ret) THEN Kept(o) ELSE backend_read(o.s))
      Again(o) == Then(tape_get_keyalias(o.s), LAMBDA a :
                    IF Failed(a.ret) THEN Kept(a)
                    ELSE UNION {IF key = 0 THEN Kept(a) ELSE With(a.s, key) : key \in kmi_get_key(alias(a.s))})
  IN  Then(backend_read(s), LAMBDA o : IF o.ret = "KEY_REQUIRED" /\ o.s.kmi THEN Again(o) ELSE {o})

tape_erase(s, long) == backend_erase(s, long)

-----------------------------------------------------------------------------
(* The cartridge.                                                          *)

(* tape_test_unit_ready: nothing is asked within a second of the last success. *)
tape_test_unit_ready(s) == backend_test_unit_ready(s) \cup Out(s, "GOOD")

(* tape_get_capacity: the answer is kept until something is written, and then for a while. *)
tape_get_capacity(s) == backend_remaining_capacity(s) \cup Out(s, "GOOD")

(* What a drive without the page, or with another length of it, returns is no error. *)
unless_unsupported(outs, F(_)) ==
  Then(outs, LAMBDA o : CASE o.ret = "UNSUPPORTED_COMMAND" -> Out(o.s, "GOOD")
                          [] Failed(o.ret) /\ o.ret # "UNSUPPORTED_COMMAND" -> {o}
                          [] OTHER -> F(o.s))

tape_get_pews(s) == unless_unsupported(backend_modesense(s, "DEV_CONFIG_EXT"), LAMBDA t : Out(t, "GOOD"))

(* tape_set_pews: the result of MODE SELECT is not returned. *)
tape_set_pews(s) ==
  OnGood(tape_get_capacity(s), LAMBDA t :
    unless_unsupported(backend_modesense(t, "DEV_CONFIG_EXT"), LAMBDA u :
      Return(backend_modeselect(u, Plain("MODE_SELECT")), "GOOD")))

RECURSIVE tries_unit_ready(_, _)
tries_unit_ready(s, i) ==
  IF i = 0 THEN Out(s, "UNKNOWN")
  ELSE Then(backend_test_unit_ready(s), LAMBDA o : IF Failed(o.ret) /\ i > 1 THEN tries_unit_ready(o.s, i - 1) ELSE {o})

(* tape_enable_append_only_mode: the mode is left with the cartridge unloaded, and entered at *)
(* the beginning of the tape.                                                                 *)
tape_enable_append_only_mode(s, enable) ==
  LET Select(t, reload) ==
        Then(backend_modeselect(t, Cmd("SET_AOM", enable, 0)), LAMBDA o :
          LET mode == enable /\ o.ret # "ILLEGAL_REQUEST"
              Set(u) == Out([u EXCEPT !.append_only_mode = mode], "GOOD")
          IN  IF Failed(o.ret) /\ o.ret # "ILLEGAL_REQUEST" THEN {o}
              ELSE IF reload THEN OnSuccess(backend_load(o.s), Set)
              ELSE Set(o.s))
      Sensed(t, ready) ==
        unless_unsupported(backend_modesense(t, "DEV_CONFIG_EXT"), LAMBDA u :
          CASE ready /\ ~enable /\ u.aom ->
                 OnSuccess(backend_unload(u), LAMBDA v : Select(v, TRUE))
            [] ready /\ enable ->
                 OnSuccess(backend_load(u), LAMBDA v : Select(v, FALSE))
            [] OTHER -> Select(u, FALSE))
  IN  Then(tries_unit_ready(s, 3), LAMBDA o : Sensed(o.s, ~Failed(o.ret)))

(* tape_get_append_only_mode_setting: the mode is in s.append_only_mode of the outcome. *)
tape_get_append_only_mode_setting(s) ==
  unless_unsupported(backend_modesense(s, "DEV_CONFIG_EXT"), LAMBDA t :
    Out([t EXCEPT !.append_only_mode = t.aom], "GOOD"))

(* tape_is_cartridge_loadable: an unready drive is waited for. *)
RECURSIVE loadable(_, _)
loadable(s, i) ==
  Then(backend_test_unit_ready(s), LAMBDA o :
    CASE o.ret \in {"GOOD", "NEED_INITIALIZE"} -> Out(o.s, "GOOD")
      [] o.ret = "NO_MEDIUM" -> Out(o.s, "LTFS_NO_MEDIUM")
      [] o.ret \in {"MEDIUM_MAY_BE_CHANGED", "POR_OR_BUS_RESET"} /\ i > 1 -> loadable(o.s, i - 1)
      [] OTHER -> {o})

tape_is_cartridge_loadable(s) == loadable(s, LoadTries)

RECURSIVE load_backend(_)
load_backend(s) ==
  Then(backend_load(s), LAMBDA o :
    CASE o.ret = "NO_MEDIUM" -> Out(o.s, "LTFS_NO_MEDIUM")
      [] NEED_REVAL(o.ret)   -> load_backend(o.s)
      [] OTHER               -> {o})

(* The space of a partition, from the remaining capacity and the size of the early warning. *)
space_left(s, p) ==
  LET remaining == s.cap - Len(s.tape[p])
  IN  IF remaining <= Early THEN "NO_SPACE" ELSE IF remaining <= ProgEarly THEN "LESS_SPACE" ELSE "WRITABLE"

RECURSIVE tape_load_tape(_, _)
RECURSIVE make_ready(_, _)
RECURSIVE still_unready(_, _, _)

still_unready(s, ret, i) ==
  IF ~Failed(ret) \/ i = 0 THEN Out(s, ret)
  ELSE Then(backend_test_unit_ready(s), LAMBDA o :
         IF o.ret \in {"GOOD", "NO_MEDIUM", "HARDWARE_ERROR", "NO_CONNECTION", "LBP_READ_ERROR", "READ_PERM"} THEN {o}
         ELSE still_unready(o.s, o.ret, i - 1))

(* The loop at make_ready: a drive that waits for its initialisation is loaded again. *)
make_ready(s, i) ==
  Then(backend_test_unit_ready(s), LAMBDA o :
    CASE o.ret = "NEED_INITIALIZE" ->
           Anyway(backend_get_tape_alert(o.s), LAMBDA t :
             Then(tape_load_tape(t, FALSE), LAMBDA l :
               CASE l.ret \in {"HARDWARE_ERROR", "NO_CONNECTION"} -> Out(l.s, o.ret)
                 [] l.ret = "LTFS_NO_MEDIUM" -> Out(l.s, "NO_MEDIUM")
                 [] OTHER -> make_ready(l.s, 3)))
      [] Failed(o.ret) /\ o.ret # "NEED_INITIALIZE" ->
           IF i > 1 THEN make_ready(o.s, i - 1) ELSE still_unready(o.s, o.ret, ReadyTries)
      [] OTHER -> {o})

tape_wait_device_ready(s) == make_ready(s, 3)

(* What tape_load_tape asks the drive once the cartridge is in it. *)
load_parameters(s) ==
  OnSuccess(backend_remaining_capacity(s), LAMBDA t :
    OnSuccess(backend_get_parameters(t), LAMBDA u :
      OnSuccess(tape_get_pews(u), LAMBDA v :
        Out([v EXCEPT !.write_protected = FALSE, !.write_error = FALSE,
                      !.space = [p \in Partitions |-> space_left(v, p)]], "GOOD"))))

tape_load_tape(s, force) ==
  LET Wait(t)    == Then(tape_wait_device_ready([t EXCEPT !.append_pos = [p \in Partitions |-> 0]]), LAMBDA o :
                      Out(o.s, IF Failed(o.ret) THEN "LTFS_DEVICE_UNREADY" ELSE "GOOD"))
      Lock(t)    == OnSuccess(tape_prevent_medium_removal(t), backend_readpos)
      Default(t) == OnSuccess(backend_set_default(t), LAMBDA u : OnSuccess(tape_clear_key(u), load_parameters))
      Load(t)    == OnSuccess(load_backend(t), LAMBDA u : OnSuccess(Wait(u), LAMBDA v : OnSuccess(Lock(v), Default)))
  IN  IF force THEN Load(s) ELSE OnSuccess(tape_is_cartridge_loadable(s), Load)

RECURSIVE unload_rewind(_)
unload_rewind(s) == Then(tape_rewind(s), LAMBDA o : IF NEED_REVAL(o.ret) THEN unload_rewind(o.s) ELSE {o})

RECURSIVE unload_backend(_)
unload_backend(s) == Then(backend_unload(s), LAMBDA o : IF NEED_REVAL(o.ret) THEN unload_backend(o.s) ELSE {o})

(* tape_unload_tape: a failed unload, or a failed rewind of a cartridge that stays, is the result. *)
tape_unload_tape(s, keep) ==
  LET Rewound(u) == IF keep THEN unload_rewind(u) ELSE Anyway(unload_rewind(u), unload_backend)
  IN  Then(Anyway(tape_allow_medium_removal(s, FALSE), Rewound), LAMBDA m :
        {[o EXCEPT !.ret = IF Failed(m.ret) THEN m.ret ELSE @] : o \in tape_enable_append_only_mode(m.s, FALSE)})

(* tape_medium_present: not loaded says nothing about a medium. *)
tape_medium_present(s) ==
  Then(backend_test_unit_ready(s), LAMBDA o :
    IF o.ret = "NEED_INITIALIZE" THEN Return(backend_load(o.s), "GOOD") ELSE Out(o.s, "GOOD"))

-----------------------------------------------------------------------------
(* Formatting and recovery.                                                *)

tape_reset_capacity(s) ==
  OnSuccess(backend_load(s), LAMBDA t :
    OnSuccess(backend_setcap(t), LAMBDA u : Return(backend_test_unit_ready(u), "GOOD")))

(* tape_update_density: a failure of MODE SELECT is not returned. *)
tape_update_density(s) ==
  unless_unsupported(backend_modesense(s, "READ_WRITE_CTRL"), LAMBDA t :
    Return(backend_modeselect(t, Plain("MODE_SELECT")), "GOOD"))

formatted(s) ==
  Out([s EXCEPT !.space = [p \in Partitions |-> "WRITABLE"]], "GOOD")

(* tape_format: the result of the MODE SELECT that divides the medium is not looked at. *)
tape_format(s, density) ==
  LET Divide(t) == Anyway(backend_modeselect(t, Plain("MODE_SELECT")), LAMBDA u :
                     OnSuccess(backend_format(u), formatted))
      Sensed(t) == IF density THEN OnSuccess(tape_update_density(t), Divide) ELSE Divide(t)
  IN  OnSuccess(backend_load(s), LAMBDA t :
        OnSuccess(backend_modesense(t, "MEDIUM_PARTITION"), Sensed))

tape_unformat(s) == tape_format(s, FALSE)

tape_unformat_hard(s) ==
  OnSuccess({no_write_perm(o) : o \in backend_locate(s, At(0, 0))}, LAMBDA t :
    OnSuccess(backend_format(t), formatted))

(* Mutation: the end of data is taken to be where the reading starts. *)
read_on_Not(s) == Out(s, "GOOD")

(* The end of data is looked for by reading until it fails, for whatever reason.  (unheard is history: *)
(* it failed at a record.)                                                                             *)
RECURSIVE read_on(_)
read_on(s) ==
  Then(tape_read(s), LAMBDA o :
    IF Failed(o.ret) THEN Out([o.s EXCEPT !.unheard = o.s.at.b < Len(Here(o.s))], "GOOD") ELSE read_on(o.s))

(* tape_recover_eod_status: unload and load, and erase from where the reading ended. *)
tape_recover_eod_status(s) ==
  LET Erase(t, eod) == OnSuccess(tape_seek(t, eod), LAMBDA u : tape_erase(u, FALSE))
      Reload(t, eod) == OnSuccess(tape_unload_tape(t, FALSE), LAMBDA u :
                          OnSuccess(tape_load_tape(u, TRUE), LAMBDA v : Erase(v, eod)))
  IN  OnSuccess(backend_get_parameters(s), LAMBDA t :
        Anyway(read_on(t), LAMBDA u : OnSuccess(backend_peek(u), LAMBDA v : Reload(v, v.at))))

(* tape_check_eod_status: a driver that cannot tell is as one that does not know. *)
tape_check_eod_status(s, p) ==
  Then(backend_get_eod_status(s, p), LAMBDA o :
    Out(o.s, IF o.ret \in {"EOD_GOOD", "EOD_MISSING"} THEN o.ret ELSE "EOD_UNKNOWN"))

-----------------------------------------------------------------------------
(* The handle.                                                             *)

(* _tape_device_close: whatever fails, the driver is closed. *)
tape_device_close(s, force, skip_aom) ==
  LET Aom(t)   == IF skip_aom THEN Out(t, "GOOD") ELSE tape_enable_append_only_mode(t, FALSE)
  IN  Anyway(tape_clear_key(s), LAMBDA t :
        Anyway(tape_allow_medium_removal(t, force), LAMBDA u :
          Anyway(Aom(u), LAMBDA v : Anyway(tape_release_device(v), LAMBDA w : Return(backend_close(w), "GOOD")))))

RECURSIVE reserve_tries(_, _)
reserve_tries(s, i) ==
  Then(tape_reserve_device(s), LAMBDA o : IF Failed(o.ret) /\ i > 1 THEN reserve_tries(o.s, i - 1) ELSE {o})

tape_device_open(s, path) ==
  OnSuccess(backend_open(s, path), LAMBDA t :
    Then(reserve_tries(t, 3), LAMBDA o :
      IF Failed(o.ret) THEN Return(tape_device_close(o.s, FALSE, FALSE), o.ret)
      ELSE Return(tape_allow_medium_removal(o.s, TRUE), "GOOD")))

(* tape_device_reopen and tape_device_close_raw: around the fork of LTFS. *)
tape_device_reopen(s) == backend_reopen(s)

tape_device_close_raw(s) == backend_close_raw(s)

(* tape_get_first_untransfered_position: where the drive is, and what its buffer still holds. *)
tape_get_first_untransfered_position(s) ==
  OnSuccess(backend_readpos(s), LAMBDA t : backend_get_next_block_to_xfer(t))

(* Whether the drive encrypts, and how: what cannot be read is "unknown", and no error. *)
tape_get_drive_encryption_state(s) == Return(backend_modesense(s, "READ_WRITE_CTRL"), "GOOD")

tape_get_drive_encryption_method(s) == Return(backend_modesense(s, "READ_WRITE_CTRL"), "GOOD")

tape_get_cartridge_health(s) == backend_get_cartridge_health(s)

tape_get_tape_alert(s) == backend_get_tape_alert(s)

tape_get_vendorunique_xattr(s) == backend_get_xattr(s)

tape_logsense(s) == backend_logsense(s)

tape_takedump_drive(s) == backend_takedump(s)

tape_set_compression(s) == backend_set_compression(s)

tape_get_params(s) == backend_get_parameters(s)

tape_rao_request(s) == OnSuccess(backend_grao(s), backend_rrao)

tape_get_volume_change_reference(s) == backend_read_attribute(s)

(* tape_set_cart_coherency: what it says of the last index is in IndexStore. *)
tape_set_cart_coherency(s) == backend_write_attribute(s, "COHERENCY", 0)

=============================================================================
