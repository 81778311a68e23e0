---------------------------- MODULE VolumeTools ----------------------------
(***************************************************************************)
(* The device part of the functions of libltfs/ltfs.c that mount, format   *)
(* and repair a cartridge, and of the extended attributes of a volume that *)
(* live in the memory of the cartridge (libltfs/xattr.c).                  *)
(*                                                                         *)
(* A label is two blocks, 1 and 2, and an index one, 3.                    *)
(***************************************************************************)
EXTENDS CartridgeMemory

CONSTANTS
  Keys        \* encryption keys

ASSUME VolumeToolsAssumption == Keys \subseteq Nat \ {0}

-----------------------------------------------------------------------------
(* Mount and revalidation.                                                 *)

ltfs_setup_device(t, append_only) ==
  OnSuccess(tape_is_cartridge_loadable(t), LAMBDA u :
    OnSuccess(tape_set_pews(u), LAMBDA v :
      IF append_only THEN tape_enable_append_only_mode(v, TRUE)
      ELSE OnSuccess(tape_get_append_only_mode_setting(v), LAMBDA w :
             IF w.append_only_mode THEN tape_enable_append_only_mode(w, FALSE) ELSE Out(w, "GOOD"))))

(* ltfs_load_tape and ltfs_wait_device_ready, before ltfs_setup_device in every program but *)
(* mkaltfs --wipe: only the wait tells whether the cartridge is there.                       *)
prepare_device(t, append_only) ==
  OnSuccess(Anyway(tape_load_tape(t, TRUE), tape_wait_device_ready), LAMBDA u : ltfs_setup_device(u, append_only))

(* The parameters of the drive, of which the largest block must hold a block of the volume. *)
check_blocksize(t) ==
  OnSuccess(tape_get_params(t), LAMBDA u : Out(u, IF u.param_blksize THEN "GOOD" ELSE "LARGE_BLOCKSIZE"))

(* ltfs_start_mount, of a partitioned cartridge: the labels are in IndexStore. *)
ltfs_start_mount(t) ==
  OnSuccess(tape_load_tape(t, FALSE), LAMBDA u :
    OnSuccess(tape_seek(u, At(0, 0)), LAMBDA v :
      OnSuccess(tape_get_capacity(v), LAMBDA w : OnSuccess(tape_set_compression(w), check_blocksize))))

(* The end of ltfs_mount, once the newest index is read: both partitions end in an index, and of the *)
(* memory of the cartridge only a write error overrules what the index says of the lock.             *)
end_mount(t) ==
  LET status(u) == IF "LOCKED_MAM" \in DOMAIN u.t_attr THEN u.t_attr["LOCKED_MAM"] ELSE UNLOCKED_MAM
      Read(u)   == [u EXCEPT !.vollock = u.newest.vollock, !.selfptr = u.newest.p, !.index_file_end = Partitions,
                             !.unread = FALSE]
  IN  Anyway(tape_load_all_attribute_from_cm(Read(t)), LAMBDA u :
        Out([u EXCEPT !.lock_status = IF status(u) \in PWE_MAMS THEN status(u) ELSE u.vollock], "GOOD"))

(* The end of data of a partition is where the append position was. *)
revalidate_partition(t, p, append_pos) ==
  OnSuccess(tape_seek_eod(t, p), LAMBDA u :
    Out([u EXCEPT !.append_pos[p] = append_pos[p]],
        IF append_pos[p] \in {0, u.pos.b} THEN "GOOD" ELSE "REVAL_FAILED"))

(* Mutation: the lock that a reset ended is taken for held. *)
reserve_again_Locked(t) == tape_reserve_device([t EXCEPT !.device_reserved = FALSE])

(* A reset of the drive ended the reservation and the lock. *)
reserve_again(t) == tape_reserve_device([t EXCEPT !.device_reserved = FALSE, !.medium_locked = FALSE])

ltfs_revalidate(t, append_only) ==
  LET Eod(u)    == Then(tape_check_eod_status(u, 0), LAMBDA a : Then(tape_check_eod_status(a.s, 1), LAMBDA b :
                     Out(b.s, IF "EOD_MISSING" \in {a.ret, b.ret} THEN "EOD_MISSING_MEDIUM" ELSE "GOOD")))
      Parts(u)  == OnSuccess(revalidate_partition(u, 1, t.append_pos), LAMBDA v :
                     revalidate_partition(v, 0, t.append_pos))
  IN  OnSuccess(ltfs_setup_device(t, append_only), LAMBDA u :
        OnSuccess(reserve_again(u), LAMBDA v : OnSuccess(ltfs_start_mount(v), LAMBDA w : OnSuccess(Eod(w), Parts))))

-----------------------------------------------------------------------------
(* Format.                                                                 *)

(* ltfs_write_label: the error of the second block is returned with its sign changed, which is no    *)
(* error to the caller.  (unheard is history: the error is one that leaves no write_error behind.)  *)
ltfs_write_label(t, p) ==
  LET Mark(u) == tape_write_filemark(u, 1, TRUE, FALSE)
      Xml(u)  == Then(tape_write(u, 2, TRUE, FALSE), LAMBDA o :
                   IF Failed(o.ret) THEN Out([o.s EXCEPT !.unheard = @ \/ ~o.s.write_error], "COUNT") ELSE Mark(o.s))
  IN  OnSuccess(tape_seek(t, At(p, 0)), LAMBDA u :
        OnSuccess(tape_write(u, 1, TRUE, FALSE), LAMBDA v : OnSuccess(Mark(v), Xml)))

(* ltfs_update_cart_coherency, of the partitions that end in an index: no failure is looked at. *)
ltfs_update_cart_coherency(t) ==
  LET Set(u, p) == IF p \in u.index_file_end THEN tape_set_cart_coherency(u) ELSE Out(u, "GOOD")
  IN  Then(tape_get_volume_change_reference(t), LAMBDA o :
        IF Failed(o.ret) THEN Out(o.s, "GOOD") ELSE Anyway(Set(o.s, 0), LAMBDA u : Return(Set(u, 1), "GOOD")))

(* A full index at the append position: a filemark, the index, a filemark.  The next index of the *)
(* index partition overwrites it.                                                                 *)
append_index(t, p) ==
  LET Mark(u)  == tape_write_filemark(u, 1, TRUE, TRUE)
      Flush(u) == IF p = 0 /\ 0 \notin u.index_file_end THEN tape_write_filemark(u, 0, TRUE, TRUE) ELSE Out(u, "GOOD")
      Index(u) == OnSuccess(Flush(u), LAMBDA v : OnSuccess(Mark(v), LAMBDA w : OnSuccess(tape_write(w, 3, TRUE, TRUE), Mark)))
      Ends(u)  == [u EXCEPT !.selfptr = p, !.index_file_end = @ \cup {p}, !.newest = [p |-> p, vollock |-> u.vollock]]
      Place(u, b) == IF p = 0 THEN tape_set_ip_append_position(u, 0, b) ELSE Out(u, "GOOD")
  IN  OnSuccess(tape_seek_append_position(t, p, p = 0), LAMBDA u :
        OnSuccess(Index(u), LAMBDA v : Anyway(ltfs_update_cart_coherency(Ends(v)), LAMBDA w : Place(w, u.pos.b))))

(* What a write error of partition p makes of the status. *)
after_write_perm(status, p) ==
  CASE status = PWE_MAM_DP /\ p = 0   -> PWE_MAM_BOTH
    [] status = PWE_MAM_IP /\ p = 1   -> PWE_MAM_BOTH
    [] status = UNLOCKED_MAM /\ p = 0 -> PWE_MAM_IP
    [] status = UNLOCKED_MAM /\ p = 1 -> PWE_MAM_DP
    [] OTHER                          -> status

(* out_write_perm: an index that follows a write error leaves the error, and one that meets a write *)
(* error is noted in the memory of the cartridge.                                                   *)
out_write_perm(o, p, write_perm, volstat) ==
  LET t == [o.s EXCEPT !.write_error = @ \/ write_perm]
      new == after_write_perm(volstat, p)
  IN  IF IS_WRITE_PERM(o.ret) /\ new # volstat THEN Override(tape_set_cart_volume_lock_status(t, new), o.ret)
      ELSE Out(t, o.ret)

(* An index after a write error goes behind what is there. *)
forget_write_error(t, p) == [t EXCEPT !.write_error = FALSE, !.append_pos[p] = 0]

(* ltfs_write_index: the index partition is not overwritten before the data partition has the index. *)
RECURSIVE ltfs_write_index(_, _, _)
ltfs_write_index(t, p, write_perm) ==
  LET data_first(u)       == p = 0 /\ ~write_perm /\ (1 \notin u.index_file_end \/ (0 \in u.index_file_end /\ u.selfptr = 0))
      Write(u, perm, stat) == Then(append_index(u, p), LAMBDA o : out_write_perm(o, p, perm, stat))
      Again(u) == Then(tape_get_cart_volume_lock_status(u), LAMBDA o :
                    IF Failed(o.ret) THEN {o} ELSE Write(forget_write_error(o.s, p), TRUE, VolumeLock(o.s)))
      First(u) == Then(ltfs_write_index(u, 1, FALSE), LAMBDA o :
                    CASE NEED_REVAL(o.ret)    -> {o}
                      [] IS_WRITE_PERM(o.ret) -> Again(o.s)
                      [] OTHER                -> Write(o.s, FALSE, VolumeLock(u)))
  IN  OnSuccess(tape_get_cart_volume_lock_status(t), LAMBDA u :
        CASE ~write_perm /\ (u.write_protected \/ u.write_error) -> Out(u, "WRITE_ERROR")
          [] write_perm -> Write(forget_write_error(u, p), TRUE, VolumeLock(u))
          [] data_first(u) /\ ~u.write_protected /\ ~u.write_error -> First(u)
          [] OTHER -> Write(u, FALSE, VolumeLock(u)))

(* ltfs_sync_index, of a full index of a changed volume: a write error of the data partition is *)
(* followed by an index in the other.                                                           *)
ltfs_sync_index(t) ==
  LET p == IF 1 \in t.index_file_end /\ 0 \notin t.index_file_end THEN 0 ELSE 1
  IN  IF tape_read_only(t, 1) \notin {"GOOD", "LESS_SPACE"} THEN Out(t, tape_read_only(t, 1))
      ELSE Then(ltfs_write_index(t, p, FALSE), LAMBDA o :
             IF IS_WRITE_PERM(o.ret) /\ p = 1
             THEN {[r EXCEPT !.ret = IF Failed(@) THEN o.ret ELSE "SYNC_FAIL_ON_DP"] : r \in ltfs_write_index(o.s, 0, TRUE)}
             ELSE {o})

(* Mutation: the labels of a volume with keys are written without one. *)
format_key_Not(t) == Out(t, "GOOD")

(* A volume with keys takes one for itself. *)
format_key(t) ==
  IF ~t.kmi THEN Out(t, "GOOD") ELSE UNION {tape_set_key(t, key) : key \in Keys}

ltfs_format_tape(t, reset_capacity) ==
  LET Part(u, p) == OnSuccess(ltfs_write_label(u, p), LAMBDA v : ltfs_write_index(v, p, FALSE))
      Label(u)   == OnSuccess(Part(u, 1), LAMBDA v : Part(v, 0))
      Ready(u)   == OnSuccess(tape_format(u, FALSE), LAMBDA v :
                      OnSuccess(tape_set_compression(v), LAMBDA w : OnSuccess(format_key(w), Label)))
  IN  IF t.write_protected \/ t.write_error THEN Out(t, "WRITE_ERROR")
      ELSE OnSuccess(check_blocksize(t), LAMBDA u :
             IF reset_capacity THEN OnSuccess(tape_reset_capacity(u), Ready) ELSE Ready(u))

(* mkaltfs --force: load, format, and describe the volume in the memory of its cartridge. *)
format_tape(t, reset_capacity, name, barcode) ==
  LET Loaded(u) == OnSuccess(tape_load_tape(u, FALSE), backend_get_worm_status)
  IN  OnSuccess(OnSuccess(prepare_device(t, FALSE), Loaded), LAMBDA u :
        OnSuccess(ltfs_format_tape(u, reset_capacity), LAMBDA v :
          Return(tape_format_attribute_to_cm(set_tape_attribute(v, name, barcode)), "GOOD")))

ltfs_unformat_tape(t, long_wipe, destructive) ==
  OnSuccess(tape_load_tape(t, FALSE), LAMBDA u :
    IF u.write_protected \/ u.write_error THEN Out(u, "WRITE_ERROR")
    ELSE OnSuccess(IF destructive THEN tape_unformat_hard(u) ELSE tape_unformat(u), LAMBDA v :
           IF long_wipe THEN tape_erase(v, TRUE) ELSE Out(v, "GOOD")))

-----------------------------------------------------------------------------
(* A lost end of data (altfsck --deep-recovery).                           *)

(* ltfs_recover_eod_simple: a drive that finds the end of data again notes it when it unloads. *)
ltfs_recover_eod_simple(t) ==
  LET Look(u, p) == Then(tape_check_eod_status(u, p), LAMBDA o :
                      IF o.ret = "EOD_MISSING" THEN Return(tape_seek_eod(o.s, p), "EOD_MISSING") ELSE {o})
  IN  Then(Look(t, 0), LAMBDA a : Then(Look(a.s, 1), LAMBDA b :
        IF "EOD_MISSING" \in {a.ret, b.ret}
        THEN Anyway(tape_unload_tape(b.s, FALSE), LAMBDA u : tape_load_tape(u, TRUE))
        ELSE Out(b.s, "GOOD")))

(* ltfs_recover_eod: from the index that the memory of the cartridge tells of, block b. *)
ltfs_recover_eod(t, b) ==
  Then(tape_check_eod_status(t, 0), LAMBDA i : Then(tape_check_eod_status(i.s, 1), LAMBDA d :
    LET p == IF i.ret = "EOD_MISSING" THEN 0 ELSE 1
    IN  CASE "EOD_UNKNOWN" \in {i.ret, d.ret} \/ (i.ret = "EOD_MISSING" /\ d.ret = "EOD_MISSING") -> Out(d.s, "UNSUPPORTED")
          [] i.ret = "EOD_GOOD" /\ d.ret = "EOD_GOOD" -> Out(d.s, "GOOD")
          [] OTHER -> OnSuccess(tape_seek(d.s, At(p, b)), tape_recover_eod_status)))

(* check_ltfs_volume with deep_recovery, up to its mount: of an unlocked cartridge that is not WORM. *)
deep_recovery(t, b) ==
  LET locked(u)  == "LOCKED_MAM" \in DOMAIN u.cm /\ u.cm["LOCKED_MAM"] # UNLOCKED_MAM
      Recover(u) == IF u.worm_said THEN Out(u, "USAGE_ERROR")
                    ELSE Anyway(ltfs_recover_eod_simple(u), LAMBDA v : ltfs_recover_eod(v, b))
      Unlocked(o) == IF ~Failed(o.ret) /\ locked(o.s) THEN Out(o.s, "GOOD")
                     ELSE OnSuccess(backend_get_worm_status(o.s), Recover)
  IN  OnSuccess(OnSuccess(prepare_device(t, FALSE), ltfs_start_mount), LAMBDA u :
        Then(tape_get_cart_volume_lock_status(u), Unlocked))

-----------------------------------------------------------------------------
(* Extended attributes of the volume.                                      *)

(* The index with the new lock is written to both partitions, if it can be: only the second result *)
(* is returned.                                                                                      *)
lock_index(t, new) ==
  Anyway(ltfs_sync_index([t EXCEPT !.vollock = new, !.t_attr["LOCKED_MAM"] = new, !.lock_status = new]), LAMBDA u :
    ltfs_write_index(u, 0, FALSE))

(* Mutation: a lock is set whatever was set before. *)
set_volume_lock_state_Always(t, new, file_open) ==
  OnSuccess(update_tape_attribute(t, "LOCKED_MAM", new), LAMBDA u : lock_index(u, new))

(* _xattr_set_virtual, ltfs.volumeLockState: not after a write error, nor once locked for good, nor *)
(* while a file is open.                                                                             *)
set_volume_lock_state(t, new, file_open) ==
  IF t.t_attr["LOCKED_MAM"] \in PWE_MAMS \/ t.vollock = PERMLOCKED_MAM \/ file_open THEN Out(t, "XATTR_ERR")
  ELSE OnSuccess(update_tape_attribute(t, "LOCKED_MAM", new), LAMBDA u : lock_index(u, new))

=============================================================================
