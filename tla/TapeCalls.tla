----------------------------- MODULE TapeCalls -----------------------------
(***************************************************************************)
(* The calls that libltfs makes of a tape device, in every order its       *)
(* callers can: an append is a seek to the append position and a write, as *)
(* in _ltfs_fsraw_write_data_unlocked; a result that asks for revalidation *)
(* raises the fence, and the device part of ltfs_revalidate follows, or    *)
(* the device is given up.  What the indexes have to do with it is in      *)
(* IndexStore, and who waits for whom is in Revalidation.                  *)
(***************************************************************************)
EXTENDS VolumeTools

CONSTANT
  Scenes      \* the drives, their drivers and what the volume is used for

VARIABLES
  scene,    \* one of Scenes, for the whole of a behaviour
  s,        \* the drive, the driver and the device
  call,     \* the last call: what it was, whether it succeeded, its arguments
  mounted,  \* the cartridge is loaded for the volume
  fenced,   \* a call reported that the drive has to be revalidated
  silent    \* history: a call met a reset that it did not report, or could not read the position

vars == <<scene, s, call, mounted, fenced, silent>>

(* A scene: a driver and the maker of the drive, what a cartridge is used for and which of its       *)
(* partitions changes, the setting append_only_mode, the records a partition holds, the attributes in *)
(* the memory of the cartridge, and what may go wrong, how often.                                     *)
ASSUME TapeCallsAssumption ==
  \A c \in Scenes :
    /\ c.drv \in {"sg", "iokit", "scsipi", "cam"} /\ c.vendor \in {"IBM", "HP"}
    /\ c.calls \in {"records", "tools", "keys", "lost_eod", "attributes", "locks", "forced"} /\ c.part \in Partitions
    /\ c.append_only \in BOOLEAN /\ c.cap \in 0 .. Cap /\ c.attrs \subseteq AllAttrs
    /\ c.events \subseteq AllEvents /\ c.faults \in Nat

(* The cartridge: one block in the partition that does not change, with a filemark behind it; or a *)
(* partition with no end of data.                                                                  *)
DriveOf(c) ==
  [tape |-> [p \in Partitions |-> IF p = c.part /\ c.calls # "lost_eod" THEN << >> ELSE <<1, FM>>],
   noeod |-> IF c.calls = "lost_eod" THEN {c.part} ELSE {}, at |-> At(0, 0), medium |-> "in", cap |-> c.cap,
   locked |-> FALSE, worm |-> FALSE, key |-> 0, lbp |-> FALSE, aom |-> FALSE, permit |-> FALSE,
   cm |-> [a \in c.attrs \cup {"COHERENCY"} |-> 0], newest |-> [p |-> 0, vollock |-> UNLOCKED_MAM], reg |-> {}, res |-> NoPath, ua |-> "POR_OR_BUS_RESET",
   live |-> IF c.drv = "sg" THEN Paths ELSE {1}, was_reset |-> FALSE, blind |-> FALSE, unheard |-> FALSE,
   events |-> c.events, faults |-> c.faults]

Merge(f, g) == [x \in DOMAIN f \cup DOMAIN g |-> IF x \in DOMAIN g THEN g[x] ELSE f[x]]

StateOf(c) ==
  Merge(Merge(DriveOf(c), Private(c.vendor)),
        Merge(Merge(tape_device_alloc, ltfs_volume_alloc),
              [drv |-> c.drv, kmi |-> c.calls = "keys", is_key_set |-> FALSE]))

NoArg == [p |-> 0, d |-> 0]

Init ==
  /\ scene \in Scenes
  /\ s = StateOf(scene)
  /\ call = [op |-> "other", ok |-> TRUE, arg |-> NoArg]
  /\ mounted = "no" /\ fenced = FALSE /\ silent = FALSE

-----------------------------------------------------------------------------
(* The warnings of a position are looked at in the call that read them, except where a write sets *)
(* none of its own, and a block is used by the call that read it.                                 *)
Settled(t, op, reported) ==
  [t EXCEPT !.got = IF op = "read" THEN @ ELSE FM, !.ew = IF t.drv = "cam" THEN @ ELSE 0, !.param_blksize = FALSE,
            !.worm_said = FALSE, !.was_reset = @ /\ t.ua # "none" /\ ~reported, !.blind = FALSE,
            !.unheard = @ /\ op \in {"format", "recover"}]

Result(op, arg, o) ==
  /\ s' = Settled(o.s, op, NEED_REVAL(o.ret))
  /\ silent' = (/\ ~NEED_REVAL(o.ret)
                /\ \/ o.s.was_reset /\ o.s.ua = "none"
                   \/ o.s.blind
                   \/ silent /\ op \in {"append", "lock", "read", "query"})
  /\ call' = [op |-> op, ok |-> ~Failed(o.ret), arg |-> arg]
  /\ UNCHANGED scene

(* A call of a mounted volume; a mount or revalidation; the end of the use of the cartridge. *)
Call(op, arg, outs) ==
  \E o \in outs : Result(op, arg, o) /\ fenced' = NEED_REVAL(o.ret) /\ UNCHANGED mounted

Mounts(op, outs) ==
  \E o \in outs : Result(op, NoArg, o) /\ mounted' = (IF Failed(o.ret) THEN "over" ELSE "yes") /\ fenced' = FALSE

Ends(op, outs) ==
  \E o \in outs : Result(op, NoArg, o) /\ mounted' = "over" /\ fenced' = FALSE

Other(outs) == Call("query", NoArg, outs)

Usable == mounted = "yes" /\ ~fenced

-----------------------------------------------------------------------------
(* The handle and the cartridge.                                           *)

DeviceOpen ==
  /\ ~s.open
  /\ \E path \in {NoPath, 1} : \E o \in tape_device_open(Merge(s, Merge(tape_device_alloc, ltfs_volume_alloc)), path) :
       Result("other", NoArg, o)
  /\ mounted' = "no" /\ fenced' = FALSE

DeviceClose == s.open /\ mounted # "closed" /\ \E skip \in BOOLEAN : Ends("close", tape_device_close(s, FALSE, skip))

(* A volume that has keys is formatted with one before it is used. *)
Mount ==
  /\ s.open /\ mounted = "no" /\ (scene.calls = "keys" => s.tape[scene.part] # << >>)
  /\ LET Prepare(t) == prepare_device(t, scene.append_only)
     IN  Mounts("other", OnSuccess(OnSuccess(OnSuccess(tape_clear_key(s), Prepare), ltfs_start_mount),
                                   end_mount))

Revalidate == s.open /\ mounted = "yes" /\ fenced /\ Mounts("other", ltfs_revalidate(s, scene.append_only))

(* On macOS the interface to the drive is closed once the volume is mounted, and reopened in the *)
(* process that serves it; when that fails the file system ends.                                 *)
CloseRaw ==
  /\ s.open /\ s.drv = "iokit" /\ Usable /\ call.op = "other"
  /\ \E o \in tape_device_close_raw(s) : Result("query", NoArg, o) /\ mounted' = "closed" /\ UNCHANGED fenced

Reopen == s.open /\ mounted = "closed" /\ Mounts("query", tape_device_reopen(s))

Unload == s.open /\ mounted \in {"yes", "over"} /\ \E keep \in BOOLEAN : Ends("other", tape_unload_tape(s, keep))

-----------------------------------------------------------------------------
(* Records and positions.                                                  *)

(* A block, or a filemark, at the append position of a partition. *)
AppendRecord(p, d) ==
  \E flags \in BOOLEAN :
    Call("append", [p |-> p, d |-> d],
         OnSuccess(tape_seek_append_position(s, p, p = 0), LAMBDA t :
           IF d = FM THEN tape_write_filemark(t, 1, flags, flags) ELSE tape_write(t, d, flags, flags)))

(* The extents of a file, and its index, are within what was written. *)
ReadRecordAt(p, b) == b <= Len(s.tape[p]) /\ Call("read", [p |-> p, d |-> b], OnSuccess(tape_seek(s, At(p, b)), tape_read))

(* The search of an index at the mount: its failure is the end of the mount. *)
Locate(p) ==
  \E o \in tape_locate_first_index(s, p) \cup tape_locate_last_index(s, p)
             \cup tape_locate_next_index(s) \cup tape_locate_previous_index(s) :
    /\ Result("query", NoArg, o)
    /\ mounted' = (IF Failed(o.ret) /\ ~NEED_REVAL(o.ret) THEN "over" ELSE mounted)
    /\ fenced' = NEED_REVAL(o.ret)

(* The index partition is overwritten from the index before. *)
SetAppend(b) == b < Len(s.tape[0]) /\ Other(tape_set_ip_append_position(s, 0, b))

Records ==
  /\ Usable /\ scene.calls \in {"records", "keys", "forced"}
  /\ \/ \E d \in {FM, 1} : AppendRecord(scene.part, d)
     \/ \E p \in Partitions, b \in 0 .. 1 : ReadRecordAt(p, b)
     \/ Locate(scene.part)
     \/ \E b \in 1 .. Cap : scene.part = 0 /\ SetAppend(b)

(* Questions that change nothing. *)
Query ==
  /\ Usable /\ scene.calls = "records"
  /\ \/ Other(tape_test_unit_ready(s))
     \/ Other(tape_get_capacity(s))
     \/ Other(tape_get_first_untransfered_position(s))
     \/ Other(tape_get_cartridge_health(s))
     \/ Other(tape_get_tape_alert(s))
     \/ Other(tape_get_vendorunique_xattr(s))
     \/ Other(tape_takedump_drive(s))
     \/ Other(tape_get_params(s))
     \/ Other(tape_get_drive_encryption_state(s))
     \/ Other(tape_get_drive_encryption_method(s))
     \/ Other(tape_rao_request(s))
     \/ Other(tape_get_volume_change_reference(s))

-----------------------------------------------------------------------------
(* Tools, each a process of its own, and the attributes of a volume.       *)

Tool(op, calls, outs) == s.open /\ mounted = "no" /\ scene.calls \in calls /\ Ends(op, outs)

Format == \E reset \in BOOLEAN : Tool("format", {"tools", "keys"}, format_tape(s, reset, 1, 1))

Unformat ==
  \E long, destructive \in BOOLEAN :
    Tool("unformat", {"tools"}, OnSuccess(ltfs_setup_device(s, FALSE), LAMBDA t : ltfs_unformat_tape(t, long, destructive)))

(* From a block that is on the tape. *)
RecoverEod == \E b \in 0 .. Len(s.tape[scene.part]) : Tool("recover", {"lost_eod"}, deep_recovery(s, b))

Update(a, v, outs) == Call("update", [p |-> v, d |-> a], outs)

SetAttribute ==
  /\ Usable /\ scene.calls = "attributes"
  /\ \E v \in 0 .. 1 :
       \/ \E a \in {"MEDIUM_LABEL", "BARCODE"} : Update(a, v, update_tape_attribute(s, a, v))
       \/ \E is_name \in BOOLEAN : Update("MEDIA_POOL", v, tape_set_media_pool_info(s, v, is_name))

SetLock ==
  /\ Usable /\ scene.calls = "locks"
  /\ \/ \E new \in {UNLOCKED_MAM, LOCKED_MAM, PERMLOCKED_MAM}, file_open \in BOOLEAN :
          Call("lock", NoArg, set_volume_lock_state(s, new, file_open))
     \/ \E new \in {PWE_MAM_DP, PWE_MAM_IP} : Other(tape_set_cart_volume_lock_status(s, new))

(* Errors that a test asks for, in the extended attributes of the drive, before it uses the volume. *)
ForceError ==
  /\ Usable /\ scene.calls = "forced" /\ call.op = "other"
  /\ \E name \in {"forceErrorWrite", "forceErrorRead"}, count \in 1 .. 2, negative \in BOOLEAN :
       Other(backend_set_xattr(s, name, count, negative))

-----------------------------------------------------------------------------
Next ==
  \/ DeviceOpen \/ DeviceClose \/ Mount \/ Revalidate \/ Unload \/ CloseRaw \/ Reopen
  \/ Records \/ Query \/ Format \/ Unformat \/ RecoverEod \/ SetAttribute \/ SetLock \/ ForceError

Spec == Init /\ [][Next]_vars

-----------------------------------------------------------------------------
(* Where an append goes. *)
AppendAt(p) == IF s.append_pos[p] = 0 THEN Len(s.tape[p]) ELSE s.append_pos[p]

(* The volume is in use, no reset went unnoticed, none is still to be reported and no test asks for errors. *)
Attached == Usable /\ ~silent /\ s.ua = "none" /\ s.fd \in s.live /\ scene.calls # "forced"

Appended(t, p, rec) == [t EXCEPT ![p] = SubSeq(@, 1, AppendAt(p)) \o <<rec>>]

(* A block or filemark that tape_write or tape_write_filemark says is written is on the tape once, at *)
(* the append position, and nothing else changed: whatever became of the path to the drive in the    *)
(* meantime, and however often the driver sent the command.  Calls after a reset that no call         *)
(* reported are left out, and so are writes that a test asks to fail, and the filemarks of FreeBSD    *)
(* (FilemarkWritten).                                                                                 *)
AppendExact ==
  [][LET a == call'.arg
     IN  call'.op = "append" /\ call'.ok /\ ~silent /\ scene.calls # "forced" /\ ~(s.drv = "cam" /\ a.d = FM) =>
           s'.tape = Appended(s.tape, a.p, IF a.d = FM THEN FM ELSE Encrypted(a.d, s.key))]_vars

(* What struct tape_ops says of writefm, "0 on success or a negative value on error", for every *)
(* driver: a filemark that is said to be written is on the tape.                                 *)
FilemarkWritten ==
  [][LET a == call'.arg
     IN  call'.op = "append" /\ call'.ok /\ ~silent /\ a.d = FM => s'.tape = Appended(s.tape, a.p, FM)]_vars

(* On each partition of t a label and an index, and nothing else, every block of them encrypted when *)
(* the volume has keys; data goes behind them, and the next index of the index partition over the one *)
(* that is there.                                                                                      *)
Formatted(t) ==
  \E key \in IF t.kmi THEN Keys ELSE {0} : \A p \in Partitions :
    LET E(d) == Encrypted(d, key)
    IN  t.tape[p] = <<E(1), FM, E(2), FM, FM, E(3), FM>> /\ t.append_pos[p] = (IF p = 0 THEN 4 ELSE 7)

(* A format that succeeds wrote the labels and indexes, whatever error a command met and whatever *)
(* retries hid it.  A second block of a label whose error leaves no write_error behind is         *)
(* excepted (LabelsWritten).                                                                      *)
FormatExact == [][call'.op = "format" /\ call'.ok /\ ~s'.unheard => Formatted(s')]_vars

(* What ltfs_write_label says of its result, "0 on success or a negative value on error": a format *)
(* whose labels are not written does not succeed.                                                  *)
LabelsWritten == [][call'.op = "format" /\ call'.ok => Formatted(s')]_vars

(* The records of a partition that a call has to keep: a lock ends with an index in partition 0. *)
Kept(p) ==
  LET k == IF call'.op \in {"append", "lock"} /\ call'.arg.p = p /\ AppendAt(p) <= Len(s.tape[p]) THEN AppendAt(p)
           ELSE Len(s.tape[p])
  IN  Len(s'.tape[p]) >= k /\ SubSeq(s'.tape[p], 1, k) = SubSeq(s.tape[p], 1, k)

(* What is on the tape before the append position is never lost, and no call but an append, an index *)
(* in the place of the one before and a format loses anything: not the retries of a driver, a         *)
(* revalidation or the search of an index, not a power loss in the middle of a write, and not the     *)
(* recovery of the end of data, as long as its reading got to the last record (RecoveryKeepsAll), nor *)
(* a lock, as long as the drive is not reset in its first index (LockLosesNothing).                   *)
RecordsKept ==
  [][call'.op \notin {"format", "unformat"} /\ ~silent /\ ~s'.unheard /\ ~(call'.op = "lock" /\ silent') =>
       \A p \in Partitions : Kept(p)]_vars

(* What tape_recover_eod_status says it does, "Read forward by hitting read perm (actual EOD), or EOD": *)
(* a recovery erases no record.                                                                         *)
RecoveryKeepsAll == [][call'.op = "recover" => \A p \in Partitions : Kept(p)]_vars

(* What ltfs_write_index says of a reset in the index before, "can't ignore POR, tape could have changed", *)
(* of the two indexes of a lock: nothing but the index that it replaces is lost.                           *)
LockLosesNothing == [][call'.op = "lock" /\ ~silent => \A p \in Partitions : Kept(p)]_vars

(* A seek and a read that succeed give the record at the place that was asked for, although tape_seek *)
(* sends no LOCATE when the position it remembers is the right one.                                   *)
ReadExact ==
  [][call'.op = "read" /\ call'.ok /\ ~silent =>
       LET p == call'.arg.p b == call'.arg.d
       IN  b < Len(s.tape[p]) /\ s'.got = s.tape[p][b + 1]]_vars

(* The position that LTFS remembers (dev->position) is the one of the drive, after failed calls too, *)
(* as long as the drive answers READ POSITION: it is what tape_seek trusts.                          *)
PositionTracked == Attached => s.pos = s.at

(* As long as the volume is in use the reservation is held through the path in use, after a change *)
(* of the path and after the revalidation of a drive that was reset, and a medium that the driver  *)
(* takes for locked is locked.  (On FreeBSD both are up to the kernel.)                            *)
DriveHeld == Attached /\ s.drv # "cam" => s.res = s.fd /\ (s.is_tape_locked => s.locked)

(* The name and the barcode of a volume are in the memory of the cartridge and in the copy that LTFS *)
(* keeps, or a failed update changed neither; of the media pool one part is updated and one stays, and *)
(* both are in the memory of the cartridge if the update succeeded.                                    *)
UpdateExact ==
  [][call'.op = "update" =>
       LET a == call'.arg.d v == call'.arg.p
       IN  /\ call'.ok => s'.cm[a] = s'.t_attr[a]
           /\ \/ a = "MEDIA_POOL" /\ s'.t_attr[a] \in {10 * (s.t_attr[a] \div 10) + v, 10 * v + (s.t_attr[a] % 10)}
              \/ s'.t_attr[a] = (IF call'.ok THEN v ELSE s.t_attr[a]) /\ s'.cm[a] = s'.t_attr[a]]_vars

(* No order of locks, write errors, resets and mounts takes back a lock for good that an index on the *)
(* tape has, nor, as long as the memory of the cartridge can be read, the mark of a permanent write    *)
(* error or that lock in this memory.  A lock for good that no index has is excepted (PermLockKept).   *)
LockKept ==
  [][scene.calls = "locks" =>
       LET before  == s.cm["LOCKED_MAM"] after == s'.cm["LOCKED_MAM"]
           forever == s.newest.vollock = PERMLOCKED_MAM
       IN  /\ forever => s'.newest.vollock = PERMLOCKED_MAM
           /\ before \in PWE_MAMS /\ ~s'.unread => after \in PWE_MAMS
           /\ before = PERMLOCKED_MAM /\ forever /\ ~s'.unread => after = PERMLOCKED_MAM]_vars

(* What _xattr_set_virtual says of ltfs.volumeLockState, "Advisory perm-locked tape cannot be updated": *)
(* the lock for good stays in the memory of the cartridge.                                              *)
PermLockKept ==
  [][scene.calls = "locks" /\ ~s'.unread /\ s.cm["LOCKED_MAM"] = PERMLOCKED_MAM => s'.cm["LOCKED_MAM"] = PERMLOCKED_MAM]_vars

=============================================================================
