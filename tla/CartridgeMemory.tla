-------------------------- MODULE CartridgeMemory --------------------------
(***************************************************************************)
(* The attributes in the memory of the cartridge (libltfs/tape.c): the     *)
(* copy t_attr that a volume keeps of them, and the calls that change both.*)
(*                                                                         *)
(* The value of an attribute is a number, 0 when it is empty.  Of the      *)
(* media pool the tens are its name and the ones its additional info.      *)
(* "OTHER" stands for the attributes that only a format writes.            *)
(***************************************************************************)
EXTENDS TapeDevice

(* mam_lockval: locks, permanent write errors of a partition, and of both. *)
UNLOCKED_MAM == 0
LOCKED_MAM == 1
PWE_MAM == 2
PERMLOCKED_MAM == 3
PWE_MAM_DP == 4
PWE_MAM_IP == 5
PWE_MAM_BOTH == 6
PWE_MAMS == {PWE_MAM, PWE_MAM_DP, PWE_MAM_IP, PWE_MAM_BOTH}

AllAttrs == {"MEDIUM_LABEL", "BARCODE", "LOCKED_MAM", "MEDIA_POOL", "OTHER"}

(* ltfs_volume_alloc: no copy of the attributes, and of the index the lock, the partition of its *)
(* selfptr and the partitions that end in an index.  (unread is history: since the mount, the     *)
(* status in the memory of the cartridge could not be read.)                                      *)
ltfs_volume_alloc ==
  [t_attr |-> [a \in {} |-> 0], vollock |-> UNLOCKED_MAM, lock_status |-> UNLOCKED_MAM, selfptr |-> 0,
   index_file_end |-> {}, unread |-> FALSE]

(* The attributes of this cartridge that have a copy. *)
Attrs(s) == DOMAIN s.cm \cap AllAttrs

(* Truncation: what is longer than its field ends with the field, and a blank is empty. *)
set_tape_attribute(s, name, barcode) ==
  [s EXCEPT !.t_attr = [a \in Attrs(s) |-> CASE a = "MEDIUM_LABEL" -> name
                                          [] a = "BARCODE"      -> barcode
                                          [] a = "OTHER"        -> 1
                                          [] OTHER              -> 0]]

tape_set_attribute_to_cm(s, attr) == backend_write_attribute(s, attr, s.t_attr[attr])

(* tape_format_attribute_to_cm: every attribute is tried, and the last failure is the result. *)
RECURSIVE format_attributes(_, _, _)
format_attributes(s, attrs, ret) ==
  IF attrs = {} THEN Out(s, ret)
  ELSE LET a == CHOOSE x \in attrs : TRUE
       IN  Then(tape_set_attribute_to_cm(s, a), LAMBDA o :
             format_attributes(o.s, attrs \ {a}, IF Failed(o.ret) THEN o.ret ELSE ret))

tape_format_attribute_to_cm(s) == format_attributes(s, Attrs(s), "GOOD")

tape_get_attribute_from_cm(s, attr) ==
  OnGood(backend_read_attribute(s), LAMBDA t : Out([t EXCEPT !.t_attr[attr] = t.cm[attr]], "GOOD"))

(* tape_load_all_attribute_from_cm: an attribute that cannot be read is empty. *)
RECURSIVE load_attributes(_, _)
load_attributes(s, attrs) ==
  IF attrs = {} THEN Out(s, "GOOD")
  ELSE LET a == CHOOSE x \in attrs : TRUE
       IN  Then(tape_get_attribute_from_cm(s, a), LAMBDA o :
             load_attributes([o.s EXCEPT !.unread = @ \/ (Failed(o.ret) /\ a = "LOCKED_MAM")], attrs \ {a}))

tape_load_all_attribute_from_cm(s) == load_attributes([s EXCEPT !.t_attr = [a \in Attrs(s) |-> 0]], Attrs(s))

(* Mutation: the copy keeps the value that the cartridge did not take. *)
taken_back_Never(o, attr, before) == o

(* Only the label and the barcode are taken back when the cartridge does not take them; a volume that *)
(* is not mounted has no copy.                                                                        *)
taken_back(o, attr, before) ==
  IF Failed(o.ret) /\ attr \in {"MEDIUM_LABEL", "BARCODE"} THEN [o EXCEPT !.s.t_attr[attr] = before] ELSE o

update_tape_attribute(s, attr, v) ==
  IF attr \notin DOMAIN s.t_attr THEN Out(s, "NO_ATTRIBUTES")
  ELSE {taken_back(o, attr, s.t_attr[attr]) : o \in tape_set_attribute_to_cm([s EXCEPT !.t_attr[attr] = v], attr)}

(* tape_get_cart_volume_lock_status, into a local of the caller: -1 when it cannot be read. *)
tape_get_cart_volume_lock_status(s) == backend_read_attribute(s)

(* The status that it finds: a cartridge without the attribute is unlocked. *)
VolumeLock(s) == IF "LOCKED_MAM" \in DOMAIN s.cm THEN s.cm["LOCKED_MAM"] ELSE UNLOCKED_MAM

tape_set_cart_volume_lock_status(s, status) ==
  Then(tape_get_cart_volume_lock_status(s), LAMBDA o :
    LET known == ~Failed(o.ret)
        cur   == VolumeLock(o.s)
        r     == [o.s EXCEPT !.unread = @ \/ ~known]
    IN  CASE known /\ cur = status -> Out(r, "GOOD")
          [] known /\ cur # status /\ cur = PERMLOCKED_MAM -> Out(r, "UNEXPECTED_VALUE")
          [] (~known \/ cur \notin {status, PERMLOCKED_MAM}) /\ status > PWE_MAM_BOTH -> Out(r, "UNEXPECTED_VALUE")
          [] OTHER -> OnGood(update_tape_attribute(r, "LOCKED_MAM", status), LAMBDA t :
                        Out([t EXCEPT !.vollock = IF status \in {LOCKED_MAM, PERMLOCKED_MAM} THEN status ELSE @,
                                      !.lock_status = status], "GOOD")))

(* tape_get_media_pool_info: both parts of the copy. *)
tape_get_media_pool_info(s) == [name |-> s.t_attr["MEDIA_POOL"] \div 10, info |-> s.t_attr["MEDIA_POOL"] % 10]

(* tape_set_media_pool_info: one part is replaced, the other stays. *)
tape_set_media_pool_info(s, v, is_name) ==
  LET cur == tape_get_media_pool_info(s)
  IN  update_tape_attribute(s, "MEDIA_POOL", IF is_name THEN 10 * v + cur.info ELSE 10 * cur.name + v)

=============================================================================
