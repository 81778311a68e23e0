----------------------------- MODULE IndexStore -----------------------------
(***************************************************************************)
(* How a volume keeps its metadata on tape: ltfs_write_index(),            *)
(* ltfs_sync_index(), the data writes that share the two partitions with   *)
(* the indexes, ltfs_unmount(), ltfs_mount(), the consistency check behind *)
(* a mount (ltfs_check_medium()) and the position check of                 *)
(* ltfs_revalidate().                                                      *)
(*                                                                         *)
(* The tape is the real one, block by block: two partitions of filemarks,  *)
(* data blocks, full and incremental indexes and indexes cut short.  A     *)
(* write at a block truncates the partition there, as on tape.  The host   *)
(* may crash between any two device commands; a command may be refused     *)
(* with a unit attention (the NEED_REVAL class), which can also cost       *)
(* blocks the drive had only buffered; a MAM write may fail unnoticed.     *)
(*                                                                         *)
(* A change of the file system is a number; an index is the set of the     *)
(* changes it describes.  A change with data is the number on the block.   *)
(***************************************************************************)
EXTENDS Integers, Sequences, FiniteSets, FiniteSetsExt

CONSTANTS
    Volumes,     \* how a volume may be set up and what may happen to it, see Settings
    MaxChanges   \* bound: changes of the file system

(***************************************************************************)
(* The settings of a volume:                                               *)
(*   parts     partitions the data placement policy may choose             *)
(*   types     index types a sync may ask for                              *)
(*   interval  vol->full_index_interval                                    *)
(*   extra     altfsck --full-recovery: opt->recover_blocks                *)
(*   mam       a MAM write may fail unnoticed                              *)
(*   crashes, faults   bounds: crashes, and refused commands               *)
(***************************************************************************)
Settings ==
    [parts : SUBSET {"ip", "dp"}, types : SUBSET {"auto", "full", "inc"}, interval : Int,
     extra : BOOLEAN, mam : BOOLEAN, crashes : Nat, faults : Nat]

ASSUME VolumesAssumption == Volumes \subseteq Settings
ASSUME BoundsAssumption == MaxChanges \in Nat

VARIABLES
    set,         \* the settings of the volume, one of Volumes
    tape,        \* partition -> sequence of records; the first is block 4
    flushed,     \* partition -> first block the drive may still lose
    mam,         \* partition -> coherency attribute in the cartridge memory
    session,     \* "off", "altfs" or "altfsck"
    index,       \* vol->index
    file_end,    \* vol->ip_index_file_end, vol->dp_index_file_end
    append_pos,  \* vol->device->append_pos; 0 is end of data
    coh,         \* vol->ip_coh, vol->dp_coh (count and set_id)
    journal,     \* changes in the incremental journal
    to_go,       \* vol->full_index_to_go
    old,         \* old_selfptr, old_backptr, generation_inc of ltfs_write_index()
    todo,        \* what the holder of the write lock still has to do
    pend,        \* syncs that decided what to write and wait for the lock
    loose,       \* data blocks written, extent not yet added
    chk,         \* locals of ltfs_check_medium()
    where,       \* history: change -> block of its data, Null without data
    durable,     \* history: changes a successful sync or unmount promised
    clean,       \* history: the last thing done to the tape was an unmount
    faults, crashes

vars == <<set, tape, flushed, mam, session, index, file_end, append_pos, coh, journal,
          to_go, old, todo, pend, loose, chk, where, durable, clean, faults, crashes>>

Parts == {"ip", "dp"}
Other(p) == IF p = "ip" THEN "dp" ELSE "ip"
Ptr(p, b) == [p |-> p, b |-> b]
Null == Ptr("none", 0)

-----------------------------------------------------------------------------
(* The medium: blocks 0 to 3 are the label, what follows is "tape". *)

Base == 4
FM == [k |-> "fm"]
Data(n) == [k |-> "data", id |-> n]
Torn(t) == [k |-> "torn", t |-> t]
Inc(delta) == [k |-> "inc", delta |-> delta]
Full(i) == [k |-> "full", gen |-> i.gen, self |-> i.self, back |-> i.back,
            content |-> i.content]

EOD(p) == Base + Len(tape[p])
At(p, b) == tape[p][b - Base + 1]
BlocksFrom(p, b) == b .. EOD(p) - 1
Marks(p) == {b \in BlocksFrom(p, Base) : At(p, b) = FM}
Fulls(p) == {b \in BlocksFrom(p, Base) : At(p, b).k = "full"}
Newest(S) == IF S = {} THEN 0 ELSE Max(S)

(* The pointer checks of ltfs_read_index() on the full index at block b of p. *)
Acceptable(p, b) ==
    LET r == At(p, b)
    IN  /\ r.self = Ptr(p, b)
        /\ r.back # Null => r.back.p = "dp" /\ r.back.b > Base
        /\ p = "dp" /\ r.back # Null /\ b # 5 /\ r.back.b # b => r.back.b < b - 2
Indexes(p) == {b \in Fulls(p) : Acceptable(p, b)}

(* The position tape_seek_append_position() locates to. *)
AppendBlock(p) == IF append_pos[p] = 0 THEN EOD(p) ELSE append_pos[p]

(* Mutation: the append position stays where the block went. *)
Advanced_Not(p, b) == [append_pos EXCEPT ![p] = b]

(* tape_write() and tape_write_filemark() move the append position on. *)
Advanced(p, b) == [append_pos EXCEPT ![p] = b + 1]

(* A record written at block b of p: what followed is gone, the volume       *)
(* change reference moves on, and locating to p has flushed the other side.  *)
PutFrom(safe, p, b, r) ==
    /\ tape' = [tape EXCEPT ![p] = Append(SubSeq(@, 1, b - Base), r)]
    /\ flushed' = [safe EXCEPT ![p] = IF b < @ THEN b ELSE @, ![Other(p)] = EOD(Other(p))]
    /\ mam' = [q \in Parts |-> [mam[q] EXCEPT !.fresh = FALSE]]
    /\ clean' = FALSE

Put(p, b, r) == PutFrom(flushed, p, b, r)

(* Mutation: the filemark is written with the immediate bit. *)
PutSynced_Buffered(p, b) == Put(p, b, FM)

(* A filemark written without the immediate bit: it is on tape, and so is    *)
(* everything before it.                                                     *)
PutSynced(p, b) ==
    /\ tape' = [tape EXCEPT ![p] = Append(SubSeq(@, 1, b - Base), FM)]
    /\ flushed' = [q \in Parts |-> IF q = p THEN b + 1 ELSE EOD(q)]
    /\ mam' = [q \in Parts |-> [mam[q] EXCEPT !.fresh = FALSE]]
    /\ clean' = FALSE

(* The tape t after the drive lost some of the blocks it had not flushed.    *)
Shortened(t, safe) ==
    {[ip |-> SubSeq(t["ip"], 1, i), dp |-> SubSeq(t["dp"], 1, d)] :
        i \in safe["ip"] - Base .. Len(t["ip"]), d \in safe["dp"] - Base .. Len(t["dp"])}

-----------------------------------------------------------------------------
(* Sessions. *)

Blank == [gen |-> 0, self |-> Null, back |-> Null, content |-> {},
          dirty |-> FALSE, inc_dirty |-> FALSE]

Loaded(r) == [gen |-> r.gen, self |-> r.self, back |-> r.back, content |-> r.content,
              dirty |-> FALSE, inc_dirty |-> FALSE]

Idle == session = "altfs" /\ todo = <<>>
Running(d) == todo # <<>> /\ Head(todo).do = d
Do(d, p, t) == [do |-> d, p |-> p, t |-> t]

(* ltfs_set_index_dirty() *)
Dirtied(i) == [i EXCEPT !.dirty = TRUE, !.inc_dirty = TRUE]
Changed(i, n) == [Dirtied(i) EXCEPT !.content = @ \cup {n}]

(* Mutation: only the first change after an index is recorded. *)
Journalled_Once(n) == IF journal = {} THEN {n} ELSE journal

(* The incremental journal once it has the change n, incj_create() and others. *)
Journalled(n) == journal \cup {n}

(* The process is gone, and with it everything it kept in memory. *)
Over ==
    /\ session' = "off" /\ index' = Blank /\ old' = Blank
    /\ file_end' = [p \in Parts |-> FALSE]
    /\ append_pos' = [p \in Parts |-> 0]
    /\ coh' = [p \in Parts |-> [count |-> 0, id |-> 0]]
    /\ journal' = {} /\ pend' = {} /\ loose' = {} /\ to_go' = 0
    /\ todo' = <<>> /\ chk' = [have |-> FALSE]

(* Where the error of a command goes: past the call whose result the mount   *)
(* ignores, if that is the call being made, or up to the operation.          *)
IgnoredAt == {i \in DOMAIN todo : /\ todo[i].do = "ignored"
                                 /\ \A j \in 2 .. i : todo[j].do # "begin"}
PastIgnored == SubSeq(todo, Max(IgnoredAt) + 1, Len(todo))
Operation == todo[Len(todo)]

(* A device command is refused with a unit attention, and the volume has to  *)
(* be revalidated; t and safe are the tape and its flushed part as the       *)
(* command left them.                                                        *)
Refused(t, safe) ==
    /\ faults < set.faults
    /\ faults' = faults + 1
    /\ tape' \in Shortened(t, safe)
    /\ flushed' = [q \in Parts |-> Base + Len(tape'[q])]
    /\ todo' = IF IgnoredAt # {} THEN PastIgnored ELSE <<Do("reval", "none", Operation)>>

(* The append position lies behind the end of data: the locate fails, and    *)
(* with it the operation.  A mount or an unmount that fails ends the session.*)
SeekError ==
    /\ IF IgnoredAt = {} /\ Operation.do \in {"mount", "unmounted"} THEN Over
       ELSE /\ todo' = IF IgnoredAt # {} THEN PastIgnored ELSE <<>>
            /\ UNCHANGED <<session, index, old, file_end, append_pos, coh, journal, pend,
                           loose, to_go, chk>>
    /\ UNCHANGED <<tape, flushed, mam, clean, faults>>

Init ==
    /\ set \in Volumes
    /\ tape = [p \in Parts |->
                <<FM, Full([gen |-> 1, self |-> Ptr(p, 5), content |-> {},
                            back |-> IF p = "ip" THEN Ptr("dp", 5) ELSE Null]), FM>>]
    /\ flushed = [p \in Parts |-> 7]
    /\ mam = [p \in Parts |-> [count |-> 1, id |-> 5, fresh |-> TRUE, known |-> TRUE]]
    /\ session = "off" /\ index = Blank /\ old = Blank
    /\ file_end = [p \in Parts |-> FALSE]
    /\ append_pos = [p \in Parts |-> 0]
    /\ coh = [p \in Parts |-> [count |-> 0, id |-> 0]]
    /\ journal = {} /\ pend = {} /\ loose = {} /\ to_go = 0
    /\ todo = <<>> /\ chk = [have |-> FALSE]
    /\ where = <<>> /\ durable = {} /\ clean = TRUE
    /\ faults = 0 /\ crashes = 0

-----------------------------------------------------------------------------
(* ltfs_write_index() *)

Due == set.interval >= 0 /\ to_go = 0

(* _ltfs_resolve_index_type() *)
Resolve(t) ==
    LET u == IF t = "auto" THEN (IF Due THEN "full" ELSE "inc") ELSE t
    IN  IF u = "inc" /\ journal = {} THEN "full" ELSE u

(* Is an index on the data partition missing, or older than the one the      *)
(* index partition is about to lose?                                         *)
DpBehind == ~file_end["dp"] \/ (file_end["ip"] /\ index.self.p = "ip")

(* The type is settled; an index for the index partition may first need one  *)
(* on the data partition.                                                    *)
Begin ==
    /\ Running("begin")
    /\ LET s == Head(todo)
           t == IF s.p = "dp" THEN Resolve(s.t) ELSE "full"
           first == s.p = "ip" /\ DpBehind
       IN /\ todo' = (IF first THEN <<Do("mark", "dp", "full"), Do("mark", "ip", "full")>>
                      ELSE <<Do("mark", s.p, t)>>) \o Tail(todo)
          /\ journal' = IF first THEN {} ELSE journal
    /\ UNCHANGED <<tape, flushed, mam, session, index, file_end, append_pos, coh, to_go,
                   old, pend, loose, chk, where, durable, clean, faults, crashes>>

(* The index about to be written at block b: an incremental one takes the    *)
(* generation only.                                                          *)
Stamped(p, b, t) ==
    [index EXCEPT !.gen = IF index.dirty THEN @ + 1 ELSE @,
                  !.self = IF t = "full" THEN Ptr(p, b) ELSE @,
                  !.back = IF t = "full" /\ index.self.p = "dp" THEN index.self ELSE @]

(* Generation, position, pointers, and the filemark in front of the index    *)
(* (buffered; data on the index partition is flushed first).                 *)
Mark ==
    /\ Running("mark")
    /\ LET s == Head(todo)
           b == AppendBlock(s.p)
           next == Stamped(s.p, b + 1, s.t)
           safe == IF s.p = "ip" /\ ~file_end["ip"] THEN [flushed EXCEPT !["ip"] = EOD("ip")]
                   ELSE flushed
       IN \/ b > EOD(s.p) /\ SeekError
          \/ /\ b <= EOD(s.p)
             /\ PutFrom(safe, s.p, b, FM)
             /\ index' = next /\ old' = index
             /\ append_pos' = Advanced(s.p, b)
             /\ todo' = <<Do("xml", s.p, s.t)>> \o Tail(todo)
             /\ UNCHANGED <<session, file_end, coh, journal, to_go, pend, loose, chk, faults>>
          \/ /\ b <= EOD(s.p)
             /\ Refused(tape, flushed)
             /\ \/ UNCHANGED <<index, append_pos>>
                \/ /\ index' = IF s.t = "full" THEN index ELSE next
                   /\ append_pos' = [append_pos EXCEPT ![s.p] = b]
             /\ UNCHANGED <<mam, session, file_end, coh, journal, to_go, old, pend, loose,
                            chk, clean>>
    /\ UNCHANGED <<where, durable, crashes>>

(* Mutation: a failed full index leaves its pointers behind. *)
RolledBack_Not(t) == index

(* What a failed full index takes back.  A failed incremental index leaves   *)
(* the generation where it was put.                                          *)
RolledBack(t) == IF t = "full" THEN old ELSE index

(* The index itself, xml_schema_to_tape().  Writing an incremental one       *)
(* empties the journal, whether or not the blocks reach the tape.            *)
Xml ==
    /\ Running("xml")
    /\ LET s == Head(todo)
           b == EOD(s.p)
           torn == [tape EXCEPT ![s.p] = Append(@, Torn(s.t))]
       IN /\ journal' = IF s.t = "inc" THEN {} ELSE journal
          /\ \/ /\ Put(s.p, b, IF s.t = "full" THEN Full(index) ELSE Inc(journal))
                /\ append_pos' = Advanced(s.p, b)
                /\ todo' = <<Do("close", s.p, s.t)>> \o Tail(todo)
                /\ UNCHANGED <<index, faults>>
             \/ /\ Refused(tape, flushed)
                /\ index' = RolledBack(s.t)
                /\ UNCHANGED <<append_pos, mam, clean>>
             \/ /\ Refused(torn, flushed)
                /\ index' = RolledBack(s.t)
                /\ append_pos' = Advanced(s.p, b)
                /\ UNCHANGED <<mam, clean>>
    /\ UNCHANGED <<session, file_end, coh, to_go, old, pend, loose, chk, where, durable,
                   crashes>>

(* The filemark behind the index, which flushes the drive's buffer.  The     *)
(* flush that follows it may be refused with the filemark already written:   *)
(* the append position then still names the filemark.                        *)
Close ==
    /\ Running("close")
    /\ LET s == Head(todo)
           b == EOD(s.p)
           marked == [tape EXCEPT ![s.p] = Append(@, FM)]
       IN \/ /\ PutSynced(s.p, b)
             /\ append_pos' = Advanced(s.p, b)
             /\ file_end' = [file_end EXCEPT ![s.p] = s.t = "full"]
             /\ todo' = (IF s.t = "full" THEN <<Do("mam", "ip", "full"), Do("mam", "dp", "full")>>
                         ELSE <<>>) \o <<Do("end", s.p, s.t)>> \o Tail(todo)
             /\ UNCHANGED <<index, faults>>
          \/ /\ Refused(tape, flushed) \/ Refused(marked, flushed)
             /\ index' = RolledBack(s.t)
             /\ UNCHANGED <<append_pos, file_end, mam, clean>>
    /\ UNCHANGED <<session, coh, journal, to_go, old, pend, loose, chk, where, durable,
                   crashes>>

(* Mutation: the coherency data keeps the generation and block it had. *)
Coherency_Stale(p) == coh[p]

(* The generation and block recorded for the partition p. *)
Coherency(p) ==
    IF index.self.p = p THEN [count |-> index.gen, id |-> index.self.b] ELSE coh[p]

(* One partition's share of ltfs_update_cart_coherency().  Its failure is    *)
(* not noticed.                                                              *)
Mam ==
    /\ Running("mam")
    /\ LET p == Head(todo).p
           c == Coherency(p)
       IN IF file_end[p]
          THEN /\ coh' = [coh EXCEPT ![p] = c]
               /\ \/ mam' = [mam EXCEPT ![p] = [count |-> c.count, id |-> c.id,
                                                fresh |-> TRUE, known |-> TRUE]]
                  \/ set.mam /\ mam' = [mam EXCEPT ![p].known = mam[p].fresh]
          ELSE UNCHANGED <<coh, mam>>
    /\ todo' = Tail(todo)
    /\ UNCHANGED <<tape, flushed, session, index, file_end, append_pos, journal, to_go, old,
                   pend, loose, chk, where, durable, clean, faults, crashes>>

(* ltfs_unset_index_dirty(): only a full index makes the index clean. *)
Cleaned(t) == [index EXCEPT !.dirty = @ /\ t # "full", !.inc_dirty = FALSE]

(* Mutation: incremental indexes are not counted. *)
CountDown_Not(t) == IF t = "full" THEN set.interval ELSE to_go

CountDown(t) ==
    CASE t = "full" -> set.interval
      [] t = "inc" /\ to_go > 0 -> to_go - 1
      [] OTHER -> to_go

(* The next index of the index partition replaces this one. *)
Reposition(p) == IF p = "ip" THEN [append_pos EXCEPT !["ip"] = index.self.b - 1] ELSE append_pos

(* The bookkeeping at the end of ltfs_write_index(). *)
End ==
    /\ Running("end")
    /\ LET s == Head(todo)
       IN /\ index' = Cleaned(s.t)
          /\ to_go' = CountDown(s.t)
          /\ append_pos' = IF s.t = "full" THEN Reposition(s.p) ELSE append_pos
          /\ journal' = IF s.t = "full" THEN {} ELSE journal
    /\ todo' = Tail(todo)
    /\ UNCHANGED <<tape, flushed, mam, session, file_end, coh, old, pend, loose, chk, where,
                   durable, clean, faults, crashes>>

-----------------------------------------------------------------------------
(* Operations of a mounted volume. *)

(* A change of metadata only: a file created, renamed, removed. *)
Change ==
    /\ Idle
    /\ Len(where) < MaxChanges
    /\ where' = Append(where, Null)
    /\ index' = Changed(index, Len(where'))
    /\ journal' = Journalled(Len(where'))
    /\ UNCHANGED <<tape, flushed, mam, session, file_end, append_pos, coh, to_go, old, todo,
                   pend, loose, chk, durable, clean, faults, crashes>>

(* Mutation: no index goes to the other partition first. *)
Conditional_Never(q) == <<>>

(* ltfs_write_index_conditional() for the partition q. *)
Conditional(q) ==
    IF (q = "ip" /\ ~file_end["ip"]) \/ (q = "dp" /\ DpBehind)
    THEN <<Do("begin", q, "full")>> ELSE <<>>

(* ltfs_fsraw_write_data(): an index goes to the other partition first. *)
WriteData(p) ==
    /\ Idle
    /\ Len(where) < MaxChanges
    /\ todo' = Conditional(Other(p)) \o <<Do("data", p, "full")>>
    /\ UNCHANGED <<tape, flushed, mam, session, index, file_end, append_pos, coh, journal,
                   to_go, old, pend, loose, chk, where, durable, clean, faults, crashes>>

(* A partition that takes data does not end in an index any more. *)
DataEnds(p) == [file_end EXCEPT ![p] = FALSE]

(* The block is written at the append position of the partition. *)
WriteBlock ==
    /\ Running("data")
    /\ LET p == Head(todo).p
           b == AppendBlock(p)
       IN /\ file_end' = DataEnds(p)
          /\ \/ /\ Put(p, b, Data(Len(where) + 1))
                /\ where' = Append(where, Ptr(p, b))
                /\ append_pos' = Advanced(p, b)
                /\ loose' = loose \cup {Len(where) + 1}
                /\ todo' = Tail(todo)
                /\ UNCHANGED faults
             \/ /\ Refused(tape, flushed)
                /\ append_pos' \in {append_pos, [append_pos EXCEPT ![p] = b]}
                /\ UNCHANGED <<mam, where, loose, clean>>
    /\ UNCHANGED <<session, index, coh, journal, to_go, old, pend, chk, durable, crashes>>

(* ltfs_fsraw_add_extent(): the file now refers to the block. *)
AddExtent(n) ==
    /\ Idle
    /\ loose' = loose \ {n}
    /\ index' = Changed(index, n)
    /\ journal' = Journalled(n)
    /\ UNCHANGED <<tape, flushed, mam, session, file_end, append_pos, coh, to_go, old, todo,
                   pend, chk, where, durable, clean, faults, crashes>>

(* The first half of ltfs_sync_index(), under the read lock: what to write,  *)
(* and where.  A sync with nothing to write succeeds at once.                *)
Sync(t) ==
    /\ LET write == index.dirty /\ (t = "full" \/ index.inc_dirty \/ (t = "auto" /\ Due))
           u == Resolve(t)
           p == IF u = "full" /\ file_end["dp"] /\ ~file_end["ip"] THEN "ip" ELSE "dp"
       IN /\ pend' = IF write THEN {[p |-> p, t |-> u]} ELSE {}
          /\ durable' = IF write THEN durable ELSE durable \cup index.content
    /\ UNCHANGED <<tape, flushed, mam, session, index, file_end, append_pos, coh, journal,
                   to_go, old, todo, loose, chk, where, clean, faults, crashes>>

SyncRead ==
    /\ Idle
    /\ \/ pend = {} /\ \E t \in set.types : Sync(t)
       \/ \E s \in pend : s.p = "none" /\ Sync(s.t)

(* The second half, under the write lock, with what was decided before. *)
SyncWrite ==
    /\ Idle
    /\ \E s \in pend :
        /\ s.p # "none"
        /\ todo' = <<Do("begin", s.p, s.t), Do("synced", s.p, s.t)>>
    /\ pend' = {}
    /\ UNCHANGED <<tape, flushed, mam, session, index, file_end, append_pos, coh, journal,
                   to_go, old, loose, chk, where, durable, clean, faults, crashes>>

Synced ==
    /\ Running("synced")
    /\ durable' = durable \cup index.content
    /\ todo' = Tail(todo)
    /\ UNCHANGED <<tape, flushed, mam, session, index, file_end, append_pos, coh, journal,
                   to_go, old, pend, loose, chk, where, clean, faults, crashes>>

(* Mutation: a modified index is not written if the last one was on the IP. *)
UnmountSteps_NotDirty ==
    (IF index.self.p # "ip" THEN <<Do("begin", "ip", "full")>> ELSE <<>>)
      \o <<Do("unmounted", "ip", "full")>>

(* ltfs_unmount(), once every file is closed. *)
UnmountSteps ==
    (IF index.dirty \/ index.self.p # "ip" THEN <<Do("begin", "ip", "full")>> ELSE <<>>)
      \o <<Do("unmounted", "ip", "full")>>

Unmount ==
    /\ session # "off" /\ todo = <<>> /\ pend = {} /\ loose = {}
    /\ todo' = UnmountSteps
    /\ UNCHANGED <<tape, flushed, mam, session, index, file_end, append_pos, coh, journal,
                   to_go, old, pend, loose, chk, where, durable, clean, faults, crashes>>

Unmounted ==
    /\ Running("unmounted")
    /\ durable' = durable \cup index.content
    /\ clean' = TRUE
    /\ Over
    /\ UNCHANGED <<tape, flushed, mam, where, faults, crashes>>

-----------------------------------------------------------------------------
(* The position check of ltfs_revalidate(), and _ltfs_revalidate_mam(). *)

(* The block behind the last filemark but one: where the index starts on a   *)
(* partition that ends in one.  The label ends in a filemark at block 3.     *)
LastFileStart(p) == 1 + Max({3} \cup (Marks(p) \ {EOD(p) - 1}))

EndsInIndex(p, ptr) ==
    /\ EOD(p) - 1 \in Marks(p)
    /\ ptr.p = p => ptr.b = LastFileStart(p)

MamAsKept == \A p \in Parts : mam[p].known /\ mam[p].count = coh[p].count /\ mam[p].id = coh[p].id

DpAsKept ==
    /\ file_end["dp"] => EndsInIndex("dp", IF index.self.p = "dp" THEN index.self ELSE index.back)
    /\ append_pos["dp"] = 0 => file_end["dp"]
    /\ append_pos["dp"] # 0 => append_pos["dp"] = EOD("dp")

IpAsKept ==
    /\ file_end["ip"] => EndsInIndex("ip", index.self)
    /\ append_pos["ip"] = 0 => file_end["ip"]
    /\ append_pos["ip"] # 0 =>
         append_pos["ip"] = (IF file_end["ip"] THEN LastFileStart("ip") ELSE EOD("ip")) - 1

TapeAsKept == MamAsKept /\ DpAsKept /\ IpAsKept

(* After a refused command the volume is revalidated.  A sync starts over,   *)
(* with the type it had resolved, and so does an unmount; a failed           *)
(* revalidation, and any refusal during a mount, ends the session.           *)
Revalidate ==
    /\ Running("reval")
    /\ LET s == Head(todo).t
       IN IF TapeAsKept /\ s.do # "mount"
          THEN /\ todo' = IF s.do = "unmounted" THEN UnmountSteps ELSE <<>>
               /\ pend' = IF s.do = "synced" THEN {[p |-> "none", t |-> s.t]} ELSE pend
               /\ UNCHANGED <<session, index, file_end, append_pos, coh, journal, to_go, old,
                              loose, chk>>
          ELSE Over
    /\ UNCHANGED <<tape, flushed, mam, where, durable, clean, faults, crashes>>

-----------------------------------------------------------------------------
(* ltfs_mount() and ltfs_check_medium() *)

(* ltfs_read_index() at the block MAM names. *)
Readable(ptr) == ptr.b \in Indexes(ptr.p)

AllFresh == \A p \in Parts : mam[p].fresh

(* The index a mount reads when the volume change reference is the recorded. *)
FastPtr == IF mam["ip"].count < mam["dp"].count THEN Ptr("dp", mam["dp"].id)
           ELSE Ptr("ip", mam["ip"].id)

(* altfs trusts MAM; altfsck always checks the medium. *)
Mount(who) ==
    /\ session = "off"
    /\ session' = who
    /\ coh' = [p \in Parts |-> [count |-> mam[p].count, id |-> mam[p].id]]
    /\ mam' = [p \in Parts |-> [mam[p] EXCEPT !.known = TRUE]]
    /\ IF who = "altfs" /\ AllFresh /\ FastPtr.b < EOD(FastPtr.p)
       THEN /\ Readable(FastPtr)
            /\ index' = Loaded(At(FastPtr.p, FastPtr.b))
            /\ todo' = (IF FastPtr.p = "dp" THEN <<Do("begin", "ip", "full")>> ELSE <<>>)
                         \o <<Do("mount", "ip", "full")>>
       ELSE /\ todo' = <<Do("check", "ip", "full"), Do("mount", "ip", "full")>>
            /\ UNCHANGED index
    /\ UNCHANGED <<tape, flushed, file_end, append_pos, journal, to_go, old, pend, loose, chk,
                   where, durable, clean, faults, crashes>>

(* ltfs_seek_index(): the last full index of the partition, where reading it *)
(* leaves the tape, whether a filemark closes it and whether blocks follow.  *)
Found(p) ==
    LET b == Newest(Indexes(p))
        fm == b # 0 /\ b + 1 \in Marks(p)
        past == IF b + 1 < EOD(p) THEN b + 2 ELSE b + 1
    IN  [have |-> b # 0, b |-> b, fm |-> fm, past |-> IF b = 0 THEN 0 ELSE past,
         eod |-> EOD(p), after |-> IF b = 0 THEN EOD(p) # Base ELSE past # EOD(p)]

OnTape == [ip |-> Found("ip"), dp |-> Found("dp")]

(* Both searches, and the filemarks missing behind an index. *)
Check ==
    /\ Running("check")
    /\ LET f == OnTape
           Fill(p) == IF f[p].have /\ ~f[p].after /\ ~f[p].fm THEN <<Do("fill", p, "full")>>
                      ELSE <<>>
       IN IF f["ip"].have \/ f["dp"].have
          THEN /\ chk' = [have |-> TRUE, f |-> f, which |-> "ip"]
               /\ coh' = [p \in Parts |-> IF f[p].have
                                          THEN [count |-> At(p, f[p].b).gen, id |-> f[p].b]
                                          ELSE coh[p]]
               /\ append_pos' = [p \in Parts |-> EOD(p)]
               /\ todo' = Fill("dp") \o Fill("ip") \o <<Do("decide", "ip", "full")>> \o Tail(todo)
               /\ UNCHANGED <<session, index, file_end, journal, to_go, old, pend, loose>>
          ELSE Over
    /\ UNCHANGED <<tape, flushed, mam, where, durable, clean, faults, crashes>>

Fill ==
    /\ Running("fill")
    /\ LET p == Head(todo).p
       IN \/ /\ PutSynced(p, EOD(p))
             /\ append_pos' = Advanced(p, EOD(p))
             /\ chk' = [chk EXCEPT !.f[p].eod = @ + 1]
             /\ todo' = Tail(todo)
             /\ UNCHANGED faults
          \/ /\ Refused(tape, flushed)
             /\ UNCHANGED <<append_pos, chk, mam, clean>>
    /\ UNCHANGED <<session, index, file_end, coh, journal, to_go, old, pend, loose, where,
                   durable, crashes>>

(* _ltfs_check_pointers(): the partition with the newer index, or "bad". *)
Newer(f) ==
    LET i == At("ip", f["ip"].b)
        d == At("dp", f["dp"].b)
    IN  CASE ~f["ip"].have -> "dp"
          [] ~f["dp"].have -> IF i.back = Null THEN "ip" ELSE "bad"
          [] i.gen >= d.gen /\ i.back = d.self -> "ip"
          [] OTHER ->
               IF \/ i.gen > d.gen
                  \/ /\ i.gen < d.gen \/ i.back # Null
                     /\ d.back.b > i.back.b
                     /\ \/ ~Readable(d.back)
                        \/ i.back = Null /\ At("dp", d.back.b).gen < i.gen
               THEN "bad" ELSE "dp"

(* _ltfs_last_ref(): the block behind the last one an index refers to. *)
Refs(content, p) == {where[n].b + 1 : n \in {m \in content : where[m].p = p}}
LastRef(content, p) == Newest(Refs(content, p))

(* _ltfs_check_extents() *)
ExtentsInside(content, f) == \A p \in Parts : \A e \in Refs(content, p) : e < f[p].eod

(* _ltfs_find_append_blk_after_idx(): 0 is end of data, -1 an error. *)
AppendAfter(p, b) ==
    LET marks == {m \in Marks(p) : m > b}
    IN  CASE Cardinality(marks) <= 1 -> 0
          [] Cardinality(marks) = 2 -> Max(marks)
          [] OTHER -> -1

(* ltfs_incindex_recovery(): the first block of every section behind the     *)
(* full index is looked at, up to an incremental index that no filemark      *)
(* closes.                                                                   *)
Sections(p, b) == {s \in BlocksFrom(p, b) \ Marks(p) : s = b \/ s - 1 \in Marks(p)}
Replay(b, eod) ==
    LET heads == {s \in Sections("dp", b) : s < eod}
        incs == {s \in heads : At("dp", s).k = "inc"}
        open == {s \in incs : s + 1 \notin Marks("dp")}
        reached == {s \in heads : \A o \in open : s <= o}
        used == incs \cap reached
    IN  [bad |-> \E s \in reached : At("dp", s) = Torn("inc"),
         deltas |-> {At("dp", s).delta : s \in used},
         count |-> Cardinality(used)]

Extra(f) == \E p \in Parts : f[p].after

(* Mutation: the append position stays at the end of data. *)
CutOff_Not(at) == append_pos

(* The filemark of an incomplete index is to be overwritten. *)
CutOff(at) == [append_pos EXCEPT !["dp"] = at]

(* The index to use, and what lies behind it on the data partition.  Only    *)
(* altfsck (deep) goes on past blocks that no index describes.               *)
Decide ==
    /\ Running("decide")
    /\ LET f == chk.f
           w == Newer(f)
           r == Loaded(At(w, f[w].b))
           i == IF w = "dp" \/ ~f["dp"].have THEN Dirtied(r) ELSE r
           rep == Replay(f["dp"].past, f["dp"].eod)
           behind == f["dp"].have /\ f["dp"].after
           at == AppendAfter("dp", f["dp"].b)
       IN IF \/ session = "altfs" /\ Extra(f)
             \/ w = "bad"
             \/ ~(f["ip"].have /\ f["dp"].have) /\ ~ExtentsInside(i.content, f)
             \/ behind /\ rep.bad
             \/ behind /\ rep.count = 0 /\ at = -1
          THEN Over
          ELSE /\ IF behind /\ rep.count > 0
                  THEN /\ index' = [Dirtied(i) EXCEPT !.gen = @ + rep.count,
                                                      !.content = @ \cup UNION rep.deltas]
                       /\ chk' = [chk EXCEPT !.f["dp"].after = FALSE, !.which = w]
                       /\ todo' = <<Do("begin", "dp", "full"), Do("begin", "ip", "full"),
                                    Do("settle", "ip", "full")>> \o Tail(todo)
                       /\ UNCHANGED append_pos
                  ELSE /\ index' = i
                       /\ chk' = IF behind THEN [chk EXCEPT !.f["dp"].eod = at, !.which = w]
                                 ELSE [chk EXCEPT !.which = w]
                       /\ append_pos' = IF behind THEN CutOff(at) ELSE append_pos
                       /\ todo' = <<Do("settle", "ip", "full")>> \o Tail(todo)
               /\ UNCHANGED <<session, file_end, coh, journal, to_go, old, pend, loose>>
    /\ UNCHANGED <<tape, flushed, mam, where, durable, clean, faults, crashes>>

(* _ltfs_populate_lost_found() for the blocks b .. eod - 1 of p. *)
LostData(p, b, eod) ==
    {At(p, s).id : s \in {x \in BlocksFrom(p, IF b > Base THEN b ELSE Base) :
                              x < eod /\ At(p, x).k = "data"}}

(* _ltfs_make_lost_found() *)
LostFound(f, content) ==
    UNION {LET l == LastRef(content, p)
           IN  IF f[p].past >= f[p].eod THEN {}
               ELSE LostData(p, IF l >= f[p].past THEN l + 1 ELSE f[p].past, f[p].eod)
           : p \in Parts}

(* The rest of ltfs_check_medium(): append positions, blocks recovered or    *)
(* given up, and the index files that restore consistency.  The result of    *)
(* the one for the index partition is ignored.                               *)
Settle ==
    /\ Running("settle")
    /\ LET f == chk.f
           ipself == IF chk.which = "ip" THEN index.self.b ELSE f["ip"].b
           at == AppendAfter("ip", ipself)
           ipafter == f["ip"].have /\ f["ip"].after
           g == IF ipafter THEN [f EXCEPT !["ip"].eod = at] ELSE f
           deep == Extra(f)
           last == LastRef(index.content, "ip")
           ipos == CASE ipafter /\ deep /\ ~set.extra /\ last >= f["ip"].past
                          /\ last < at -> last
                     [] ipafter -> ipself - 1
                     [] deep /\ ~set.extra /\ ~f["ip"].have /\ f["ip"].eod > Base -> Base
                     [] OTHER -> append_pos["ip"]
           dpos == IF deep /\ ~set.extra /\ ~f["dp"].have /\ f["dp"].eod > Base
                   THEN f["dp"].eod ELSE append_pos["dp"]
           i == CASE deep /\ set.extra ->
                       [Dirtied(index) EXCEPT !.content = @ \cup LostFound(g, index.content)]
                  [] deep /\ ~set.extra -> Dirtied(index)
                  [] OTHER -> index
       IN IF \/ ipafter /\ at = -1
             \/ i.dirty /\ dpos # 0 /\ LastRef(i.content, "dp") > dpos
          THEN Over
          ELSE /\ index' = i
               /\ append_pos' = [ip |-> ipos, dp |-> dpos]
               /\ file_end' = [p \in Parts |-> file_end[p] \/ (f[p].have /\ ~f[p].after)]
               /\ todo' = (IF i.dirty
                           THEN (IF f["dp"].have /\ ~f["dp"].after THEN <<>>
                                 ELSE <<Do("begin", "dp", "full")>>)
                                \o <<Do("begin", "ip", "full"), Do("ignored", "ip", "full")>>
                           ELSE <<Do("mam", "ip", "full"), Do("mam", "dp", "full")>>)
                          \o Tail(todo)
               /\ chk' = [have |-> FALSE]
               /\ UNCHANGED <<session, coh, journal, to_go, old, pend, loose>>
    /\ UNCHANGED <<tape, flushed, mam, where, durable, clean, faults, crashes>>

Ignored ==
    /\ Running("ignored")
    /\ todo' = Tail(todo)
    /\ UNCHANGED <<tape, flushed, mam, session, index, file_end, append_pos, coh, journal,
                   to_go, old, pend, loose, chk, where, durable, clean, faults, crashes>>

(* The end of ltfs_mount(): both partitions are taken to end in an index,    *)
(* and the index partition to be appended to where the current index starts. *)
Mounted ==
    /\ Running("mount")
    /\ append_pos' = [append_pos EXCEPT !["ip"] = index.self.b - 1]
    /\ file_end' = [p \in Parts |-> TRUE]
    /\ to_go' = set.interval
    /\ todo' = Tail(todo)
    /\ UNCHANGED <<tape, flushed, mam, session, index, coh, journal, old, pend, loose, chk,
                   where, durable, clean, faults, crashes>>

-----------------------------------------------------------------------------

(* The host, or the drive with it, fails.  An index being written may be cut *)
(* short.                                                                    *)
Crash ==
    /\ session # "off"
    /\ crashes < set.crashes
    /\ crashes' = crashes + 1
    /\ \/ tape' \in Shortened(tape, flushed)
       \/ /\ Running("xml")
          /\ tape' = [tape EXCEPT ![Head(todo).p] = Append(@, Torn(Head(todo).t))]
    /\ flushed' = [q \in Parts |-> Base + Len(tape'[q])]
    /\ Over
    /\ UNCHANGED <<mam, where, durable, clean, faults>>

WriteIndex == Begin \/ Mark \/ Xml \/ Close \/ Mam \/ End

Next ==
    /\ \/ Change \/ (\E p \in set.parts : WriteData(p)) \/ WriteBlock
       \/ (\E n \in loose : AddExtent(n))
       \/ SyncRead \/ SyncWrite \/ Synced \/ WriteIndex
       \/ Unmount \/ Unmounted \/ Revalidate
       \/ (\E who \in {"altfs", "altfsck"} : Mount(who))
       \/ Check \/ Fill \/ Decide \/ Settle \/ Ignored \/ Mounted
       \/ Crash
    /\ UNCHANGED set

Spec == Init /\ [][Next]_vars

-----------------------------------------------------------------------------
(* Properties *)

(* Whether altfsck can use the tape where its searches found f and w has    *)
(* the newer index, and what it would bring back; rep is what replaying the *)
(* incremental indexes gives.                                               *)
Behind(f) == f["dp"].have /\ f["dp"].after
Usable(f, w, rep) ==
    /\ f["ip"].have \/ f["dp"].have
    /\ w # "bad"
    /\ Behind(f) => /\ ~rep.bad
                    /\ rep.count > 0 \/ AppendAfter("dp", f["dp"].b) # -1
    /\ f["ip"].have /\ f["ip"].after => AppendAfter("ip", f["ip"].b) # -1
Contents(f, w, rep) == At(w, f[w].b).content \cup (IF Behind(f) THEN UNION rep.deltas ELSE {})

(* The tape as it is now: does altfsck get through, and with which changes? *)
Checked ==
    LET f == OnTape
        w == Newer(f)
        rep == Replay(f["dp"].past, f["dp"].eod)
        ok == Usable(f, w, rep)
    IN  [ok |-> ok, changes |-> IF ok THEN Contents(f, w, rep) ELSE {}]
Checkable == Checked.ok

(* Whatever a successful ltfs_sync_index() or ltfs_unmount() promised is     *)
(* brought back by the ltfs_check_medium() that follows a crash, wherever    *)
(* the crash hits: the newest index it finds and the incremental indexes     *)
(* behind it describe every such change.                                     *)
DurableOnTape == LET c == Checked IN c.ok => durable \subseteq c.changes

(* The ltfs_check_medium() that follows a crash never gives up: it finds an  *)
(* index, accepts its pointers, reads every incremental index behind it and  *)
(* knows where to append.                                                    *)
AlwaysCheckable == Checkable

(* _ltfs_check_pointers() never finds the newest indexes of the partitions   *)
(* in contradiction, wherever ltfs_write_index() was interrupted.            *)
PointersAgree == LET f == OnTape IN f["ip"].have \/ f["dp"].have => Newer(f) # "bad"

(* No index write, data write or recovery overwrites a live block: the data  *)
(* that the index in memory, or the one a check would load, refers to is on  *)
(* tape where its extent says.                                               *)
LiveDataIntact ==
    \A n \in Checked.changes \cup (IF Running("reval") THEN {} ELSE index.content) :
        where[n] # Null => /\ where[n].b < EOD(where[n].p)
                           /\ At(where[n].p, where[n].b) = Data(n)

(* When MAM is current (volume change reference unchanged since), the        *)
(* ltfs_mount() that trusts it instead of searching finds an index there     *)
(* with all that was promised.                                               *)
FastMountSound ==
    AllFresh => Readable(FastPtr) /\ durable \subseteq At(FastPtr.p, FastPtr.b).content

(* A volume that ltfs_unmount() left mounts without altfsck, even if its     *)
(* coherency data did not reach the MAM.                                     *)
UnmountedMounts ==
    clean /\ session = "off" =>
        \/ AllFresh
        \/ Checkable /\ ~Extra(OnTape)

(* A volume at rest passes its own ltfs_revalidate(): a cartridge nobody     *)
(* touched is never rejected, as long as the drive refused no command.  (With *)
(* data on the index partition it is rejected: the check expects the last    *)
(* index right behind the append position.)                                  *)
AcceptsOwnTape ==
    set.parts = {"dp"} /\ set.faults = 0 /\ session # "off" /\ todo = <<>> => TapeAsKept

(* Where vol->ip_index_file_end or dp_index_file_end says the partition ends *)
(* in an index, it does: ltfs_write_index() and ltfs_write_index_conditional *)
(* skip an index because of these flags.                                     *)
FileEndTrue ==
    session # "off" /\ todo = <<>> =>
        \A p \in Parts : file_end[p] => EOD(p) - 1 \in Marks(p) /\ EOD(p) - 2 \in Fulls(p)

(* With every sync left to the policy (_ltfs_resolve_index_type()), no more  *)
(* incremental indexes follow a full one than full_index_interval allows,    *)
(* mounts, unmounts and conditional indexes included.                        *)
FullIndexInTime ==
    set.interval >= 0 =>
        Cardinality({b \in BlocksFrom("dp", Newest(Fulls("dp"))) : At("dp", b).k = "inc"})
          <= set.interval

(* altfsck --full-recovery keeps every data block behind the last index of   *)
(* its partition.                                                            *)
LostBlocksRecovered ==
    [][Running("settle") /\ set.extra /\ session' # "off" =>
         \A p \in Parts : \A b \in BlocksFrom(p, Base) :
            b > chk.f[p].b /\ At(p, b).k = "data" => At(p, b).id \in index'.content]_vars

(* The newest generation that is on tape for good. *)
TopGeneration ==
    Newest(UNION {{At(p, b).gen : b \in {f \in Fulls(p) : f < flushed[p]}} : p \in Parts})
(* No step, in particular no ltfs_write_index() that replaces the index of   *)
(* the index partition, destroys the newest generation the drive has on      *)
(* tape, as long as the drive refuses no command.                            *)
GenerationKept == [][set.faults = 0 => TopGeneration' >= TopGeneration]_vars
=============================================================================
