--------------------------- MODULE WriteRequests ---------------------------
(***************************************************************************)
(* The data structures of the unified I/O scheduler (iosched/unified.c)    *)
(* and of its cache manager, and the functions that edit them.             *)
(*                                                                         *)
(* Each file that was written to has a dentry_priv: the list of its write  *)
(* requests in file order, each holding one cache block, and the list of   *)
(* extents its data has on the index partition (alt_extentlist).  A        *)
(* request is PARTIAL (not full yet), DP (to be written to the data        *)
(* partition) or IP (on the data partition, a copy still to be written to  *)
(* the index partition).                                                   *)
(*                                                                         *)
(* The operators take and return a record s of the scheduler's data:       *)
(*   dpr    file -> its dentry_priv                                        *)
(*   queue  state -> files with a request in that state, in queue order    *)
(*   total  state -> request counter (ws_, dp_ and ip_request_count)       *)
(*   ext    files in ext_queue                                             *)
(*   pool   the cache manager's free objects and current capacity          *)
(*   spare  the spare cache block of the write in progress                 *)
(*   disk   file -> its bytes as libltfs has them (see FileExtents)        *)
(*   ip     blocks written to the index partition                          *)
(* A byte is <<number of the write it is from, file offset>>.              *)
(***************************************************************************)
EXTENDS ExtentList, FiniteSets, SequencesExt

CONSTANTS Files,
          InitialCapacity, \* cache blocks the pool starts with
          MaxCapacity      \* cache blocks the pool may grow to (cache_blocks)

ASSUME PoolAssumption ==
  /\ InitialCapacity \in Nat \ {0} /\ MaxCapacity \in Nat
  /\ InitialCapacity <= MaxCapacity

Larger(a, b) == IF a >= b THEN a ELSE b

States == {"PARTIAL", "DP", "IP"}

ReqEnd(r) == r.offset + Len(r.data)

(* No dentry_priv. *)
NoPriv == [has |-> FALSE, file_size |-> 0, write_ip |-> FALSE, write_error |-> FALSE,
           requests |-> << >>, alt |-> << >>, in |-> [q \in States |-> 0]]

-----------------------------------------------------------------------------
(* The cache manager.  Memory allocation does not fail here. *)

HasRoom(pool) == pool.free > 0 \/ pool.cap < MaxCapacity

(* cache_manager_allocate_object, when there is room: an empty pool grows. *)
Allocate(pool) ==
  LET new_size == IF pool.cap * 2 < MaxCapacity THEN pool.cap * 2 ELSE MaxCapacity
  IN  IF pool.free > 0 THEN [pool EXCEPT !.free = @ - 1]
      ELSE [free |-> new_size - pool.cap - 1, cap |-> new_size]

(* Mutation: a freed object above the initial capacity is not given up. *)
FreeObject_NoShrink(pool) == [pool EXCEPT !.free = IF pool.cap > InitialCapacity THEN @ ELSE @ + 1]

(* cache_manager_free_object: the pool shrinks back to its initial capacity. *)
FreeObject(pool) ==
  IF pool.cap > InitialCapacity THEN [pool EXCEPT !.cap = @ - 1]
                                ELSE [pool EXCEPT !.free = @ + 1]

FreeBlock(s) == [s EXCEPT !.pool = FreeObject(@)]

FreeBlocks(s, n) ==
  LET Give[k \in 0 .. n] == IF k = 0 THEN s.pool ELSE FreeObject(Give[k - 1])
  IN  [s EXCEPT !.pool = Give[n]]

(* A block no longer needed becomes the spare block, or goes to the pool. *)
FreeOrSpare(s, keepspare) ==
  IF keepspare /\ ~s.spare THEN [s EXCEPT !.spare = TRUE] ELSE FreeBlock(s)

-----------------------------------------------------------------------------
(* _unified_update_queue_membership: requests are counted per file and      *)
(* globally, but not DP requests of a file whose blocks stay as IP requests. *)

Counted(s, f, q) == q # "DP" \/ ~s.dpr[f].write_ip

Enqueue(s, f, q) ==
  [s EXCEPT !.queue[q] = IF s.dpr[f].in[q] = 0 THEN Append(@, f) ELSE @,
            !.total[q] = IF Counted(s, f, q) THEN @ + 1 ELSE @,
            !.dpr[f].in[q] = @ + 1]

Dequeue(s, f, q, n) ==
  [s EXCEPT !.queue[q] = IF n > 0 /\ s.dpr[f].in[q] = n THEN Remove(@, f) ELSE @,
            !.total[q] = IF Counted(s, f, q) THEN @ - n ELSE @,
            !.dpr[f].in[q] = @ - n]

DequeueOne(s, f, q) == Dequeue(s, f, q, Smaller(1, s.dpr[f].in[q]))

DequeueAll(s, f, q) == Dequeue(s, f, q, s.dpr[f].in[q])

SetState(s, f, i, q) ==
  [Enqueue(DequeueOne(s, f, s.dpr[f].requests[i].state), f, q)
     EXCEPT !.dpr[f].requests[i].state = q]

DropRequest(s, f, i) == [s EXCEPT !.dpr[f].requests = RemoveAt(@, i)]

-----------------------------------------------------------------------------
(* How many bytes _unified_update_request copies into request r at off. *)
CopyCount(r, off, size) == Smaller(size, r.offset + BlockSize - off)

(* A full request takes every partial one before it along to the DP queue. *)
Filled(s, f, i, off) ==
  LET Take(t, j) == IF /\ t.dpr[f].requests[j].state = "PARTIAL"
                       /\ t.dpr[f].requests[j].offset <= off
                    THEN SetState(t, f, j, "DP") ELSE t
  IN  FoldLeft(Take, s, [j \in DOMAIN s.dpr[f].requests |-> j])

(* The data of request r once n bytes are copied in from position from on. *)
Copied(r, from, n, bytes) ==
  [k \in 1 .. Larger(from + n, Len(r.data)) |->
     IF k \in from + 1 .. from + n THEN bytes[k - from] ELSE r.data[k]]

(* Request i, with offset roff, holds data. *)
HoldData(s, f, i, roff, data) ==
  [s EXCEPT !.dpr[f].requests[i].data = data,
            !.dpr[f].file_size = Larger(@, roff + Len(data))]

(* _unified_update_request: bytes go into request i from off on, as far as  *)
(* its cache block has room.                                                *)
UpdateRequest(s, f, i, off, bytes) ==
  LET r    == s.dpr[f].requests[i]
      Put(data) == LET t == HoldData(s, f, i, r.offset, data)
                   IN  IF r.state = "PARTIAL" /\ Len(data) = BlockSize
                       THEN Filled(t, f, i, off) ELSE t
  IN  IF Len(bytes) = 0 THEN s
      ELSE Put(Copied(r, off - r.offset, CopyCount(r, off, Len(bytes)), bytes))

Mergeable(dest, src) ==
  dest.state = src.state \/ (dest.state # "IP" /\ src.state # "IP")

(* The bytes of src past the end of dest, and how many of them dest takes. *)
Rest(dest, src) == SubSeq(src.data, ReqEnd(dest) - src.offset + 1, Len(src.data))

Copies(dest, src) ==
  IF Mergeable(dest, src) /\ Len(dest.data) < BlockSize
  THEN CopyCount(dest, ReqEnd(dest), Len(Rest(dest, src))) ELSE 0

(* Request j, now src, loses its first gone bytes, or goes altogether. *)
ShedBytes(s, f, j, src, gone, keepspare) ==
  LET cut == [s EXCEPT !.dpr[f].requests[j].offset = @ + gone,
                       !.dpr[f].requests[j].data = SubSeq(@, gone + 1, Len(@))]
  IN  IF gone < Len(src.data)
      THEN [s |-> IF src.state = "DP" THEN SetState(cut, f, j, "PARTIAL") ELSE cut, did |-> 1]
      ELSE [s |-> FreeOrSpare(DequeueOne(DropRequest(s, f, j), f, src.state), keepspare),
            did |-> 2]

(***************************************************************************)
(* _unified_merge_requests: request src gives dest, before it in the list, *)
(* the bytes dest has room for and loses those dest already has.  Returns  *)
(* the data and 2 if src was freed, 1 if it was changed, 0 otherwise.      *)
(***************************************************************************)
MergeRequests(s, f, i, j, keepspare) ==
  LET Shed(t, gone) == ShedBytes(t, f, j, t.dpr[f].requests[j], gone, keepspare)
      Merge(dest, src, over, copies) ==
        IF over < 0 \/ over + copies = 0 THEN [s |-> s, did |-> 0]
        ELSE Shed(IF copies > 0 THEN UpdateRequest(s, f, i, ReqEnd(dest), Rest(dest, src)) ELSE s,
                  over + copies)
      Pair(dest, src) == Merge(dest, src, ReqEnd(dest) - src.offset, Copies(dest, src))
  IN  IF i = 0 THEN [s |-> s, did |-> 0]
      ELSE Pair(s.dpr[f].requests[i], s.dpr[f].requests[j])

-----------------------------------------------------------------------------
(* _unified_insert_new_request before request i, when a block can be had.   *)

CanInsert(s) == s.spare \/ HasRoom(s.pool)

InsertRequest(s, f, i, off, bytes, ip) ==
  LET data == SubSeq(bytes, 1, Smaller(Len(bytes), BlockSize))
      q    == CASE ip -> "IP" [] ~ip /\ Len(data) = BlockSize -> "DP" [] OTHER -> "PARTIAL"
      s1   == IF s.spare THEN [s EXCEPT !.spare = FALSE]
                         ELSE [s EXCEPT !.pool = Allocate(@)]
      s2   == [s1 EXCEPT !.dpr[f].requests = InsertAt(@, i, [offset |-> off, data |-> data,
                                                             state |-> q])]
      s3   == Enqueue(s2, f, q)
  IN  [s3 EXCEPT !.dpr[f].file_size = Larger(@, off + Len(data))]

(* Mutation: the DP requests stay hidden from the counter. *)
UnsetWriteIp_Hidden(s, f) ==
  LET IsIp(r)  == r.state = "IP"
      NotIp(r) == ~IsIp(r)
      ips      == Len(SelectSeq(s.dpr[f].requests, IsIp))
      s1       == [s EXCEPT !.dpr[f].write_ip = FALSE,
                            !.dpr[f].requests = SelectSeq(@, NotIp),
                            !.dpr[f].alt = << >>,
                            !.ext = IF s.dpr[f].alt # << >> THEN Remove(@, f) ELSE @]
  IN  FreeBlocks(DequeueAll(s1, f, "IP"), ips)

(* _unified_unset_write_ip: IP requests and IP extents are dropped and the  *)
(* DP requests count again.                                                 *)
UnsetWriteIp(s, f) ==
  LET IsIp(r)  == r.state = "IP"
      NotIp(r) == ~IsIp(r)
      drops    == s.dpr[f].in["IP"] > 0
      ips      == IF drops THEN Len(SelectSeq(s.dpr[f].requests, IsIp)) ELSE 0
      s1       == [s EXCEPT !.dpr[f].write_ip = FALSE,
                            !.dpr[f].requests = IF drops THEN SelectSeq(@, NotIp) ELSE @,
                            !.total["DP"] = @ + s.dpr[f].in["DP"],
                            !.dpr[f].alt = << >>,
                            !.ext = IF s.dpr[f].alt # << >> THEN Remove(@, f) ELSE @]
  IN  FreeBlocks(DequeueAll(s1, f, "IP"), ips)

SetWriteIp(s, f) ==
  [s EXCEPT !.dpr[f].write_ip = TRUE, !.total["DP"] = @ - s.dpr[f].in["DP"]]

=============================================================================
