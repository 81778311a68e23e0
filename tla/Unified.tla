------------------------------ MODULE Unified ------------------------------
(***************************************************************************)
(* The unified I/O scheduler: user threads that write, truncate, flush and *)
(* close files, and the background writer thread.                          *)
(*                                                                         *)
(* Every operation takes the scheduler lock for read and the file's        *)
(* iosched_lock; flushes on request and the writer's pass over the index   *)
(* partition queue take the scheduler lock for write.  An operation is one *)
(* step except where it lets these locks go: a write that finds no free    *)
(* cache block waits without locks and starts again, and the writer, once  *)
(* it has moved a file's requests to a list of its own, writes them under  *)
(* the file's io_lock alone.  An operation that needs the io_lock while    *)
(* the writer holds it waits.                                              *)
(***************************************************************************)
EXTENDS WriteRequests

CONSTANTS Users,       \* user threads
          Ranges,      \* bound: the <<offset, count>> of writes
          Lengths,     \* bound: the lengths files are truncated to
          MaxOps,      \* bound: writes, truncates, flushes, removals and renames
          MaxFilesize, \* index_criteria_get_max_filesize: largest file on the IP
          Faults,      \* ways a tape write may fail: of {"error", "perm", "no", "less", "transient"}
          Unlinks      \* files may be removed while open

ASSUME UnifiedAssumption ==
  /\ Ranges \subseteq Nat \X (Nat \ {0}) /\ Lengths \subseteq Nat /\ MaxOps \in Nat /\ MaxFilesize \in Nat
  /\ Faults \subseteq {"error", "perm", "no", "less", "transient"} /\ Unlinks \in BOOLEAN

VARIABLES
  dpr,      \* file -> dentry_priv
  queue,    \* working_set, dp_queue and ip_queue
  total,    \* ws_request_count, dp_request_count, ip_request_count
  ext,      \* ext_queue
  pool,     \* cache manager
  disk,     \* file -> bytes in libltfs
  ip,       \* blocks written to the index partition
  space,    \* partition -> "ok", "less" or "no" space; "error" after a hard error
  user,     \* user thread -> what it is doing
  writer,   \* the background thread
  opens,    \* file -> open handles
  linked,   \* file is in the directory tree
  matches,  \* file -> matches_name_criteria
  ops,      \* operations made
  content,  \* history: file -> the bytes its completed operations left
  reported, \* history: files for which a caller was told of an error
  failed,   \* history: files of which a tape write failed
  mounted,  \* unified_destroy was not called yet
  broken    \* memory that was freed, or an ext_queue entry linked twice, is used

sched == << dpr, queue, total, ext, pool, disk, ip, space, failed, broken >>
files == << opens, linked, matches >>
vars  == << sched, files, user, writer, ops, content, reported, mounted >>

Here(spare) ==
  [dpr |-> dpr, queue |-> queue, total |-> total, ext |-> ext, pool |-> pool,
   disk |-> disk, ip |-> ip, space |-> space, failed |-> failed, broken |-> broken, spare |-> spare]

Becomes(s) ==
  \E t \in {s} :
    /\ dpr' = t.dpr /\ queue' = t.queue /\ total' = t.total /\ ext' = t.ext
    /\ pool' = t.pool /\ disk' = t.disk /\ ip' = t.ip /\ space' = t.space
    /\ failed' = t.failed /\ broken' = t.broken

Idle == [pc |-> "idle", f |-> "none", off |-> 0, bytes |-> << >>]

WriterIdle == [pc |-> "idle", kind |-> "none", left |-> 0, f |-> "none", local |-> << >>,
               error |-> "none"]

(* The writer looks for the next file of its pass. *)
WriterLoop(w) == [WriterIdle EXCEPT !.pc = "loop", !.kind = w.kind, !.left = w.left]

NoError == [after |-> 0, kind |-> "none"]

(* A fault: which of the tape writes of a step fails, and how.  Bound: one *)
(* fault; the state it leaves the medium in may make later writes fail too. *)
FaultChoices ==
  {NoError} \cup {e \in [after : 1 .. 2, kind : Faults] : failed = {}}

Init ==
  /\ dpr = [f \in Files |-> NoPriv]
  /\ queue = [q \in States |-> << >>] /\ total = [q \in States |-> 0]
  /\ ext = << >>
  /\ pool = [free |-> InitialCapacity, cap |-> InitialCapacity]
  /\ disk = [f \in Files |-> << >>] /\ ip = << >>
  /\ space = [p \in {"IP", "DP"} |-> "ok"]
  /\ user = [u \in Users |-> Idle] /\ writer = WriterIdle
  /\ opens = [f \in Files |-> 0] /\ linked = [f \in Files |-> TRUE]
  /\ matches \in [Files -> BOOLEAN]
  /\ ops = 0
  /\ content = [f \in Files |-> << >>] /\ reported = {}
  /\ failed = {} /\ mounted = TRUE /\ broken = FALSE

(* d->numhandles: the tree, open handles and the dentry_priv. *)
NumHandles(s, f) == opens[f] + (IF linked[f] THEN 1 ELSE 0) + (IF s.dpr[f].has THEN 1 ELSE 0)

(* ltfs_get_volume_readonly *)
VolumeReadonly == "error" \in {space["IP"], space["DP"]} \/ space["IP"] = "no" \/ space["DP"] # "ok"

-----------------------------------------------------------------------------
(* The tape. *)

Overlay(bytes, off, data) ==
  IF data = << >> THEN bytes ELSE
  [k \in 1 .. Larger(Len(bytes), off + Len(data)) |->
     IF k \in off + 1 .. off + Len(data) THEN data[k - off]
     ELSE IF k <= Len(bytes) THEN bytes[k] ELSE Hole]

(* ltfs_fsraw_write to the data partition. *)
WriteDp(s, f, r) == [s EXCEPT !.disk[f] = Overlay(@, r.offset, r.data)]

Failing(s, p, fault) == s.space[p] # "ok" \/ (fault.kind # "none" /\ fault.after = 1)

Later(fault) == IF fault.after > 1 THEN [fault EXCEPT !.after = @ - 1] ELSE fault

(* How the write fails: as the medium is known to be, or with the new fault. *)
(* (FileExtents models the clean-up after a permanent error on the DP.)      *)
Kind(s, p, fault) == IF s.space[p] # "ok" THEN s.space[p] ELSE fault.kind

(* A failed write of f to partition p: the medium takes no more writes      *)
(* after a hard error, the partition none once it is full.                  *)
Fail(s, f, p, kind) ==
  [s EXCEPT !.failed = @ \cup {f},
            !.space = CASE kind \in {"error", "perm"} -> [q \in {"IP", "DP"} |-> "error"]
                        [] kind \in {"no", "less"} -> [@ EXCEPT ![p] = kind]
                        [] OTHER -> @]

(***************************************************************************)
(* _unified_handle_write_error: note the error for the file's next caller, *)
(* unless the index partition is just full, and drop the file's requests   *)
(* for the partition, or for both.                                         *)
(***************************************************************************)
HandleWriteError(s, f, state, kind) ==
  LET full      == kind \in {"no", "less"}
      clear_ip  == state = "IP" \/ ~full \/ s.space["IP"] # "ok"
      clear_dp  == state # "IP" \/ ~full \/ s.space["DP"] # "ok"
      Clears(r) == IF r.state = "IP" THEN clear_ip ELSE clear_dp
      Keeps(r)  == ~Clears(r)
      reqs      == s.dpr[f].requests
      kept      == SelectSeq(reqs, Keeps)
      Deq(t, q) == IF (q = "IP" /\ clear_ip) \/ (q # "IP" /\ clear_dp) THEN DequeueAll(t, f, q) ELSE t
      s1        == IF reqs = << >> THEN s ELSE FoldLeft(Deq, s, << "DP", "PARTIAL", "IP" >>)
      s2        == FreeBlocks(s1, Len(reqs) - Len(kept))
  IN  [s2 EXCEPT !.dpr[f].requests = kept,
                 !.dpr[f].write_error = @ \/ (kind # "none" /\ ~(state = "IP" /\ full)),
                 !.dpr[f].file_size =
                    FoldLeft(LAMBDA n, r : Larger(n, ReqEnd(r)), Len(s.disk[f]), kept)]

-----------------------------------------------------------------------------
(***************************************************************************)
(* unified_write.  A write in progress is a record w: the data s, the file *)
(* offset and bytes still to place, the request i looked at, the one the   *)
(* new bytes were last put in (prev, 0 for none), and stop when no cache   *)
(* block could be had.                                                     *)
(***************************************************************************)
Reqs(w, f) == w.s.dpr[f].requests

(* do_insert_before, and past the last request the append loop. *)
RECURSIVE InsertBefore(_, _)
InsertBefore(w, f) ==
  LET n == Smaller(Len(w.bytes), BlockSize)
  IN  IF w.bytes = << >> \/ (w.i <= Len(Reqs(w, f)) /\ w.off >= Reqs(w, f)[w.i].offset) THEN w
      ELSE IF ~CanInsert(w.s) THEN [w EXCEPT !.stop = TRUE]
      ELSE InsertBefore([w EXCEPT !.s = InsertRequest(@, f, w.i, w.off, w.bytes, FALSE),
                                  !.off = @ + n, !.bytes = SubSeq(@, n + 1, Len(@)),
                                  !.i = @ + 1, !.prev = w.i], f)

(* Bytes of the write go into request i. *)
Update(w, f, i) ==
  LET n == CopyCount(Reqs(w, f)[i], w.off, Len(w.bytes))
  IN  [w EXCEPT !.s = UpdateRequest(@, f, i, w.off, w.bytes),
                !.off = @ + n, !.bytes = SubSeq(@, n + 1, Len(@))]

NextRequest(w) == [w EXCEPT !.prev = w.i, !.i = @ + 1]

PassOver(w, f) == MergeRequests(w.s, f, w.prev, w.i, TRUE)

(* A copy for the index partition that the write overlaps is removed, cut   *)
(* at its front or back, or split.                                          *)
RemoveIp(w, f) ==
  [w EXCEPT !.s = FreeOrSpare(DequeueOne(DropRequest(@, f, w.i), f, "IP"), TRUE)]

CutIpFront(w, f) ==
  LET n == Len(w.bytes)
  IN  [w EXCEPT !.s.dpr[f].requests[w.i].offset = @ + n,
                !.s.dpr[f].requests[w.i].data = SubSeq(@, n + 1, Len(@))]

CutIpBack(w, f) ==
  [w EXCEPT !.s.dpr[f].requests[w.i].data = SubSeq(@, 1, w.off - Reqs(w, f)[w.i].offset)]

SplitIp(w, f) ==
  LET r    == Reqs(w, f)[w.i]
      from == w.off - r.offset + Len(w.bytes)
      new  == InsertRequest(w.s, f, w.i + 1, r.offset + from, SubSeq(r.data, from + 1, Len(r.data)), TRUE)
  IN  IF ~CanInsert(w.s) THEN [w EXCEPT !.stop = TRUE]
      ELSE [CutIpBack([w EXCEPT !.s = new], f) EXCEPT !.i = @ + 1]

RECURSIVE Traverse(_, _), Visit(_, _), DoAppend(_, _)
Traverse(w, f) ==
  LET Past(m) == Traverse([w EXCEPT !.s = m.s, !.i = IF m.did = 2 THEN @ ELSE @ + 1], f)
  IN  IF w.stop THEN w
      ELSE IF w.i > Len(Reqs(w, f)) THEN IF w.bytes = << >> THEN w ELSE DoAppend(w, f)
      ELSE IF w.off > ReqEnd(Reqs(w, f)[w.i]) THEN Past(PassOver(w, f))
      ELSE Visit(InsertBefore(w, f), f)

(* The bytes of the write and request i = r, once merging is done. *)
PlaceAt(w, f, r) ==
  CASE w.off < r.offset -> Visit(InsertBefore(w, f), f)
    [] r.offset <= w.off /\ r.state # "IP"
       /\ (w.off < ReqEnd(r) \/ (w.off = ReqEnd(r) /\ Len(r.data) < BlockSize)) ->
         Traverse(NextRequest(Update(w, f, w.i)), f)
    [] r.state = "IP" /\ w.off = r.offset /\ Len(w.bytes) >= Len(r.data) ->
         Traverse(RemoveIp(w, f), f)
    [] r.state = "IP" /\ w.off = r.offset /\ Len(w.bytes) < Len(r.data) ->
         Visit(InsertBefore(CutIpFront(w, f), f), f)
    [] r.state = "IP" /\ r.offset < w.off /\ w.off < ReqEnd(r)
       /\ w.off + Len(w.bytes) >= ReqEnd(r) ->
         Traverse(NextRequest(CutIpBack(w, f)), f)
    [] r.state = "IP" /\ r.offset < w.off /\ w.off + Len(w.bytes) < ReqEnd(r) ->
         Visit(InsertBefore(SplitIp(w, f), f), f)
    [] OTHER -> Traverse(NextRequest(w), f)

(* The request new bytes belong before or into. *)
Visit(w, f) ==
  LET Merged(v, did) ==
        CASE did = 2 -> Traverse(v, f)
          [] did = 0 /\ v.bytes = << >> -> v
          [] did = 1 /\ v.bytes = << >> -> Traverse(NextRequest(v), f)
          [] did # 2 /\ v.bytes # << >> -> PlaceAt(v, f, Reqs(v, f)[v.i])
      After(m) == Merged([w EXCEPT !.s = m.s], m.did)
  IN  IF w.stop THEN w ELSE After(PassOver(w, f))

(* Mutation: new bytes are added to a copy for the index partition. *)
DoAppend_IntoIp(w, f) ==
  LET reqs == Reqs(w, f)
      last == reqs[Len(reqs)]
      fits == reqs # << >> /\ w.off = ReqEnd(last) /\ Len(last.data) < BlockSize
      v    == IF fits THEN Update(w, f, Len(reqs)) ELSE w
  IN  IF reqs = << >> \/ w.off >= ReqEnd(last)
      THEN InsertBefore([v EXCEPT !.i = Len(reqs) + 1], f)
      ELSE Traverse([w EXCEPT !.i = 1, !.prev = 0], f)

(* do_append: a write past the last request does not traverse the list. *)
DoAppend(w, f) ==
  LET reqs == Reqs(w, f)
      last == reqs[Len(reqs)]
      fits == /\ reqs # << >> /\ w.off = ReqEnd(last)
              /\ Len(last.data) < BlockSize /\ last.state # "IP"
      v    == IF fits THEN Update(w, f, Len(reqs)) ELSE w
  IN  IF reqs = << >> \/ w.off >= ReqEnd(last)
      THEN InsertBefore([v EXCEPT !.i = Len(reqs) + 1], f)
      ELSE Traverse([w EXCEPT !.i = 1, !.prev = 0], f)

-----------------------------------------------------------------------------
(* The index partition. *)

(* Mutation: the older entry is kept whole after the new extent. *)
UpdateAlt_Behind(alt, x) == << x >> \o alt

(***************************************************************************)
(* _unified_update_alt_extentlist: extent x, the newest, takes its bytes   *)
(* from the entries it overlaps.  An entry that strictly contains x is     *)
(* kept as it is, before x: extents are applied in list order.             *)
(***************************************************************************)
UpdateAlt(alt, x) ==
  LET Contiguous(e) == /\ x.byteoffset = 0 /\ (e.byteoffset + e.bytecount) % BlockSize = 0
                       /\ e.block + (e.byteoffset + e.bytecount) \div BlockSize = x.block
      Step(a, e) ==
        LET b == IF ~a.used /\ x.fileoffset <= e.fileoffset
                 THEN [a EXCEPT !.list = Append(@, x), !.used = TRUE] ELSE a
            Keep(y) == [b EXCEPT !.list = Append(@, y)]
        IN CASE a.done \/ End(e) < x.fileoffset -> Keep(e)
             [] ~a.done /\ End(e) = x.fileoffset ->
                  IF Contiguous(e)
                  THEN [Keep([e EXCEPT !.bytecount = @ + x.bytecount]) EXCEPT !.used = TRUE]
                  ELSE Keep(e)
             [] ~a.done /\ e.fileoffset < x.fileoffset /\ x.fileoffset < End(e) ->
                  IF End(e) <= End(x) THEN Keep(CutBack(e, x.fileoffset)) ELSE Keep(e)
             [] ~a.done /\ x.fileoffset <= e.fileoffset /\ End(e) <= End(x) -> b
             [] ~a.done /\ x.fileoffset <= e.fileoffset
                /\ e.fileoffset < End(x) /\ End(x) < End(e) -> Keep(CutFront(e, End(x)))
             [] OTHER -> [Keep(e) EXCEPT !.done = TRUE]
      walked == FoldLeft(Step, [list |-> << >>, used |-> FALSE, done |-> FALSE], alt)
  IN  IF walked.used THEN walked.list ELSE Append(walked.list, x)

(* An empty list takes the file into ext_queue, where it may still be. *)
AddAlt(s, f, x) ==
  IF s.dpr[f].alt = << >>
  THEN [s EXCEPT !.dpr[f].alt = << x >>, !.ext = Append(@, f),
                 !.broken = @ \/ f \in ToSet(s.ext)]
  ELSE [s EXCEPT !.dpr[f].alt = UpdateAlt(@, x)]

(* Bytes of the index partition that extent e names. *)
BytesOf(s, e) ==
  [k \in 1 .. e.bytecount |->
     LET at == e.byteoffset + k - 1
     IN  s.ip[e.block + at \div BlockSize][(at % BlockSize) + 1]]

PushExtents(s, f) ==
  LET Push(t, e) == [t EXCEPT !.disk[f] = Overlay(@, e.fileoffset, BytesOf(t, e))]
  IN  [FoldLeft(Push, s, s.dpr[f].alt) EXCEPT !.dpr[f].alt = << >>]

(* _unified_free_dentry_priv_conditional *)
FreeConditional(s, f, target) ==
  IF /\ s.dpr[f].has /\ NumHandles(s, f) <= target
     /\ s.dpr[f].requests = << >> /\ s.dpr[f].alt = << >>
  THEN [s EXCEPT !.dpr[f] = NoPriv, !.broken = @ \/ f \in ToSet(s.ext)]
  ELSE s

(***************************************************************************)
(* The IP requests of one file, and the fault left for the next file.      *)
(* After a permanent write error the code goes on with the result of the   *)
(* MAM update in place of the error: kind none.                            *)
(***************************************************************************)
IpErrorKind(kind) == IF kind = "perm" THEN "none" ELSE kind

RECURSIVE WriteIp(_, _, _, _)
WriteIp(s, f, i, fault) ==
  LET r == s.dpr[f].requests[i]
      x == [partition |-> "IP", block |-> Len(s.ip) + 1, byteoffset |-> 0,
            bytecount |-> Len(r.data), fileoffset |-> r.offset]
      s1 == AddAlt([s EXCEPT !.ip = Append(@, r.data)], f, x)
  IN  IF i > Len(s.dpr[f].requests) THEN [s |-> s, fault |-> fault]
      ELSE IF r.state # "IP" THEN WriteIp(s, f, i + 1, fault)
      ELSE IF Failing(s, "IP", fault)
        THEN LET kind == Kind(s, "IP", fault)
             IN  [s |-> HandleWriteError(Fail(s, f, "IP", kind), f, "IP", IpErrorKind(kind)),
                  fault |-> NoError]
      ELSE WriteIp(FreeBlock(DropRequest(s1, f, i)), f, i, Later(fault))

ProcessIndexQueue(s, fault) ==
  LET Freed(w, f) == [s |-> FreeConditional(w.s, f, 2), fault |-> w.fault]
      One(a, f)   == Freed(WriteIp(DequeueAll(a.s, f, "IP"), f, 1, a.fault), f)
  IN  FoldLeft(One, [s |-> s, fault |-> fault], s.queue["IP"]).s

-----------------------------------------------------------------------------
(* A request on its way: after the data partition it becomes an IP request, *)
(* merged with the one before it.                                           *)
BecomeIp(s, f, i) ==
  MergeRequests(Enqueue([s EXCEPT !.dpr[f].requests[i].state = "IP"], f, "IP"), f, i - 1, i, FALSE)

DpWriteFails(s, f, r, fault) ==
  LET kind == Kind(s, "DP", fault)
  IN  HandleWriteError(Fail(s, f, "DP", kind), f, r.state, kind)

(* A request that stays in the list as a copy for the index partition. *)
KeptAsIp(s, f, i, r) ==
  IF r.state = "IP" THEN MergeRequests(s, f, i - 1, i, FALSE)
                    ELSE BecomeIp(WriteDp(s, f, r), f, i)

(* The request to look at after merging request i into the one before it. *)
AfterMerge(i, m) == IF m.did = 2 THEN i ELSE i + 1

(* _unified_flush_unlocked, request by request. *)
RECURSIVE FlushRequests(_, _, _, _)
FlushRequests(s, f, i, fault) ==
  LET Go(m, rest) == FlushRequests(m.s, f, AfterMerge(i, m), rest)
      One(r) ==
        IF r.state # "IP" /\ Failing(s, "DP", fault)
        THEN [s |-> DpWriteFails(s, f, r, fault), fault |-> NoError]
        ELSE IF r.state = "IP" \/ s.dpr[f].write_ip
        THEN Go(KeptAsIp(s, f, i, r), IF r.state = "IP" THEN fault ELSE Later(fault))
        ELSE FlushRequests(FreeBlock(DropRequest(WriteDp(s, f, r), f, i)), f, i, Later(fault))
  IN  IF i > Len(s.dpr[f].requests) THEN [s |-> s, fault |-> fault]
      ELSE One(s.dpr[f].requests[i])

(* _unified_get_write_error is read, and cleared, before and after. *)
FlushUnlocked(s, f, fault) ==
  LET Done(r) == [s |-> [r.s EXCEPT !.dpr[f].write_error = FALSE],
                  error |-> r.s.dpr[f].write_error, fault |-> r.fault]
  IN  IF ~s.dpr[f].has THEN [s |-> s, error |-> FALSE, fault |-> fault]
      ELSE IF s.dpr[f].write_error \/ s.dpr[f].requests = << >>
        THEN Done([s |-> s, fault |-> fault])
      ELSE Done(FlushRequests(DequeueAll(DequeueAll(s, f, "DP"), f, "PARTIAL"), f, 1, fault))

(* _unified_flush_all stops at the first file with an error, who. *)
FlushFiles(a, q) ==
  LET Flushed(f, r) == [s |-> r.s, fault |-> r.fault, who |-> IF r.error THEN {f} ELSE {}]
      One(b, f) == IF b.who # {} THEN b ELSE Flushed(f, FlushUnlocked(b.s, f, b.fault))
  IN  FoldLeft(One, a, a.s.queue[q])

FlushAllFiles(s, fault) ==
  FlushFiles(FlushFiles([s |-> s, fault |-> fault, who |-> {}], "DP"), "PARTIAL")

-----------------------------------------------------------------------------
(* User threads. *)

(* _unified_get_dentry_priv *)
GetDentryPriv(s, f) ==
  LET size == Len(s.disk[f])
  IN  IF s.dpr[f].has THEN s
      ELSE [s EXCEPT !.dpr[f] = [NoPriv EXCEPT
              !.has = TRUE, !.file_size = size,
              !.write_ip = matches[f] /\ MaxFilesize > 0 /\ size <= MaxFilesize]]

(* The background writer is at file f's blocks, with its io_lock. *)
IoFree(f) == ~(writer.pc = "writing" /\ writer.f = f)

(* The writer holds the scheduler lock for read. *)
SchedLockFree == writer.pc \in {"idle", "index"}

Open(f) ==
  /\ mounted /\ linked[f] /\ opens[f] < Cardinality(Users)
  /\ opens' = [opens EXCEPT ![f] = @ + 1]
  /\ UNCHANGED << sched, linked, matches, user, writer, ops, content, reported, mounted >>

(***************************************************************************)
(* unified_write from write_start on, for the bytes still to place.  A     *)
(* write that comes back with a block (spare) did the read-only check      *)
(* before.  When it returns the writer's error, or finds the volume read-  *)
(* only, it returns at once.                                               *)
(***************************************************************************)
WriteStart(u, f, off, bytes, spare) ==
  LET s0    == GetDentryPriv(Here(spare), f)
      stale == \/ off + Len(bytes) > MaxFilesize
               \/ space["IP"] \in {"no", "less"}
      s1    == IF s0.dpr[f].write_ip /\ stale THEN UnsetWriteIp(s0, f) ELSE s0
  IN  IF s0.dpr[f].write_error
      THEN /\ Becomes([s0 EXCEPT !.dpr[f].write_error = FALSE])
           /\ reported' = reported \cup {f}
           /\ user' = [user EXCEPT ![u] = Idle]
           /\ UNCHANGED content
      ELSE IF VolumeReadonly /\ ~spare
      THEN /\ Becomes(s0)
           /\ user' = [user EXCEPT ![u] = Idle]
           /\ UNCHANGED << content, reported >>
      ELSE \E w \in {DoAppend([s |-> s1, off |-> off, bytes |-> bytes, i |-> 0, prev |-> 0,
                               stop |-> FALSE], f)} :
           /\ Becomes(IF w.s.spare THEN FreeBlock(w.s) ELSE w.s)
           /\ user' = [user EXCEPT ![u] =
                         IF w.stop THEN [pc |-> "wait", f |-> f, off |-> w.off, bytes |-> w.bytes]
                         ELSE Idle]
           /\ content' = [content EXCEPT ![f] =
                            Overlay(@, off, SubSeq(bytes, 1, Len(bytes) - Len(w.bytes)))]
           /\ UNCHANGED reported

Write(u, f, off, count) ==
  /\ mounted /\ user[u] = Idle /\ opens[f] > 0
  /\ ops < MaxOps /\ ops' = ops + 1
  /\ WriteStart(u, f, off, [k \in 1 .. count |-> << ops + 1, off + k - 1 >>], FALSE)
  /\ UNCHANGED << files, writer, mounted >>

(* _unified_cache_alloc under cache pressure: a block became free. *)
GetBlock(u) ==
  /\ user[u].pc = "wait" /\ HasRoom(pool)
  /\ pool' = Allocate(pool)
  /\ user' = [user EXCEPT ![u].pc = "retry"]
  /\ UNCHANGED << dpr, queue, total, ext, disk, ip, space, failed, broken, files, writer, ops,
                  content, reported, mounted >>

RetryWrite(u) ==
  /\ user[u].pc = "retry"
  /\ WriteStart(u, user[u].f, user[u].off, user[u].bytes, TRUE)
  /\ UNCHANGED << files, writer, ops, mounted >>

(* One of the bounded operations below. *)
Other == mounted /\ ops < MaxOps /\ ops' = ops + 1

NotWriting(f) == \A u \in Users : user[u] = Idle \/ user[u].f # f

(* unified_flush of one file, and of all files. *)
Flush(f, fault) ==
  /\ Other /\ SchedLockFree /\ opens[f] > 0
  /\ \E r \in {FlushUnlocked(Here(FALSE), f, fault)} :
       /\ Becomes(r.s)
       /\ reported' = IF r.error THEN reported \cup {f} ELSE reported
  /\ UNCHANGED << files, user, writer, content, mounted >>

FlushAll(fault) ==
  /\ Other /\ SchedLockFree
  /\ \E r \in {FlushAllFiles(Here(FALSE), fault)} :
       /\ Becomes(r.s)
       /\ reported' = reported \cup r.who
  /\ UNCHANGED << files, user, writer, content, mounted >>

(* The requests past length go, from the last one back. *)
RECURSIVE CutRequests(_, _, _)
CutRequests(s, f, length) ==
  LET n == Len(s.dpr[f].requests)
      r == s.dpr[f].requests[n]
  IN  IF n = 0 THEN s
      ELSE IF r.offset >= length
        THEN CutRequests(FreeBlock(DequeueOne(DropRequest(s, f, n), f, r.state)), f, length)
      ELSE IF ReqEnd(r) > length
        THEN [s EXCEPT !.dpr[f].requests[n].data = SubSeq(@, 1, length - r.offset)]
      ELSE s

CutAlt(alt, length) ==
  LET Starts(e) == e.fileoffset < length
      kept      == SelectSeq(alt, Starts)
  IN  [i \in DOMAIN kept |-> IF End(kept[i]) > length THEN CutBack(kept[i], length) ELSE kept[i]]

Resized(bytes, length) ==
  [k \in 1 .. length |-> IF k <= Len(bytes) THEN bytes[k] ELSE Hole]

(* unified_truncate; the kernel keeps writes of the file out meanwhile. *)
Truncate(f, length) ==
  LET s0 == Here(FALSE)
      s1 == IF length < dpr[f].file_size
            THEN [CutRequests(s0, f, length) EXCEPT !.dpr[f].alt = CutAlt(@, length)] ELSE s0
      s2 == [s1 EXCEPT !.dpr[f].file_size = length]
      s3 == IF ~dpr[f].write_ip /\ MaxFilesize > 0 /\ length = 0 /\ matches[f] /\ linked[f]
            THEN SetWriteIp(s2, f)
            ELSE IF dpr[f].write_ip /\ (length > MaxFilesize \/ ~matches[f] \/ ~linked[f])
            THEN UnsetWriteIp(s2, f) ELSE s2
      s4 == IF dpr[f].has THEN s3 ELSE s0
  IN  /\ Other /\ opens[f] > 0 /\ ~VolumeReadonly /\ NotWriting(f) /\ IoFree(f)
      /\ Becomes([s4 EXCEPT !.disk[f] = Resized(@, length)])
      /\ content' = [content EXCEPT ![f] = Resized(@, length)]
      /\ UNCHANGED << files, user, writer, reported, mounted >>

(* unified_update_data_placement, after a rename or a removal of the file. *)
UpdatePlacement(s, f, match, link) ==
  LET size == s.dpr[f].file_size
      fits == size <= MaxFilesize /\ match /\ link
  IN  IF ~s.dpr[f].has THEN s
      ELSE IF ~s.dpr[f].write_ip /\ MaxFilesize > 0 /\ fits THEN SetWriteIp(s, f)
      ELSE IF s.dpr[f].write_ip /\ ~fits THEN UnsetWriteIp(s, f)
      ELSE s

Rename(f) ==
  /\ Other /\ linked[f]
  /\ matches' = [matches EXCEPT ![f] = ~@]
  /\ Becomes(UpdatePlacement(Here(FALSE), f, ~matches[f], TRUE))
  /\ UNCHANGED << opens, linked, user, writer, content, reported, mounted >>

Unlink(f) ==
  /\ Other /\ Unlinks /\ linked[f]
  /\ linked' = [linked EXCEPT ![f] = FALSE]
  /\ Becomes(UpdatePlacement(Here(FALSE), f, matches[f], FALSE))
  /\ UNCHANGED << opens, matches, user, writer, content, reported, mounted >>

(***************************************************************************)
(* unified_close, with a flush when the handle is dirty (the last handle   *)
(* is, while bytes are not on the data partition).  The flush, and freeing *)
(* the dentry_priv with the last handle, wait for the writer.              *)
(***************************************************************************)
Close(f, flush, fault) ==
  LET Dirty(q) == q.state # "IP"
      flushed  == IF flush THEN FlushUnlocked(Here(FALSE), f, fault)
                  ELSE [s |-> Here(FALSE), error |-> FALSE]
  IN  /\ mounted /\ opens[f] > 0
      /\ opens[f] > Cardinality({u \in Users : user[u] # Idle /\ user[u].f = f})
      /\ flush \/ opens[f] > 1 \/ SelectSeq(dpr[f].requests, Dirty) = << >>
      /\ \E r \in {flushed} :
         \E s \in {FreeConditional([r.s EXCEPT !.dpr[f].write_error = FALSE], f, 3)} :
           /\ \/ IoFree(f)
              \/ s.dpr[f].has /\ (~flush \/ dpr[f].write_error \/ dpr[f].requests = << >>)
           /\ Becomes(s)
           /\ reported' = IF r.error \/ r.s.dpr[f].write_error THEN reported \cup {f} ELSE reported
      /\ opens' = [opens EXCEPT ![f] = @ - 1]
      /\ UNCHANGED << linked, matches, user, writer, ops, content, mounted >>

-----------------------------------------------------------------------------
(* The background writer. *)

IpHighWatermark == (6 * MaxCapacity) \div 10

(* cache_requests *)
Waiting == Cardinality({u \in Users : user[u].pc \in {"wait", "retry"}})

(* Mutation: the copies for the index partition are never written for a waiting write. *)
WriterChoice_NoIndex == IF Waiting = 0 \/ total["DP"] > 2 * Waiting THEN "DP" ELSE "PARTIAL"

(* Which queue _unified_writer_thread turns to. *)
WriterChoice ==
  CASE Waiting = 0 \/ total["DP"] > 2 * Waiting -> "DP"
    [] Waiting > 0 /\ total["DP"] <= 2 * Waiting /\ total["IP"] < IpHighWatermark -> "PARTIAL"
    [] OTHER -> "IP"

WriterWakes ==
  /\ mounted /\ writer = WriterIdle
  /\ queue["DP"] # << >> \/ Waiting > 0
  /\ writer' = [WriterIdle EXCEPT
       !.pc = IF WriterChoice = "IP" THEN "index" ELSE "loop", !.kind = WriterChoice,
       !.left = Len(queue["DP"]) + (IF WriterChoice = "DP" THEN 0 ELSE Len(queue["PARTIAL"]))]
  /\ UNCHANGED << sched, files, user, ops, content, reported, mounted >>

(* _unified_process_index_queue holds the scheduler lock for write. *)
WriterIndexQueue(fault) ==
  /\ writer.pc = "index"
  /\ Becomes(ProcessIndexQueue(Here(FALSE), fault))
  /\ writer' = WriterIdle
  /\ UNCHANGED << files, user, ops, content, reported, mounted >>

(* The next file, chosen under the queue_lock alone. *)
WriterPick ==
  LET q == IF queue["DP"] # << >> \/ writer.kind = "DP" THEN queue["DP"] ELSE queue["PARTIAL"]
  IN  /\ writer.pc = "loop"
      /\ writer' = IF writer.left = 0 \/ q = << >> THEN WriterIdle
                   ELSE [writer EXCEPT !.pc = "picked", !.left = @ - 1, !.f = Head(q)]
      /\ UNCHANGED << sched, files, user, ops, content, reported, mounted >>

(***************************************************************************)
(* Under the file's iosched_lock: requests of a file that goes to the      *)
(* index partition are written and stay as IP requests, the others move    *)
(* to the writer's own list.                                               *)
(***************************************************************************)
RECURSIVE TakeRequests(_, _, _, _, _, _)
TakeRequests(s, f, kind, i, local, fault) ==
  LET Go(m, rest) == TakeRequests(m.s, f, kind, AfterMerge(i, m), local, rest)
      One(r) ==
        CASE r.state = "IP" -> Go(KeptAsIp(s, f, i, r), fault)
          [] r.state = "PARTIAL" /\ kind = "DP" -> TakeRequests(s, f, kind, i + 1, local, fault)
          [] OTHER ->
               IF ~s.dpr[f].write_ip
               THEN TakeRequests(DropRequest(s, f, i), f, kind, i, Append(local, r), fault)
               ELSE IF Failing(s, "DP", fault)
               THEN [s |-> DpWriteFails(s, f, r, fault), local |-> local]
               ELSE Go(KeptAsIp(s, f, i, r), Later(fault))
  IN  IF i > Len(s.dpr[f].requests) THEN [s |-> s, local |-> local]
      ELSE One(s.dpr[f].requests[i])

WriterTake(fault) ==
  LET f  == writer.f
      s0 == DequeueAll(Here(FALSE), f, writer.kind)
      s1 == IF writer.kind = "PARTIAL" THEN DequeueAll(s0, f, "DP") ELSE s0
      gone == [Here(FALSE) EXCEPT !.broken = @ \/ NumHandles(Here(FALSE), f) = 0]
  IN  /\ writer.pc = "picked"
      /\ \E t \in {IF dpr[f].has THEN TakeRequests(s1, f, writer.kind, 1, << >>, fault)
                   ELSE [s |-> gone, local |-> << >>]} :
           /\ Becomes(t.s)
           /\ writer' = IF t.local = << >> THEN WriterLoop(writer)
                        ELSE [writer EXCEPT !.pc = "writing", !.local = t.local]
      /\ UNCHANGED << files, user, ops, content, reported, mounted >>

(* The writer's own list goes to tape under the io_lock, up to the first failure. *)
WriterWrites(fault) ==
  LET n == IF space["DP"] # "ok" THEN 0
           ELSE IF fault = NoError THEN Len(writer.local)
           ELSE Smaller(fault.after - 1, Len(writer.local))
      One(s, r) == FreeBlock(WriteDp(s, writer.f, r))
      s1   == FoldLeft(One, Here(FALSE), SubSeq(writer.local, 1, n))
      kind == Kind(s1, "DP", fault)
  IN  /\ writer.pc = "writing"
      /\ IF n = Len(writer.local)
         THEN Becomes(s1) /\ writer' = WriterLoop(writer)
         ELSE /\ Becomes(Fail(s1, writer.f, "DP", kind))
              /\ writer' = [writer EXCEPT !.pc = "failed", !.local = SubSeq(@, n + 1, Len(@)),
                                          !.error = kind]
      /\ UNCHANGED << files, user, ops, content, reported, mounted >>

(* After a failure the io_lock is let go before the iosched_lock is taken. *)
WriterHandlesError ==
  LET f  == writer.f
      r  == Head(writer.local)
      s1 == IF dpr[f].has THEN HandleWriteError(Here(FALSE), f, r.state, writer.error)
            ELSE [Here(FALSE) EXCEPT !.broken = @ \/ NumHandles(Here(FALSE), f) = 0]
  IN  /\ writer.pc = "failed"
      /\ Becomes(FreeBlocks(s1, Len(writer.local)))
      /\ writer' = WriterLoop(writer)
      /\ UNCHANGED << files, user, ops, content, reported, mounted >>

(* unified_destroy: the writer flushes everything and ends, then the extents *)
(* on the index partition are given to libltfs.                              *)
Unmount(fault) ==
  LET Push(s, f) == IF s.dpr[f].write_ip THEN PushExtents(s, f) ELSE s
  IN  /\ mounted /\ writer = WriterIdle
      /\ \A u \in Users : user[u] = Idle
      /\ \A f \in Files : opens[f] = 0
      /\ \E s1 \in {ProcessIndexQueue(FlushAllFiles(Here(FALSE), fault).s, NoError)} :
         \E s2 \in {FoldLeft(Push, s1, s1.ext)} :
           Becomes([s2 EXCEPT !.ext = << >>,
                     !.dpr = [f \in Files |-> IF f \in ToSet(s1.ext) THEN NoPriv ELSE s2.dpr[f]]])
      /\ mounted' = FALSE
      /\ UNCHANGED << files, user, writer, ops, content, reported >>

-----------------------------------------------------------------------------
UserStep(u) == GetBlock(u) \/ RetryWrite(u)

WriterStep ==
  \/ WriterWakes \/ WriterPick \/ WriterHandlesError
  \/ \E fault \in FaultChoices : WriterIndexQueue(fault) \/ WriterTake(fault) \/ WriterWrites(fault)

Request ==
  \/ \E f \in Files : Open(f) \/ Rename(f) \/ Unlink(f)
  \/ \E u \in Users, f \in Files, range \in Ranges : Write(u, f, range[1], range[2])
  \/ \E f \in Files, length \in Lengths : Truncate(f, length)
  \/ \E f \in Files, fault \in FaultChoices : Flush(f, fault) \/ \E flush \in BOOLEAN : Close(f, flush, fault)
  \/ \E fault \in FaultChoices : FlushAll(fault) \/ Unmount(fault)

(* Once freed memory is used, nothing more is said. *)
Next == ~broken /\ (Request \/ WriterStep \/ \E u \in Users : UserStep(u))

Spec == Init /\ [][Next]_vars

(***************************************************************************)
(* Weak fairness of the writer and of a write that waits, spelled out:     *)
(* each of their steps, and no other, changes writer, user[u].             *)
(***************************************************************************)
WriterCanStep == ~broken /\ mounted /\ (writer.pc # "idle" \/ queue["DP"] # << >> \/ Waiting > 0)
UserCanStep(u) == ~broken /\ (user[u].pc = "retry" \/ (user[u].pc = "wait" /\ HasRoom(pool)))

FairSpec ==
  /\ Spec
  /\ []<>(~WriterCanStep) \/ []<><<writer' # writer>>_vars
  /\ \A u \in Users : []<>(~UserCanStep(u)) \/ []<><<user'[u] # user[u]>>_vars

-----------------------------------------------------------------------------
(* What unified_read gives for the whole file: cached bytes where a request *)
(* has them, bytes of libltfs elsewhere, and zeros in a gap before a        *)
(* request that is past the end of what libltfs has.                        *)
UnifiedRead(f, bytes) ==
  LET reqs     == dpr[f].requests
      Covers(k) == {i \in DOMAIN reqs : k \in reqs[i].offset + 1 .. ReqEnd(reqs[i])}
      size     == FoldLeft(LAMBDA n, r : Larger(n, ReqEnd(r)), Len(bytes), reqs)
  IN  [k \in 1 .. size |->
         IF Covers(k) # {} THEN LET r == reqs[CHOOSE i \in Covers(k) : \A j \in Covers(k) : i <= j]
                                IN  r.data[k - r.offset]
         ELSE IF k <= Len(bytes) THEN bytes[k] ELSE Hole]

(* A reader that needs libltfs waits until the writer is done with the file. *)
BytesForReader(f) ==
  IF IoFree(f) THEN disk[f]
  ELSE FoldLeft(LAMBDA b, r : Overlay(b, r.offset, r.data), disk[f], writer.local)

-----------------------------------------------------------------------------
(* Properties *)

(***************************************************************************)
(* Whatever writes, truncates and passes of the writer came between, a     *)
(* read of a file none of whose tape writes failed returns the bytes its   *)
(* users wrote, and the size unified_get_filesize reports is right.        *)
(***************************************************************************)
ReadsBack ==
  \A f \in Files \ failed :
    mounted => /\ UnifiedRead(f, BytesForReader(f)) = content[f]
               /\ dpr[f].has => dpr[f].file_size = Len(content[f])

(***************************************************************************)
(* The counters behind _unified_update_queue_membership agree with the     *)
(* request lists: a file is in a queue exactly when it has requests in     *)
(* that state, and dp_request_count leaves out the files whose blocks stay.*)
(***************************************************************************)
QueueCounts ==
  \A q \in States :
    /\ \A f \in Files : LET Is(r) == r.state = q
                        IN  dpr[f].in[q] = Len(SelectSeq(dpr[f].requests, Is))
    /\ ToSet(queue[q]) = {f \in Files : dpr[f].in[q] > 0}
    /\ Len(queue[q]) = Cardinality(ToSet(queue[q]))
    /\ total[q] = FoldFunctionOnSet(+, 0, [f \in Files |-> dpr[f].in[q]],
                                    {f \in Files : q # "DP" \/ ~dpr[f].write_ip})

(***************************************************************************)
(* Every cache block is free, in a request, on the writer's list or held   *)
(* by a write about to use it; the pool never exceeds cache_blocks.  (A    *)
(* write that returns an error may keep its block for ever.)               *)
(***************************************************************************)
PoolExact ==
  /\ pool.cap <= MaxCapacity
  /\ reported = {} =>
       pool.cap - pool.free =
         FoldFunction(+, 0, [f \in Files |-> Len(dpr[f].requests)])
         + (IF writer.pc \in {"writing", "failed"} THEN Len(writer.local) ELSE 0)
         + Cardinality({u \in Users : user[u].pc = "retry"})

(***************************************************************************)
(* After unified_destroy libltfs has every byte of a file none of whose    *)
(* tape writes failed, those moved to the index partition included.        *)
(***************************************************************************)
DurableAtUnmount == ~mounted => \A f \in Files \ failed : disk[f] = content[f]

(* A write that waits for a cache block returns: the writer frees one. *)
EveryWriteReturns == \A u \in Users : user[u].pc = "wait" ~> (user[u].pc = "idle" \/ broken)

(***************************************************************************)
(* "errors hit by the background thread need to be propagated on a future  *)
(* request to write, flush or close": a file that misses bytes after       *)
(* unified_destroy is one whose user was told.                             *)
(***************************************************************************)
ErrorPropagated == ~mounted => \A f \in failed \ reported : disk[f] = content[f]

=============================================================================
