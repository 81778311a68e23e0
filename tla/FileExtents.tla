---------------------------- MODULE FileExtents ----------------------------
(***************************************************************************)
(* One file and the tape it is on: ltfs_fsraw_write, _truncate and _read,  *)
(* and the clean-up after a permanent write error.                         *)
(*                                                                         *)
(* A write puts its blocks on the tape under the device lock and adds its  *)
(* extent to the file later, under the file's contents_lock: in between,   *)
(* other writers append blocks and add extents.  Truncates and the clean-  *)
(* up take the contents_lock (the clean-up the parent directory's) for all *)
(* they do, and a read holds it with the device lock to its end.           *)
(***************************************************************************)
EXTENDS ExtentList, FiniteSets

CONSTANTS Partitions, \* partitions data is written to
          MaxSize,    \* bound: file offsets written or truncated to
          MaxWrites,  \* bound: writes in a behaviour
          MaxPending, \* bound: writers between their two locks
          MaxOthers   \* bound: truncates and reads in a behaviour

ASSUME FileExtentsAssumption ==
  /\ Partitions # {}
  /\ MaxSize \in Nat /\ MaxWrites \in Nat /\ MaxPending \in Nat /\ MaxOthers \in Nat

VARIABLES
  extentlist, \* d->extentlist
  size,       \* d->size
  realsize,   \* d->realsize
  tape,       \* partition -> blocks; a byte is <<number of its write, file offset>>
  pos,        \* <<partition, block>> the tape stands at
  last,       \* vol->last_block: the block read last and where it was
  pending,    \* writes on tape whose extent is not in the list yet
  writes,     \* writes made
  others,     \* truncates and reads made
  damaged,    \* the volume is locked after a permanent write error
  content     \* history: the number of the write that each byte is from, 0 for none

vars == << extentlist, size, realsize, tape, pos, last, pending, writes, others,
           damaged, content >>

Extent == { e \in AnyExtent(Partitions) : End(e) <= MaxSize }

Byte == {Hole} \cup ((1 .. MaxWrites) \X (0 .. MaxSize - 1))

(***************************************************************************)
(* Types: extents are non-empty, start inside a block, and the file stays  *)
(* within the bounds.  size and realsize are unsigned in the code: neither *)
(* the bytes an edit frees nor those a clean-up drops take them below 0.   *)
(***************************************************************************)
TypeOK ==
  /\ extentlist \in Seq(Extent)
  /\ size \in 0 .. MaxSize /\ realsize \in 0 .. MaxSize
  /\ tape \in [Partitions -> Seq(Seq(Byte))]
  /\ \A p \in Partitions : \A b \in DOMAIN tape[p] : Len(tape[p][b]) \in 1 .. BlockSize
  /\ pending \subseteq [n : 1 .. MaxWrites, ext : Extent]
  /\ writes \in 0 .. MaxWrites /\ others \in 0 .. MaxOthers
  /\ damaged \in BOOLEAN
  /\ content \in Seq(0 .. MaxWrites)

NoBlock == [at |-> << >>, data |-> << >>]

Init ==
  /\ extentlist = << >> /\ size = 0 /\ realsize = 0
  /\ tape = [p \in Partitions |-> << >>]
  /\ pos \in { << p, 1 >> : p \in Partitions }
  /\ last = NoBlock
  /\ pending = {} /\ writes = 0 /\ others = 0
  /\ damaged = FALSE
  /\ content = << >>

(* The blocks of a write: full ones and perhaps a short one at the end. *)
BlocksOf(n, off, count) ==
  [b \in 1 .. (count + BlockSize - 1) \div BlockSize |->
     [i \in 1 .. Smaller(BlockSize, count - (b - 1) * BlockSize) |->
        << n, off + (b - 1) * BlockSize + i - 1 >>]]

(***************************************************************************)
(* _ltfs_fsraw_write_data_unlocked: seek to the end of the partition and   *)
(* write.  A write that fails half way leaves blocks no extent names, like *)
(* one that stays pending.                                                 *)
(***************************************************************************)
WriteData(off, count, p) ==
  /\ ~damaged
  /\ writes < MaxWrites /\ Cardinality(pending) < MaxPending
  /\ tape' = [tape EXCEPT ![p] = @ \o BlocksOf(writes + 1, off, count)]
  /\ pos' = << p, Len(tape'[p]) + 1 >>
  /\ pending' = pending \cup
       { [n |-> writes + 1,
          ext |-> [partition |-> p, block |-> Len(tape[p]) + 1, byteoffset |-> 0,
                   bytecount |-> count, fileoffset |-> off]] }
  /\ writes' = writes + 1
  /\ UNCHANGED << extentlist, size, realsize, last, others, damaged, content >>

(* Mutation: a write inside the file shrinks it to the end of the write. *)
SizeWith_EndOfWrite(x) == End(x)

SizeWith(x) == IF End(x) > size THEN End(x) ELSE size

(* _ltfs_fsraw_add_extent_unlocked, the second half of ltfs_fsraw_write. *)
AddPending(w) ==
  LET added == AddExtent(extentlist, w.ext)
  IN  /\ w \in pending
      /\ pending' = pending \ {w}
      /\ extentlist' = added.list
      /\ realsize' = realsize - added.freed + w.ext.bytecount
      /\ size' = SizeWith(w.ext)
      /\ content' = [i \in 1 .. size' |->
                       IF Inside(w.ext, i - 1) THEN w.n
                       ELSE IF i <= Len(content) THEN content[i] ELSE 0]
      /\ UNCHANGED << tape, pos, last, writes, others, damaged >>

(* ltfs_fsraw_truncate; the file's size may also grow. *)
Truncate(length) ==
  LET cut == IF length < size THEN Truncated(extentlist, length)
             ELSE [list |-> extentlist, freed |-> 0]
  IN  /\ ~damaged
      /\ others < MaxOthers /\ others' = others + 1
      /\ extentlist' = cut.list
      /\ realsize' = realsize - cut.freed
      /\ size' = length
      /\ content' = [i \in 1 .. length |-> IF i <= Len(content) THEN content[i] ELSE 0]
      /\ UNCHANGED << tape, pos, last, pending, writes, damaged >>

(* ltfs_fsraw_read: leaves the tape and the cached block where it ended. *)
Read(off, count) ==
  LET r == ReadFile(extentlist, size, tape, pos, last, off, count)
  IN  /\ others < MaxOthers /\ others' = others + 1
      /\ pos' = r.pos /\ last' = r.last
      /\ UNCHANGED << extentlist, size, realsize, tape, pending, writes, damaged, content >>

(* ltfs_fsraw_cleanup_extent: extents go, and their bytes from the size. *)
CleanupExtent(p, err) ==
  LET cleaned == Cleaned(extentlist, p, err)
  IN  /\ extentlist' = cleaned.list
      /\ size' = size - cleaned.freed
      /\ UNCHANGED realsize

(***************************************************************************)
(* _unified_write_index_after_perm: a write failed for good, the medium    *)
(* lacks partition p from block err on, and the cartridge is locked.  The  *)
(* scheduler holds the file's io_lock: no write of the file is pending.    *)
(***************************************************************************)
WritePerm(p, err) ==
  /\ ~damaged /\ pending = {}
  /\ damaged' = TRUE
  /\ tape' = [tape EXCEPT ![p] = SubSeq(@, 1, err - 1)]
  /\ CleanupExtent(p, err)
  /\ UNCHANGED << pos, last, pending, writes, others, content >>

Next ==
  \/ \E off \in 0 .. MaxSize - 1 : \E count \in 1 .. MaxSize - off, p \in Partitions :
       WriteData(off, count, p)
  \/ \E w \in pending : AddPending(w)
  \/ \E length \in 0 .. MaxSize : Truncate(length)
  \/ \E off \in 0 .. MaxSize - 1 : \E count \in 1 .. MaxSize - off : Read(off, count)
  \/ \E p \in Partitions : \E err \in 1 .. Len(tape[p]) + 1 : WritePerm(p, err)

Spec == Init /\ [][Next]_vars

-----------------------------------------------------------------------------
(***************************************************************************)
(* The edits of ltfs_fsraw_add_extent and ltfs_fsraw_truncate leave the    *)
(* extents in file order, disjoint and within the size, and realsize, kept *)
(* by adding and subtracting per edit, is the number of bytes they cover.  *)
(***************************************************************************)
ListConsistent ==
  /\ InOrder(extentlist)
  /\ EndsBy(extentlist, size)
  /\ realsize = SumOf(extentlist)

(***************************************************************************)
(* Every byte of a write that is on the tape but not in the list yet, and  *)
(* every byte of the file, is on the tape where its extent says, whatever  *)
(* order the extents of concurrent writes were added in.  The bytes no     *)
(* extent covers are those never written, or truncated since.              *)
(***************************************************************************)
BytesInPlace ==
  /\ \A w \in pending : \A o \in 0 .. MaxSize - 1 :
       Inside(w.ext, o) => Stored(tape, w.ext, o, w.n)
  /\ Len(content) = size
  /\ \A o \in 0 .. size - 1 : ByteInPlace(extentlist, tape, o, content[o + 1])

(* The block cached in vol->last_block is what the tape has at last_pos. *)
CacheCurrent ==
  /\ pos \in Partitions \X Nat
  /\ last \in [at : {<< >>} \cup (Partitions \X Nat), data : Seq(Byte)]
  /\ last.at # << >> => /\ last.at[2] \in DOMAIN tape[last.at[1]]
                        /\ last.data = tape[last.at[1]][last.at[2]]

(***************************************************************************)
(* Until a permanent write error damages the volume, the extent list is    *)
(* consistent, each byte is where it says, and the cached block is current *)
(* - the facts that every step of a writer, truncate or read relies on.    *)
(***************************************************************************)
FInv ==
  /\ TypeOK
  /\ IF damaged THEN pending = {} ELSE ListConsistent /\ BytesInPlace /\ CacheCurrent

(***************************************************************************)
(* What ltfs_fsraw_read returns for any range, from any tape position and  *)
(* with any block cached, is for each byte before the end of the file the  *)
(* byte of the last write whose extent was added there, or a zero.         *)
(***************************************************************************)
ReadsBack ==
  ~damaged =>
    \A off \in 0 .. MaxSize - 1 : \A count \in 1 .. MaxSize - off :
      LET r == ReadFile(extentlist, size, tape, pos, last, off, count)
          n == IF off < size THEN Smaller(count, size - off) ELSE 0
      IN  /\ ~r.failed
          /\ r.buf = [i \in 1 .. n |-> IF content[off + i] = 0 THEN Hole
                                       ELSE << content[off + i], off + i - 1 >>]

(***************************************************************************)
(* After ltfs_fsraw_cleanup_extent no extent of the file needs a block the *)
(* medium lost.                                                            *)
(***************************************************************************)
LostBlocksDropped ==
  damaged => \A i \in DOMAIN extentlist :
               LastBlock(extentlist[i]) \in DOMAIN tape[extentlist[i].partition]

=============================================================================
