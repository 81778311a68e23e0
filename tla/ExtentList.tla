----------------------------- MODULE ExtentList -----------------------------
(***************************************************************************)
(* The extent list of a file (struct dentry, extentlist) and the functions *)
(* of ltfs_fsops_raw.c that edit and read it.                              *)
(*                                                                         *)
(* An extent says that bytecount bytes of the file from fileoffset on are  *)
(* on the tape from byte byteoffset of a block on.  An extent covers whole *)
(* blocks of BlockSize bytes except for its first block, of which it may   *)
(* skip the head, and its last block, which may be short.                  *)
(*                                                                         *)
(* A tape is a function from partitions to sequences of blocks and a block *)
(* is a sequence of bytes.  Block 0 of a partition is the volume label and *)
(* is never read through an extent; data blocks are numbered from 1.       *)
(* List edits are operators; the state machine is FileExtents.             *)
(***************************************************************************)
EXTENDS Integers, Sequences

CONSTANT BlockSize

ASSUME BlockSizeAssumption == BlockSize \in Nat \ {0}

(* A byte that was never written. *)
Hole == <<0, 0>>

End(e) == e.fileoffset + e.bytecount

Smaller(a, b) == IF a <= b THEN a ELSE b

(* The bytes the extents of a list cover, when they are disjoint. *)
SumOf(s) ==
  LET Sum[i \in 0 .. Len(s)] == IF i = 0 THEN 0 ELSE Sum[i - 1] + s[i].bytecount
  IN  Sum[Len(s)]

Zeros(n) == [i \in 1 .. n |-> Hole]

-----------------------------------------------------------------------------
(* ltfs_fsraw_add_extent.  CutFront drops the bytes of e before off,        *)
(* CutBack the bytes from off on.                                          *)

CutFront(e, off) ==
  LET diff == off - e.fileoffset
      mod  == diff + e.byteoffset
  IN  [e EXCEPT !.block = @ + mod \div BlockSize,
                !.byteoffset = mod % BlockSize,
                !.bytecount = @ - diff,
                !.fileoffset = off]

CutBack(e, off) == [e EXCEPT !.bytecount = off - e.fileoffset]

(* x continues e both in the file and, at a block boundary, on the tape. *)
Continues(e, x) ==
  LET byteoffset_end == e.byteoffset + e.bytecount
  IN  /\ x.fileoffset = End(e)
      /\ x.partition = e.partition
      /\ byteoffset_end % BlockSize = 0
      /\ e.block + byteoffset_end \div BlockSize = x.block
      /\ x.byteoffset = 0

(* x appended to e, or inserted after it. *)
PutAfter(e, x) ==
  IF Continues(e, x) THEN << [e EXCEPT !.bytecount = @ + x.bytecount] >>
                     ELSE << e, x >>

(***************************************************************************)
(* The list is walked from its last entry back.  Placed is what becomes of *)
(* the entries before, e and x, with the number of bytes x replaces in     *)
(* them, given what becomes of the entries before e; where x finds its     *)
(* place the walk ends, and below is not looked at.                        *)
(***************************************************************************)
Placed(before, e, x, below) ==
  LET StartsBefore == x.fileoffset <= e.fileoffset
      StartsInside == e.fileoffset < x.fileoffset /\ x.fileoffset < End(e)
      StartsBehind == End(e) <= x.fileoffset
      Reaches      == e.fileoffset < End(x)
      CoversEnd    == End(e) <= End(x)
  IN  CASE StartsBefore /\ ~Reaches ->
             [list |-> Append(below.list, e), freed |-> below.freed]
        [] StartsBefore /\ Reaches /\ CoversEnd ->
             [list |-> below.list, freed |-> below.freed + e.bytecount]
        [] StartsBefore /\ Reaches /\ ~CoversEnd ->
             [list  |-> Append(below.list, CutFront(e, End(x))),
              freed |-> below.freed + End(x) - e.fileoffset]
        [] StartsInside /\ CoversEnd ->
             [list  |-> before \o PutAfter(CutBack(e, x.fileoffset), x),
              freed |-> End(e) - x.fileoffset]
        [] StartsInside /\ ~CoversEnd ->
             [list  |-> Append(before \o PutAfter(CutBack(e, x.fileoffset), x),
                               CutFront(e, End(x))),
              freed |-> x.bytecount]
        [] StartsBehind ->
             [list |-> before \o PutAfter(e, x), freed |-> 0]

AddExtent(extentlist, x) ==
  LET Walk[i \in 0 .. Len(extentlist)] ==
        IF i = 0 THEN [list |-> <<x>>, freed |-> 0]
                 ELSE Placed(SubSeq(extentlist, 1, i - 1), extentlist[i], x, Walk[i - 1])
  IN  Walk[Len(extentlist)]

-----------------------------------------------------------------------------
(* ltfs_fsraw_truncate: the entries past length go, the one across it is    *)
(* cut, and the walk from the back stops at the first one before it.        *)
Cut(before, e, length, below) ==
  CASE e.fileoffset >= length ->
         [list |-> below.list, freed |-> below.freed + e.bytecount]
    [] e.fileoffset < length /\ length < End(e) ->
         [list  |-> Append(below.list, CutBack(e, length)),
          freed |-> below.freed + End(e) - length]
    [] End(e) <= length ->
         [list |-> Append(before, e), freed |-> 0]

Truncated(extentlist, length) ==
  LET Walk[i \in 0 .. Len(extentlist)] ==
        IF i = 0 THEN [list |-> <<>>, freed |-> 0]
                 ELSE Cut(SubSeq(extentlist, 1, i - 1), extentlist[i], length, Walk[i - 1])
  IN  Walk[Len(extentlist)]

(* ltfs_fsraw_cleanup_extent: the last block it computes for an extent, and *)
(* whether the extent goes when the medium lost the partition from block    *)
(* err on.                                                                  *)
CleanupLastBlock(e) ==
  e.block + e.bytecount \div BlockSize - (IF e.bytecount % BlockSize = 0 THEN 1 ELSE 0)

IsCleanedUp(e, partition, err) ==
  e.partition = partition /\ err <= CleanupLastBlock(e)

Cleaned(extentlist, partition, err) ==
  LET Walk[i \in 0 .. Len(extentlist)] ==
        IF i = 0 THEN [list |-> <<>>, freed |-> 0]
        ELSE IF IsCleanedUp(extentlist[i], partition, err)
             THEN [Walk[i - 1] EXCEPT !.freed = @ + extentlist[i].bytecount]
             ELSE [Walk[i - 1] EXCEPT !.list = Append(@, extentlist[i])]
  IN  Walk[Len(extentlist)]

(* The last block an extent really needs. *)
LastBlock(e) == e.block + (e.byteoffset + e.bytecount - 1) \div BlockSize

-----------------------------------------------------------------------------
(* What a list of extents says: where each byte of the file is, as a        *)
(* partition and the number of the byte in it counted in whole blocks.      *)

Address(e, o) == e.block * BlockSize + e.byteoffset + (o - e.fileoffset)

Inside(e, o) == e.fileoffset <= o /\ o < End(e)

At(e, o, place) == Inside(e, o) /\ place = << e.partition, Address(e, o) >>

HasByte(s, o, place) == \E i \in DOMAIN s : At(s[i], o, place)

(* Byte o of the file, from write n, is on the tape where e has it. *)
Stored(tape, e, o, n) ==
  LET block == Address(e, o) \div BlockSize
      byte  == (Address(e, o) % BlockSize) + 1
  IN  /\ block \in DOMAIN tape[e.partition]
      /\ byte \in DOMAIN tape[e.partition][block]
      /\ tape[e.partition][block][byte] = << n, o >>

(* Byte o is where the list s says, or was never written and s has no byte. *)
ByteInPlace(s, tape, o, n) ==
  IF n = 0 THEN \A i \in DOMAIN s : ~Inside(s[i], o)
           ELSE \E i \in DOMAIN s : Inside(s[i], o) /\ Stored(tape, s[i], o, n)

(* A well-formed extent on one of the partitions P. *)
AnyExtent(P) ==
  [partition : P, block : Nat \ {0}, byteoffset : 0 .. BlockSize - 1,
   bytecount : Nat \ {0}, fileoffset : Nat]

(* No extent goes past byte b of the file. *)
EndsBy(s, b) == \A i \in DOMAIN s : End(s[i]) <= b

(* In the order of the file, and disjoint. *)
InOrder(s) == \A i, j \in DOMAIN s : i < j => End(s[i]) <= s[j].fileoffset

-----------------------------------------------------------------------------
(***************************************************************************)
(* ltfs_fsraw_read.  A read keeps the bytes read so far in buf, the tape   *)
(* position in pos, and in last the block it read last (vol->last_block,   *)
(* last_pos), which it uses again while the tape stands right behind it.   *)
(* The code compares with the position from before its seek; it then never *)
(* finds the block in the cache, as here.                                  *)
(***************************************************************************)

(* Mutation: the cached block is used wherever the last read was. *)
InCache_AnyBlock(r, partition, block) == r.pos = << partition, block + 1 >>

InCache(r, partition, block) ==
  r.pos = << partition, block + 1 >> /\ r.last.at = << partition, block >>

(* One block of extent e, if the read wants more of e. *)
ReadBlock(r, e, block, tape, off, count) ==
  LET next      == off + Len(r.buf)
      firstbyte == e.fileoffset - e.byteoffset + (block - e.block) * BlockSize
      lastbyte  == Smaller(firstbyte + BlockSize, End(e))
      cached    == InCache(r, e.partition, block)
      onTape    == r.pos[2] \in DOMAIN tape[r.pos[1]]
      data      == IF cached THEN r.last.data ELSE tape[r.pos[1]][r.pos[2]]
      wanted    == SubSeq(data, next - firstbyte + 1,
                          Smaller(lastbyte, off + count) - firstbyte)
  IN  IF r.failed \/ End(e) <= next \/ Len(r.buf) = count THEN r
      ELSE IF ~cached /\ ~onTape THEN [r EXCEPT !.failed = TRUE]
      ELSE [buf    |-> IF Len(data) < lastbyte - firstbyte THEN r.buf ELSE r.buf \o wanted,
            failed |-> Len(data) < lastbyte - firstbyte,
            pos    |-> IF cached THEN r.pos ELSE << r.pos[1], r.pos[2] + 1 >>,
            last   |-> IF cached \/ Len(data) < lastbyte - firstbyte THEN r.last
                       ELSE [at |-> << e.partition, block >>, data |-> data]]

(* tape_seek, unless the block is cached. *)
SeekTo(r, partition, block) ==
  IF InCache(r, partition, block) THEN r ELSE [r EXCEPT !.pos = << partition, block >>]

(* The blocks of extent e from the given one on. *)
ReadBlocks(r, e, block, tape, off, count) ==
  LET n == LastBlock(e) - block + 1
      Blocks[i \in 0 .. n] ==
        IF i = 0 THEN r
                 ELSE ReadBlock(Blocks[i - 1], e, block + i - 1, tape, off, count)
  IN  Blocks[n]

(* Zeros up to byte b of the file. *)
Fill(r, b, off) == [r EXCEPT !.buf = r.buf \o Zeros(b - (off + Len(r.buf)))]

(* Zeros up to extent e, a seek to the first block wanted, and its blocks. *)
ReadExtent(r, e, tape, off, count) ==
  LET s     == IF off + Len(r.buf) < e.fileoffset
               THEN Fill(r, Smaller(e.fileoffset, off + count), off) ELSE r
      next  == off + Len(s.buf)
      block == e.block + (next - e.fileoffset + e.byteoffset) \div BlockSize
  IN  IF r.failed \/ Len(r.buf) = count THEN r
      ELSE IF off + count < e.fileoffset \/ End(e) <= next THEN s
      ELSE ReadBlocks(SeekTo(s, e.partition, block), e, block, tape, off, count)

(* The whole read: every extent, then zeros up to the end of a sparse file. *)
ReadFile(extentlist, size, tape, pos, last, off, count) ==
  LET start == [buf |-> <<>>, failed |-> FALSE, pos |-> pos, last |-> last]
      Extents[i \in 0 .. Len(extentlist)] ==
        IF i = 0 THEN start ELSE ReadExtent(Extents[i - 1], extentlist[i], tape, off, count)
      r     == Extents[Len(extentlist)]
      next  == off + Len(r.buf)
  IN  IF r.failed \/ Len(r.buf) = count \/ next >= size THEN r
      ELSE Fill(r, Smaller(size, off + count), off)

=============================================================================
