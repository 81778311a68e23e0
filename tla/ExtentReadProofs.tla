-------------------------- MODULE ExtentReadProofs --------------------------
(***************************************************************************)
(* ltfs_fsraw_read returns the bytes the extent list says, for every block *)
(* size, list in order, tape position and cached block.                    *)
(*                                                                         *)
(* C[o] is the byte o of the file.  A read is followed block by block      *)
(* (ReadBlock), extent by extent (ReadExtent) and over the list (ReadFile);*)
(* at each point the bytes read so far are those of the file from off on,  *)
(* and the block in vol->last_block is the one on the tape at last_pos.    *)
(***************************************************************************)
EXTENDS ExtentListProofs

(* How long a prover may take for a step that does not say so. *)
USE SMTT(40), ZenonT(40)

Cached(P, S) == [at : {<< >>} \cup (P \X Nat), data : Seq(S)]

Reads(P, S) == [buf : Seq(S), failed : BOOLEAN, pos : P \X Nat, last : Cached(P, S)]

(* No error so far, and the cached block is current. *)
Sound(r, P, S, tape) ==
  /\ r \in Reads(P, S)
  /\ ~r.failed
  /\ \A p \in P, b \in Nat :
       r.last.at = << p, b >> => b \in DOMAIN tape[p] /\ r.last.data = tape[p][b]

(* buf holds the bytes of the file from off on, none past its size. *)
Prefix(buf, off, count, size, C) ==
  /\ Len(buf) <= count
  /\ Len(buf) # 0 => off + Len(buf) <= size
  /\ \A k \in 1 .. Len(buf) : buf[k] = C[off + k - 1]

(* The part of a block that a read copies. *)
LEMMA Slice ==
  ASSUME NEW S, NEW s \in Seq(S), NEW i \in Nat \ {0}, NEW j \in Nat,
         j <= Len(s), i <= j + 1
  PROVE  /\ SubSeq(s, i, j) \in Seq(S) /\ Len(SubSeq(s, i, j)) = j - i + 1
         /\ \A k \in 1 .. j - i + 1 : SubSeq(s, i, j)[k] = s[i + k - 1]
  OBVIOUS

(* Bytes of the file added to the buffer leave a longer part of the file. *)
LEMMA PrefixGrows ==
  ASSUME NEW S, NEW buf \in Seq(S), NEW more \in Seq(S),
         NEW off \in Nat, NEW count \in Nat, NEW size \in Nat, NEW C,
         Prefix(buf, off, count, size, C), Len(buf) + Len(more) <= count,
         Len(more) # 0 => off + Len(buf) + Len(more) <= size,
         \A j \in 1 .. Len(more) : more[j] = C[off + Len(buf) + j - 1]
  PROVE  /\ buf \o more \in Seq(S) /\ Len(buf \o more) = Len(buf) + Len(more)
         /\ Prefix(buf \o more, off, count, size, C)
<1> DEFINE all == buf \o more
           m == Len(buf)
           n == Len(more)
<1>1. /\ all \in Seq(S) /\ m \in Nat /\ n \in Nat /\ Len(all) = m + n
      /\ \A k \in 1 .. m : all[k] = buf[k]
      /\ \A k \in 1 .. m + n : k > m => all[k] = more[k - m]
  OBVIOUS
<1> HIDE DEF all, m, n
<1>2. ASSUME NEW k \in 1 .. m + n PROVE all[k] = C[off + k - 1]
  <2>1. CASE k <= m
    <3>1. k \in 1 .. m
      BY <1>1, <2>1
    <3>2. buf[k] = C[off + k - 1]
      BY <3>1 DEF Prefix, m
    <3> QED  BY <1>1, <3>1, <3>2
  <2>2. CASE k > m
    <3> DEFINE j == k - m
    <3>1. j \in 1 .. n /\ off + m + j - 1 = off + k - 1
      BY <1>1, <2>2
    <3>2. all[k] = more[j]
      BY <1>1, <2>2
    <3> HIDE DEF j
    <3>3. more[j] = C[off + m + j - 1]
      BY <3>1 DEF m, n
    <3> QED  BY <3>1, <3>2, <3>3
  <2> QED  BY <1>1, <2>1, <2>2
<1>3. m + n <= count /\ (m + n # 0 => off + (m + n) <= size)
  <2>1. /\ m + n <= count /\ m <= count /\ (n # 0 => off + m + n <= size)
        /\ (m # 0 => off + m <= size)
    BY DEF Prefix, m, n
  <2> QED  BY <1>1, <2>1
<1> QED  BY <1>1, <1>2, <1>3 DEF Prefix, all, m, n

-----------------------------------------------------------------------------
(* The bytes of an extent are on the tape where it says. *)
Backed(e, tape, C) ==
  \A o \in Nat : Inside(e, o) => Holds(tape, << e.partition, Address(e, o) >>, C[o])

(* The tape stands at block b, or behind it and b is cached. *)
Positioned(r, p, b) == r.pos = << p, b >> \/ InCache(r, p, b)

(* A byte of the file d bytes after one in block b at byte m of it. *)
LEMMA AddressOf ==
  ASSUME NEW P, NEW e \in AnyExtent(P), NEW o \in Nat, e.fileoffset <= o
  PROVE  /\ Address(e, o) \in Nat
         /\ \A d \in Nat : Address(e, o + d) = Address(e, o) + d
<1>1. /\ e.block \in Nat /\ e.byteoffset \in Nat /\ e.fileoffset \in Nat
      /\ e.block * BlockSize \in Nat
  BY Zenon, ExtentTypes, Distributes
<1> QED  BY <1>1 DEF Address

(* The byte d bytes further on in the same block. *)
LEMMA ByteOfBlock ==
  ASSUME NEW P, NEW e \in AnyExtent(P), NEW tape, NEW C, Backed(e, tape, C),
         NEW o \in Nat, e.fileoffset <= o, NEW b \in Nat, NEW m \in 0 .. BlockSize - 1,
         Address(e, o) = b * BlockSize + m,
         NEW d \in Nat, o + d < End(e), m + d < BlockSize
  PROVE  /\ b \in DOMAIN tape[e.partition]
         /\ m + d + 1 \in DOMAIN tape[e.partition][b]
         /\ tape[e.partition][b][m + d + 1] = C[o + d]
<1> DEFINE a == Address(e, o + d)
           j == m + d
<1>1. /\ o + d \in Nat /\ j \in 0 .. BlockSize - 1 /\ b * BlockSize \in Nat
      /\ e.fileoffset \in Nat /\ End(e) \in Nat
  BY BlockSizeAssumption, Distributes, ExtentTypes
<1>2. a = b * BlockSize + j
  <2>1. a = Address(e, o) + d
    BY AddressOf
  <2> QED  BY <1>1, <2>1
<1> HIDE DEF a, j
<1>3. a \div BlockSize = b /\ a % BlockSize = j
  BY <1>1, <1>2, DivModUnique
<1>4. Inside(e, o + d)
  BY <1>1 DEF Inside
<1>5. Holds(tape, << e.partition, a >>, C[o + d])
  BY <1>1, <1>4 DEF Backed, a
<1>6. /\ b \in DOMAIN tape[e.partition]
      /\ j + 1 \in DOMAIN tape[e.partition][b]
      /\ tape[e.partition][b][j + 1] = C[o + d]
  BY ZenonT(20), <1>3, <1>5 DEF Holds
<1> QED  BY <1>6 DEF j


(* What holds when a read is about to look at block b of extent e. *)
AtBlock(r, e, b, P, S, tape, off, count, size, C) ==
  /\ Sound(r, P, S, tape) /\ Prefix(r.buf, off, count, size, C)
  /\ e.fileoffset <= off + Len(r.buf)
  /\ \/ Len(r.buf) = count
     \/ End(e) <= off + Len(r.buf)
     \/ b = Address(e, off + Len(r.buf)) \div BlockSize /\ Positioned(r, e.partition, b)

(***************************************************************************)
(* One block of an extent, from the tape or from vol->last_block: the read *)
(* advances to the end of what it wants, of the extent or of the block,    *)
(* and the tape then stands behind the block.                              *)
(***************************************************************************)
LEMMA ReadBlockReads ==
  ASSUME NEW P, NEW S, NEW tape \in [P -> Seq(Seq(S))], NEW e \in AnyExtent(P), NEW C,
         Backed(e, tape, C), NEW off \in Nat, NEW count \in Nat, NEW size \in Nat,
         End(e) <= size, NEW r, NEW b \in Nat,
         AtBlock(r, e, b, P, S, tape, off, count, size, C),
         Len(r.buf) # count, off + Len(r.buf) < End(e)
  PROVE  AtBlock(ReadBlock(r, e, b, tape, off, count), e, b + 1,
                 P, S, tape, off, count, size, C)
<1> SUFFICES ASSUME
         Sound(r, P, S, tape), Prefix(r.buf, off, count, size, C),
         e.fileoffset <= off + Len(r.buf),
         b = Address(e, off + Len(r.buf)) \div BlockSize, Positioned(r, e.partition, b),
         NEW r2, r2 = ReadBlock(r, e, b, tape, off, count)
       PROVE  /\ Sound(r2, P, S, tape) /\ Prefix(r2.buf, off, count, size, C)
              /\ r2.pos = << e.partition, b + 1 >>
              /\ e.fileoffset <= off + Len(r2.buf)
              /\ \/ Len(r2.buf) = count
                 \/ End(e) <= off + Len(r2.buf)
                 \/ b + 1 = Address(e, off + Len(r2.buf)) \div BlockSize
  <2>1. End(e) \in Nat /\ Len(r.buf) \in Nat
    BY ExtentTypes DEF AtBlock, Sound, Reads
  <2>2. ~(End(e) <= off + Len(r.buf))
    BY <2>1
  <2> DEFINE q == ReadBlock(r, e, b, tape, off, count)
  <2>3. /\ Sound(r, P, S, tape) /\ Prefix(r.buf, off, count, size, C)
        /\ e.fileoffset <= off + Len(r.buf)
        /\ b = Address(e, off + Len(r.buf)) \div BlockSize /\ Positioned(r, e.partition, b)
    BY <2>2 DEF AtBlock
  <2> HIDE DEF q
  <2>4. /\ Sound(q, P, S, tape) /\ Prefix(q.buf, off, count, size, C)
        /\ q.pos = << e.partition, b + 1 >>
        /\ e.fileoffset <= off + Len(q.buf)
        /\ \/ Len(q.buf) = count
           \/ End(e) <= off + Len(q.buf)
           \/ b + 1 = Address(e, off + Len(q.buf)) \div BlockSize
    BY <2>3 DEF q
  <2> QED  BY <2>4 DEF AtBlock, Positioned, q
<1> DEFINE p         == e.partition
           len       == Len(r.buf)
           next      == off + len
           firstbyte == e.fileoffset - e.byteoffset + (b - e.block) * BlockSize
           lastbyte  == Smaller(firstbyte + BlockSize, End(e))
           upto      == Smaller(lastbyte, off + count)
           cached    == InCache(r, p, b)
           onTape    == r.pos[2] \in DOMAIN tape[r.pos[1]]
           data      == IF cached THEN r.last.data ELSE tape[r.pos[1]][r.pos[2]]
           short     == Len(data) < lastbyte - firstbyte
           wanted    == SubSeq(data, next - firstbyte + 1, upto - firstbyte)
<1>1. r2 = IF r.failed \/ End(e) <= next \/ len = count THEN r
           ELSE IF ~cached /\ ~onTape THEN [r EXCEPT !.failed = TRUE]
           ELSE [buf    |-> IF short THEN r.buf ELSE r.buf \o wanted,
                 failed |-> short,
                 pos    |-> IF cached THEN r.pos ELSE << r.pos[1], r.pos[2] + 1 >>,
                 last   |-> IF cached \/ short THEN r.last
                            ELSE [at |-> << p, b >>, data |-> data]]
  BY Zenon DEF ReadBlock
<1> DEFINE a   == Address(e, next)
           m   == a % BlockSize
           fo  == e.fileoffset
           bo  == e.byteoffset
           ee  == End(e)
           eb  == e.block * BlockSize
           bb  == b * BlockSize
           lim == off + count
<1>2. /\ r \in Reads(P, S) /\ r.buf \in Seq(S) /\ len \in Nat /\ len <= count
      /\ r.failed = FALSE /\ len # count
  BY DEF Sound, Reads, Prefix
<1>3. /\ p \in P /\ fo \in Nat /\ bo \in Nat /\ ee \in Nat /\ eb \in Nat /\ bb \in Nat
      /\ BlockSize \in Nat \ {0} /\ e.block \in Nat
  BY ZenonT(20), ExtentTypes, BlockSizeAssumption, Distributes
<1>4. /\ next \in Nat /\ lim \in Nat /\ next < lim /\ next < ee /\ fo <= next
  <2>1. next < ee /\ fo <= next
    OBVIOUS
  <2> HIDE DEF len, fo, ee
  <2>2. next \in Nat /\ lim \in Nat /\ next < lim
    BY <1>2
  <2> QED  BY <2>1, <2>2
<1>5. a \in Nat /\ a = bb + m /\ m \in 0 .. BlockSize - 1 /\ a = eb + bo + (next - fo)
  <2>1. a \in Nat
    BY <1>4, AddressOf
  <2>2. a = eb + bo + (next - fo)
    BY DEF Address
  <2>3. b = a \div BlockSize
    OBVIOUS
  <2> HIDE DEF a
  <2> QED  BY <2>1, <2>2, <2>3, DivMod
<1>6. firstbyte = fo - bo + (bb - eb)
  <2>1. (b - e.block) * BlockSize = bb - eb
    BY <1>3
  <2> QED  BY <2>1
<1>7. lastbyte = Smaller(firstbyte + BlockSize, ee) /\ upto = Smaller(lastbyte, lim)
  OBVIOUS
<1> HIDE DEF a, m, fo, bo, ee, eb, bb, lim, firstbyte, lastbyte, upto, p, len, next
<1>8. firstbyte = next - m /\ firstbyte \in Int
  BY <1>3, <1>4, <1>5, <1>6
<1>9. /\ lastbyte \in Nat /\ next < lastbyte /\ lastbyte <= ee
      /\ lastbyte - firstbyte <= BlockSize
      /\ lastbyte = ee \/ lastbyte = next - m + BlockSize
  BY <1>3, <1>4, <1>5, <1>7, <1>8 DEF Smaller
<1>10. /\ upto \in Nat /\ next < upto /\ upto <= lastbyte /\ upto <= lim
       /\ upto = lastbyte \/ upto = lim
  BY <1>4, <1>7, <1>9 DEF Smaller
<1>11. ASSUME NEW d \in Nat, next + d < lastbyte
       PROVE  /\ b \in DOMAIN tape[p] /\ m + d + 1 \in DOMAIN tape[p][b]
              /\ tape[p][b][m + d + 1] = C[next + d]
  <2>1. next + d < ee /\ m + d < BlockSize
    BY <1>3, <1>4, <1>5, <1>8, <1>9, <1>11
  <2>2. /\ next + d < End(e) /\ e.fileoffset <= next /\ Address(e, next) = b * BlockSize + m
    BY <1>4, <1>5, <2>1 DEF ee, fo, a, bb
  <2> QED  BY <1>4, <1>5, <2>1, <2>2, ByteOfBlock DEF p
<1>12. b \in DOMAIN tape[p] /\ tape[p] \in Seq(Seq(S)) /\ tape[p][b] \in Seq(S)
  <2>1. b \in DOMAIN tape[p]
    <3>1. 0 \in Nat /\ next + 0 < lastbyte
      BY <1>4, <1>9
    <3> QED  BY <1>11, <3>1
  <2>2. tape[p] \in Seq(Seq(S))
    BY <1>3
  <2> QED  BY <2>1, <2>2
<1>13. data = tape[p][b] /\ (cached \/ onTape)
       /\ (IF cached THEN r.pos ELSE << r.pos[1], r.pos[2] + 1 >>) = << p, b + 1 >>
  <2>1. CASE cached
    <3>1. r.pos = << p, b + 1 >> /\ r.last.at = << p, b >>
      BY <2>1 DEF InCache
    <3>2. r.last.data = tape[p][b]
      BY <1>3, <3>1 DEF Sound
    <3> QED  BY <2>1, <3>1, <3>2
  <2>2. CASE ~cached
    <3>1. r.pos = << p, b >> /\ r.pos[1] = p /\ r.pos[2] = b
      BY <2>2 DEF Positioned, p
    <3> QED  BY <1>12, <2>2, <3>1
  <2> QED  BY <2>1, <2>2
<1> HIDE DEF data, onTape, cached
<1>14. ~short /\ Len(data) \in Nat /\ lastbyte - firstbyte <= Len(data)
  <2> DEFINE d == lastbyte - 1 - next
  <2>1. d \in Nat /\ next + d < lastbyte /\ m + d + 1 = lastbyte - firstbyte
        /\ lastbyte - firstbyte \in Nat
    BY <1>4, <1>5, <1>8, <1>9
  <2>2. m + d + 1 \in DOMAIN data /\ data \in Seq(S)
    BY <1>11, <1>12, <1>13, <2>1
  <2> HIDE DEF d
  <2>3. lastbyte - firstbyte \in 1 .. Len(data) /\ Len(data) \in Nat
    BY <2>1, <2>2
  <2> QED  BY <2>1, <2>3
<1>15. /\ wanted \in Seq(S) /\ Len(wanted) = upto - next
       /\ \A j \in 1 .. Len(wanted) : wanted[j] = C[next + j - 1]
  <2> DEFINE h == upto - firstbyte
             i == next - firstbyte + 1
  <2>1. /\ h \in Nat /\ h <= Len(data) /\ i \in Nat \ {0} /\ i = m + 1 /\ i <= h + 1
        /\ h - i + 1 = upto - next
    BY <1>3, <1>4, <1>5, <1>8, <1>9, <1>10, <1>14
  <2>2. wanted = SubSeq(data, i, h) /\ data \in Seq(S)
    BY <1>12, <1>13
  <2> HIDE DEF h, i, wanted
  <2>3. /\ wanted \in Seq(S) /\ Len(wanted) = upto - next
        /\ \A j \in 1 .. upto - next : wanted[j] = data[i + j - 1]
    <3>1. /\ SubSeq(data, i, h) \in Seq(S) /\ Len(SubSeq(data, i, h)) = h - i + 1
          /\ \A k \in 1 .. h - i + 1 : SubSeq(data, i, h)[k] = data[i + k - 1]
      <4>1. data \in Seq(S) /\ i \in Nat \ {0} /\ h \in Nat /\ h <= Len(data) /\ i <= h + 1
        BY <2>1, <2>2
      <4> QED  BY <4>1, Slice
    <3> QED  BY <2>1, <2>2, <3>1, Zenon
  <2>4. ASSUME NEW j \in 1 .. upto - next PROVE wanted[j] = C[next + j - 1]
    <3> DEFINE d == j - 1
    <3>1. /\ d \in Nat /\ next + d < lastbyte /\ m + d + 1 = i + j - 1
          /\ next + d = next + j - 1
      BY <1>4, <1>5, <1>9, <1>10, <2>1
    <3> HIDE DEF d
    <3>2. data[m + d + 1] = C[next + d]
      BY <1>11, <1>13, <3>1
    <3> QED  BY <2>3, <3>1, <3>2
  <2> QED  BY Zenon, <2>3, <2>4
<1> HIDE DEF wanted
<1>16. /\ r2.buf = r.buf \o wanted /\ r2.failed = FALSE /\ r2.pos = << p, b + 1 >>
       /\ r2.last = IF cached THEN r.last ELSE [at |-> << p, b >>, data |-> data]
       /\ r2 = [buf |-> r2.buf, failed |-> r2.failed, pos |-> r2.pos, last |-> r2.last]
  <2>1. ~(r.failed \/ End(e) <= next \/ len = count)
    BY <1>2, <1>3, <1>4 DEF ee
  <2>2. r2 = [buf    |-> IF short THEN r.buf ELSE r.buf \o wanted,
              failed |-> short,
              pos    |-> IF cached THEN r.pos ELSE << r.pos[1], r.pos[2] + 1 >>,
              last   |-> IF cached \/ short THEN r.last
                         ELSE [at |-> << p, b >>, data |-> data]]
    <3> HIDE DEF short
    <3> QED  BY Zenon, <1>1, <1>13, <2>1
  <2>3. short = FALSE
    BY <1>14
  <2> HIDE DEF short
  <2> DEFINE lst == IF cached THEN r.last ELSE [at |-> << p, b >>, data |-> data]
  <2>4. r2 = [buf |-> r.buf \o wanted, failed |-> FALSE, pos |-> << p, b + 1 >>, last |-> lst]
    BY Zenon, <1>13, <2>2, <2>3
  <2>5. lst = IF cached THEN r.last ELSE [at |-> << p, b >>, data |-> data]
    OBVIOUS
  <2> HIDE DEF lst
  <2>6. r2.buf = r.buf \o wanted /\ r2.pos = << p, b + 1 >> /\ r2.last = lst
    BY <2>4
  <2>7. r2.failed = FALSE
    BY <2>4
  <2>8. r2 = [buf |-> r2.buf, failed |-> r2.failed, pos |-> r2.pos, last |-> r2.last]
    BY <2>4
  <2> QED  BY ZenonT(60), <2>5, <2>6, <2>8, <2>7
<1>17. /\ r2.buf \in Seq(S) /\ Prefix(r2.buf, off, count, size, C)
       /\ off + Len(r2.buf) = upto
  <2>1. /\ len + Len(wanted) <= count /\ off + len + Len(wanted) <= size
        /\ off + len + Len(wanted) = upto
    <3>1. next = off + len /\ lim = off + count /\ ee <= size
      BY DEF next, lim, ee
    <3>2. Len(wanted) = upto - next
      BY <1>15
    <3> QED  BY <1>2, <1>3, <1>4, <1>9, <1>10, <3>1, <3>2
  <2>2. \A j \in 1 .. Len(wanted) : wanted[j] = C[off + Len(r.buf) + j - 1]
    BY <1>15 DEF next, len
  <2>3. /\ r.buf \o wanted \in Seq(S) /\ Len(r.buf \o wanted) = len + Len(wanted)
        /\ Prefix(r.buf \o wanted, off, count, size, C)
    BY ZenonT(60), <1>2, <1>15, <2>1, <2>2, PrefixGrows DEF len
  <2>4. off + (len + Len(wanted)) = upto
    BY <1>2, <1>15, <2>1
  <2> QED  BY Zenon, <1>16, <2>3, <2>4
<1>18. Sound(r2, P, S, tape)
  <2>1. r.last \in Cached(P, S)
    BY <1>2 DEF Reads
  <2>2. [at |-> << p, b >>, data |-> data] \in Cached(P, S)
    BY <1>3, <1>12, <1>13 DEF Cached
  <2>3. r2.last \in Cached(P, S) /\ r2.pos \in P \X Nat
    <3>1. << p, b + 1 >> \in P \X Nat
      BY <1>3
    <3>2. r2.last = r.last \/ r2.last = [at |-> << p, b >>, data |-> data]
      BY <1>16
    <3>3. r2.pos = << p, b + 1 >>
      BY <1>16
    <3> QED  BY Zenon, <2>1, <2>2, <3>1, <3>2, <3>3
  <2>4. r2 \in Reads(P, S)
    BY ZenonT(60), <1>16, <1>17, <2>3 DEF Reads
  <2>5. ASSUME NEW q \in P, NEW c \in Nat, r2.last.at = << q, c >>
        PROVE  c \in DOMAIN tape[q] /\ r2.last.data = tape[q][c]
    <3>1. CASE cached
      <4>1. r2.last = r.last
        BY <1>16, <3>1
      <4> QED  BY <2>5, <4>1 DEF Sound
    <3>2. CASE ~cached
      <4>1. r2.last = [at |-> << p, b >>, data |-> data]
        BY <1>16, <3>2
      <4>2. r2.last.at = << p, b >> /\ r2.last.data = data
        BY <4>1
      <4>3. q = p /\ c = b
        BY <2>5, <4>2
      <4> QED  BY ZenonT(20), <1>12, <1>13, <4>2, <4>3
    <3> QED  BY <3>1, <3>2
  <2> QED  BY Zenon, <1>16, <2>4, <2>5 DEF Sound
<1>19. \/ Len(r2.buf) = count \/ ee <= upto
       \/ b + 1 = Address(e, upto) \div BlockSize
  <2>1. CASE upto = lim
    <3>1. Len(r2.buf) \in Nat
      BY <1>17
    <3> QED  BY <1>17, <2>1, <3>1 DEF lim
  <2>2. CASE upto = lastbyte /\ lastbyte = ee
    BY <1>3, <2>2
  <2>3. CASE upto = lastbyte /\ lastbyte = next - m + BlockSize
    <3> DEFINE d == upto - next
               j == b + 1
    <3>1. d \in Nat /\ next + d = upto /\ m + d = BlockSize /\ m \in Nat
      <4>1. m \in Nat /\ BlockSize \in Nat
        BY <1>3, <1>5
      <4> HIDE DEF m
      <4> QED  BY <1>4, <1>10, <2>3, <4>1
    <3>2. j * BlockSize = bb + BlockSize /\ j \in Nat
      <4>1. j * BlockSize = bb + BlockSize
        BY NextBlock, Zenon DEF bb
      <4>2. j \in Nat
        OBVIOUS
      <4> QED  BY <4>1, <4>2
    <3> HIDE DEF d, j
    <3>3. Address(e, next + d) = a + d
      BY <1>4, <3>1, AddressOf DEF a, fo
    <3>4. Address(e, upto) = j * BlockSize + 0
      <4>1. Address(e, upto) = a + d
        BY <3>1, <3>3
      <4>2. a + d = bb + BlockSize
        BY <1>3, <1>5, <3>1
      <4>3. bb + BlockSize = j * BlockSize + 0
        BY <1>3, <3>2
      <4> QED  BY <4>1, <4>2, <4>3
    <3>5. 0 \in 0 .. BlockSize - 1
      BY BlockSizeAssumption
    <3>6. (j * BlockSize + 0) \div BlockSize = j
      BY <3>2, <3>5, DivModUnique
    <3> QED  BY <3>4, <3>6 DEF j
  <2> QED  BY <1>9, <1>10, <2>1, <2>2, <2>3
<1>20. fo <= upto
  BY <1>3, <1>4, <1>10
<1> QED  BY <1>16, <1>17, <1>18, <1>19, <1>20 DEF p, fo, ee

(* The block a byte of an extent is in, and the last one. *)
LEMMA BlockOf ==
  ASSUME NEW P, NEW e \in AnyExtent(P), NEW o \in Nat, e.fileoffset <= o
  PROVE  /\ Address(e, o) \div BlockSize
              = e.block + (o - e.fileoffset + e.byteoffset) \div BlockSize
         /\ Address(e, o) \div BlockSize \in Nat
         /\ LastBlock(e) \in Nat
         /\ o < End(e) => Address(e, o) \div BlockSize <= LastBlock(e)
<1> DEFINE k  == e.block
           fo == e.fileoffset
           bo == e.byteoffset
           bc == e.bytecount
           n  == o - fo + bo
           z  == bo + bc - 1
<1>1. k \in Nat /\ fo \in Nat /\ bo \in Nat /\ bc \in Nat \ {0} /\ fo <= o /\ End(e) = fo + bc
  BY ExtentTypes DEF End
<1>2. /\ Address(e, o) = k * BlockSize + bo + (o - fo)
      /\ LastBlock(e) = k + z \div BlockSize
  BY DEF Address, LastBlock
<1> HIDE DEF k, fo, bo, bc
<1>3. n \in Nat /\ z \in Nat /\ (o < End(e) => n <= z)
  BY <1>1
<1>4. k * BlockSize \in Nat
  BY Zenon, <1>1, Distributes
<1>5. Address(e, o) = k * BlockSize + n
  BY <1>1, <1>2, <1>4
<1> HIDE DEF n, z
<1>6. Address(e, o) \div BlockSize = k + n \div BlockSize
  BY <1>1, <1>3, <1>5, DivShift
<1>7. n \div BlockSize \in Nat /\ z \div BlockSize \in Nat
  BY <1>3, DivMod
<1>8. o < End(e) => n \div BlockSize <= z \div BlockSize
  BY <1>3, DivMonotone
<1>9. Address(e, o) \div BlockSize \in Nat /\ LastBlock(e) \in Nat
  BY <1>1, <1>2, <1>6, <1>7
<1>10. o < End(e) => Address(e, o) \div BlockSize <= LastBlock(e)
  BY <1>1, <1>2, <1>6, <1>7, <1>8
<1> QED  BY <1>6, <1>9, <1>10 DEF n, k, fo, bo

(* The step of the block loop, also when nothing more is wanted. *)
LEMMA ReadBlockKeeps ==
  ASSUME NEW P, NEW S, NEW tape \in [P -> Seq(Seq(S))], NEW e \in AnyExtent(P), NEW C,
         Backed(e, tape, C), NEW off \in Nat, NEW count \in Nat, NEW size \in Nat,
         End(e) <= size, NEW b \in Nat, NEW r,
         AtBlock(r, e, b, P, S, tape, off, count, size, C)
  PROVE  AtBlock(ReadBlock(r, e, b, tape, off, count), e, b + 1,
                 P, S, tape, off, count, size, C)
<1> DEFINE r2 == ReadBlock(r, e, b, tape, off, count)
           next == off + Len(r.buf)
<1>1. /\ Sound(r, P, S, tape) /\ Prefix(r.buf, off, count, size, C)
      /\ e.fileoffset <= next
      /\ \/ Len(r.buf) = count
         \/ End(e) <= next
         \/ b = Address(e, next) \div BlockSize /\ Positioned(r, e.partition, b)
  BY DEF AtBlock
<1>2. CASE Len(r.buf) = count \/ End(e) <= next
  <2>1. r2 = r
    BY Zenon, <1>2 DEF ReadBlock
  <2> QED  BY <1>1, <1>2, <2>1 DEF AtBlock
<1>3. CASE ~(Len(r.buf) = count \/ End(e) <= next)
  <2>1. End(e) \in Nat /\ Len(r.buf) \in Nat
    BY <1>1, ExtentTypes DEF Sound, Reads
  <2>2. off + Len(r.buf) < End(e) /\ Len(r.buf) # count
    BY <1>3, <2>1
  <2> QED  BY <2>2, ReadBlockReads, Zenon
<1> QED  BY <1>2, <1>3

(* The read wants nothing more before byte b of the file. *)
ReadTo(r, b, P, S, tape, off, count, size, C) ==
  /\ Sound(r, P, S, tape) /\ Prefix(r.buf, off, count, size, C)
  /\ Len(r.buf) = count \/ b <= off + Len(r.buf)

(* All blocks of an extent from block on. *)
LEMMA BlocksRead ==
  ASSUME NEW P, NEW S, NEW tape \in [P -> Seq(Seq(S))], NEW e \in AnyExtent(P), NEW C,
         Backed(e, tape, C), NEW off \in Nat, NEW count \in Nat, NEW size \in Nat,
         End(e) <= size, NEW block \in Nat, NEW n \in Nat, n = LastBlock(e) - block + 1,
         NEW a, AtBlock(a, e, block, P, S, tape, off, count, size, C)
  PROVE  ReadTo(ReadBlocks(a, e, block, tape, off, count), End(e),
                P, S, tape, off, count, size, C)
<1> DEFINE R == Reads(P, S)
           Step(i, r) == ReadBlock(r, e, block + i - 1, tape, off, count)
           Inv(i, r) == AtBlock(r, e, block + i, P, S, tape, off, count, size, C)
           G == [q \in (1 .. n) \X R |-> IF Step(q[1], q[2]) \in R THEN Step(q[1], q[2]) ELSE a]
           V == [i \in 0 .. n |-> { r \in R : Inv(i, r) }]
           F(f) == [i \in 0 .. n |-> IF i = 0 THEN a ELSE Step(i, f[i - 1])]
           W == CHOOSE f : f = F(f)
<1>0. ReadBlocks(a, e, block, tape, off, count) = W[n]
  BY DEF ReadBlocks
<1>1. \A i, r : Inv(i, r) => r \in R
  BY DEF AtBlock, Sound
<1>2. a \in R /\ a \in V[0]
  <2>1. Inv(0, a)
    <3>1. block + 0 = block
      OBVIOUS
    <3> QED  BY <3>1
  <2> HIDE DEF R, Inv
  <2> QED  BY <1>1, <2>1
<1>3. ASSUME NEW i \in 1 .. n, NEW r \in R, r \in V[i - 1]
      PROVE  Step(i, r) \in R /\ Step(i, r) \in V[i]
  <2> DEFINE b == block + i - 1
  <2>1. b \in Nat /\ b + 1 = block + i /\ b = block + (i - 1) /\ i - 1 \in 0 .. n /\ i \in 0 .. n
    OBVIOUS
  <2>2. AtBlock(r, e, b, P, S, tape, off, count, size, C)
    <3>1. Inv(i - 1, r)
      <4> HIDE DEF Inv, R
      <4> QED  BY <1>3, <2>1
    <3> QED  BY <2>1, <3>1
  <2> HIDE DEF b
  <2>3. AtBlock(ReadBlock(r, e, b, tape, off, count), e, b + 1, P, S, tape, off, count, size, C)
    BY ZenonT(20), <2>1, <2>2, ReadBlockKeeps
  <2>4. Inv(i, Step(i, r))
    BY <2>1, <2>3 DEF b
  <2> HIDE DEF Inv, Step, R
  <2> QED  BY <1>1, <2>1, <2>4
<1>4. G \in [(1 .. n) \X R -> R]
  BY <1>2
<1>5. ASSUME NEW i \in 1 .. n, NEW r \in R, r \in V[i - 1]
      PROVE  G[<<i, r>>] = Step(i, r) /\ G[<<i, r>>] \in V[i]
  <2>1. Step(i, r) \in R /\ Step(i, r) \in V[i]
    BY Zenon, <1>3, <1>5
  <2>2. G[<<i, r>>] = IF Step(i, r) \in R THEN Step(i, r) ELSE a
    <3> HIDE DEF Step, R
    <3> QED  OBVIOUS
  <2> QED  BY <2>1, <2>2
<1> HIDE DEF G, V, R, Step, Inv
<1>6. PICK f : IsWalk(f, R, n, a, G) /\ \A i \in 0 .. n : f[i] \in V[i]
  BY ZenonT(60), <1>1, <1>2, <1>4, <1>5, WalkKeeps
<1>7. f \in [0 .. n -> R] /\ f[0] = a /\ \A i \in 1 .. n : f[i] = Step(i, f[i - 1])
  <2>1. f \in [0 .. n -> R] /\ f[0] = a /\ \A i \in 1 .. n : f[i] = G[<<i, f[i - 1]>>]
    BY <1>6 DEF IsWalk
  <2>2. ASSUME NEW i \in 1 .. n PROVE f[i] = Step(i, f[i - 1])
    <3>1. i - 1 \in 0 .. n
      BY <1>1
    <3>2. f[i - 1] \in R /\ f[i - 1] \in V[i - 1]
      BY <1>6, <2>1, <3>1
    <3> QED  BY Zenon, <1>5, <2>1, <3>2
  <2> QED  BY <2>1, <2>2
<1>8. f = F(f)
  BY <1>7
<1>9. W = F(W)
  <2> HIDE DEF F
  <2> QED  BY <1>8
<1> HIDE DEF W
<1>10. W[0] = a /\ \A i \in 1 .. n : W[i] = Step(i, W[i - 1])
  <2>1. \A i \in 1 .. n : i \in 0 .. n /\ i # 0
    OBVIOUS
  <2>2. 0 \in 0 .. n
    OBVIOUS
  <2>3. \A i \in 0 .. n : W[i] = IF i = 0 THEN a ELSE Step(i, W[i - 1])
    BY <1>9, Zenon
  <2> QED  BY <2>1, <2>2, <2>3, Zenon
<1>11. W[n] = f[n]
  <2>1. W[0] = f[0] /\ \A i \in 1 .. n : W[i - 1] = f[i - 1] => W[i] = f[i]
    BY <1>7, <1>10, Zenon
  <2> HIDE DEF F
  <2> QED  BY <2>1, SameWalk
<1>12. f[n] \in R /\ f[n] \in V[n]
  BY <1>6, <1>7
<1>13. Inv(n, W[n])
  BY <1>11, <1>12 DEF V
<1> DEFINE r == W[n]
           next == off + Len(r.buf)
<1> HIDE DEF r
<1>14. AtBlock(r, e, block + n, P, S, tape, off, count, size, C) /\ block + n = LastBlock(e) + 1
  <2>1. LastBlock(e) \in Nat
    <3>1. e.fileoffset \in Nat /\ e.fileoffset <= e.fileoffset
      BY ExtentTypes
    <3> QED  BY <3>1, BlockOf, Zenon
  <2> QED  BY <1>13, <2>1 DEF Inv, r
<1>15. Len(r.buf) = count \/ End(e) <= next
  <2>1. next \in Nat /\ e.fileoffset <= next
    BY <1>14 DEF AtBlock, Sound, Reads
  <2> SUFFICES ASSUME ~(End(e) <= next), Len(r.buf) # count PROVE FALSE
    OBVIOUS
  <2>2. End(e) \in Nat /\ next < End(e)
    BY <2>1, ExtentTypes
  <2>3. LastBlock(e) + 1 = Address(e, next) \div BlockSize
    BY <1>14 DEF AtBlock
  <2> HIDE DEF next
  <2>4. /\ LastBlock(e) \in Nat /\ Address(e, next) \div BlockSize \in Nat
        /\ Address(e, next) \div BlockSize <= LastBlock(e)
    BY <2>1, <2>2, BlockOf
  <2> QED  BY <2>3, <2>4
<1> QED  BY <1>0, <1>14, <1>15 DEF AtBlock, ReadTo, r

-----------------------------------------------------------------------------
(* Zeros where no extent has a byte, up to x. *)
LEMMA ZerosAre ==
  ASSUME NEW S, Hole \in S, NEW m \in Nat
  PROVE  Zeros(m) \in Seq(S) /\ Len(Zeros(m)) = m /\ \A j \in 1 .. m : Zeros(m)[j] = Hole
  BY DEF Zeros

(* Nothing of the file is between what was read and byte x. *)
HoleUpTo(r, x, off, C) ==
  off + Len(r.buf) < x => \A o \in Nat : off + Len(r.buf) <= o /\ o < x => C[o] = Hole

(* Fill changes the buffer only. *)
LEMMA FillIs ==
  ASSUME NEW P, NEW S, NEW r \in Reads(P, S), NEW z, NEW off
  PROVE  Fill(r, z, off) = [buf |-> r.buf \o Zeros(z - (off + Len(r.buf))),
                            failed |-> r.failed, pos |-> r.pos, last |-> r.last]
<1> DEFINE y == r.buf \o Zeros(z - (off + Len(r.buf)))
<1>1. Fill(r, z, off) = [r EXCEPT !.buf = y]
  BY DEF Fill
<1> HIDE DEF y
<1>2. [r EXCEPT !.buf = y] = [buf |-> y, failed |-> r.failed, pos |-> r.pos, last |-> r.last]
  BY DEF Reads
<1> QED  BY <1>1, <1>2 DEF y

Fillable(r, x, P, S, tape, off, count, size, C) ==
  /\ Sound(r, P, S, tape) /\ Prefix(r.buf, off, count, size, C)
  /\ x \in Nat /\ x <= size /\ off + Len(r.buf) < x /\ HoleUpTo(r, x, off, C)

(* memset up to byte x, or as far as the read goes, reads the hole. *)
LEMMA FillReads ==
  ASSUME NEW P, NEW S, Hole \in S, NEW tape, NEW C,
         NEW off \in Nat, NEW count \in Nat, NEW size \in Nat, NEW r, NEW x,
         Fillable(r, x, P, S, tape, off, count, size, C)
  PROVE  ReadTo(Fill(r, Smaller(x, off + count), off), x, P, S, tape, off, count, size, C)
<1> SUFFICES ASSUME Sound(r, P, S, tape), Prefix(r.buf, off, count, size, C),
                    x \in Nat, x <= size, off + Len(r.buf) < x, HoleUpTo(r, x, off, C),
                    NEW z, z = Smaller(x, off + count)
             PROVE  /\ Sound(Fill(r, z, off), P, S, tape)
                    /\ Prefix(Fill(r, z, off).buf, off, count, size, C)
                    /\ off + Len(Fill(r, z, off).buf) = z
                    /\ z = x \/ z = off + count
  <2> DEFINE y  == Smaller(x, off + count)
             r3 == Fill(r, y, off)
  <2> HIDE DEF y, r3
  <2>1. /\ Sound(r3, P, S, tape) /\ Prefix(r3.buf, off, count, size, C)
        /\ off + Len(r3.buf) = y /\ (y = x \/ y = off + count)
    BY DEF Fillable, y, r3
  <2>2. Len(r3.buf) \in Nat /\ x \in Nat
    BY <2>1 DEF Sound, Reads, Fillable
  <2>3. Len(r3.buf) = count \/ x <= off + Len(r3.buf)
    BY <2>1, <2>2
  <2> QED  BY <2>1, <2>3 DEF ReadTo, r3, y
<1> DEFINE len  == Len(r.buf)
           m    == z - (off + len)
           more == Zeros(m)
           buf  == r.buf
           r2   == Fill(r, z, off)
<1>1. /\ r \in Reads(P, S) /\ buf \in Seq(S) /\ len \in Nat /\ len <= count
  BY DEF Sound, Reads, Prefix
<1>2. off + len < x /\ \A o \in Nat : off + len <= o /\ o < x => C[o] = Hole
  BY DEF HoleUpTo
<1>4. r2 = [buf |-> buf \o more, failed |-> r.failed, pos |-> r.pos, last |-> r.last]
  BY <1>1, FillIs, Zenon
<1>3. r2.buf = buf \o more /\ r2.failed = r.failed /\ r2.pos = r.pos /\ r2.last = r.last
  <2> HIDE DEF more, r2
  <2> QED  BY <1>4
<1> HIDE DEF len, r2
<1>5. /\ z \in Nat /\ m \in Nat /\ z <= x /\ len + m <= count /\ off + len + m = z
      /\ z = x \/ z = off + count
  <2>1. m = z - (off + len)
    OBVIOUS
  <2> HIDE DEF m
  <2>2. len \in Nat /\ len <= count /\ off + len < x
    BY <1>1, <1>2
  <2> QED  BY <2>1, <2>2 DEF Smaller
<1> HIDE DEF m
<1>6. /\ more \in Seq(S) /\ Len(more) = m /\ \A j \in 1 .. m : more[j] = Hole
  BY <1>5, ZerosAre
<1>7. \A j \in 1 .. m : more[j] = C[off + len + j - 1]
  <2> TAKE j \in 1 .. m
  <2>1. off + len + j - 1 \in Nat /\ off + len <= off + len + j - 1 /\ off + len + j - 1 < x
    <3>1. off + len \in Nat /\ off + len + m <= x
      BY <1>1, <1>5
    <3> HIDE DEF len
    <3> QED  BY <1>1, <1>5, <3>1
  <2> QED  BY <1>2, <1>6, <2>1
<1> HIDE DEF more, buf
<1>8. /\ buf \o more \in Seq(S) /\ Len(buf \o more) = len + m
      /\ Prefix(buf \o more, off, count, size, C)
  <2>1. Prefix(buf, off, count, size, C) /\ len = Len(buf)
    BY DEF buf, len
  <2>2. Len(more) # 0 => off + Len(buf) + Len(more) <= size
    BY <1>1, <1>5, <1>6, <2>1
  <2>3. Len(buf) + Len(more) <= count
    BY <1>5, <1>6, <2>1
  <2>4. \A j \in 1 .. Len(more) : more[j] = C[off + Len(buf) + j - 1]
    BY <1>6, <1>7, <2>1
  <2>5. /\ buf \o more \in Seq(S) /\ Len(buf \o more) = Len(buf) + Len(more)
        /\ Prefix(buf \o more, off, count, size, C)
    BY <1>1, <1>6, <2>1, <2>2, <2>3, <2>4, PrefixGrows, Zenon
  <2> QED  BY <1>6, <2>1, <2>5
<1>9. off + Len(r2.buf) = z
  BY <1>1, <1>3, <1>5, <1>8
<1>10. r2 \in Reads(P, S)
  BY <1>1, <1>4, <1>8 DEF Reads
<1>11. ~r2.failed
  BY <1>3 DEF Sound
<1>12. Sound(r2, P, S, tape)
  BY <1>3, <1>10, <1>11 DEF Sound
<1> QED  BY Zenon, <1>3, <1>5, <1>8, <1>9, <1>12 DEF r2


(***************************************************************************)
(* One extent: the hole before it, the seek to the first block wanted,     *)
(* which the cached block may spare, and the blocks one by one.            *)
(***************************************************************************)
LEMMA ReadExtentReads ==
  ASSUME NEW P, NEW S, Hole \in S, NEW tape \in [P -> Seq(Seq(S))],
         NEW e \in AnyExtent(P), NEW C, Backed(e, tape, C),
         NEW off \in Nat, NEW count \in Nat, NEW size \in Nat, End(e) <= size,
         NEW r, Sound(r, P, S, tape), Prefix(r.buf, off, count, size, C),
         Len(r.buf) = count \/ HoleUpTo(r, e.fileoffset, off, C)
  PROVE  ReadTo(ReadExtent(r, e, tape, off, count), End(e), P, S, tape, off, count, size, C)
<1> DEFINE z      == Smaller(e.fileoffset, off + count)
           s      == IF off + Len(r.buf) < e.fileoffset THEN Fill(r, z, off) ELSE r
           next   == off + Len(s.buf)
           block  == e.block + (next - e.fileoffset + e.byteoffset) \div BlockSize
           sought == SeekTo(s, e.partition, block)
           w      == ReadBlocks(sought, e, block, tape, off, count)
           r2     == ReadExtent(r, e, tape, off, count)
<1>2. /\ e.fileoffset \in Nat /\ End(e) \in Nat /\ e.fileoffset <= size
      /\ e.partition \in P
  BY ExtentTypes
<1>3. Len(r.buf) \in Nat /\ r.failed = FALSE
  BY DEF Sound, Reads
<1>4. CASE Len(r.buf) = count
  <2>1. r2 = r
    BY <1>4 DEF ReadExtent
  <2> HIDE DEF r2
  <2> QED  BY <1>4, <2>1 DEF ReadTo, r2
<1>5. CASE Len(r.buf) # count
  <2>1. /\ Sound(s, P, S, tape) /\ Prefix(s.buf, off, count, size, C)
        /\ e.fileoffset <= next \/ next = off + count
    <3>1. CASE off + Len(r.buf) < e.fileoffset
      <4>1. HoleUpTo(r, e.fileoffset, off, C)
        BY <1>5
      <4>2. s = Fill(r, z, off) /\ z = Smaller(e.fileoffset, off + count)
        BY <3>1
      <4> HIDE DEF z, s
      <4>3. Fillable(r, e.fileoffset, P, S, tape, off, count, size, C)
        BY <1>2, <3>1, <4>1 DEF Fillable
      <4>4. ReadTo(s, e.fileoffset, P, S, tape, off, count, size, C)
        BY <4>2, <4>3, FillReads
      <4> QED  BY Zenon, <4>4 DEF ReadTo
    <3>2. CASE ~(off + Len(r.buf) < e.fileoffset)
      <4>1. s = r
        BY <3>2
      <4> HIDE DEF s
      <4> QED  BY <1>2, <1>3, <3>2, <4>1
    <3> QED  BY <3>1, <3>2
  <2>2. r2 = IF off + count < e.fileoffset \/ End(e) <= next THEN s ELSE w
    BY ZenonT(20), <1>3, <1>5 DEF ReadExtent
  <2> HIDE DEF r2, w
  <2> HIDE DEF s
  <2>3. Len(s.buf) \in Nat /\ next \in Nat /\ s \in Reads(P, S)
    BY <2>1 DEF Sound, Reads
  <2>4. CASE off + count < e.fileoffset \/ End(e) <= next
    <3>1. Len(s.buf) = count \/ End(e) <= next
      <4>1. Len(s.buf) <= count
        BY <2>1 DEF Prefix
      <4> QED  BY <1>2, <2>1, <2>3, <2>4, <4>1
    <3>2. r2 = s
      BY <2>2, <2>4
    <3> QED  BY <2>1, <3>1, <3>2 DEF ReadTo, r2
  <2>5. CASE ~(off + count < e.fileoffset \/ End(e) <= next)
    <3>1. e.fileoffset <= next /\ next < End(e)
      BY <1>2, <2>1, <2>3, <2>5
    <3>2. /\ block = Address(e, next) \div BlockSize /\ block \in Nat
          /\ LastBlock(e) \in Nat /\ block <= LastBlock(e)
      <4> HIDE DEF next
      <4> QED  BY <2>3, <3>1, BlockOf
    <3> HIDE DEF block
    <3>3. sought = IF InCache(s, e.partition, block) THEN s
                   ELSE [s EXCEPT !.pos = << e.partition, block >>]
      BY DEF SeekTo
    <3> HIDE DEF sought
    <3>4. /\ sought.buf = s.buf /\ Sound(sought, P, S, tape)
          /\ Positioned(sought, e.partition, block)
      <4>1. CASE InCache(s, e.partition, block)
        BY ZenonT(20), <2>1, <3>3, <4>1 DEF Positioned
      <4>2. CASE ~InCache(s, e.partition, block)
        <5>1. sought = [s EXCEPT !.pos = << e.partition, block >>]
          BY <3>3, <4>2
        <5>2. /\ sought = [buf |-> s.buf, failed |-> s.failed,
                           pos |-> << e.partition, block >>, last |-> s.last]
              /\ s.buf \in Seq(S) /\ s.failed \in BOOLEAN /\ s.last \in Cached(P, S)
          BY Zenon, <2>3, <5>1 DEF Reads
        <5>3. /\ sought.buf = s.buf /\ sought.failed = s.failed /\ sought.last = s.last
              /\ sought.pos = << e.partition, block >>
          BY <5>2
        <5>4. sought \in Reads(P, S)
          BY <1>2, <3>2, <5>2 DEF Reads
        <5>5. ~sought.failed
          BY <2>1, <5>3 DEF Sound
        <5> QED  BY <2>1, <5>3, <5>4, <5>5 DEF Sound, Positioned
      <4> QED  BY <4>1, <4>2
    <3>5. AtBlock(sought, e, block, P, S, tape, off, count, size, C)
      BY <2>1, <3>1, <3>2, <3>4 DEF AtBlock
    <3>6. ReadTo(w, End(e), P, S, tape, off, count, size, C)
      <4> DEFINE n == LastBlock(e) - block + 1
      <4>1. n \in Nat
        BY <3>2
      <4>2. n = LastBlock(e) - block + 1
        OBVIOUS
      <4> HIDE DEF n
      <4> QED  BY Zenon, <3>2, <3>5, <4>1, <4>2, BlocksRead DEF w
    <3> QED  BY <2>2, <2>5, <3>6 DEF r2
  <2> QED  BY <2>4, <2>5
<1> QED  BY <1>4, <1>5

-----------------------------------------------------------------------------
(***************************************************************************)
(* The list l has the file C of the given size: its extents are in order,  *)
(* their bytes are on the tape, and the bytes in none of them are zero.    *)
(***************************************************************************)
ListHas(l, size, tape, C) ==
  /\ InOrder(l) /\ EndsBy(l, size)
  /\ \A i \in DOMAIN l : Backed(l[i], tape, C)
  /\ \A o \in Nat : (\A i \in DOMAIN l : ~Inside(l[i], o)) => C[o] = Hole

(* The read is through with the first i extents. *)
Through(r, i, l, P, S, tape, off, count, size, C) ==
  /\ Sound(r, P, S, tape) /\ Prefix(r.buf, off, count, size, C)
  /\ Len(r.buf) = count \/ \A j \in 1 .. i : End(l[j]) <= off + Len(r.buf)

(* Byte o of the file is after the first i extents and before the others. *)
Between(l, i, o) ==
  /\ \A j \in 1 .. i : End(l[j]) <= o
  /\ i < Len(l) => o < l[i + 1].fileoffset

(* Such a byte is in no extent, and reads as zero. *)
LEMMA ListHole ==
  ASSUME NEW P, NEW l \in Seq(AnyExtent(P)), NEW size, NEW tape, NEW C,
         ListHas(l, size, tape, C), NEW i \in 0 .. Len(l), NEW o \in Nat, Between(l, i, o)
  PROVE  C[o] = Hole
<1>1. ASSUME NEW j \in DOMAIN l PROVE ~Inside(l[j], o)
  <2>1. j \in 1 .. Len(l) /\ Len(l) \in Nat /\ DOMAIN l = 1 .. Len(l)
    OBVIOUS
  <2>2. l[j].fileoffset \in Nat /\ End(l[j]) \in Nat
    BY ExtentTypes
  <2>3. CASE j <= i
    <3>1. End(l[j]) <= o
      BY <2>1, <2>3 DEF Between
    <3> QED  BY <2>2, <3>1 DEF Inside
  <2>4. CASE i < j
    <3>1. i + 1 \in DOMAIN l /\ i < Len(l)
      BY <2>1, <2>4
    <3>2. /\ l[i + 1].fileoffset \in Nat /\ End(l[i + 1]) \in Nat
          /\ l[i + 1].fileoffset < End(l[i + 1])
      BY <3>1, ExtentTypes
    <3>3. i + 1 = j \/ End(l[i + 1]) <= l[j].fileoffset
      <4>1. i + 1 = j \/ i + 1 < j
        BY <2>1, <2>4
      <4> QED  BY <3>1, <4>1 DEF ListHas, InOrder
    <3>4. l[i + 1].fileoffset <= l[j].fileoffset
      BY <2>2, <3>2, <3>3
    <3>5. o < l[i + 1].fileoffset
      BY <3>1 DEF Between
    <3> QED  BY <2>2, <3>2, <3>4, <3>5 DEF Inside
  <2> QED  BY <2>1, <2>3, <2>4
<1> QED  BY <1>1 DEF ListHas

(* The step of the extent loop. *)
LEMMA ThroughNext ==
  ASSUME NEW P, NEW S, Hole \in S, NEW tape \in [P -> Seq(Seq(S))], NEW C,
         NEW l \in Seq(AnyExtent(P)), NEW size \in Nat, ListHas(l, size, tape, C),
         NEW off \in Nat, NEW count \in Nat, NEW i \in 1 .. Len(l), NEW r,
         Through(r, i - 1, l, P, S, tape, off, count, size, C)
  PROVE  Through(ReadExtent(r, l[i], tape, off, count), i, l,
                 P, S, tape, off, count, size, C)
<1> DEFINE e  == l[i]
           r2 == ReadExtent(r, e, tape, off, count)
<1>1. /\ Sound(r, P, S, tape) /\ Prefix(r.buf, off, count, size, C)
      /\ Len(r.buf) = count \/ \A j \in 1 .. i - 1 : End(l[j]) <= off + Len(r.buf)
  BY DEF Through
<1>2. /\ i \in DOMAIN l /\ Len(l) \in Nat /\ i \in Nat /\ i - 1 \in 0 .. Len(l) /\ i - 1 + 1 = i
      /\ DOMAIN l = 1 .. Len(l) /\ e \in AnyExtent(P)
  OBVIOUS
<1>3. Backed(e, tape, C) /\ End(e) <= size
  BY <1>2 DEF ListHas, EndsBy
<1>4. e.fileoffset \in Nat /\ End(e) \in Nat /\ e.fileoffset < End(e)
  BY ZenonT(20), <1>2, ExtentTypes
<1>5. Len(r.buf) \in Nat
  BY <1>1 DEF Sound, Reads
<1>6. Len(r.buf) = count \/ HoleUpTo(r, e.fileoffset, off, C)
  <2> SUFFICES ASSUME Len(r.buf) # count, NEW o \in Nat, off + Len(r.buf) <= o,
                      o < e.fileoffset
               PROVE  C[o] = Hole
    BY DEF HoleUpTo
  <2> DEFINE k == i - 1
  <2>1. ASSUME NEW j \in 1 .. k PROVE End(l[j]) <= o
    <3>1. End(l[j]) <= off + Len(r.buf)
      BY <1>1
    <3>2. End(l[j]) \in Nat
      <4>1. l[j] \in AnyExtent(P)
        BY <1>2
      <4> QED  BY ZenonT(20), <4>1, ExtentTypes
    <3> QED  BY <1>5, <3>1, <3>2
  <2>2. k \in 0 .. Len(l) /\ (k < Len(l) => o < l[k + 1].fileoffset)
    BY <1>2
  <2> HIDE DEF k
  <2>3. Between(l, k, o)
    BY <2>1, <2>2 DEF Between
  <2> QED  BY <2>2, <2>3, ListHole
<1> HIDE DEF e
<1>7. ReadTo(r2, End(e), P, S, tape, off, count, size, C)
  BY <1>1, <1>2, <1>3, <1>6, ReadExtentReads
<1> HIDE DEF r2
<1>8. /\ Sound(r2, P, S, tape) /\ Prefix(r2.buf, off, count, size, C)
      /\ Len(r2.buf) = count \/ End(e) <= off + Len(r2.buf)
  BY <1>7 DEF ReadTo
<1>9. ASSUME End(e) <= off + Len(r2.buf), NEW j \in 1 .. i
      PROVE  End(l[j]) <= off + Len(r2.buf)
  <2>1. Len(r2.buf) \in Nat
    BY <1>8 DEF Sound, Reads
  <2>2. j \in DOMAIN l /\ (j = i \/ j < i)
    BY <1>2
  <2>3. End(l[j]) \in Nat
    BY <2>2, ExtentTypes
  <2>4. j = i \/ End(l[j]) <= e.fileoffset
    BY <1>2, <2>2 DEF ListHas, InOrder, e
  <2> QED  BY <1>4, <1>9, <2>1, <2>3, <2>4 DEF e
<1>10. Through(r2, i, l, P, S, tape, off, count, size, C)
  BY <1>8, <1>9 DEF Through
<1> QED  BY <1>10 DEF r2, e

(***************************************************************************)
(* ltfs_fsraw_read over the whole list: the read does not fail, the cached *)
(* block stays current, and the buffer has the bytes of the file from off  *)
(* on, as many as were asked for or up to the end of the file.             *)
(***************************************************************************)
THEOREM ReadFileReads ==
  ASSUME NEW P, NEW S, Hole \in S, NEW tape \in [P -> Seq(Seq(S))], NEW C,
         NEW l \in Seq(AnyExtent(P)), NEW size \in Nat, ListHas(l, size, tape, C),
         NEW off \in Nat, NEW count \in Nat, NEW pos, NEW last,
         Sound([buf |-> << >>, failed |-> FALSE, pos |-> pos, last |-> last], P, S, tape)
  PROVE  ReadTo(ReadFile(l, size, tape, pos, last, off, count), size,
                P, S, tape, off, count, size, C)
<1> DEFINE n == Len(l)
           a == [buf |-> << >>, failed |-> FALSE, pos |-> pos, last |-> last]
           R == Reads(P, S)
           Step(i, r) == ReadExtent(r, l[i], tape, off, count)
           Inv(i, r) == Through(r, i, l, P, S, tape, off, count, size, C)
           G == [q \in (1 .. n) \X R |-> IF Step(q[1], q[2]) \in R THEN Step(q[1], q[2]) ELSE a]
           V == [i \in 0 .. n |-> { r \in R : Inv(i, r) }]
           F(f) == [i \in 0 .. n |-> IF i = 0 THEN a ELSE Step(i, f[i - 1])]
           W == CHOOSE f : f = F(f)
           z == Smaller(size, off + count)
           result == ReadFile(l, size, tape, pos, last, off, count)
<1>0. result = IF W[n].failed \/ Len(W[n].buf) = count \/ off + Len(W[n].buf) >= size THEN W[n]
               ELSE Fill(W[n], z, off)
  BY ZenonT(60) DEF ReadFile
<1> HIDE DEF result, z
<1>1. n \in Nat /\ \A i, r : Inv(i, r) => r \in R
  BY DEF Through, Sound
<1>2. a \in R /\ a \in V[0]
  <2>1. Inv(0, a)
    <3>1. Sound(a, P, S, tape) /\ a.buf = << >>
      OBVIOUS
    <3> HIDE DEF a
    <3>2. Len(a.buf) = 0 /\ 1 .. 0 = {}
      BY <3>1
    <3>3. Prefix(a.buf, off, count, size, C)
      BY <3>2 DEF Prefix
    <3> QED  BY <3>1, <3>2, <3>3 DEF Through
  <2> HIDE DEF R, Inv, a
  <2> QED  BY <1>1, <2>1
<1>3. ASSUME NEW i \in 1 .. n, NEW r \in R, r \in V[i - 1]
      PROVE  Step(i, r) \in R /\ Step(i, r) \in V[i]
  <2>1. i - 1 \in 0 .. n /\ i \in 0 .. n
    BY <1>1
  <2>2. Inv(i - 1, r)
    <3> HIDE DEF Inv, R
    <3> QED  BY <1>3, <2>1
  <2>3. Inv(i, Step(i, r))
    BY ZenonT(20), <2>2, ThroughNext
  <2> HIDE DEF Inv, Step, R
  <2> QED  BY <1>1, <2>1, <2>3
<1>4. G \in [(1 .. n) \X R -> R]
  BY ZenonT(20), <1>2
<1>5. ASSUME NEW i \in 1 .. n, NEW r \in R, r \in V[i - 1]
      PROVE  G[<<i, r>>] = Step(i, r) /\ G[<<i, r>>] \in V[i]
  <2>1. Step(i, r) \in R /\ Step(i, r) \in V[i]
    BY Zenon, <1>3, <1>5
  <2>2. G[<<i, r>>] = IF Step(i, r) \in R THEN Step(i, r) ELSE a
    <3> HIDE DEF Step, R, a, n
    <3> QED  OBVIOUS
  <2> QED  BY Zenon, <2>1, <2>2
<1> HIDE DEF G, V, R, Step, Inv, a, n
<1>6. PICK f : IsWalk(f, R, n, a, G) /\ \A i \in 0 .. n : f[i] \in V[i]
  BY ZenonT(60), <1>1, <1>2, <1>4, <1>5, WalkKeeps
<1>7. f \in [0 .. n -> R] /\ f[0] = a /\ \A i \in 1 .. n : f[i] = Step(i, f[i - 1])
  <2>1. f \in [0 .. n -> R] /\ f[0] = a /\ \A i \in 1 .. n : f[i] = G[<<i, f[i - 1]>>]
    BY <1>6 DEF IsWalk
  <2>2. ASSUME NEW i \in 1 .. n PROVE f[i] = Step(i, f[i - 1])
    <3>1. i - 1 \in 0 .. n
      BY <1>1
    <3>2. f[i - 1] \in R /\ f[i - 1] \in V[i - 1]
      BY ZenonT(20), <1>6, <2>1, <3>1
    <3> QED  BY Zenon, <1>5, <2>1, <3>2
  <2> QED  BY ZenonT(20), <2>1, <2>2
<1>8. f = F(f)
  BY <1>7
<1>9. W = F(W)
  <2> HIDE DEF F
  <2> QED  BY <1>8
<1> HIDE DEF W
<1>10. W[0] = a /\ \A i \in 1 .. n : W[i] = Step(i, W[i - 1])
  <2>1. \A i \in 1 .. n : i \in 0 .. n /\ i # 0
    BY <1>1
  <2>2. 0 \in 0 .. n
    BY <1>1
  <2>3. \A i \in 0 .. n : W[i] = IF i = 0 THEN a ELSE Step(i, W[i - 1])
    BY <1>9, Zenon
  <2> QED  BY <2>1, <2>2, <2>3, Zenon
<1>11. W[n] = f[n]
  <2>1. W[0] = f[0] /\ \A i \in 1 .. n : W[i - 1] = f[i - 1] => W[i] = f[i]
    BY <1>1, <1>7, <1>10
  <2> HIDE DEF F
  <2> QED  BY <1>1, <2>1, SameWalk
<1>12. f[n] \in R /\ f[n] \in V[n]
  BY <1>1, <1>6, <1>7
<1>13. Inv(n, W[n])
  <2>1. n \in 0 .. n
    BY <1>1
  <2> QED  BY <1>11, <1>12, <2>1 DEF V
<1> DEFINE r == W[n]
           next == off + Len(r.buf)
<1> HIDE DEF r
<1>14. Through(r, n, l, P, S, tape, off, count, size, C)
  BY ZenonT(20), <1>13 DEF Inv, r
<1>15. /\ Sound(r, P, S, tape) /\ Prefix(r.buf, off, count, size, C)
       /\ Len(r.buf) \in Nat /\ ~r.failed
       /\ Len(r.buf) = count \/ \A j \in 1 .. n : End(l[j]) <= next
  BY <1>14 DEF Through, Sound, Reads
<1>16. CASE Len(r.buf) = count \/ next >= size
  <2>1. result = r
    BY <1>0, <1>16 DEF r
  <2>2. Len(r.buf) = count \/ size <= next
    BY <1>15, <1>16
  <2> QED  BY <1>15, <2>1, <2>2 DEF ReadTo, result
<1>17. CASE ~(Len(r.buf) = count \/ next >= size)
  <2>1. result = Fill(r, z, off)
    BY ZenonT(60), <1>0, <1>15, <1>17 DEF r
  <2>2. HoleUpTo(r, size, off, C)
    <3> SUFFICES ASSUME NEW o \in Nat, next <= o, o < size PROVE C[o] = Hole
      BY DEF HoleUpTo
    <3>1. ASSUME NEW j \in 1 .. Len(l) PROVE End(l[j]) <= o
      <4>1. End(l[j]) <= next /\ next \in Nat
        BY <1>15, <1>17 DEF n
      <4>2. End(l[j]) \in Nat
        BY ExtentTypes
      <4> HIDE DEF next
      <4> QED  BY <4>1, <4>2
    <3>2. Between(l, Len(l), o) /\ Len(l) \in 0 .. Len(l)
      BY <3>1 DEF Between
    <3> QED  BY <3>2, ListHole
  <2>3. Fillable(r, size, P, S, tape, off, count, size, C)
    BY <1>15, <1>17, <2>2 DEF Fillable
  <2> QED  BY <2>1, <2>3, FillReads DEF z, result
<1> QED  BY ZenonT(20), <1>16, <1>17

=============================================================================
