------------------------- MODULE FileExtentsProofs -------------------------
(***************************************************************************)
(* The file of FileExtents, for every block size, set of partitions and    *)
(* bounds: each write, truncate and read, in any order, keeps FInv.        *)
(***************************************************************************)
EXTENDS FileExtents, ExtentReadProofs

(* How long a prover may take for a step that does not say so. *)
USE SMTT(40), ZenonT(40)

-----------------------------------------------------------------------------
(* Extents within the bounds of the file, and extents in general. *)
LEMMA ExtentIsAny == Extent \in SUBSET AnyExtent(Partitions)
  BY DEF Extent

(* Extents that end within the size are within the bounds. *)
LEMMA WithinBounds ==
  ASSUME NEW s \in Seq(AnyExtent(Partitions)), NEW b \in 0 .. MaxSize, EndsBy(s, b)
  PROVE  s \in Seq(Extent)
<1>1. ASSUME NEW i \in DOMAIN s PROVE s[i] \in Extent
  <2>1. s[i] \in AnyExtent(Partitions)
    OBVIOUS
  <2>2. End(s[i]) <= b /\ End(s[i]) \in Nat
    BY <2>1, ExtentTypes DEF EndsBy
  <2> QED  BY <2>1, <2>2, FileExtentsAssumption DEF Extent
<1> QED  BY <1>1

-----------------------------------------------------------------------------
(* A new file: no extents, an empty tape and nothing cached. *)
LEMMA FInvInit == Init => FInv
<1> SUFFICES ASSUME Init PROVE FInv
  OBVIOUS
<1>1. TypeOK
  <2>1. tape \in [Partitions -> Seq(Seq(Byte))] /\ \A p \in Partitions : DOMAIN tape[p] = {}
    BY DEF Init
  <2>2. extentlist \in Seq(Extent) /\ content \in Seq(0 .. MaxWrites)
    BY EmptyList DEF Init
  <2>3. /\ size \in 0 .. MaxSize /\ realsize \in 0 .. MaxSize
        /\ writes \in 0 .. MaxWrites /\ others \in 0 .. MaxOthers
    BY FileExtentsAssumption DEF Init
  <2> QED  BY Zenon, <2>1, <2>2, <2>3 DEF Init, TypeOK
<1>2. ListConsistent
  BY EmptyList DEF Init, ListConsistent
<1>3. BytesInPlace
  BY DEF Init, BytesInPlace
<1>4. CacheCurrent
  BY EmptyList DEF Init, CacheCurrent, NoBlock
<1> QED  BY <1>1, <1>2, <1>3, <1>4 DEF FInv, Init

-----------------------------------------------------------------------------
(* _ltfs_fsraw_add_extent_unlocked, after the extents of any other writes. *)
LEMMA AddPendingKeeps ==
  ASSUME FInv, NEW w \in pending, AddPending(w)
  PROVE  FInv'
<1> DEFINE x == w.ext
           added == AddExtent(extentlist, x)
           z == SizeWith(x)
           E == AnyExtent(Partitions)
           Byte0(i) == IF i <= Len(content) THEN content[i] ELSE 0
           c == [i \in 1 .. z |-> IF Inside(x, i - 1) THEN w.n ELSE Byte0(i)]
<1>1. ~damaged /\ TypeOK /\ ListConsistent /\ BytesInPlace /\ CacheCurrent
  BY DEF FInv
<1>2. /\ w.n \in 1 .. MaxWrites /\ w \in [n : 1 .. MaxWrites, ext : Extent]
      /\ x \in E /\ x \in Extent /\ extentlist \in Seq(E) /\ content \in Seq(0 .. MaxWrites)
  BY <1>1, ExtentIsAny DEF TypeOK
<1>3. /\ InOrder(extentlist) /\ EndsBy(extentlist, size) /\ realsize = SumOf(extentlist)
      /\ Len(content) = size
  BY <1>1 DEF ListConsistent, BytesInPlace
<1>4. added \in Result(E) /\ Overlaid(added, extentlist, x)
  BY <1>2, <1>3, AddExtentLaysOver
<1>5. /\ pending' = pending \ {w} /\ extentlist' = added.list
      /\ realsize' = realsize - added.freed + x.bytecount
      /\ size' = z /\ content' = c
      /\ UNCHANGED << tape, pos, last, writes, others, damaged >>
  BY DEF AddPending
<1> HIDE DEF added
<1>6. /\ x.fileoffset \in Nat /\ x.bytecount \in Nat /\ End(x) \in 0 .. MaxSize
      /\ size \in 0 .. MaxSize /\ size \in Nat /\ MaxSize \in Nat /\ MaxWrites \in Nat
  <2>1. x.fileoffset \in Nat /\ x.bytecount \in Nat /\ End(x) \in Nat
    BY <1>2, ExtentTypes
  <2>2. End(x) <= MaxSize
    BY <1>2 DEF Extent
  <2> QED  BY <1>1, <2>1, <2>2, FileExtentsAssumption DEF TypeOK
<1>7. z \in Nat /\ z \in 0 .. MaxSize /\ End(x) <= z /\ size <= z
  BY <1>6 DEF SizeWith
<1> HIDE DEF z
<1>8. /\ added.list \in Seq(E) /\ InOrder(added.list)
      /\ \A b \in Nat : EndsBy(extentlist, b) /\ End(x) <= b => EndsBy(added.list, b)
      /\ SumOf(added.list) = SumOf(extentlist) - added.freed + x.bytecount
  BY <1>4 DEF Overlaid, Result
<1>9. EndsBy(added.list, z)
  <2>1. EndsBy(extentlist, z)
    BY <1>2, <1>3, <1>6, <1>7, EndsByLater
  <2> QED  BY <1>7, <1>8, <2>1
<1>10. ListConsistent'
  BY <1>3, <1>5, <1>8, <1>9 DEF ListConsistent
<1>11. TypeOK'
  <2>1. added.list \in Seq(Extent)
    BY <1>7, <1>8, <1>9, WithinBounds
  <2>2. SumOf(added.list) \in 0 .. MaxSize
    <3>1. SumOf(added.list) \in 0 .. z
      BY <1>7, <1>8, <1>9, SumBounded
    <3> QED  BY <1>6, <1>7, <3>1
  <2>3. c \in Seq(0 .. MaxWrites)
    <3>1. ASSUME NEW i \in 1 .. z PROVE c[i] \in 0 .. MaxWrites
      <4>1. Byte0(i) \in 0 .. MaxWrites
        BY <1>2, <1>6, <1>7
      <4> QED  BY <1>2, <1>6, <4>1
    <3> QED  BY <1>7, <3>1
  <2>4. realsize' \in 0 .. MaxSize
    BY <1>3, <1>5, <1>8, <2>2
  <2> QED  BY <1>1, <1>5, <1>7, <2>1, <2>3, <2>4 DEF TypeOK
<1>12. BytesInPlace'
  <2>1. \A v \in pending' : \A o \in 0 .. MaxSize - 1 :
          Inside(v.ext, o) => Stored(tape', v.ext, o, v.n)
    BY <1>1, <1>5 DEF BytesInPlace
  <2>2. Len(c) = z
    BY <1>7
  <2>3. ASSUME NEW o \in 0 .. z - 1
        PROVE  ByteInPlace(added.list, tape, o, c[o + 1])
    <3>1. o \in Nat /\ o + 1 \in 1 .. z /\ (o + 1) - 1 = o /\ o \in 0 .. MaxSize - 1
      BY <1>6, <1>7
    <3>2. c[o + 1] = IF Inside(x, o) THEN w.n ELSE Byte0(o + 1)
      BY <3>1
    <3>3. Inside(x, o) => Stored(tape, x, o, w.n)
      BY <1>1, <3>1 DEF BytesInPlace
    <3>4. o < size => ByteInPlace(extentlist, tape, o, Byte0(o + 1))
      BY <1>1, <1>3, <1>6, <3>1 DEF BytesInPlace
    <3>5. size <= o => Byte0(o + 1) = 0
      BY <1>3, <1>6, <3>1
    <3>6. w.n \in Nat \ {0}
      BY <1>2
    <3> HIDE DEF x, Byte0, E, c
    <3>7. ByteInPlace(added.list, tape, o, IF Inside(x, o) THEN w.n ELSE Byte0(o + 1))
      BY ZenonT(60), <1>2, <1>3, <1>6, <3>1, <3>3, <3>4, <3>5, <3>6, AddedInPlace DEF added, E
    <3> QED  BY <3>2, <3>7
  <2> QED  BY Zenon, <1>5, <2>1, <2>2, <2>3 DEF BytesInPlace
<1>13. CacheCurrent'
  BY <1>1, <1>5 DEF CacheCurrent
<1> QED  BY <1>1, <1>5, <1>10, <1>11, <1>12, <1>13 DEF FInv

-----------------------------------------------------------------------------
(* ltfs_fsraw_truncate, to a smaller or a larger size. *)
LEMMA TruncateKeeps ==
  ASSUME FInv, NEW length \in 0 .. MaxSize, Truncate(length)
  PROVE  FInv'
<1> DEFINE cut == IF length < size THEN Truncated(extentlist, length)
                  ELSE [list |-> extentlist, freed |-> 0]
           E == AnyExtent(Partitions)
           c == [i \in 1 .. length |-> IF i <= Len(content) THEN content[i] ELSE 0]
<1>1. ~damaged /\ TypeOK /\ ListConsistent /\ BytesInPlace /\ CacheCurrent
  BY DEF FInv, Truncate
<1>2. /\ extentlist \in Seq(E) /\ content \in Seq(0 .. MaxWrites)
      /\ size \in Nat /\ length \in Nat /\ size \in 0 .. MaxSize
      /\ MaxSize \in Nat /\ MaxWrites \in Nat
      /\ others \in 0 .. MaxOthers /\ MaxOthers \in Nat
  BY <1>1, ExtentIsAny, FileExtentsAssumption DEF TypeOK
<1>3. /\ InOrder(extentlist) /\ EndsBy(extentlist, size) /\ realsize = SumOf(extentlist)
      /\ Len(content) = size
  BY <1>1 DEF ListConsistent, BytesInPlace
<1>4. /\ extentlist' = cut.list /\ realsize' = realsize - cut.freed
      /\ size' = length /\ content' = c /\ others' = others + 1 /\ others < MaxOthers
      /\ UNCHANGED << tape, pos, last, pending, writes, damaged >>
  BY DEF Truncate
<1>5. /\ cut \in Result(E) /\ InOrder(cut.list) /\ EndsBy(cut.list, length)
      /\ SumOf(cut.list) = SumOf(extentlist) - cut.freed
      /\ \A o \in Nat : \A q : o < length =>
           (HasByte(cut.list, o, q) <=> HasByte(extentlist, o, q))
  <2>1. CASE length < size
    <3>1. cut = Truncated(extentlist, length)
      BY <2>1
    <3>2. cut \in Result(E) /\ CutOff(cut, extentlist, length)
      BY <1>2, <1>3, <3>1, TruncatedCutsOff
    <3> HIDE DEF cut
    <3> QED  BY <3>2 DEF CutOff
  <2>2. CASE ~(length < size)
    <3>1. cut = [list |-> extentlist, freed |-> 0]
      BY <2>2
    <3>2. cut.list = extentlist /\ cut.freed = 0 /\ cut \in Result(E)
      BY <1>2, <3>1 DEF Result
    <3> HIDE DEF cut
    <3>3. EndsBy(extentlist, length)
      BY <1>2, <1>3, <2>2, EndsByLater
    <3>4. SumOf(extentlist) \in Nat
      BY <1>2, <1>3, SumBounded
    <3> QED  BY <1>3, <3>2, <3>3, <3>4
  <2> QED  BY <2>1, <2>2
<1> HIDE DEF cut
<1>6. ListConsistent'
  BY <1>3, <1>4, <1>5 DEF ListConsistent
<1>7. TypeOK'
  <2>1. cut.list \in Seq(E)
    BY <1>5 DEF Result
  <2>2. cut.list \in Seq(Extent)
    BY <1>5, <2>1, WithinBounds
  <2>3. SumOf(cut.list) \in 0 .. MaxSize
    <3>1. SumOf(cut.list) \in 0 .. length
      BY <1>2, <1>5, <2>1, SumBounded
    <3> QED  BY <1>2, <3>1
  <2>4. c \in Seq(0 .. MaxWrites)
    <3>1. ASSUME NEW i \in 1 .. length PROVE c[i] \in 0 .. MaxWrites
      BY <1>2
    <3> QED  BY <1>2, <3>1
  <2>5. realsize' \in 0 .. MaxSize /\ others' \in 0 .. MaxOthers
    BY <1>2, <1>3, <1>4, <1>5, <2>3
  <2> QED  BY <1>1, <1>4, <2>2, <2>4, <2>5 DEF TypeOK
<1>8. BytesInPlace'
  <2>1. \A v \in pending' : \A o \in 0 .. MaxSize - 1 :
          Inside(v.ext, o) => Stored(tape', v.ext, o, v.n)
    BY <1>1, <1>4 DEF BytesInPlace
  <2>2. Len(c) = length
    BY <1>2
  <2>3. ASSUME NEW o \in 0 .. length - 1
        PROVE  ByteInPlace(cut.list, tape, o, c[o + 1])
    <3>1. /\ o \in Nat /\ o + 1 \in 1 .. length
          /\ \A q : HasByte(cut.list, o, q) <=> HasByte(extentlist, o, q)
      BY <1>2, <1>5
    <3>2. CASE o < size
      <4>1. c[o + 1] = content[o + 1] /\ o \in 0 .. size - 1
        BY <1>2, <1>3, <3>1, <3>2
      <4>2. ByteInPlace(extentlist, tape, o, content[o + 1])
        BY <1>1, <4>1 DEF BytesInPlace
      <4> QED  BY <3>1, <4>1, <4>2, SameInPlace
    <3>3. CASE ~(o < size)
      <4>1. c[o + 1] = 0
        BY <1>2, <1>3, <3>1, <3>3
      <4>2. \A q : ~HasByte(extentlist, o, q)
        BY <1>2, <1>3, <3>1, <3>3, NothingBehind
      <4> QED  BY Zenon, <3>1, <4>1, <4>2, InPlaceIff
    <3> QED  BY <3>2, <3>3
  <2> QED  BY <1>4, <2>1, <2>2, <2>3 DEF BytesInPlace
<1>9. CacheCurrent'
  BY <1>1, <1>4 DEF CacheCurrent
<1> QED  BY <1>1, <1>4, <1>6, <1>7, <1>8, <1>9 DEF FInv

-----------------------------------------------------------------------------
(***************************************************************************)
(* _unified_write_index_after_perm: the dropped extents cover no more than *)
(* the size.                                                               *)
(***************************************************************************)
LEMMA WritePermKeeps ==
  ASSUME FInv, NEW p \in Partitions, NEW err \in 1 .. Len(tape[p]) + 1, WritePerm(p, err)
  PROVE  FInv'
<1> DEFINE cleaned == Cleaned(extentlist, p, err)
<1>1. ~damaged /\ TypeOK /\ ListConsistent /\ pending = {}
  BY DEF FInv, WritePerm
<1>2. /\ extentlist \in Seq(AnyExtent(Partitions)) /\ extentlist \in Seq(Extent)
      /\ InOrder(extentlist) /\ EndsBy(extentlist, size)
      /\ size \in Nat /\ size \in 0 .. MaxSize /\ MaxSize \in Nat
  BY <1>1, ExtentIsAny, FileExtentsAssumption DEF TypeOK, ListConsistent
<1>3. /\ damaged' = TRUE /\ tape' = [tape EXCEPT ![p] = SubSeq(tape[p], 1, err - 1)]
      /\ extentlist' = cleaned.list /\ size' = size - cleaned.freed /\ realsize' = realsize
      /\ UNCHANGED << pos, last, pending, writes, others, content >>
  BY DEF WritePerm, CleanupExtent
<1>4. /\ cleaned \in [list : Seq(Extent), freed : Nat]
      /\ SumOf(cleaned.list) \in Nat
      /\ SumOf(cleaned.list) + cleaned.freed = SumOf(extentlist)
  BY <1>2, ExtentIsAny, CleanedBalances
<1>5. SumOf(extentlist) \in 0 .. size
  BY <1>2, SumBounded
<1> HIDE DEF cleaned
<1>6. cleaned.list \in Seq(Extent) /\ size - cleaned.freed \in 0 .. MaxSize
  <2>1. cleaned.freed \in Nat
    BY <1>4
  <2> QED  BY <1>2, <1>4, <1>5, <2>1
<1>7. /\ tape' \in [Partitions -> Seq(Seq(Byte))]
      /\ \A r \in Partitions : \A b \in DOMAIN tape'[r] : Len(tape'[r][b]) \in 1 .. BlockSize
  <2> DEFINE t == SubSeq(tape[p], 1, err - 1)
  <2>1. tape \in [Partitions -> Seq(Seq(Byte))]
    BY <1>1 DEF TypeOK
  <2>2. /\ t \in Seq(Seq(Byte))
        /\ \A b \in DOMAIN t : b \in DOMAIN tape[p] /\ t[b] = tape[p][b]
    <3> DEFINE s == tape[p]
    <3>1. s \in Seq(Seq(Byte)) /\ err \in 1 .. Len(s) + 1
      BY <2>1
    <3> HIDE DEF s
    <3>2. /\ SubSeq(s, 1, err - 1) \in Seq(Seq(Byte))
          /\ \A b \in DOMAIN SubSeq(s, 1, err - 1) :
               b \in DOMAIN s /\ SubSeq(s, 1, err - 1)[b] = s[b]
      BY <3>1
    <3> QED  BY <3>2 DEF s
  <2> HIDE DEF t
  <2>3. tape' \in [Partitions -> Seq(Seq(Byte))]
    BY <1>3, <2>1, <2>2 DEF t
  <2>4. \A r \in Partitions : tape'[r] = IF r = p THEN t ELSE tape[r]
    BY <1>3, <2>1 DEF t
  <2>5. \A r \in Partitions : \A b \in DOMAIN tape[r] : Len(tape[r][b]) \in 1 .. BlockSize
    BY <1>1 DEF TypeOK
  <2> QED  BY Zenon, <2>2, <2>3, <2>4, <2>5
<1>8. TypeOK'
  BY <1>1, <1>3, <1>6, <1>7 DEF TypeOK
<1> QED  BY <1>1, <1>3, <1>8 DEF FInv

-----------------------------------------------------------------------------
(* The blocks a write of count bytes puts on the tape. *)
LEMMA BlocksTyped ==
  ASSUME NEW n \in 1 .. MaxWrites, NEW off \in Nat, NEW count \in Nat \ {0},
         off + count <= MaxSize
  PROVE  /\ BlocksOf(n, off, count) \in Seq(Seq(Byte))
         /\ \A b \in DOMAIN BlocksOf(n, off, count) :
              Len(BlocksOf(n, off, count)[b]) \in 1 .. BlockSize
<1> DEFINE N == (count + BlockSize - 1) \div BlockSize
           B == BlocksOf(n, off, count)
           M(b) == Smaller(BlockSize, count - (b - 1) * BlockSize)
<1>1. /\ N \in Nat /\ N * BlockSize <= count + BlockSize - 1 /\ BlockSize \in Nat \ {0}
      /\ MaxSize \in Nat
  <2>1. count + BlockSize - 1 \in Nat
    BY BlockSizeAssumption
  <2>2. /\ N \in Nat /\ (count + BlockSize - 1) % BlockSize \in 0 .. BlockSize - 1
        /\ N * BlockSize + ((count + BlockSize - 1) % BlockSize) = count + BlockSize - 1
    BY <2>1, DivMod
  <2>3. N * BlockSize \in Nat
    BY <2>2, Distributes
  <2> HIDE DEF N
  <2> QED  BY <2>1, <2>2, <2>3, BlockSizeAssumption, FileExtentsAssumption
<1>2. B = [b \in 1 .. N |-> [i \in 1 .. M(b) |-> << n, off + (b - 1) * BlockSize + i - 1 >>]]
  BY DEF BlocksOf
<1> HIDE DEF N, B
<1>3. ASSUME NEW b \in 1 .. N
      PROVE  B[b] \in Seq(Byte) /\ Len(B[b]) \in 1 .. BlockSize
  <2> DEFINE a == (b - 1) * BlockSize
  <2>1. a \in Nat /\ a < count
    <3> DEFINE j == b - 1
    <3>1. j \in Nat /\ b = j + 1 /\ b \in Nat /\ b <= N
      BY <1>1
    <3> HIDE DEF j
    <3>2. b * BlockSize = j * BlockSize + BlockSize /\ j * BlockSize \in Nat
      BY <1>1, <3>1, Distributes
    <3>3. b * BlockSize <= N * BlockSize
      BY <1>1, <3>1, TimesMonotone
    <3>4. N * BlockSize \in Nat
      BY <1>1, Distributes
    <3>5. j * BlockSize < count
      BY <1>1, <3>2, <3>3, <3>4
    <3> QED  BY <3>2, <3>5 DEF j
  <2> HIDE DEF a
  <2>2. M(b) \in 1 .. BlockSize /\ M(b) <= count - a
    BY <1>1, <2>1 DEF Smaller, a
  <2>3. B[b] = [i \in 1 .. M(b) |-> << n, off + a + i - 1 >>]
    BY <1>2 DEF a
  <2> HIDE DEF M
  <2>4. ASSUME NEW i \in 1 .. M(b) PROVE << n, off + a + i - 1 >> \in Byte
    <3>1. off + a + i - 1 \in 0 .. MaxSize - 1
      BY <1>1, <2>1, <2>2
    <3> QED  BY <3>1 DEF Byte
  <2>5. M(b) \in Nat
    BY <1>1, <2>2
  <2> QED  BY <2>2, <2>3, <2>4, <2>5
<1>4. DOMAIN B = 1 .. N
  BY <1>2
<1>5. B \in Seq(Seq(Byte))
  <2> DEFINE S == Seq(Byte)
  <2>1. B = [b \in 1 .. N |-> B[b]] /\ \A b \in 1 .. N : B[b] \in S
    BY Zenon, <1>2, <1>3
  <2> HIDE DEF S
  <2>2. B \in [1 .. N -> S]
    BY <2>1
  <2>3. B \in Seq(S)
    BY <1>1, <2>2
  <2> QED  BY <2>3 DEF S
<1> QED  BY <1>3, <1>4, <1>5 DEF B

(* The blocks that a write puts on the tape hold its bytes in order. *)
LEMMA BlocksHold ==
  ASSUME NEW n, NEW off \in Nat, NEW count \in Nat \ {0}, NEW p, NEW S, NEW s \in Seq(S),
         BlocksOf(n, off, count) \in Seq(S),
         NEW x, x = [partition |-> p, block |-> Len(s) + 1, byteoffset |-> 0,
                     bytecount |-> count, fileoffset |-> off],
         NEW t, t[p] = s \o BlocksOf(n, off, count), NEW o \in Nat, Inside(x, o)
  PROVE  Stored(t, x, o, n)
<1> DEFINE N == (count + BlockSize - 1) \div BlockSize
           B == BlocksOf(n, off, count)
           L == Len(s)
           d == o - off
           k == d \div BlockSize
           m == d % BlockSize
<1>1. d \in Nat /\ d < count /\ L \in Nat /\ BlockSize \in Nat \ {0} /\ o = off + d
  BY BlockSizeAssumption DEF Inside, End
<1>2. k \in Nat /\ m \in 0 .. BlockSize - 1 /\ d = k * BlockSize + m /\ k * BlockSize \in Nat
  BY Zenon, <1>1, DivMod, Distributes
<1>3. x.partition = p /\ x.block = L + 1 /\ x.byteoffset = 0 /\ x.fileoffset = off
  OBVIOUS
<1> HIDE DEF d, k, m, L
<1>4. Address(x, o) = (L + 1 + k) * BlockSize + m
  <2>1. Address(x, o) = (L + 1) * BlockSize + 0 + d
    BY Zenon, <1>1, <1>3 DEF Address, d
  <2>2. (L + 1 + k) * BlockSize = (L + 1) * BlockSize + k * BlockSize
        /\ (L + 1) * BlockSize \in Nat
    BY <1>1, <1>2, Distributes
  <2> QED  BY <1>1, <1>2, <2>1, <2>2
<1>5. Address(x, o) \div BlockSize = L + 1 + k /\ Address(x, o) % BlockSize = m
  <2> DEFINE j == L + 1 + k
  <2>1. j \in Nat
    BY <1>1, <1>2
  <2> HIDE DEF j
  <2>2. (j * BlockSize + m) \div BlockSize = j /\ (j * BlockSize + m) % BlockSize = m
    BY ZenonT(60), <1>2, <2>1, DivModUnique
  <2>3. Address(x, o) = j * BlockSize + m
    BY <1>4 DEF j
  <2>4. Address(x, o) \div BlockSize = j /\ Address(x, o) % BlockSize = m
    BY <2>2, <2>3
  <2> QED  BY <2>4 DEF j
<1>6. k + 1 \in 1 .. N /\ N \in Nat
  <2>1. (k + 1) * BlockSize = k * BlockSize + BlockSize
    BY <1>1, <1>2, Distributes
  <2>2. (k + 1) * BlockSize <= count + BlockSize - 1 /\ count + BlockSize - 1 \in Nat
    BY <1>1, <1>2, <2>1
  <2> DEFINE a == count + BlockSize - 1
             j == k + 1
  <2>3. j \in Nat /\ a \in Nat /\ j * BlockSize <= a
    BY <1>2, <2>2
  <2> HIDE DEF a, j
  <2>4. j <= a \div BlockSize /\ a \div BlockSize \in Nat
    BY <2>3, DivAtLeast, DivMod
  <2>5. k + 1 <= N /\ N \in Nat
    BY <2>4 DEF a, j
  <2> HIDE DEF N
  <2> QED  BY <1>2, <2>5
<1>7. /\ B[k + 1] = [i \in 1 .. Smaller(BlockSize, count - k * BlockSize) |->
                       << n, off + k * BlockSize + i - 1 >>]
      /\ DOMAIN B = 1 .. N
  <2>1. (k + 1) - 1 = k
    BY <1>2
  <2> HIDE DEF N
  <2> QED  BY ZenonT(60), <1>6, <2>1 DEF BlocksOf, N
<1>8. m + 1 \in 1 .. Smaller(BlockSize, count - k * BlockSize)
  BY <1>1, <1>2 DEF Smaller
<1>9. m + 1 \in DOMAIN B[k + 1] /\ B[k + 1][m + 1] = << n, o >>
  <2>1. off + k * BlockSize + (m + 1) - 1 = o
    BY <1>1, <1>2
  <2> QED  BY <1>7, <1>8, <2>1
<1>10. L + 1 + k \in DOMAIN t[p] /\ t[p][L + 1 + k] = B[k + 1]
  <2>1. k + 1 \in 1 .. Len(B) /\ k + 1 \in Nat
    <3>1. Len(B) = N
      <4> HIDE DEF B, N
      <4> QED  BY <1>6, <1>7 DEF B
    <3> HIDE DEF N
    <3> QED  BY <1>2, <1>6, <3>1
  <2> HIDE DEF B, N
  <2> QED  BY <1>1, <1>2, <2>1 DEF B, L
<1> QED  BY ZenonT(20), <1>3, <1>5, <1>9, <1>10 DEF Stored

(***************************************************************************)
(* _ltfs_fsraw_write_data_unlocked: the blocks of the write are behind all *)
(* others, and the extent it keeps for later names them.                   *)
(***************************************************************************)
LEMMA WriteDataKeeps ==
  ASSUME FInv, NEW off \in 0 .. MaxSize - 1, NEW count \in 1 .. MaxSize - off,
         NEW p \in Partitions, WriteData(off, count, p)
  PROVE  FInv'
<1> DEFINE n == writes + 1
           B == BlocksOf(n, off, count)
           x == [partition |-> p, block |-> Len(tape[p]) + 1, byteoffset |-> 0,
                 bytecount |-> count, fileoffset |-> off]
           w == [n |-> n, ext |-> x]
           t == [tape EXCEPT ![p] = tape[p] \o B]
<1>1. ~damaged /\ TypeOK /\ ListConsistent /\ BytesInPlace /\ CacheCurrent
  BY DEF FInv, WriteData
<1>2. /\ off \in Nat /\ count \in Nat \ {0} /\ off + count <= MaxSize
      /\ MaxSize \in Nat /\ MaxWrites \in Nat
  BY FileExtentsAssumption
<1>3. n \in 1 .. MaxWrites /\ n \in 0 .. MaxWrites
  BY <1>1, <1>2 DEF TypeOK, WriteData
<1>4. /\ tape' = t /\ pos' = << p, Len(t[p]) + 1 >> /\ pending' = pending \cup {w}
      /\ writes' = n
      /\ UNCHANGED << extentlist, size, realsize, last, others, damaged, content >>
  BY DEF WriteData
<1>5. B \in Seq(Seq(Byte)) /\ \A b \in DOMAIN B : Len(B[b]) \in 1 .. BlockSize
  BY <1>2, <1>3, BlocksTyped
<1>6. tape \in [Partitions -> Seq(Seq(Byte))]
  BY <1>1 DEF TypeOK
<1>7. tape[p] \in Seq(Seq(Byte)) /\ Len(tape[p]) \in Nat
  BY <1>6
<1> HIDE DEF n, B
<1>8. /\ t \in [Partitions -> Seq(Seq(Byte))] /\ t[p] = tape[p] \o B
      /\ \A r \in Partitions : r # p => t[r] = tape[r]
  BY <1>5, <1>6, <1>7
<1>9. /\ \A b \in DOMAIN tape[p] : b \in DOMAIN t[p] /\ t[p][b] = tape[p][b]
      /\ \A b \in DOMAIN t[p] : b \in DOMAIN tape[p] \/ \E c \in DOMAIN B : t[p][b] = B[c]
      /\ Len(t[p]) \in Nat
  <2> DEFINE s == tape[p]
             u == s \o B
  <2>1. s \in Seq(Seq(Byte)) /\ B \in Seq(Seq(Byte))
    BY <1>5, <1>7
  <2> HIDE DEF s
  <2>2. \A b \in DOMAIN s : b \in DOMAIN u /\ u[b] = s[b]
    BY <2>1
  <2>3. ASSUME NEW b \in DOMAIN u, b \notin DOMAIN s
        PROVE  b - Len(s) \in DOMAIN B /\ u[b] = B[b - Len(s)]
    BY <2>1, <2>3
  <2>4. Len(u) \in Nat
    BY <2>1
  <2> QED  BY <1>8, <2>2, <2>3, <2>4 DEF s
<1>10. Extends(Partitions, tape, t)
  BY <1>8, <1>9 DEF Extends
<1>11. x \in Extent
  <2>1. x \in AnyExtent(Partitions)
    BY <1>2, <1>7, BlockSizeAssumption DEF AnyExtent
  <2>2. End(x) = off + count
    BY DEF End
  <2> QED  BY <1>2, <2>1, <2>2 DEF Extent
<1>12. ASSUME NEW o \in 0 .. MaxSize - 1, Inside(x, o) PROVE Stored(t, x, o, n)
  <2> DEFINE s == tape[p]
             S == Seq(Byte)
  <2>1. /\ o \in Nat /\ s \in Seq(S) /\ BlocksOf(n, off, count) \in Seq(S)
        /\ t[p] = s \o BlocksOf(n, off, count)
    <3>1. o \in Nat
      BY <1>2
    <3> HIDE DEF t
    <3> QED  BY <1>5, <1>7, <1>8, <3>1 DEF B
  <2>2. x = [partition |-> p, block |-> Len(s) + 1, byteoffset |-> 0,
             bytecount |-> count, fileoffset |-> off]
    OBVIOUS
  <2> HIDE DEF t, x, s, S
  <2> QED  BY Zenon, <1>2, <1>12, <2>1, <2>2, BlocksHold
<1> HIDE DEF t, x
<1>13. TypeOK'
  <2>1. \A r \in Partitions : \A b \in DOMAIN t[r] : Len(t[r][b]) \in 1 .. BlockSize
    <3>1. \A r \in Partitions : \A b \in DOMAIN tape[r] : Len(tape[r][b]) \in 1 .. BlockSize
      BY <1>1 DEF TypeOK
    <3>2. \A b \in DOMAIN t[p] : Len(t[p][b]) \in 1 .. BlockSize
      BY Zenon, <1>5, <1>9, <3>1
    <3> QED  BY Zenon, <1>8, <3>1, <3>2
  <2>2. w \in [n : 1 .. MaxWrites, ext : Extent]
    BY <1>3, <1>11
  <2>3. pending' \subseteq [n : 1 .. MaxWrites, ext : Extent]
    BY <1>1, <1>4, <2>2 DEF TypeOK
  <2> QED  BY <1>1, <1>3, <1>4, <1>8, <2>1, <2>3 DEF TypeOK
<1>14. ListConsistent'
  BY <1>1, <1>4 DEF ListConsistent
<1>15. BytesInPlace'
  <2>1. ASSUME NEW v \in pending \cup {w}, NEW o \in 0 .. MaxSize - 1, Inside(v.ext, o)
        PROVE  Stored(t, v.ext, o, v.n)
    <3>1. CASE v = w
      BY <1>12, <2>1, <3>1
    <3>2. CASE v \in pending
      <4>1. Stored(tape, v.ext, o, v.n) /\ v.ext \in AnyExtent(Partitions)
        BY <1>1, <2>1, <3>2, ExtentIsAny DEF BytesInPlace, TypeOK
      <4> QED  BY Zenon, <1>6, <1>8, <1>10, <4>1, StoredKept
    <3> QED  BY <3>1, <3>2
  <2>2. ASSUME NEW o \in 0 .. size - 1
        PROVE  ByteInPlace(extentlist, t, o, content[o + 1])
    <3>1. /\ ByteInPlace(extentlist, tape, o, content[o + 1])
          /\ extentlist \in Seq(AnyExtent(Partitions))
      BY <1>1, ExtentIsAny DEF BytesInPlace, TypeOK
    <3> QED  BY ZenonT(60), <1>6, <1>8, <1>10, <3>1, InPlaceKept
  <2> QED  BY <1>1, <1>4, <2>1, <2>2 DEF BytesInPlace
<1>16. CacheCurrent'
  <2>1. pos' \in Partitions \X Nat
    BY <1>4, <1>9
  <2>2. /\ last \in [at : {<< >>} \cup (Partitions \X Nat), data : Seq(Byte)]
        /\ last.at # << >> => /\ last.at[2] \in DOMAIN tape[last.at[1]]
                              /\ last.data = tape[last.at[1]][last.at[2]]
    BY <1>1 DEF CacheCurrent
  <2>3. ASSUME last.at # << >>
        PROVE  last.at[2] \in DOMAIN t[last.at[1]] /\ last.data = t[last.at[1]][last.at[2]]
    <3>1. last.at \in Partitions \X Nat
      BY <2>2, <2>3
    <3> QED  BY <1>10, <2>2, <2>3, <3>1 DEF Extends
  <2> QED  BY ZenonT(20), <1>4, <2>1, <2>2, <2>3 DEF CacheCurrent
<1> QED  BY ZenonT(20), <1>1, <1>4, <1>13, <1>14, <1>15, <1>16 DEF FInv

-----------------------------------------------------------------------------
(* The file as the application sees it: the byte of the last write, or 0. *)
FileBytes ==
  [o \in Nat |-> IF o < size /\ content[o + 1] # 0 THEN << content[o + 1], o >> ELSE Hole]

(* The extent list has that file, as ltfs_fsraw_read needs it. *)
LEMMA ListHasFile ==
  ASSUME FInv, ~damaged
  PROVE  ListHas(extentlist, size, tape, FileBytes)
<1> DEFINE l == extentlist
           c(o) == content[o + 1]
<1>1. /\ TypeOK /\ InOrder(l) /\ EndsBy(l, size)
      /\ \A o \in 0 .. size - 1 : ByteInPlace(l, tape, o, c(o))
  BY DEF FInv, ListConsistent, BytesInPlace
<1>2. size \in Nat /\ l \in Seq(AnyExtent(Partitions))
  BY <1>1, ExtentIsAny, FileExtentsAssumption DEF TypeOK
<1> HIDE DEF l
<1>3. ASSUME NEW o \in Nat, o < size, c(o) # 0
      PROVE  /\ FileBytes[o] = << c(o), o >>
             /\ \E j \in DOMAIN l : Inside(l[j], o) /\ Stored(tape, l[j], o, c(o))
  <2>1. o \in 0 .. size - 1
    BY <1>2, <1>3
  <2>2. ByteInPlace(l, tape, o, c(o))
    BY <1>1, <2>1
  <2> QED  BY <1>3, <2>2 DEF FileBytes, ByteInPlace
<1>4. ASSUME NEW o \in Nat, o < size, c(o) = 0
      PROVE  \A j \in DOMAIN l : ~Inside(l[j], o)
  <2>1. o \in 0 .. size - 1
    BY <1>2, <1>4
  <2>2. ByteInPlace(l, tape, o, c(o))
    BY <1>1, <2>1
  <2> QED  BY <1>4, <2>2 DEF ByteInPlace
<1>5. ASSUME NEW i \in DOMAIN l, NEW o \in Nat, Inside(l[i], o)
      PROVE  Holds(tape, << l[i].partition, Address(l[i], o) >>, FileBytes[o])
  <2>1. l[i] \in AnyExtent(Partitions) /\ End(l[i]) <= size
    BY <1>1, <1>2 DEF EndsBy
  <2>2. End(l[i]) \in Nat /\ l[i].fileoffset \in Nat
    BY <2>1, ExtentTypes
  <2>3. o < size
    BY <1>2, <1>5, <2>1, <2>2 DEF Inside
  <2>4. c(o) # 0
    BY <1>4, <1>5, <2>3
  <2>5. PICK j \in DOMAIN l : Inside(l[j], o) /\ Stored(tape, l[j], o, c(o))
    BY <1>3, <2>3, <2>4
  <2>6. l[j] \in AnyExtent(Partitions)
    BY <1>2
  <2>7. End(l[j]) \in Nat /\ l[j].fileoffset \in Nat
    BY <2>6, ExtentTypes
  <2>8. ~(End(l[i]) <= l[j].fileoffset) /\ ~(End(l[j]) <= l[i].fileoffset)
    BY <1>5, <2>2, <2>5, <2>7 DEF Inside
  <2>9. i = j
    <3>1. i \in Int /\ j \in Int
      BY <1>2
    <3>2. ~(i < j) /\ ~(j < i)
      BY <1>1, <2>8 DEF InOrder
    <3> QED  BY <3>1, <3>2
  <2>10. Holds(tape, << l[i].partition, Address(l[i], o) >>, << c(o), o >>)
    BY <2>5, <2>9, StoredHolds
  <2> QED  BY <1>3, <2>3, <2>4, <2>10
<1>6. ASSUME NEW o \in Nat, \A i \in DOMAIN l : ~Inside(l[i], o) PROVE FileBytes[o] = Hole
  <2>1. ~(o < size /\ c(o) # 0)
    BY <1>3, <1>6
  <2> QED  BY <2>1 DEF FileBytes
<1> QED  BY <1>1, <1>5, <1>6 DEF ListHas, Backed, l

(* The position and the cached block a read starts from. *)
LEMMA StartSound ==
  ASSUME FInv, ~damaged
  PROVE  Sound([buf |-> << >>, failed |-> FALSE, pos |-> pos, last |-> last],
               Partitions, Byte, tape)
<1> DEFINE a == [buf |-> << >>, failed |-> FALSE, pos |-> pos, last |-> last]
<1>1. /\ pos \in Partitions \X Nat /\ last \in Cached(Partitions, Byte)
      /\ last.at # << >> => /\ last.at[2] \in DOMAIN tape[last.at[1]]
                            /\ last.data = tape[last.at[1]][last.at[2]]
  BY DEF FInv, CacheCurrent, Cached
<1>2. a \in Reads(Partitions, Byte)
  BY <1>1, EmptyList DEF Reads
<1>3. a.last = last /\ a.failed = FALSE
  OBVIOUS
<1> HIDE DEF a
<1>4. ASSUME NEW p \in Partitions, NEW b \in Nat, a.last.at = << p, b >>
      PROVE  b \in DOMAIN tape[p] /\ a.last.data = tape[p][b]
  <2>1. last.at = << p, b >> /\ last.at # << >> /\ last.at[1] = p /\ last.at[2] = b
    BY <1>3, <1>4
  <2> QED  BY <1>1, <1>3, <2>1
<1>5. ~a.failed
  BY <1>3
<1> QED  BY <1>2, <1>4, <1>5 DEF Sound, a

(* A read of the file, from FInv. *)
LEMMA FileRead ==
  ASSUME FInv, ~damaged, NEW off \in Nat, NEW count \in Nat
  PROVE  ReadTo(ReadFile(extentlist, size, tape, pos, last, off, count), size,
                Partitions, Byte, tape, off, count, size, FileBytes)
<1>1. ListHas(extentlist, size, tape, FileBytes)
  BY ListHasFile
<1>2. Sound([buf |-> << >>, failed |-> FALSE, pos |-> pos, last |-> last],
            Partitions, Byte, tape)
  BY StartSound
<1>3. /\ extentlist \in Seq(AnyExtent(Partitions)) /\ size \in Nat
      /\ tape \in [Partitions -> Seq(Seq(Byte))] /\ Hole \in Byte
  BY ExtentIsAny, FileExtentsAssumption DEF FInv, TypeOK, Byte
<1> QED  BY <1>1, <1>2, <1>3, ReadFileReads

(* What ReadsBack says, from FInv. *)
LEMMA ReadsBackFromFInv == FInv => ReadsBack
<1> SUFFICES ASSUME FInv, ~damaged, NEW off \in 0 .. MaxSize - 1, NEW count \in 1 .. MaxSize - off
             PROVE  LET r == ReadFile(extentlist, size, tape, pos, last, off, count)
                        n == IF off < size THEN Smaller(count, size - off) ELSE 0
                    IN  /\ ~r.failed
                        /\ r.buf = [i \in 1 .. n |-> IF content[off + i] = 0 THEN Hole
                                                     ELSE << content[off + i], off + i - 1 >>]
  BY DEF ReadsBack
<1> DEFINE r == ReadFile(extentlist, size, tape, pos, last, off, count)
           n == IF off < size THEN Smaller(count, size - off) ELSE 0
           B(i) == IF content[off + i] = 0 THEN Hole ELSE << content[off + i], off + i - 1 >>
<1> HIDE DEF r
<1>1. off \in Nat /\ count \in Nat /\ size \in Nat
  BY FileExtentsAssumption DEF FInv, TypeOK
<1>2. ReadTo(r, size, Partitions, Byte, tape, off, count, size, FileBytes)
  BY <1>1, FileRead DEF r
<1> DEFINE len == Len(r.buf)
<1>3. /\ ~r.failed /\ r.buf \in Seq(Byte) /\ len \in Nat /\ len <= count
      /\ len # 0 => off + len <= size
      /\ \A k \in 1 .. len : r.buf[k] = FileBytes[off + k - 1]
      /\ len = count \/ size <= off + len
  BY <1>2 DEF ReadTo, Sound, Reads, Prefix
<1> HIDE DEF len
<1>4. len = n
  BY <1>1, <1>3 DEF Smaller
<1>5. ASSUME NEW i \in 1 .. len PROVE r.buf[i] = B(i)
  <2> DEFINE o == off + i - 1
  <2>1. o \in Nat /\ o < size /\ o + 1 = off + i
    BY <1>1, <1>3
  <2>2. r.buf[i] = FileBytes[o]
    BY <1>3
  <2> HIDE DEF o
  <2>3. FileBytes[o] = IF content[o + 1] = 0 THEN Hole ELSE << content[o + 1], o >>
    BY <2>1 DEF FileBytes
  <2> QED  BY <2>1, <2>2, <2>3 DEF o
<1> HIDE DEF n, B
<1>6. r.buf = [i \in 1 .. len |-> B(i)]
  <2>1. DOMAIN r.buf = 1 .. len /\ r.buf = [i \in DOMAIN r.buf |-> r.buf[i]]
    BY <1>3 DEF len
  <2> QED  BY Zenon, <1>5, <2>1
<1> QED  BY ZenonT(20), <1>3, <1>4, <1>6 DEF r, n, B

(* ltfs_fsraw_read leaves the cached block current, wherever it ends. *)
LEMMA ReadKeeps ==
  ASSUME FInv, NEW off \in 0 .. MaxSize - 1, NEW count \in 1 .. MaxSize - off, Read(off, count)
  PROVE  FInv'
<1> DEFINE r == ReadFile(extentlist, size, tape, pos, last, off, count)
<1>1. /\ others < MaxOthers /\ others' = others + 1 /\ pos' = r.pos /\ last' = r.last
      /\ UNCHANGED << extentlist, size, realsize, tape, pending, writes, damaged, content >>
  BY DEF Read
<1> HIDE DEF r
<1>2. TypeOK'
  <2>1. others' \in 0 .. MaxOthers
    BY <1>1, FileExtentsAssumption DEF FInv, TypeOK
  <2> QED  BY <1>1, <2>1 DEF FInv, TypeOK, Extent
<1>3. CASE damaged
  BY <1>1, <1>2, <1>3 DEF FInv
<1>4. CASE ~damaged
  <2>1. ListConsistent' /\ BytesInPlace'
    BY <1>1, <1>4 DEF FInv, ListConsistent, BytesInPlace
  <2>2. off \in Nat /\ count \in Nat
    BY FileExtentsAssumption
  <2>3. ReadTo(r, size, Partitions, Byte, tape, off, count, size, FileBytes)
    BY <1>4, <2>2, FileRead DEF r
  <2>4. /\ r.pos \in Partitions \X Nat /\ r.last \in Cached(Partitions, Byte)
        /\ \A p \in Partitions, b \in Nat :
             r.last.at = << p, b >> => b \in DOMAIN tape[p] /\ r.last.data = tape[p][b]
    BY <2>3 DEF ReadTo, Sound, Reads
  <2>5. ASSUME r.last.at # << >>
        PROVE  /\ r.last.at[2] \in DOMAIN tape[r.last.at[1]]
               /\ r.last.data = tape[r.last.at[1]][r.last.at[2]]
    <3>1. r.last.at \in Partitions \X Nat
      BY <2>4, <2>5 DEF Cached
    <3>2. r.last.at = << r.last.at[1], r.last.at[2] >>
          /\ r.last.at[1] \in Partitions /\ r.last.at[2] \in Nat
      BY <3>1
    <3> QED  BY <2>4, <3>2
  <2>6. CacheCurrent'
    BY <1>1, <2>4, <2>5 DEF CacheCurrent, Cached
  <2> QED  BY <1>1, <1>2, <1>4, <2>1, <2>6 DEF FInv
<1> QED  BY <1>3, <1>4

-----------------------------------------------------------------------------
(* Every step of a writer, truncate, read or the clean-up keeps FInv. *)
LEMMA FInvNext == FInv /\ [Next]_vars => FInv'
<1> SUFFICES ASSUME FInv, [Next]_vars PROVE FInv'
  OBVIOUS
<1>1. CASE UNCHANGED vars
  BY Zenon, <1>1 DEF vars, FInv, TypeOK, ListConsistent, BytesInPlace, CacheCurrent
<1>2. ASSUME NEW off \in 0 .. MaxSize - 1, NEW count \in 1 .. MaxSize - off,
             NEW p \in Partitions, WriteData(off, count, p)
      PROVE  FInv'
  BY <1>2, WriteDataKeeps
<1>3. ASSUME NEW w \in pending, AddPending(w) PROVE FInv'
  BY <1>3, AddPendingKeeps
<1>4. ASSUME NEW length \in 0 .. MaxSize, Truncate(length) PROVE FInv'
  BY <1>4, TruncateKeeps
<1>5. ASSUME NEW off \in 0 .. MaxSize - 1, NEW count \in 1 .. MaxSize - off, Read(off, count)
      PROVE  FInv'
  BY <1>5, ReadKeeps
<1>6. ASSUME NEW p \in Partitions, NEW err \in 1 .. Len(tape[p]) + 1, WritePerm(p, err)
      PROVE  FInv'
  BY <1>6, WritePermKeeps
<1> QED  BY <1>1, <1>2, <1>3, <1>4, <1>5, <1>6 DEF Next

(***************************************************************************)
(* The extent list of a file stays in order, disjoint and within the size, *)
(* its bytes stay where it says and the cached block stays current, for    *)
(* every block size, set of partitions and interleaving of the tape writes *)
(* and list updates of concurrent writers with truncates and reads.        *)
(***************************************************************************)
THEOREM FileInvariant == Spec => []FInv
<1>1. Init => FInv
  BY FInvInit
<1>2. FInv /\ [Next]_vars => FInv'
  BY FInvNext
<1> QED  BY <1>1, <1>2, PTL DEF Spec

(***************************************************************************)
(* Until a permanent write error, ltfs_fsraw_read returns for each byte of *)
(* any range what the write whose extent was added there last wrote, or a  *)
(* zero, and stops at the end of the file.                                 *)
(***************************************************************************)
THEOREM FileReadsBack == Spec => []ReadsBack
<1>1. FInv => ReadsBack
  BY ReadsBackFromFInv
<1> QED  BY <1>1, FileInvariant, PTL

=============================================================================
