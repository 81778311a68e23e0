-------------------------- MODULE ExtentListProofs --------------------------
(***************************************************************************)
(* What the edits of ltfs_fsops_raw.c do to an extent list, for every      *)
(* block size and list.  First single extents: cutting one at either end   *)
(* and joining one that continues it keep its bytes where they are on the  *)
(* tape.  Then whole lists, by following the loop of each function one     *)
(* entry at a time (FiniteRecursion): adding an extent, truncating, and    *)
(* the clean-up after a permanent write error.  HasByte(s, o, q) says that *)
(* list s has byte o of the file at place q of the tape; each theorem says *)
(* what HasByte is of the new list in terms of the old one.                *)
(***************************************************************************)
EXTENDS ExtentList, FiniteRecursion

(* How long a prover may take for a step that does not say so. *)
USE SMTT(40), ZenonT(40)

(* Division with remainder, for a symbolic block size. *)
LEMMA DivMod ==
  ASSUME NEW n \in Nat
  PROVE  /\ n \div BlockSize \in Nat
         /\ n % BlockSize \in 0 .. BlockSize - 1
         /\ (n \div BlockSize) * BlockSize + (n % BlockSize) = n
  BY BlockSizeAssumption

(* Whole blocks add up. *)
LEMMA Distributes ==
  ASSUME NEW a \in Nat, NEW b \in Nat
  PROVE  /\ a * BlockSize \in Nat /\ b * BlockSize \in Nat
         /\ (a + b) * BlockSize = a * BlockSize + b * BlockSize
  BY BlockSizeAssumption

(* The block an address is in, from a bound on the address. *)
LEMMA DivAtLeast ==
  ASSUME NEW k \in Nat, NEW n \in Nat, k * BlockSize <= n
  PROVE  k <= n \div BlockSize
<1> DEFINE q == n \div BlockSize
           r == n % BlockSize
<1>1. q \in Nat /\ r \in 0 .. BlockSize - 1 /\ q * BlockSize + r = n /\ BlockSize \in Nat
  BY DivMod, BlockSizeAssumption
<1> HIDE DEF q, r
<1> SUFFICES ASSUME q < k PROVE FALSE
  BY <1>1 DEF q
<1> DEFINE d == k - q - 1
<1>2. d \in Nat /\ q + 1 \in Nat /\ k = (q + 1) + d
  BY <1>1
<1> HIDE DEF d
<1>3. k * BlockSize = (q + 1) * BlockSize + d * BlockSize /\ d * BlockSize \in Nat
  BY <1>2, Distributes
<1>4. (q + 1) * BlockSize = q * BlockSize + BlockSize /\ q * BlockSize \in Nat
  BY <1>1, Distributes
<1> QED  BY <1>1, <1>3, <1>4

(* The block after, counted in bytes. *)
LEMMA NextBlock ==
  ASSUME NEW k \in Nat
  PROVE  (k + 1) * BlockSize = k * BlockSize + BlockSize
<1>1. (k + 1) * BlockSize = k * BlockSize + 1 * BlockSize
  BY Distributes
<1> QED  BY <1>1, BlockSizeAssumption

(* More blocks, more bytes. *)
LEMMA TimesMonotone ==
  ASSUME NEW a \in Nat, NEW b \in Nat, a <= b
  PROVE  a * BlockSize <= b * BlockSize
<1> DEFINE d == b - a
<1>1. d \in Nat /\ b = a + d
  OBVIOUS
<1> HIDE DEF d
<1>2. b * BlockSize = a * BlockSize + d * BlockSize /\ d * BlockSize \in Nat /\ a * BlockSize \in Nat
  BY Zenon, <1>1, Distributes
<1> QED  BY <1>2

(* Block k, byte m is one address only. *)
LEMMA DivModUnique ==
  ASSUME NEW k \in Nat, NEW m \in 0 .. BlockSize - 1
  PROVE  /\ k * BlockSize + m \in Nat
         /\ (k * BlockSize + m) \div BlockSize = k
         /\ (k * BlockSize + m) % BlockSize = m
<1> DEFINE n == k * BlockSize + m
           q == n \div BlockSize
           r == n % BlockSize
<1>1. k * BlockSize \in Nat /\ n \in Nat /\ BlockSize \in Nat
  BY Distributes, BlockSizeAssumption
<1>2. q \in Nat /\ r \in 0 .. BlockSize - 1 /\ q * BlockSize + r = k * BlockSize + m
  BY <1>1, DivMod
<1> HIDE DEF q, r
<1>3. ~(q < k)
  <2> SUFFICES ASSUME q < k PROVE FALSE
    OBVIOUS
  <2> DEFINE d == k - q - 1
  <2>1. d \in Nat /\ q + 1 \in Nat /\ k = (q + 1) + d
    BY <1>2
  <2> HIDE DEF d
  <2>2. /\ k * BlockSize = (q + 1) * BlockSize + d * BlockSize
        /\ d * BlockSize \in Nat
    BY <2>1, Distributes
  <2>3. /\ (q + 1) * BlockSize = q * BlockSize + BlockSize
        /\ q * BlockSize \in Nat
    BY <1>1, <1>2, Distributes
  <2> QED  BY <1>1, <1>2, <2>2, <2>3
<1>4. ~(k < q)
  <2> SUFFICES ASSUME k < q PROVE FALSE
    OBVIOUS
  <2> DEFINE d == q - k - 1
  <2>1. d \in Nat /\ k + 1 \in Nat /\ q = (k + 1) + d
    BY <1>2
  <2> HIDE DEF d
  <2>2. /\ q * BlockSize = (k + 1) * BlockSize + d * BlockSize
        /\ d * BlockSize \in Nat
    BY Zenon, <2>1, Distributes
  <2>3. /\ (k + 1) * BlockSize = k * BlockSize + BlockSize
        /\ k * BlockSize \in Nat
    BY <1>1, <1>2, Distributes
  <2> QED  BY <1>1, <1>2, <2>2, <2>3
<1>5. q = k
  BY <1>2, <1>3, <1>4
<1>6. r = m
  BY <1>1, <1>2, <1>5
<1> QED  BY <1>1, <1>5, <1>6 DEF q, r

(* A later byte is in no earlier block. *)
LEMMA DivMonotone ==
  ASSUME NEW a \in Nat, NEW b \in Nat, a <= b
  PROVE  a \div BlockSize <= b \div BlockSize
<1> DEFINE k == a \div BlockSize
<1>1. k \in Nat /\ a % BlockSize \in Nat /\ k * BlockSize + (a % BlockSize) = a
  BY DivMod
<1>2. k * BlockSize \in Nat
  BY <1>1, Distributes
<1> HIDE DEF k
<1>3. k * BlockSize <= b
  BY <1>1, <1>2
<1> QED  BY <1>1, <1>3, DivAtLeast DEF k

(* Whole blocks before a byte only shift its block number. *)
LEMMA DivShift ==
  ASSUME NEW k \in Nat, NEW n \in Nat
  PROVE  (k * BlockSize + n) \div BlockSize = k + n \div BlockSize
<1> DEFINE q == n \div BlockSize
           r == n % BlockSize
           j == k + q
<1>1. q \in Nat /\ r \in 0 .. BlockSize - 1 /\ q * BlockSize + r = n
  BY DivMod
<1> HIDE DEF q, r
<1>2. /\ j * BlockSize = k * BlockSize + q * BlockSize
      /\ k * BlockSize \in Nat /\ q * BlockSize \in Nat
  BY <1>1, Distributes, Zenon
<1>5. j \in Nat
  BY <1>1
<1> HIDE DEF j
<1>3. k * BlockSize + n = j * BlockSize + r
  BY <1>1, <1>2
<1>4. (j * BlockSize + r) \div BlockSize = j
  BY <1>1, <1>5, DivModUnique
<1> QED  BY <1>3, <1>4 DEF j, q

(***************************************************************************)
(* ltfs_fsraw_add_extent cuts the front off an extent, or makes the second *)
(* half of a split: the result starts inside a block, covers the rest of   *)
(* the extent and reads each byte of it from where it was.                 *)
(***************************************************************************)
THEOREM CutFrontKeepsBytes ==
  ASSUME NEW P, NEW e \in AnyExtent(P), NEW off \in Nat,
         e.fileoffset <= off, off < End(e)
  PROVE  /\ CutFront(e, off) \in AnyExtent(P)
         /\ CutFront(e, off).fileoffset = off
         /\ End(CutFront(e, off)) = End(e)
         /\ \A o \in off .. End(e) - 1 : Address(CutFront(e, off), o) = Address(e, o)
<1> DEFINE diff == off - e.fileoffset
           mod  == diff + e.byteoffset
           q    == mod \div BlockSize
           r    == mod % BlockSize
           f    == CutFront(e, off)
<1>1. /\ e.block \in Nat \ {0} /\ e.byteoffset \in Nat /\ e.bytecount \in Nat
      /\ e.fileoffset \in Nat /\ e.partition \in P
      /\ diff \in Nat /\ mod \in Nat /\ diff < e.bytecount
  BY BlockSizeAssumption DEF AnyExtent, End
<1>2. q \in Nat /\ r \in 0 .. BlockSize - 1 /\ q * BlockSize + r = mod
  BY <1>1, DivMod
<1>3. f = [e EXCEPT !.block = e.block + q, !.byteoffset = r,
                    !.bytecount = e.bytecount - diff, !.fileoffset = off]
  BY DEF CutFront
<1> HIDE DEF f, q, r
<1>4. /\ f \in AnyExtent(P) /\ f.block = e.block + q /\ f.byteoffset = r
      /\ f.bytecount = e.bytecount - diff /\ f.fileoffset = off
  <2>1. e.block + q \in Nat \ {0} /\ e.bytecount - diff \in Nat \ {0}
    BY <1>1, <1>2
  <2> HIDE DEF diff
  <2> QED
    BY Zenon, <1>2, <1>3, <2>1 DEF AnyExtent
<1>5. End(f) = End(e)
  BY <1>1, <1>4 DEF End
<1>6. ASSUME NEW o \in off .. End(e) - 1
      PROVE  Address(f, o) = Address(e, o)
  <2>1. /\ q * BlockSize \in Nat /\ e.block * BlockSize \in Nat
        /\ (e.block + q) * BlockSize = e.block * BlockSize + q * BlockSize
    BY Zenon, <1>1, <1>2, Distributes
  <2>2. Address(f, o) = e.block * BlockSize + q * BlockSize + r + (o - off)
    BY <1>4, <2>1 DEF Address
  <2>3. o \in Int /\ r \in Int
    BY <1>1, <1>2, BlockSizeAssumption DEF End
  <2> QED
    BY <1>1, <1>2, <2>1, <2>2, <2>3 DEF Address
<1> QED
  BY <1>4, <1>5, <1>6 DEF f

(***************************************************************************)
(* ltfs_fsraw_add_extent joins an extent to the one before it only where   *)
(* one extent reads both from where they were: each byte of either keeps   *)
(* its place on the tape.                                                  *)
(***************************************************************************)
THEOREM JoinKeepsBytes ==
  ASSUME NEW P, NEW e \in AnyExtent(P), NEW x \in AnyExtent(P), Continues(e, x),
         NEW j, PutAfter(e, x) = << j >>
  PROVE  /\ j \in AnyExtent(P)
         /\ j.partition = x.partition
         /\ End(j) = End(x)
         /\ \A o \in e.fileoffset .. End(e) - 1 : Address(j, o) = Address(e, o)
         /\ \A o \in x.fileoffset .. End(x) - 1 : Address(j, o) = Address(x, o)
<1> DEFINE n == e.byteoffset + e.bytecount
<1>1. /\ e.block \in Nat /\ e.byteoffset \in Nat /\ e.bytecount \in Nat \ {0}
      /\ e.fileoffset \in Nat /\ x.block \in Nat /\ x.fileoffset \in Nat
      /\ x.bytecount \in Nat \ {0} /\ n \in Nat
  BY BlockSizeAssumption DEF AnyExtent
<1>2. /\ x.fileoffset = e.fileoffset + e.bytecount /\ x.partition = e.partition
      /\ n % BlockSize = 0 /\ e.block + n \div BlockSize = x.block /\ x.byteoffset = 0
  BY DEF Continues, End
<1>3. j = [e EXCEPT !.bytecount = e.bytecount + x.bytecount]
  BY DEF PutAfter
<1>4. /\ j \in AnyExtent(P) /\ j.partition = e.partition /\ j.block = e.block
      /\ j.byteoffset = e.byteoffset /\ j.fileoffset = e.fileoffset
      /\ j.bytecount = e.bytecount + x.bytecount
  <2>1. e.bytecount + x.bytecount \in Nat \ {0}
    BY <1>1
  <2> QED
    BY <1>3, <2>1 DEF AnyExtent
<1>5. End(j) = End(x)
  BY <1>1, <1>2, <1>4 DEF End
<1>6. \A o : Address(j, o) = Address(e, o)
  BY <1>4 DEF Address
<1>7. ASSUME NEW o \in x.fileoffset .. End(x) - 1
      PROVE  Address(e, o) = Address(x, o)
  <2> DEFINE q == n \div BlockSize
  <2>1. q \in Nat /\ q * BlockSize = n
    <3>1. q \in Nat /\ q * BlockSize + (n % BlockSize) = n
      BY <1>1, DivMod
    <3>2. q * BlockSize \in Nat
      BY <3>1, Distributes
    <3> HIDE DEF q
    <3> QED
      BY <1>1, <1>2, <3>1, <3>2
  <2>2. x.block = e.block + q
    BY <1>2
  <2>3. o \in Int
    BY <1>1 DEF End
  <2> HIDE DEF q
  <2>4. /\ e.block * BlockSize \in Nat
        /\ (e.block + q) * BlockSize = e.block * BlockSize + q * BlockSize
    BY Zenon, <1>1, <2>1, Distributes
  <2> QED
    BY <1>1, <1>2, <2>1, <2>2, <2>3, <2>4 DEF Address
<1> QED
  BY <1>2, <1>4, <1>5, <1>6, <1>7

-----------------------------------------------------------------------------
(* What a walk along a list returns: a list and a number of bytes. *)
Result(E) == [list : Seq(E), freed : Int]

(* SumOf adds up its list as its recursive definition says. *)
LEMMA SumUnfolds ==
  ASSUME NEW P, NEW s \in Seq(AnyExtent(P))
  PROVE  \E f \in [0 .. Len(s) -> Nat] :
           /\ f[0] = 0
           /\ \A i \in 1 .. Len(s) : f[i] = f[i - 1] + s[i].bytecount
           /\ SumOf(s) = f[Len(s)]
<1> DEFINE n == Len(s)
           G == [p \in (1 .. n) \X Nat |-> p[2] + s[p[1]].bytecount]
           F(f) == [i \in 0 .. n |-> IF i = 0 THEN 0 ELSE f[i - 1] + s[i].bytecount]
           W == CHOOSE f : f = F(f)
<1>1. n \in Nat /\ \A i \in 1 .. n : s[i].bytecount \in Nat
  <2>1. n \in Nat /\ \A i \in 1 .. n : s[i] \in AnyExtent(P)
    OBVIOUS
  <2> QED  BY ZenonT(20), <2>1 DEF AnyExtent
<1>2. G \in [(1 .. n) \X Nat -> Nat]
  BY <1>1
<1>3. PICK f : IsWalk(f, Nat, n, 0, G)
  <2> HIDE DEF G, n
  <2> QED  BY Zenon, <1>1, <1>2, WalkExists
<1>4. \A i \in 1 .. n : f[i] = f[i - 1] + s[i].bytecount
  <2> TAKE i \in 1 .. n
  <2>0. i - 1 \in 0 .. n /\ f \in [0 .. n -> Nat]
    BY <1>1, <1>3 DEF IsWalk
  <2>1. <<i, f[i - 1]>> \in (1 .. n) \X Nat
    BY <2>0
  <2>2. G[<<i, f[i - 1]>>] = f[i - 1] + s[i].bytecount
    BY <2>1
  <2> QED  BY Zenon, <1>3, <2>2 DEF IsWalk
<1>5. f = F(f)
  BY <1>3, <1>4 DEF IsWalk
<1>6. W = F(W)
  <2> HIDE DEF F
  <2> QED  BY <1>5
<1>7. SumOf(s) = W[n]
  BY DEF SumOf
<1>8. W[0] = 0 /\ \A i \in 1 .. n : W[i] = W[i - 1] + s[i].bytecount
  <2> HIDE DEF W, n
  <2> QED  BY <1>1, <1>6
<1>9. 0 .. n \subseteq { i \in 0 .. n : W[i] = f[i] }
  <2> HIDE DEF W, n
  <2> DEFINE T == { i \in 0 .. n : W[i] = f[i] }
  <2>1. 0 \in T
    BY <1>1, <1>3, <1>8 DEF IsWalk
  <2>2. \A i \in 1 .. n : i - 1 \in T => i \in T
    BY <1>1, <1>4, <1>8
  <2> HIDE DEF T
  <2>3. 0 .. n \subseteq T
    BY Zenon, <1>1, <2>1, <2>2, FiniteInduction
  <2> QED  BY <2>3 DEF T
<1>10. SumOf(s) = f[n]
  BY <1>1, <1>7, <1>9
<1> QED  BY <1>3, <1>4, <1>10 DEF IsWalk

(* No extents cover no bytes. *)
LEMMA SumOfEmpty == SumOf(<< >>) = 0
<1>1. << >> \in Seq(AnyExtent({}))  OBVIOUS
<1>2. PICK f \in [0 .. Len(<< >>) -> Nat] : f[0] = 0 /\ SumOf(<< >>) = f[Len(<< >>)]
  BY Zenon, <1>1, SumUnfolds
<1> QED  BY <1>2

(* One more extent adds its bytes. *)
LEMMA SumOfAppend ==
  ASSUME NEW P, NEW s \in Seq(AnyExtent(P)), NEW e \in AnyExtent(P)
  PROVE  SumOf(s) \in Nat /\ SumOf(Append(s, e)) = SumOf(s) + e.bytecount
<1> DEFINE t == Append(s, e)
           n == Len(s)
<1>1. /\ t \in Seq(AnyExtent(P)) /\ Len(t) = n + 1 /\ n \in Nat
      /\ \A i \in 1 .. n : t[i] = s[i]
      /\ t[n + 1] = e
  OBVIOUS
<1>2. PICK f \in [0 .. n -> Nat] :
           /\ f[0] = 0
           /\ \A i \in 1 .. n : f[i] = f[i - 1] + s[i].bytecount
           /\ SumOf(s) = f[n]
  BY SumUnfolds
<1> HIDE DEF t
<1>3. PICK g \in [0 .. Len(t) -> Nat] :
           /\ g[0] = 0
           /\ \A i \in 1 .. Len(t) : g[i] = g[i - 1] + t[i].bytecount
           /\ SumOf(t) = g[Len(t)]
  BY Zenon, <1>1, SumUnfolds
<1>4. 0 .. n \subseteq { i \in 0 .. n : f[i] = g[i] }
  <2> DEFINE T == { i \in 0 .. n : f[i] = g[i] }
  <2> HIDE DEF n
  <2>1. 0 \in T
    BY <1>1, <1>2, <1>3
  <2>2. ASSUME NEW i \in 1 .. n, i - 1 \in T PROVE i \in T
    <3>1. f[i] = f[i - 1] + s[i].bytecount
      BY <1>2
    <3>2. i \in 1 .. Len(t) /\ t[i] = s[i]
      BY <1>1
    <3>3. g[i] = g[i - 1] + s[i].bytecount
      BY <1>3, <3>2
    <3> QED  BY <2>2, <3>1, <3>3
  <2> HIDE DEF T
  <2>3. 0 .. n \subseteq T
    BY Zenon, <1>1, <2>1, <2>2, FiniteInduction
  <2> QED  BY <2>3 DEF T
<1>5. f[n] = g[n]
  BY <1>1, <1>4
<1>6. g[n + 1] = g[n] + e.bytecount
  BY <1>1, <1>3
<1> QED  BY <1>1, <1>2, <1>3, <1>5, <1>6 DEF t

-----------------------------------------------------------------------------
(* The edits of one extent, by the bytes it has. *)

LEMMA ExtentTypes ==
  ASSUME NEW P, NEW e \in AnyExtent(P)
  PROVE  /\ e.partition \in P /\ e.block \in Nat /\ e.byteoffset \in Nat
         /\ e.bytecount \in Nat \ {0} /\ e.fileoffset \in Nat
         /\ End(e) \in Nat /\ e.fileoffset < End(e) /\ End(e) - e.fileoffset = e.bytecount
<1>1. /\ e.partition \in P /\ e.block \in Nat /\ e.byteoffset \in Nat
      /\ e.bytecount \in Nat \ {0} /\ e.fileoffset \in Nat
  BY BlockSizeAssumption DEF AnyExtent
<1> QED  BY <1>1 DEF End

(* An extent cut at its front has the bytes from off on, where they were. *)
LEMMA CutFrontAt ==
  ASSUME NEW P, NEW e \in AnyExtent(P), NEW off \in Nat,
         e.fileoffset <= off, off < End(e)
  PROVE  /\ CutFront(e, off) \in AnyExtent(P)
         /\ CutFront(e, off).fileoffset = off
         /\ CutFront(e, off).bytecount = End(e) - off
         /\ End(CutFront(e, off)) = End(e)
         /\ \A o \in Nat : \A q : At(CutFront(e, off), o, q) <=> At(e, o, q) /\ off <= o
<1> DEFINE f == CutFront(e, off)
<1>1. /\ f \in AnyExtent(P) /\ f.fileoffset = off /\ End(f) = End(e)
      /\ \A o \in off .. End(e) - 1 : Address(f, o) = Address(e, o)
  BY CutFrontKeepsBytes
<1>2. f.partition = e.partition
  BY DEF CutFront, AnyExtent
<1> HIDE DEF f
<1>3. f.bytecount = End(e) - off
  BY <1>1, ExtentTypes
<1>4. ASSUME NEW o \in Nat, NEW q
      PROVE  At(f, o, q) <=> At(e, o, q) /\ off <= o
  <2>1. CASE off <= o /\ o < End(e)
    <3>1. Inside(f, o) /\ Inside(e, o)
      BY <1>1, <2>1, ExtentTypes DEF Inside
    <3>2. Address(f, o) = Address(e, o)
      BY <1>1, <2>1, ExtentTypes
    <3> QED  BY <1>2, <2>1, <3>1, <3>2 DEF At
  <2>2. CASE ~(off <= o /\ o < End(e))
    BY <1>1, <2>2, ExtentTypes DEF At, Inside
  <2> QED  BY <2>1, <2>2
<1> QED  BY <1>1, <1>3, <1>4 DEF f

(* An extent cut at its end has the bytes before off, where they were. *)
LEMMA CutBackAt ==
  ASSUME NEW P, NEW e \in AnyExtent(P), NEW off \in Nat,
         e.fileoffset < off, off <= End(e)
  PROVE  /\ CutBack(e, off) \in AnyExtent(P)
         /\ CutBack(e, off).fileoffset = e.fileoffset
         /\ CutBack(e, off).bytecount = off - e.fileoffset
         /\ End(CutBack(e, off)) = off
         /\ \A o \in Nat : \A q : At(CutBack(e, off), o, q) <=> At(e, o, q) /\ o < off
<1> DEFINE f == CutBack(e, off)
<1>1. /\ f.partition = e.partition /\ f.block = e.block /\ f.byteoffset = e.byteoffset
      /\ f.fileoffset = e.fileoffset /\ f.bytecount = off - e.fileoffset
      /\ f \in AnyExtent(P)
  <2>1. off - e.fileoffset \in Nat \ {0}
    BY ExtentTypes
  <2> QED  BY <2>1 DEF CutBack, AnyExtent
<1> HIDE DEF f
<1>2. End(f) = off
  BY <1>1, ExtentTypes DEF End
<1>3. \A o : Address(f, o) = Address(e, o)
  BY <1>1 DEF Address
<1>4. ASSUME NEW o \in Nat, NEW q
      PROVE  At(f, o, q) <=> At(e, o, q) /\ o < off
  BY <1>1, <1>2, <1>3, ExtentTypes DEF At, Inside
<1> QED  BY <1>1, <1>2, <1>4 DEF f

(* Two joined extents have the bytes of both, where they were. *)
LEMMA JoinAt ==
  ASSUME NEW P, NEW e \in AnyExtent(P), NEW x \in AnyExtent(P), Continues(e, x),
         NEW j, PutAfter(e, x) = << j >>
  PROVE  /\ j \in AnyExtent(P)
         /\ j.fileoffset = e.fileoffset
         /\ j.bytecount = e.bytecount + x.bytecount
         /\ End(j) = End(x)
         /\ \A o \in Nat : \A q : At(j, o, q) <=> At(e, o, q) \/ At(x, o, q)
<1>1. /\ j \in AnyExtent(P) /\ j.partition = x.partition /\ End(j) = End(x)
      /\ \A o \in e.fileoffset .. End(e) - 1 : Address(j, o) = Address(e, o)
      /\ \A o \in x.fileoffset .. End(x) - 1 : Address(j, o) = Address(x, o)
  BY JoinKeepsBytes
<1>2. x.fileoffset = End(e) /\ x.partition = e.partition
  BY DEF Continues
<1>3. j.fileoffset = e.fileoffset /\ j.bytecount = e.bytecount + x.bytecount
  BY DEF PutAfter, AnyExtent
<1>4. ASSUME NEW o \in Nat, NEW q
      PROVE  At(j, o, q) <=> At(e, o, q) \/ At(x, o, q)
  <2>1. /\ Inside(e, o) => Address(j, o) = Address(e, o)
        /\ Inside(x, o) => Address(j, o) = Address(x, o)
    BY <1>1, ExtentTypes DEF Inside
  <2>2. Inside(j, o) <=> Inside(e, o) \/ Inside(x, o)
    BY <1>1, <1>2, <1>3, ExtentTypes DEF Inside
  <2> QED  BY <1>1, <1>2, <2>1, <2>2 DEF At
<1> QED  BY <1>1, <1>3, <1>4

-----------------------------------------------------------------------------
(* One more extent at the end of a list. *)

LEMMA AppendAt ==
  ASSUME NEW P, NEW s \in Seq(AnyExtent(P)), NEW e \in AnyExtent(P)
  PROVE  /\ Append(s, e) \in Seq(AnyExtent(P))
         /\ InOrder(Append(s, e)) <=> InOrder(s) /\ EndsBy(s, e.fileoffset)
         /\ \A b : EndsBy(Append(s, e), b) <=> EndsBy(s, b) /\ End(e) <= b
         /\ \A o, q : HasByte(Append(s, e), o, q) <=> HasByte(s, o, q) \/ At(e, o, q)
         /\ SumOf(s) \in Nat
         /\ SumOf(Append(s, e)) = SumOf(s) + e.bytecount
<1> DEFINE t == Append(s, e)
           n == Len(s)
<1>1. /\ t \in Seq(AnyExtent(P)) /\ n \in Nat
      /\ DOMAIN s = 1 .. n /\ DOMAIN t = 1 .. n + 1
      /\ \A i \in 1 .. n : t[i] = s[i]
      /\ t[n + 1] = e
  OBVIOUS
<1> HIDE DEF t, n
<1>2. InOrder(t) <=> InOrder(s) /\ EndsBy(s, e.fileoffset)
  <2>1. ASSUME InOrder(t) PROVE InOrder(s) /\ EndsBy(s, e.fileoffset)
    <3>1. InOrder(s)
      BY <1>1, <2>1 DEF InOrder
    <3>2. EndsBy(s, e.fileoffset)
      BY <1>1, <2>1 DEF InOrder, EndsBy
    <3> QED  BY <3>1, <3>2
  <2>2. ASSUME InOrder(s), EndsBy(s, e.fileoffset),
               NEW i \in DOMAIN t, NEW j \in DOMAIN t, i < j
        PROVE  End(t[i]) <= t[j].fileoffset
    <3>1. i \in 1 .. n
      BY <1>1, <2>2
    <3>2. CASE j = n + 1
      BY <1>1, <2>2, <3>1, <3>2 DEF EndsBy
    <3>3. CASE j # n + 1
      <4>1. j \in 1 .. n
        BY <1>1, <3>3
      <4> QED  BY <1>1, <2>2, <3>1, <4>1 DEF InOrder
    <3> QED  BY <3>2, <3>3
  <2> QED  BY <2>1, <2>2 DEF InOrder
<1>3. ASSUME NEW b PROVE EndsBy(t, b) <=> EndsBy(s, b) /\ End(e) <= b
  BY <1>1 DEF EndsBy
<1>4. ASSUME NEW o, NEW q PROVE HasByte(t, o, q) <=> HasByte(s, o, q) \/ At(e, o, q)
  <2>1. HasByte(t, o, q) <=> \E i \in 1 .. n + 1 : At(t[i], o, q)
    BY <1>1 DEF HasByte
  <2>2. HasByte(s, o, q) <=> \E i \in 1 .. n : At(t[i], o, q)
    BY <1>1 DEF HasByte
  <2>3. 1 .. n + 1 = (1 .. n) \cup {n + 1}
    BY <1>1
  <2> QED  BY <1>1, <2>1, <2>2, <2>3
<1> QED  BY <1>1, <1>2, <1>3, <1>4, SumOfAppend DEF t

(* The list of a new file. *)
LEMMA EmptyList ==
  /\ \A S : << >> \in Seq(S)
  /\ InOrder(<< >>) /\ SumOf(<< >>) = 0
  /\ \A b : EndsBy(<< >>, b)
  /\ \A o, q : ~HasByte(<< >>, o, q)
  BY SumOfEmpty DEF InOrder, EndsBy, HasByte

(* The list of a file with one extent. *)
LEMMA SingleList ==
  ASSUME NEW P, NEW e \in AnyExtent(P)
  PROVE  /\ << e >> \in Seq(AnyExtent(P))
         /\ InOrder(<< e >>) /\ SumOf(<< e >>) = e.bytecount
         /\ EndsBy(<< e >>, End(e))
         /\ \A o, q : HasByte(<< e >>, o, q) <=> At(e, o, q)
<1> DEFINE z == << >>
<1>1. << e >> = Append(z, e)
  OBVIOUS
<1>2. End(e) <= End(e) /\ e.bytecount \in Nat
  BY ExtentTypes
<1>3. /\ z \in Seq(AnyExtent(P)) /\ InOrder(z) /\ SumOf(z) = 0
      /\ \A b : EndsBy(z, b)
      /\ \A o, q : ~HasByte(z, o, q)
  BY EmptyList
<1> HIDE DEF z
<1>4. /\ Append(z, e) \in Seq(AnyExtent(P))
      /\ InOrder(Append(z, e)) /\ EndsBy(Append(z, e), End(e))
      /\ SumOf(Append(z, e)) = 0 + e.bytecount
      /\ \A o, q : HasByte(Append(z, e), o, q) <=> HasByte(z, o, q) \/ At(e, o, q)
  BY <1>2, <1>3, AppendAt
<1>5. SumOf(Append(z, e)) = e.bytecount
  BY <1>2, <1>4
<1> QED  BY Zenon, <1>1, <1>3, <1>4, <1>5

(* Extents before b are before every later offset. *)
LEMMA EndsByLater ==
  ASSUME NEW P, NEW s \in Seq(AnyExtent(P)), NEW b \in Nat, NEW c \in Nat, b <= c,
         EndsBy(s, b)
  PROVE  EndsBy(s, c)
<1>1. \A i \in DOMAIN s : End(s[i]) \in Nat
  BY ExtentTypes
<1> QED  BY <1>1 DEF EndsBy

(* A list that ends by b has no byte from b on. *)
LEMMA NothingBehind ==
  ASSUME NEW P, NEW s \in Seq(AnyExtent(P)), NEW b \in Nat, EndsBy(s, b),
         NEW o \in Nat, NEW q, HasByte(s, o, q)
  PROVE  o < b
<1>1. PICK i \in DOMAIN s : At(s[i], o, q)
  BY DEF HasByte
<1>2. o < End(s[i]) /\ End(s[i]) <= b /\ End(s[i]) \in Nat
  BY <1>1, ExtentTypes DEF At, Inside, EndsBy
<1> QED  BY <1>2

(***************************************************************************)
(* s followed by e and x, joined or not: the bytes of all three.           *)
(***************************************************************************)
LEMMA PutAfterAt ==
  ASSUME NEW P, NEW s \in Seq(AnyExtent(P)), NEW e \in AnyExtent(P), NEW x \in AnyExtent(P),
         InOrder(s), EndsBy(s, e.fileoffset), End(e) <= x.fileoffset
  PROVE  /\ s \o PutAfter(e, x) \in Seq(AnyExtent(P))
         /\ InOrder(s \o PutAfter(e, x))
         /\ EndsBy(s \o PutAfter(e, x), End(x))
         /\ \A o \in Nat : \A q : HasByte(s \o PutAfter(e, x), o, q) <=>
                                HasByte(s, o, q) \/ At(e, o, q) \/ At(x, o, q)
         /\ SumOf(s) \in Nat
         /\ SumOf(s \o PutAfter(e, x)) = SumOf(s) + e.bytecount + x.bytecount
<1>0. /\ e.fileoffset \in Nat /\ End(e) \in Nat /\ e.fileoffset < End(e)
      /\ x.fileoffset \in Nat /\ End(x) \in Nat /\ x.fileoffset < End(x)
      /\ e.bytecount \in Nat /\ x.bytecount \in Nat
  BY ExtentTypes
<1>1. CASE Continues(e, x)
  <2>1. PICK j : PutAfter(e, x) = << j >>
    BY <1>1 DEF PutAfter
  <2>2. /\ j \in AnyExtent(P) /\ j.fileoffset = e.fileoffset
        /\ j.bytecount = e.bytecount + x.bytecount /\ End(j) = End(x)
        /\ \A o \in Nat : \A q : At(j, o, q) <=> At(e, o, q) \/ At(x, o, q)
    BY <1>1, <2>1, JoinAt
  <2>3. s \o PutAfter(e, x) = Append(s, j)
    BY <2>1, <2>2
  <2>4. EndsBy(s, End(x))
    BY <1>0, EndsByLater
  <2>5. End(x) <= End(x)
    BY <1>0
  <2>6. /\ Append(s, j) \in Seq(AnyExtent(P)) /\ InOrder(Append(s, j))
        /\ EndsBy(Append(s, j), End(x))
        /\ SumOf(s) \in Nat /\ SumOf(Append(s, j)) = SumOf(s) + j.bytecount
        /\ \A o, q : HasByte(Append(s, j), o, q) <=> HasByte(s, o, q) \/ At(j, o, q)
    BY <2>2, <2>4, <2>5, AppendAt
  <2>7. SumOf(Append(s, j)) = SumOf(s) + e.bytecount + x.bytecount
    BY <1>0, <2>2, <2>6
  <2> QED  BY <2>2, <2>3, <2>6, <2>7
<1>2. CASE ~Continues(e, x)
  <2> DEFINE t == Append(s, e)
  <2>1. s \o PutAfter(e, x) = Append(t, x)
    BY <1>2 DEF PutAfter
  <2>2. /\ t \in Seq(AnyExtent(P)) /\ InOrder(t)
        /\ \A b : EndsBy(t, b) <=> EndsBy(s, b) /\ End(e) <= b
        /\ SumOf(s) \in Nat /\ SumOf(t) = SumOf(s) + e.bytecount
        /\ \A o, q : HasByte(t, o, q) <=> HasByte(s, o, q) \/ At(e, o, q)
    BY AppendAt
  <2> HIDE DEF t
  <2>3. EndsBy(s, End(x)) /\ EndsBy(s, x.fileoffset) /\ End(e) <= End(x) /\ End(x) <= End(x)
    BY <1>0, EndsByLater
  <2>4. EndsBy(t, x.fileoffset) /\ EndsBy(t, End(x))
    BY <2>2, <2>3
  <2>5. /\ Append(t, x) \in Seq(AnyExtent(P)) /\ InOrder(Append(t, x))
        /\ EndsBy(Append(t, x), End(x))
        /\ SumOf(Append(t, x)) = SumOf(t) + x.bytecount
        /\ \A o, q : HasByte(Append(t, x), o, q) <=> HasByte(t, o, q) \/ At(x, o, q)
    BY <2>2, <2>3, <2>4, AppendAt
  <2> QED  BY <2>1, <2>2, <2>5
<1> QED  BY <1>1, <1>2

-----------------------------------------------------------------------------
(***************************************************************************)
(* r is the list s with x laid over it: in order, with the bytes of x      *)
(* where x is and those of s elsewhere, no longer than the two, and with   *)
(* the number of bytes of s that x replaced.                               *)
(***************************************************************************)
Overlaid(r, s, x) ==
  /\ InOrder(r.list)
  /\ \A b \in Nat : EndsBy(s, b) /\ End(x) <= b => EndsBy(r.list, b)
  /\ \A o \in Nat : \A q : HasByte(r.list, o, q) <=>
                         IF Inside(x, o) THEN At(x, o, q) ELSE HasByte(s, o, q)
  /\ SumOf(r.list) = SumOf(s) - r.freed + x.bytecount

(* One step of the walk of ltfs_fsraw_add_extent. *)
LEMMA PlacedOverlaid ==
  ASSUME NEW P, NEW s \in Seq(AnyExtent(P)), NEW e \in AnyExtent(P), NEW x \in AnyExtent(P),
         InOrder(Append(s, e)), NEW r \in Result(AnyExtent(P)), Overlaid(r, s, x)
  PROVE  /\ Placed(s, e, x, r) \in Result(AnyExtent(P))
         /\ Overlaid(Placed(s, e, x, r), Append(s, e), x)
<1> DEFINE StartsBefore == x.fileoffset <= e.fileoffset
           StartsInside == e.fileoffset < x.fileoffset /\ x.fileoffset < End(e)
           Reaches      == e.fileoffset < End(x)
           CoversEnd    == End(e) <= End(x)
           t == Append(s, e)
           p == Placed(s, e, x, r)
           E == AnyExtent(P)
<1>1. /\ e.fileoffset \in Nat /\ End(e) \in Nat /\ e.fileoffset < End(e)
      /\ x.fileoffset \in Nat /\ End(x) \in Nat /\ x.fileoffset < End(x)
      /\ e.bytecount \in Nat /\ x.bytecount \in Nat
      /\ e.bytecount = End(e) - e.fileoffset /\ x.bytecount = End(x) - x.fileoffset
  BY ExtentTypes
<1>2. /\ InOrder(s) /\ EndsBy(s, e.fileoffset)
      /\ \A b : EndsBy(t, b) <=> EndsBy(s, b) /\ End(e) <= b
      /\ \A o, q : HasByte(t, o, q) <=> HasByte(s, o, q) \/ At(e, o, q)
      /\ SumOf(s) \in Nat /\ SumOf(t) = SumOf(s) + e.bytecount
  BY AppendAt
<1>3. r.list \in Seq(E) /\ r.freed \in Int
  BY DEF Result
<1>4. /\ InOrder(r.list)
      /\ \A b \in Nat : EndsBy(s, b) /\ End(x) <= b => EndsBy(r.list, b)
      /\ \A o \in Nat : \A q : HasByte(r.list, o, q) <=>
                             IF Inside(x, o) THEN At(x, o, q) ELSE HasByte(s, o, q)
      /\ SumOf(r.list) = SumOf(s) - r.freed + x.bytecount
  BY DEF Overlaid
<1>5. \A o \in Nat : \A q : HasByte(s, o, q) => o < e.fileoffset
  BY <1>1, <1>2, NothingBehind
<1>6. \A o, q : /\ At(e, o, q) => e.fileoffset <= o /\ o < End(e)
                /\ At(x, o, q) => Inside(x, o)
  BY DEF At, Inside
<1>7. \A o : Inside(x, o) <=> x.fileoffset <= o /\ o < End(x)
  BY DEF Inside
<1> HIDE DEF t, E
<1>8. CASE StartsBefore /\ ~Reaches
  <2>0. p = [list |-> Append(r.list, e), freed |-> r.freed]
    BY <1>1, <1>8 DEF Placed
  <2>1. p.list = Append(r.list, e) /\ p.freed = r.freed
    BY <2>0
  <2> HIDE DEF p
  <2>2. EndsBy(r.list, e.fileoffset)
    BY <1>1, <1>2, <1>4, <1>8
  <2>3. /\ Append(r.list, e) \in Seq(E) /\ InOrder(Append(r.list, e))
        /\ \A b : EndsBy(Append(r.list, e), b) <=> EndsBy(r.list, b) /\ End(e) <= b
        /\ \A o, q : HasByte(Append(r.list, e), o, q) <=> HasByte(r.list, o, q) \/ At(e, o, q)
        /\ SumOf(r.list) \in Nat
        /\ SumOf(Append(r.list, e)) = SumOf(r.list) + e.bytecount
    BY <1>3, <1>4, <2>2, AppendAt DEF E
  <2>4. \A b \in Nat : EndsBy(t, b) /\ End(x) <= b => EndsBy(p.list, b)
    BY <1>2, <1>4, <2>1, <2>3
  <2>5. ASSUME NEW o \in Nat, NEW q
        PROVE  HasByte(p.list, o, q) <=>
                 IF Inside(x, o) THEN At(x, o, q) ELSE HasByte(t, o, q)
    <3>1. HasByte(p.list, o, q) <=> HasByte(r.list, o, q) \/ At(e, o, q)
      BY <2>1, <2>3
    <3>2. HasByte(r.list, o, q) <=> IF Inside(x, o) THEN At(x, o, q) ELSE HasByte(s, o, q)
      BY <1>4
    <3>3. HasByte(t, o, q) <=> HasByte(s, o, q) \/ At(e, o, q)
      BY <1>2
    <3>4. /\ At(e, o, q) => e.fileoffset <= o /\ o < End(e)
          /\ At(x, o, q) => Inside(x, o)
          /\ Inside(x, o) <=> x.fileoffset <= o /\ o < End(x)
      BY <1>6, <1>7
    <3> QED  BY <1>1, <1>8, <3>1, <3>2, <3>3, <3>4
  <2>6. SumOf(p.list) = SumOf(t) - p.freed + x.bytecount
    <3>1. SumOf(p.list) = SumOf(r.list) + e.bytecount /\ p.freed = r.freed
      BY <2>1, <2>3
    <3>2. SumOf(s) \in Nat /\ SumOf(t) = SumOf(s) + e.bytecount
      BY <1>2
    <3>3. SumOf(r.list) = SumOf(s) - r.freed + x.bytecount
      BY <1>4
    <3>4. e.bytecount \in Int /\ x.bytecount \in Int /\ r.freed \in Int /\ e.fileoffset \in Int
          /\ End(e) \in Int /\ End(x) \in Int /\ e.bytecount = End(e) - e.fileoffset
      BY <1>1, <1>3
    <3> DEFINE sp == SumOf(p.list)
               sr == SumOf(r.list)
               ss == SumOf(s)
               st == SumOf(t)
               pf == p.freed
               rf == r.freed
               eb == e.bytecount
               xb == x.bytecount
    <3>5. /\ sp = sr + eb /\ pf = rf /\ st = ss + eb /\ sr = ss - rf + xb
          /\ ss \in Int /\ eb \in Int /\ xb \in Int /\ rf \in Int
      BY <3>1, <3>2, <3>3, <3>4
    <3> HIDE DEF sp, sr, ss, st, pf, rf, eb, xb
    <3>6. sp = st - pf + xb
      BY <3>5
    <3> QED  BY <3>6 DEF sp, st, pf, xb
  <2>7. p \in Result(E) /\ InOrder(p.list)
    BY <2>0, <1>3, <2>1, <2>3 DEF Result
  <2> QED  BY <2>4, <2>5, <2>6, <2>7 DEF Overlaid, t, E, p
<1>9. CASE StartsBefore /\ Reaches /\ CoversEnd
  <2>0. p = [list |-> r.list, freed |-> r.freed + e.bytecount]
    BY <1>1, <1>9 DEF Placed
  <2>1. p.list = r.list /\ p.freed = r.freed + e.bytecount
    BY <2>0
  <2> HIDE DEF p
  <2>4. \A b \in Nat : EndsBy(t, b) /\ End(x) <= b => EndsBy(p.list, b)
    BY <1>2, <1>4, <2>1
  <2>5. ASSUME NEW o \in Nat, NEW q
        PROVE  HasByte(p.list, o, q) <=>
                 IF Inside(x, o) THEN At(x, o, q) ELSE HasByte(t, o, q)
    <3>1. p.list = r.list
      BY <2>1
    <3>2. HasByte(r.list, o, q) <=> IF Inside(x, o) THEN At(x, o, q) ELSE HasByte(s, o, q)
      BY <1>4
    <3>3. HasByte(t, o, q) <=> HasByte(s, o, q) \/ At(e, o, q)
      BY <1>2
    <3>4. /\ At(e, o, q) => e.fileoffset <= o /\ o < End(e)
          /\ At(x, o, q) => Inside(x, o)
          /\ Inside(x, o) <=> x.fileoffset <= o /\ o < End(x)
      BY <1>6, <1>7
    <3> QED  BY <1>1, <1>9, <3>1, <3>2, <3>3, <3>4
  <2>6. SumOf(p.list) = SumOf(t) - p.freed + x.bytecount
    BY <1>1, <1>2, <1>3, <1>4, <2>1
  <2>7. p \in Result(E) /\ InOrder(p.list)
    BY <2>0, <1>1, <1>3, <1>4, <2>1 DEF Result
  <2> QED  BY <2>4, <2>5, <2>6, <2>7 DEF Overlaid, t, E, p
<1>10. CASE StartsBefore /\ Reaches /\ ~CoversEnd
  <2> DEFINE c == CutFront(e, End(x))
  <2>0. p = [list |-> Append(r.list, c), freed |-> r.freed + End(x) - e.fileoffset]
    BY <1>1, <1>10 DEF Placed
  <2>1. p.list = Append(r.list, c) /\ p.freed = r.freed + End(x) - e.fileoffset
    BY <2>0
  <2> HIDE DEF p
  <2>2. /\ c \in E /\ c.fileoffset = End(x) /\ c.bytecount = End(e) - End(x) /\ End(c) = End(e)
        /\ \A o \in Nat : \A q : At(c, o, q) <=> At(e, o, q) /\ End(x) <= o
    BY <1>1, <1>10, CutFrontAt DEF E
  <2> HIDE DEF c
  <2>3. EndsBy(s, End(x))
    BY <1>1, <1>2, <1>10, EndsByLater
  <2>8. EndsBy(r.list, End(x))
    BY <1>1, <1>4, <2>3
  <2>9. /\ Append(r.list, c) \in Seq(E) /\ InOrder(Append(r.list, c))
        /\ \A b : EndsBy(Append(r.list, c), b) <=> EndsBy(r.list, b) /\ End(c) <= b
        /\ \A o, q : HasByte(Append(r.list, c), o, q) <=> HasByte(r.list, o, q) \/ At(c, o, q)
        /\ SumOf(r.list) \in Nat
        /\ SumOf(Append(r.list, c)) = SumOf(r.list) + c.bytecount
    BY <1>3, <1>4, <2>2, <2>8, AppendAt DEF E
  <2>4. \A b \in Nat : EndsBy(t, b) /\ End(x) <= b => EndsBy(p.list, b)
    BY <1>2, <1>4, <2>1, <2>2, <2>9
  <2>5. ASSUME NEW o \in Nat, NEW q
        PROVE  HasByte(p.list, o, q) <=>
                 IF Inside(x, o) THEN At(x, o, q) ELSE HasByte(t, o, q)
    <3>1. HasByte(p.list, o, q) <=> HasByte(r.list, o, q) \/ (At(e, o, q) /\ End(x) <= o)
      BY <2>1, <2>2, <2>9
    <3>2. HasByte(r.list, o, q) <=> IF Inside(x, o) THEN At(x, o, q) ELSE HasByte(s, o, q)
      BY <1>4
    <3>3. HasByte(t, o, q) <=> HasByte(s, o, q) \/ At(e, o, q)
      BY <1>2
    <3>4. /\ At(e, o, q) => e.fileoffset <= o /\ o < End(e)
          /\ At(x, o, q) => Inside(x, o)
          /\ Inside(x, o) <=> x.fileoffset <= o /\ o < End(x)
      BY <1>6, <1>7
    <3> QED  BY <1>1, <1>10, <3>1, <3>2, <3>3, <3>4
  <2>6. SumOf(p.list) = SumOf(t) - p.freed + x.bytecount
    <3>1. /\ SumOf(p.list) = SumOf(r.list) + (End(e) - End(x))
          /\ p.freed = r.freed + End(x) - e.fileoffset
      BY <2>1, <2>2, <2>9
    <3>2. SumOf(s) \in Nat /\ SumOf(t) = SumOf(s) + e.bytecount
      BY <1>2
    <3>3. SumOf(r.list) = SumOf(s) - r.freed + x.bytecount
      BY <1>4
    <3>4. e.bytecount \in Int /\ x.bytecount \in Int /\ r.freed \in Int /\ e.fileoffset \in Int
          /\ End(e) \in Int /\ End(x) \in Int /\ e.bytecount = End(e) - e.fileoffset
      BY <1>1, <1>3
    <3> DEFINE sp == SumOf(p.list)
               sr == SumOf(r.list)
               ss == SumOf(s)
               st == SumOf(t)
               pf == p.freed
               rf == r.freed
               eb == e.bytecount
               xb == x.bytecount
               ee == End(e)
               ex == End(x)
               ef == e.fileoffset
    <3>5. /\ sp = sr + (ee - ex) /\ pf = rf + ex - ef /\ st = ss + eb /\ sr = ss - rf + xb
          /\ ss \in Int /\ eb \in Int /\ xb \in Int /\ rf \in Int
          /\ ee \in Int /\ ex \in Int /\ ef \in Int /\ eb = ee - ef
      BY <3>1, <3>2, <3>3, <3>4
    <3> HIDE DEF sp, sr, ss, st, pf, rf, eb, xb, ee, ex, ef
    <3>6. sp = st - pf + xb
      BY <3>5
    <3> QED  BY <3>6 DEF sp, st, pf, xb
  <2>7. p \in Result(E) /\ InOrder(p.list)
    BY <2>0, <1>1, <1>3, <2>1, <2>9 DEF Result
  <2> QED  BY <2>4, <2>5, <2>6, <2>7 DEF Overlaid, t, E, p
<1>11. CASE StartsInside
  <2> DEFINE c == CutBack(e, x.fileoffset)
             m == s \o PutAfter(c, x)
  <2>1. /\ c \in E /\ c.fileoffset = e.fileoffset /\ c.bytecount = x.fileoffset - e.fileoffset
        /\ End(c) = x.fileoffset
        /\ \A o \in Nat : \A q : At(c, o, q) <=> At(e, o, q) /\ o < x.fileoffset
    <3>1. x.fileoffset \in Nat /\ e.fileoffset < x.fileoffset /\ x.fileoffset <= End(e)
      BY <1>1, <1>11
    <3> QED  BY <3>1, CutBackAt DEF E
  <2>2. x.fileoffset <= x.fileoffset
    BY <1>1
  <2> HIDE DEF c
  <2>3. /\ m \in Seq(E) /\ InOrder(m) /\ EndsBy(m, End(x))
        /\ \A o \in Nat : \A q : HasByte(m, o, q) <=>
                               HasByte(s, o, q) \/ At(c, o, q) \/ At(x, o, q)
        /\ SumOf(m) = SumOf(s) + c.bytecount + x.bytecount
    BY <1>2, <2>1, <2>2, PutAfterAt DEF E
  <2> HIDE DEF m
  <2>4. CASE CoversEnd
    <3>0. p = [list |-> m, freed |-> End(e) - x.fileoffset]
      BY <1>1, <1>11, <2>4 DEF Placed, m, c
    <3>1. p.list = m /\ p.freed = End(e) - x.fileoffset
      BY <3>0
    <3> HIDE DEF p
    <3>2. \A b \in Nat : EndsBy(t, b) /\ End(x) <= b => EndsBy(p.list, b)
      BY <1>1, <2>3, <3>1, EndsByLater DEF E
    <3>3. ASSUME NEW o \in Nat, NEW q
          PROVE  HasByte(p.list, o, q) <=>
                   IF Inside(x, o) THEN At(x, o, q) ELSE HasByte(t, o, q)
      <4>1. HasByte(p.list, o, q) <=> HasByte(s, o, q) \/ (At(e, o, q) /\ o < x.fileoffset) \/ At(x, o, q)
        BY <2>1, <2>3, <3>1
      <4>2. HasByte(s, o, q) => o < e.fileoffset
        BY <1>5
      <4>3. HasByte(t, o, q) <=> HasByte(s, o, q) \/ At(e, o, q)
        BY <1>2
      <4>4. /\ At(e, o, q) => e.fileoffset <= o /\ o < End(e)
            /\ At(x, o, q) => Inside(x, o)
            /\ Inside(x, o) <=> x.fileoffset <= o /\ o < End(x)
        BY <1>6, <1>7
      <4> QED  BY <1>1, <1>11, <2>4, <4>1, <4>2, <4>3, <4>4
    <3>4. SumOf(p.list) = SumOf(t) - p.freed + x.bytecount
      <4>1. /\ SumOf(p.list) = SumOf(s) + (x.fileoffset - e.fileoffset) + x.bytecount
            /\ p.freed = End(e) - x.fileoffset
        BY <2>1, <2>3, <3>1
      <4>2. SumOf(s) \in Nat /\ SumOf(t) = SumOf(s) + e.bytecount
        BY <1>2
      <4>3. /\ e.bytecount \in Int /\ x.bytecount \in Int /\ e.fileoffset \in Int
            /\ x.fileoffset \in Int /\ End(e) \in Int /\ End(x) \in Int
            /\ e.bytecount = End(e) - e.fileoffset /\ x.bytecount = End(x) - x.fileoffset
        BY <1>1
      <4> DEFINE sp == SumOf(p.list)
                 ss == SumOf(s)
                 st == SumOf(t)
                 pf == p.freed
                 eb == e.bytecount
                 xb == x.bytecount
                 ee == End(e)
                 ex == End(x)
                 ef == e.fileoffset
                 xf == x.fileoffset
      <4>4. sp = ss + (xf - ef) + xb /\ pf = ee - xf
        BY <4>1
      <4>5. ss \in Int /\ st = ss + eb
        BY <4>2
      <4>6. /\ eb \in Int /\ xb \in Int /\ ee \in Int /\ ex \in Int
            /\ ef \in Int /\ xf \in Int /\ eb = ee - ef /\ xb = ex - xf
        BY <4>3
      <4> HIDE DEF sp, ss, st, pf, eb, xb, ee, ex, ef, xf
      <4>7. sp = st - pf + xb
        BY <4>4, <4>5, <4>6
      <4> QED  BY <4>7 DEF sp, st, pf, xb
    <3>5. p \in Result(E) /\ InOrder(p.list)
      BY <3>0, <1>1, <2>3, <3>1 DEF Result
    <3> QED  BY <3>2, <3>3, <3>4, <3>5 DEF Overlaid, t, E, p
  <2>5. CASE ~CoversEnd
    <3> DEFINE d == CutFront(e, End(x))
               l == Append(m, d)
    <3>0. p = [list |-> l, freed |-> x.bytecount]
      BY <1>1, <1>11, <2>5 DEF Placed, m, c
    <3>1. p.list = l /\ p.freed = x.bytecount
      BY <3>0
    <3> HIDE DEF p
    <3>2. /\ d \in E /\ d.fileoffset = End(x) /\ d.bytecount = End(e) - End(x)
          /\ End(d) = End(e)
          /\ \A o \in Nat : \A q : At(d, o, q) <=> At(e, o, q) /\ End(x) <= o
      <4>1. End(x) \in Nat /\ e.fileoffset <= End(x) /\ End(x) < End(e)
        BY <1>1, <1>11, <2>5
      <4> QED  BY <4>1, CutFrontAt, Zenon DEF E
    <3> HIDE DEF d
    <3>3. /\ l \in Seq(E) /\ InOrder(l)
          /\ \A b : EndsBy(l, b) <=> EndsBy(m, b) /\ End(d) <= b
          /\ \A o, q : HasByte(l, o, q) <=> HasByte(m, o, q) \/ At(d, o, q)
          /\ SumOf(m) \in Nat
          /\ SumOf(l) = SumOf(m) + d.bytecount
      BY <2>3, <3>2, AppendAt DEF E
    <3> HIDE DEF l
    <3>4. \A b \in Nat : EndsBy(t, b) /\ End(x) <= b => EndsBy(p.list, b)
      BY <1>1, <1>2, <2>3, <3>1, <3>2, <3>3, EndsByLater DEF E
    <3>5. ASSUME NEW o \in Nat, NEW q
          PROVE  HasByte(p.list, o, q) <=>
                   IF Inside(x, o) THEN At(x, o, q) ELSE HasByte(t, o, q)
      <4>1. HasByte(p.list, o, q) <=>
              (\/ HasByte(s, o, q)
               \/ At(e, o, q) /\ (o < x.fileoffset \/ End(x) <= o)
               \/ At(x, o, q))
        <5>1. HasByte(p.list, o, q) <=> HasByte(m, o, q) \/ At(d, o, q)
          BY <3>1, <3>3
        <5>2. HasByte(m, o, q) <=> HasByte(s, o, q) \/ At(c, o, q) \/ At(x, o, q)
          BY <2>3
        <5>3. At(c, o, q) <=> At(e, o, q) /\ o < x.fileoffset
          BY <2>1
        <5>4. At(d, o, q) <=> At(e, o, q) /\ End(x) <= o
          BY <3>2
        <5> QED  BY <5>1, <5>2, <5>3, <5>4
      <4>2. HasByte(s, o, q) => o < e.fileoffset
        BY <1>5
      <4>3. HasByte(t, o, q) <=> HasByte(s, o, q) \/ At(e, o, q)
        BY <1>2
      <4>4. /\ At(e, o, q) => e.fileoffset <= o /\ o < End(e)
            /\ At(x, o, q) => Inside(x, o)
            /\ Inside(x, o) <=> x.fileoffset <= o /\ o < End(x)
        BY <1>6, <1>7
      <4> QED  BY <1>1, <1>11, <2>5, <4>1, <4>2, <4>3, <4>4
    <3>6. SumOf(p.list) = SumOf(t) - p.freed + x.bytecount
      <4>1. /\ SumOf(p.list) = SumOf(m) + (End(e) - End(x)) /\ p.freed = x.bytecount
            /\ SumOf(m) = SumOf(s) + (x.fileoffset - e.fileoffset) + x.bytecount
        BY <2>1, <2>3, <3>1, <3>2, <3>3
      <4>2. SumOf(s) \in Nat /\ SumOf(t) = SumOf(s) + e.bytecount
        BY <1>2
      <4>3. /\ e.bytecount \in Int /\ x.bytecount \in Int /\ e.fileoffset \in Int
            /\ x.fileoffset \in Int /\ End(e) \in Int /\ End(x) \in Int
            /\ e.bytecount = End(e) - e.fileoffset /\ x.bytecount = End(x) - x.fileoffset
        BY <1>1
      <4> DEFINE sp == SumOf(p.list)
                 sm == SumOf(m)
                 ss == SumOf(s)
                 st == SumOf(t)
                 pf == p.freed
                 eb == e.bytecount
                 xb == x.bytecount
                 ee == End(e)
                 ex == End(x)
                 ef == e.fileoffset
                 xf == x.fileoffset
      <4>4. /\ sp = sm + (ee - ex) /\ pf = xb /\ sm = ss + (xf - ef) + xb
        BY <4>1
      <4>5. ss \in Int /\ st = ss + eb
        BY <4>2
      <4>6. /\ eb \in Int /\ xb \in Int /\ ee \in Int /\ ex \in Int
            /\ ef \in Int /\ xf \in Int /\ eb = ee - ef /\ xb = ex - xf
        BY <4>3
      <4> HIDE DEF sp, sm, ss, st, pf, eb, xb, ee, ex, ef, xf
      <4>7. sp = st - pf + xb
        BY <4>4, <4>5, <4>6
      <4> QED  BY <4>7 DEF sp, st, pf, xb
    <3>7. p \in Result(E) /\ InOrder(p.list)
      BY <3>0, <1>1, <3>1, <3>3 DEF Result
    <3> QED  BY <3>4, <3>5, <3>6, <3>7 DEF Overlaid, t, E, p
  <2> QED  BY <2>4, <2>5
<1>12. CASE End(e) <= x.fileoffset
  <2> DEFINE m == s \o PutAfter(e, x)
  <2>0. p = [list |-> m, freed |-> 0]
    BY <1>1, <1>12 DEF Placed
  <2>1. p.list = m /\ p.freed = 0
    BY <2>0
  <2> HIDE DEF p
  <2>3. /\ m \in Seq(E) /\ InOrder(m) /\ EndsBy(m, End(x))
        /\ \A o \in Nat : \A q : HasByte(m, o, q) <=>
                               HasByte(s, o, q) \/ At(e, o, q) \/ At(x, o, q)
        /\ SumOf(m) = SumOf(s) + e.bytecount + x.bytecount
    BY <1>2, <1>12, PutAfterAt DEF E
  <2> HIDE DEF m
  <2>4. \A b \in Nat : EndsBy(t, b) /\ End(x) <= b => EndsBy(p.list, b)
    BY <1>1, <2>1, <2>3, EndsByLater DEF E
  <2>5. ASSUME NEW o \in Nat, NEW q
        PROVE  HasByte(p.list, o, q) <=>
                 IF Inside(x, o) THEN At(x, o, q) ELSE HasByte(t, o, q)
    <3>1. HasByte(p.list, o, q) <=> HasByte(s, o, q) \/ At(e, o, q) \/ At(x, o, q)
      BY <2>1, <2>3
    <3>2. HasByte(s, o, q) => o < e.fileoffset
      BY <1>5
    <3>3. HasByte(t, o, q) <=> HasByte(s, o, q) \/ At(e, o, q)
      BY <1>2
    <3>4. /\ At(e, o, q) => e.fileoffset <= o /\ o < End(e)
          /\ At(x, o, q) => Inside(x, o)
          /\ Inside(x, o) <=> x.fileoffset <= o /\ o < End(x)
      BY <1>6, <1>7
    <3> QED  BY <1>1, <1>12, <3>1, <3>2, <3>3, <3>4
  <2>6. SumOf(p.list) = SumOf(t) - p.freed + x.bytecount
    BY <1>1, <1>2, <2>1, <2>3
  <2>7. p \in Result(E) /\ InOrder(p.list)
    BY <2>0, <2>1, <2>3 DEF Result
  <2> QED  BY <2>4, <2>5, <2>6, <2>7 DEF Overlaid, t, E, p
<1> QED  BY <1>1, <1>8, <1>9, <1>10, <1>11, <1>12

(* The first entries of a list, one by one. *)
LEMMA Prefixes ==
  ASSUME NEW P, NEW l \in Seq(AnyExtent(P)), InOrder(l)
  PROVE  /\ Len(l) \in Nat
         /\ SubSeq(l, 1, 0) = << >> /\ SubSeq(l, 1, Len(l)) = l
         /\ \A i \in 0 .. Len(l) :
              SubSeq(l, 1, i) \in Seq(AnyExtent(P)) /\ InOrder(SubSeq(l, 1, i))
         /\ \A i \in 1 .. Len(l) :
              l[i] \in AnyExtent(P) /\ SubSeq(l, 1, i) = Append(SubSeq(l, 1, i - 1), l[i])
<1>1. Len(l) \in Nat /\ SubSeq(l, 1, 0) = << >> /\ SubSeq(l, 1, Len(l)) = l
  OBVIOUS
<1>2. ASSUME NEW i \in 0 .. Len(l)
      PROVE  SubSeq(l, 1, i) \in Seq(AnyExtent(P)) /\ InOrder(SubSeq(l, 1, i))
  <2>1. SubSeq(l, 1, i) \in Seq(AnyExtent(P))
    OBVIOUS
  <2> DEFINE t == SubSeq(l, 1, i)
  <2>2. /\ DOMAIN t = 1 .. i /\ 1 .. i \subseteq DOMAIN l
        /\ \A j \in 1 .. i : t[j] = l[j]
    OBVIOUS
  <2> HIDE DEF t
  <2>3. InOrder(t)
    BY <2>2 DEF InOrder
  <2> QED  BY <2>1, <2>3 DEF t
<1>3. ASSUME NEW i \in 1 .. Len(l)
      PROVE  l[i] \in AnyExtent(P) /\ SubSeq(l, 1, i) = Append(SubSeq(l, 1, i - 1), l[i])
  OBVIOUS
<1> QED  BY <1>1, <1>2, <1>3

(***************************************************************************)
(* ltfs_fsraw_add_extent, for every list in order and every extent: the    *)
(* result is the list with the extent laid over it.  Each byte of the file *)
(* that the extent covers is where the extent has it, every other byte is  *)
(* where it was, the entries are in order and disjoint, and freed is the   *)
(* number of bytes the extent replaced.                                    *)
(***************************************************************************)
THEOREM AddExtentLaysOver ==
  ASSUME NEW P, NEW l \in Seq(AnyExtent(P)), NEW x \in AnyExtent(P), InOrder(l)
  PROVE  /\ AddExtent(l, x) \in Result(AnyExtent(P))
         /\ Overlaid(AddExtent(l, x), l, x)
<1> DEFINE n == Len(l)
           R == Result(AnyExtent(P))
           a == [list |-> <<x>>, freed |-> 0]
           Step(i, r) == Placed(SubSeq(l, 1, i - 1), l[i], x, r)
           G == [p \in (1 .. n) \X R |-> IF Step(p[1], p[2]) \in R THEN Step(p[1], p[2]) ELSE a]
           V == [i \in 0 .. n |-> { r \in R : Overlaid(r, SubSeq(l, 1, i), x) }]
           F(f) == [i \in 0 .. n |-> IF i = 0 THEN a ELSE Step(i, f[i - 1])]
           W == CHOOSE f : f = F(f)
<1>1. /\ n \in Nat /\ SubSeq(l, 1, 0) = << >> /\ SubSeq(l, 1, n) = l
      /\ \A i \in 0 .. n : SubSeq(l, 1, i) \in Seq(AnyExtent(P)) /\ InOrder(SubSeq(l, 1, i))
      /\ \A i \in 1 .. n :
           l[i] \in AnyExtent(P) /\ SubSeq(l, 1, i) = Append(SubSeq(l, 1, i - 1), l[i])
  BY Prefixes
<1>2. a \in R /\ a \in V[0]
  <2>1. a \in R
    BY SingleList DEF Result
  <2>2. Overlaid(a, << >>, x)
    <3>1. x.bytecount \in Nat /\ x.bytecount = 0 - 0 + x.bytecount /\ End(x) \in Nat
      BY ExtentTypes
    <3>2. \A b \in Nat : End(x) <= b => EndsBy(<<x>>, b)
      BY Zenon, <3>1, SingleList, EndsByLater
    <3> QED  BY <3>1, <3>2, SingleList, EmptyList DEF Overlaid, At
  <2>3. Overlaid(a, SubSeq(l, 1, 0), x)
    BY Zenon, <1>1, <2>2
  <2> HIDE DEF a, R
  <2> QED  BY <1>1, <2>1, <2>3
<1>3. ASSUME NEW i \in 1 .. n, NEW r \in R, r \in V[i - 1]
      PROVE  Step(i, r) \in R /\ Step(i, r) \in V[i]
  <2>1. Overlaid(r, SubSeq(l, 1, i - 1), x)
    BY <1>1, <1>3
  <2>2. /\ SubSeq(l, 1, i - 1) \in Seq(AnyExtent(P)) /\ l[i] \in AnyExtent(P)
        /\ SubSeq(l, 1, i) = Append(SubSeq(l, 1, i - 1), l[i]) /\ InOrder(SubSeq(l, 1, i))
    BY <1>1
  <2>3. Step(i, r) \in R /\ Overlaid(Step(i, r), SubSeq(l, 1, i), x)
    BY Zenon, <2>1, <2>2, PlacedOverlaid
  <2> QED  BY <2>3
<1>4. G \in [(1 .. n) \X R -> R]
  BY <1>2
<1>5. ASSUME NEW i \in 1 .. n, NEW r \in R, r \in V[i - 1]
      PROVE  G[<<i, r>>] = Step(i, r) /\ G[<<i, r>>] \in V[i]
  <2>1. Step(i, r) \in R /\ Step(i, r) \in V[i]
    BY <1>3, <1>5
  <2>2. G[<<i, r>>] = IF Step(i, r) \in R THEN Step(i, r) ELSE a
    <3> HIDE DEF Step, a, R, n
    <3> QED  OBVIOUS
  <2> QED  BY <2>1, <2>2
<1> HIDE DEF G, V, R, n, a, Step
<1>6. PICK f : IsWalk(f, R, n, a, G) /\ \A i \in 0 .. n : f[i] \in V[i]
  BY Zenon, <1>1, <1>2, <1>4, <1>5, WalkKeeps
<1>7. f \in [0 .. n -> R] /\ f[0] = a /\ \A i \in 1 .. n : f[i] = Step(i, f[i - 1])
  <2>1. f \in [0 .. n -> R] /\ f[0] = a /\ \A i \in 1 .. n : f[i] = G[<<i, f[i - 1]>>]
    BY <1>6 DEF IsWalk
  <2>2. ASSUME NEW i \in 1 .. n PROVE f[i] = Step(i, f[i - 1])
    <3>1. i - 1 \in 0 .. n
      BY <1>1
    <3>2. f[i - 1] \in R /\ f[i - 1] \in V[i - 1]
      BY <1>6, <2>1, <3>1
    <3> QED  BY Zenon, <1>5, <2>1, <3>2
  <2> QED  BY <2>1, <2>2
<1>8. f = F(f)
  BY <1>7
<1>9. W = F(W)
  <2> HIDE DEF F
  <2> QED  BY <1>8
<1>10. AddExtent(l, x) = W[n]
  BY DEF AddExtent, Step, a, n
<1> HIDE DEF W
<1>11. W[0] = a /\ \A i \in 1 .. n : W[i] = Step(i, W[i - 1])
  BY <1>1, <1>9
<1>12. W[n] = f[n]
  <2>1. W[0] = f[0] /\ \A i \in 1 .. n : W[i - 1] = f[i - 1] => W[i] = f[i]
    BY <1>7, <1>11
  <2> HIDE DEF F
  <2> QED  BY <1>1, <2>1, SameWalk
<1>13. f[n] \in R /\ f[n] \in V[n]
  BY <1>1, <1>6, <1>7
<1>14. Overlaid(f[n], SubSeq(l, 1, n), x)
  BY <1>1, <1>13 DEF V
<1> QED  BY Zenon, <1>1, <1>10, <1>12, <1>13, <1>14 DEF R

-----------------------------------------------------------------------------
(* r is the list s without the bytes from length on, and their number. *)
CutOff(r, s, length) ==
  /\ InOrder(r.list)
  /\ EndsBy(r.list, length)
  /\ \A b \in Nat : EndsBy(s, b) => EndsBy(r.list, b)
  /\ \A o \in Nat : \A q : HasByte(r.list, o, q) <=> HasByte(s, o, q) /\ o < length
  /\ SumOf(r.list) = SumOf(s) - r.freed

(* One step of the walk of ltfs_fsraw_truncate. *)
LEMMA CutCutsOff ==
  ASSUME NEW P, NEW s \in Seq(AnyExtent(P)), NEW e \in AnyExtent(P), NEW length \in Nat,
         InOrder(Append(s, e)), NEW r \in Result(AnyExtent(P)), CutOff(r, s, length)
  PROVE  /\ Cut(s, e, length, r) \in Result(AnyExtent(P))
         /\ CutOff(Cut(s, e, length, r), Append(s, e), length)
<1> DEFINE t == Append(s, e)
           p == Cut(s, e, length, r)
           E == AnyExtent(P)
           c == CutBack(e, length)
<1>1. /\ e.fileoffset \in Nat /\ End(e) \in Nat /\ e.fileoffset < End(e)
      /\ e.bytecount \in Nat /\ e.bytecount = End(e) - e.fileoffset
  BY ExtentTypes
<1>2. /\ t \in Seq(E) /\ InOrder(s) /\ EndsBy(s, e.fileoffset)
      /\ \A b : EndsBy(t, b) <=> EndsBy(s, b) /\ End(e) <= b
      /\ \A o, q : HasByte(t, o, q) <=> HasByte(s, o, q) \/ At(e, o, q)
      /\ SumOf(s) \in Nat /\ SumOf(t) = SumOf(s) + e.bytecount
  BY AppendAt
<1>3. r.list \in Seq(E) /\ r.freed \in Int
  BY DEF Result
<1>4. /\ InOrder(r.list) /\ EndsBy(r.list, length)
      /\ \A b \in Nat : EndsBy(s, b) => EndsBy(r.list, b)
      /\ \A o \in Nat : \A q : HasByte(r.list, o, q) <=> HasByte(s, o, q) /\ o < length
      /\ SumOf(r.list) = SumOf(s) - r.freed
  BY DEF CutOff
<1>5. \A o, q : At(e, o, q) => e.fileoffset <= o /\ o < End(e)
  BY DEF At, Inside
<1>6. InOrder(t)
  OBVIOUS
<1> HIDE DEF t, E, c
<1>7. CASE e.fileoffset >= length
  <2>1. p = [list |-> r.list, freed |-> r.freed + e.bytecount]
    BY <1>1, <1>7 DEF Cut
  <2>2. p.list = r.list /\ p.freed = r.freed + e.bytecount /\ p \in Result(E)
    BY <1>1, <1>3, <2>1 DEF Result
  <2> HIDE DEF p
  <2>3. ASSUME NEW o \in Nat, NEW q
        PROVE  HasByte(p.list, o, q) <=> HasByte(t, o, q) /\ o < length
    <3>1. /\ HasByte(p.list, o, q) <=> HasByte(s, o, q) /\ o < length
          /\ HasByte(t, o, q) <=> HasByte(s, o, q) \/ At(e, o, q)
          /\ At(e, o, q) => e.fileoffset <= o
      BY <1>2, <1>4, <1>5, <2>2
    <3> QED  BY <1>1, <1>7, <3>1
  <2>4. SumOf(p.list) = SumOf(t) - p.freed
    BY <1>1, <1>2, <1>3, <1>4, <2>2
  <2> QED  BY <1>2, <1>4, <2>2, <2>3, <2>4 DEF CutOff, t, E, p
<1>8. CASE e.fileoffset < length /\ length < End(e)
  <2>1. p = [list |-> Append(r.list, c), freed |-> r.freed + End(e) - length]
    BY <1>1, <1>8 DEF Cut, c
  <2>2. p.list = Append(r.list, c) /\ p.freed = r.freed + End(e) - length
    BY <2>1
  <2> HIDE DEF p
  <2>3. /\ c \in E /\ c.fileoffset = e.fileoffset /\ c.bytecount = length - e.fileoffset
        /\ End(c) = length
        /\ \A o \in Nat : \A q : At(c, o, q) <=> At(e, o, q) /\ o < length
    BY <1>1, <1>8, CutBackAt DEF c, E
  <2>4. EndsBy(r.list, c.fileoffset)
    BY <1>1, <1>2, <1>4, <2>3
  <2>5. /\ p.list \in Seq(E) /\ InOrder(p.list)
        /\ \A b : EndsBy(p.list, b) <=> EndsBy(r.list, b) /\ length <= b
        /\ \A o, q : HasByte(p.list, o, q) <=> HasByte(r.list, o, q) \/ At(c, o, q)
        /\ SumOf(p.list) = SumOf(r.list) + (length - e.fileoffset)
    BY <1>3, <1>4, <2>2, <2>3, <2>4, AppendAt DEF E
  <2>6. p \in Result(E)
    BY <1>1, <1>3, <2>1, <2>2, <2>5 DEF Result
  <2>7. EndsBy(p.list, length) /\ \A b \in Nat : EndsBy(t, b) => EndsBy(p.list, b)
    BY <1>1, <1>2, <1>4, <1>8, <2>5
  <2>8. ASSUME NEW o \in Nat, NEW q
        PROVE  HasByte(p.list, o, q) <=> HasByte(t, o, q) /\ o < length
    <3>1. /\ HasByte(p.list, o, q) <=> HasByte(r.list, o, q) \/ At(c, o, q)
          /\ HasByte(r.list, o, q) <=> HasByte(s, o, q) /\ o < length
          /\ At(c, o, q) <=> At(e, o, q) /\ o < length
          /\ HasByte(t, o, q) <=> HasByte(s, o, q) \/ At(e, o, q)
      BY <1>2, <1>4, <2>3, <2>5
    <3> QED  BY <3>1
  <2>9. SumOf(p.list) = SumOf(t) - p.freed
    <3> DEFINE sp == SumOf(p.list)
               sr == SumOf(r.list)
               ss == SumOf(s)
               st == SumOf(t)
               ee == End(e)
               eo == e.fileoffset
               rf == r.freed
    <3>1. /\ sp = sr + (length - eo) /\ p.freed = rf + ee - length
          /\ st = ss + (ee - eo) /\ sr = ss - rf
          /\ ss \in Int /\ ee \in Int /\ eo \in Int /\ rf \in Int
      BY <1>1, <1>2, <1>3, <1>4, <2>2, <2>5
    <3> HIDE DEF sp, sr, ss, st, ee, eo, rf
    <3>2. sp = st - p.freed
      BY <3>1
    <3> QED  BY <3>2 DEF sp, st
  <2> QED  BY <2>5, <2>6, <2>7, <2>8, <2>9 DEF CutOff, t, E, p
<1>9. CASE End(e) <= length
  <2>1. p = [list |-> t, freed |-> 0]
    BY <1>1, <1>9 DEF Cut, t
  <2>2. p.list = t /\ p.freed = 0 /\ p \in Result(E)
    BY <1>2, <2>1 DEF Result
  <2> HIDE DEF p
  <2>3. EndsBy(t, length)
    BY <1>1, <1>2, <1>9, EndsByLater DEF E
  <2>4. \A o \in Nat : \A q : HasByte(t, o, q) => o < length
    BY <1>2, <2>3, NothingBehind DEF E
  <2>5. SumOf(p.list) = SumOf(t) - p.freed
    BY <1>1, <1>2, <2>2
  <2> QED  BY <1>6, <2>2, <2>3, <2>4, <2>5 DEF CutOff, t, E, p
<1> QED  BY <1>1, <1>7, <1>8, <1>9

(***************************************************************************)
(* ltfs_fsraw_truncate to less than the size, for every list in order: the *)
(* bytes before length are where they were, none is left from length on,   *)
(* the entries are in order, and freed is the number of bytes dropped.     *)
(***************************************************************************)
THEOREM TruncatedCutsOff ==
  ASSUME NEW P, NEW l \in Seq(AnyExtent(P)), NEW length \in Nat, InOrder(l)
  PROVE  /\ Truncated(l, length) \in Result(AnyExtent(P))
         /\ CutOff(Truncated(l, length), l, length)
<1> DEFINE n == Len(l)
           R == Result(AnyExtent(P))
           a == [list |-> << >>, freed |-> 0]
           Step(i, r) == Cut(SubSeq(l, 1, i - 1), l[i], length, r)
           G == [p \in (1 .. n) \X R |-> IF Step(p[1], p[2]) \in R THEN Step(p[1], p[2]) ELSE a]
           V == [i \in 0 .. n |-> { r \in R : CutOff(r, SubSeq(l, 1, i), length) }]
           F(f) == [i \in 0 .. n |-> IF i = 0 THEN a ELSE Step(i, f[i - 1])]
           W == CHOOSE f : f = F(f)
<1>1. /\ n \in Nat /\ SubSeq(l, 1, 0) = << >> /\ SubSeq(l, 1, n) = l
      /\ \A i \in 0 .. n : SubSeq(l, 1, i) \in Seq(AnyExtent(P)) /\ InOrder(SubSeq(l, 1, i))
      /\ \A i \in 1 .. n :
           l[i] \in AnyExtent(P) /\ SubSeq(l, 1, i) = Append(SubSeq(l, 1, i - 1), l[i])
  BY Prefixes
<1>2. a \in R /\ a \in V[0]
  <2>1. a \in R
    BY EmptyList DEF Result
  <2>2. CutOff(a, << >>, length)
    <3>1. 0 = 0 - 0
      OBVIOUS
    <3> QED  BY <3>1, EmptyList DEF CutOff
  <2>3. CutOff(a, SubSeq(l, 1, 0), length)
    BY Zenon, <1>1, <2>2
  <2> HIDE DEF a, R
  <2> QED  BY <1>1, <2>1, <2>3
<1>3. ASSUME NEW i \in 1 .. n, NEW r \in R, r \in V[i - 1]
      PROVE  Step(i, r) \in R /\ Step(i, r) \in V[i]
  <2>1. CutOff(r, SubSeq(l, 1, i - 1), length)
    BY <1>1, <1>3
  <2>2. /\ SubSeq(l, 1, i - 1) \in Seq(AnyExtent(P)) /\ l[i] \in AnyExtent(P)
        /\ SubSeq(l, 1, i) = Append(SubSeq(l, 1, i - 1), l[i]) /\ InOrder(SubSeq(l, 1, i))
    BY <1>1
  <2>3. Step(i, r) \in R /\ CutOff(Step(i, r), SubSeq(l, 1, i), length)
    BY Zenon, <2>1, <2>2, CutCutsOff
  <2> QED  BY <2>3
<1>4. G \in [(1 .. n) \X R -> R]
  BY <1>2
<1>5. ASSUME NEW i \in 1 .. n, NEW r \in R, r \in V[i - 1]
      PROVE  G[<<i, r>>] = Step(i, r) /\ G[<<i, r>>] \in V[i]
  <2>1. Step(i, r) \in R /\ Step(i, r) \in V[i]
    BY Zenon, <1>3, <1>5
  <2>2. G[<<i, r>>] = IF Step(i, r) \in R THEN Step(i, r) ELSE a
    <3> HIDE DEF Step, a, R, n
    <3> QED  OBVIOUS
  <2> QED  BY <2>1, <2>2
<1> HIDE DEF G, V, R, n, a, Step
<1>6. PICK f : IsWalk(f, R, n, a, G) /\ \A i \in 0 .. n : f[i] \in V[i]
  BY Zenon, <1>1, <1>2, <1>4, <1>5, WalkKeeps
<1>7. f \in [0 .. n -> R] /\ f[0] = a /\ \A i \in 1 .. n : f[i] = Step(i, f[i - 1])
  <2>1. f \in [0 .. n -> R] /\ f[0] = a /\ \A i \in 1 .. n : f[i] = G[<<i, f[i - 1]>>]
    BY <1>6 DEF IsWalk
  <2>2. ASSUME NEW i \in 1 .. n PROVE f[i] = Step(i, f[i - 1])
    <3>1. i - 1 \in 0 .. n
      BY <1>1
    <3>2. f[i - 1] \in R /\ f[i - 1] \in V[i - 1]
      BY <1>6, <2>1, <3>1
    <3> QED  BY Zenon, <1>5, <2>1, <3>2
  <2> QED  BY <2>1, <2>2
<1>8. f = F(f)
  BY <1>7
<1>9. W = F(W)
  <2> HIDE DEF F
  <2> QED  BY <1>8
<1>10. Truncated(l, length) = W[n]
  BY DEF Truncated, Step, a, n
<1> HIDE DEF W
<1>11. W[0] = a /\ \A i \in 1 .. n : W[i] = Step(i, W[i - 1])
  BY <1>1, <1>9
<1>12. W[n] = f[n]
  <2>1. W[0] = f[0] /\ \A i \in 1 .. n : W[i - 1] = f[i - 1] => W[i] = f[i]
    BY <1>7, <1>11
  <2> HIDE DEF F
  <2> QED  BY <1>1, <2>1, SameWalk
<1>13. f[n] \in R /\ f[n] \in V[n]
  BY <1>1, <1>6, <1>7
<1>14. CutOff(f[n], SubSeq(l, 1, n), length)
  BY <1>1, <1>13 DEF V
<1> QED  BY Zenon, <1>1, <1>10, <1>12, <1>13, <1>14 DEF R

-----------------------------------------------------------------------------
(* Disjoint extents within the first b bytes of a file cover at most b. *)
LEMMA SumBounded ==
  ASSUME NEW P, NEW l \in Seq(AnyExtent(P)), InOrder(l), NEW b \in Nat, EndsBy(l, b)
  PROVE  SumOf(l) \in 0 .. b
<1> DEFINE n == Len(l)
           Pre(i) == SubSeq(l, 1, i)
           T == { i \in 0 .. n : /\ SumOf(Pre(i)) \in Nat
                                 /\ \A c \in Nat : EndsBy(Pre(i), c) => SumOf(Pre(i)) <= c }
<1>1. /\ n \in Nat /\ Pre(0) = << >> /\ Pre(n) = l
      /\ \A i \in 0 .. n : Pre(i) \in Seq(AnyExtent(P)) /\ InOrder(Pre(i))
      /\ \A i \in 1 .. n : l[i] \in AnyExtent(P) /\ Pre(i) = Append(Pre(i - 1), l[i])
  BY Prefixes
<1> HIDE DEF n, Pre
<1>2. 0 \in T
  BY <1>1, EmptyList
<1>3. ASSUME NEW i \in 1 .. n, i - 1 \in T PROVE i \in T
  <2> DEFINE e == l[i]
             s == Pre(i - 1)
             t == Pre(i)
  <2>1. /\ s \in Seq(AnyExtent(P)) /\ e \in AnyExtent(P) /\ t = Append(s, e) /\ InOrder(t)
        /\ SumOf(s) \in Nat /\ \A c \in Nat : EndsBy(s, c) => SumOf(s) <= c
    <3>1. i - 1 \in 0 .. n /\ i \in 0 .. n
      BY <1>1
    <3> QED  BY Zenon, <1>1, <1>3, <3>1
  <2> HIDE DEF e, s, t
  <2>2. /\ EndsBy(s, e.fileoffset) /\ SumOf(t) = SumOf(s) + e.bytecount
        /\ \A c : EndsBy(t, c) => End(e) <= c
    BY <2>1, AppendAt
  <2>3. e.fileoffset \in Nat /\ e.bytecount \in Nat /\ End(e) = e.fileoffset + e.bytecount
    BY <2>1, ExtentTypes DEF End
  <2>4. SumOf(s) <= e.fileoffset
    BY <2>1, <2>2, <2>3
  <2>5. SumOf(t) \in Nat /\ SumOf(t) <= End(e)
    BY <2>1, <2>2, <2>3, <2>4
  <2>6. \A c \in Nat : EndsBy(t, c) => SumOf(t) <= c
    BY <2>2, <2>3, <2>5
  <2> QED  BY <1>1, <2>5, <2>6 DEF t
<1> HIDE DEF T
<1>4. 0 .. n \subseteq T
  BY Zenon, <1>1, <1>2, <1>3, FiniteInduction
<1>5. n \in T
  BY <1>1, <1>4
<1> QED  BY <1>1, <1>5 DEF T

(***************************************************************************)
(* ltfs_fsraw_cleanup_extent keeps entries of the list, and the bytes it   *)
(* takes from the size are those of the entries it drops.                  *)
(***************************************************************************)
THEOREM CleanedBalances ==
  ASSUME NEW P, NEW D \in SUBSET AnyExtent(P), NEW l \in Seq(D), InOrder(l),
         NEW partition, NEW err
  PROVE  /\ Cleaned(l, partition, err) \in [list : Seq(D), freed : Nat]
         /\ SumOf(Cleaned(l, partition, err).list) \in Nat
         /\ SumOf(Cleaned(l, partition, err).list) + Cleaned(l, partition, err).freed
              = SumOf(l)
<1> DEFINE n == Len(l)
           Pre(i) == SubSeq(l, 1, i)
           R == [list : Seq(D), freed : Nat]
           a == [list |-> << >>, freed |-> 0]
           Step(i, r) == IF IsCleanedUp(l[i], partition, err)
                         THEN [r EXCEPT !.freed = @ + l[i].bytecount]
                         ELSE [r EXCEPT !.list = Append(@, l[i])]
           Balanced(r, s) == SumOf(r.list) \in Nat /\ SumOf(r.list) + r.freed = SumOf(s)
           G == [p \in (1 .. n) \X R |-> IF Step(p[1], p[2]) \in R THEN Step(p[1], p[2]) ELSE a]
           V == [i \in 0 .. n |-> { r \in R : Balanced(r, Pre(i)) }]
           F(f) == [i \in 0 .. n |-> IF i = 0 THEN a ELSE Step(i, f[i - 1])]
           W == CHOOSE f : f = F(f)
<1>1. /\ n \in Nat /\ Pre(0) = << >> /\ Pre(n) = l
      /\ \A i \in 0 .. n : Pre(i) \in Seq(AnyExtent(P))
      /\ \A i \in 1 .. n : l[i] \in D /\ l[i] \in AnyExtent(P) /\ Pre(i) = Append(Pre(i - 1), l[i])
  <2>1. l \in Seq(AnyExtent(P)) /\ \A i \in 1 .. n : l[i] \in D
    OBVIOUS
  <2> QED  BY <2>1, Prefixes
<1> HIDE DEF Pre
<1>2. a \in R /\ a \in V[0]
  <2>1. a \in R /\ Balanced(a, << >>)
    BY EmptyList
  <2> HIDE DEF a, R, Balanced
  <2> QED  BY <1>1, <2>1
<1>3. ASSUME NEW i \in 1 .. n, NEW r \in R, r \in V[i - 1]
      PROVE  Step(i, r) \in R /\ Step(i, r) \in V[i]
  <2> DEFINE e == l[i]
             s == Pre(i - 1)
             t == Pre(i)
  <2>1. /\ Balanced(r, s) /\ e \in D /\ e \in AnyExtent(P) /\ t = Append(s, e)
        /\ s \in Seq(AnyExtent(P)) /\ i \in 0 .. n
    <3>1. i - 1 \in 0 .. n /\ i \in 0 .. n
      BY <1>1
    <3>2. Balanced(r, s)
      <4> HIDE DEF Balanced, R
      <4> QED  BY <1>3, <3>1
    <3> QED  BY <1>1, <3>1, <3>2
  <2>2. r.list \in Seq(D) /\ r.list \in Seq(AnyExtent(P)) /\ r.freed \in Nat
    OBVIOUS
  <2>3. e.bytecount \in Nat /\ SumOf(s) \in Nat /\ SumOf(t) = SumOf(s) + e.bytecount
    BY <2>1, AppendAt, ExtentTypes DEF s, t, e
  <2> HIDE DEF s, t
  <2>4. CASE IsCleanedUp(e, partition, err)
    <3>1. Step(i, r) = [r EXCEPT !.freed = @ + e.bytecount]
      BY <2>4
    <3>2. Step(i, r) \in R /\ Step(i, r).list = r.list /\ Step(i, r).freed = r.freed + e.bytecount
      BY <2>2, <2>3, <3>1
    <3> HIDE DEF Step, e
    <3>3. Balanced(Step(i, r), t)
      BY <2>1, <2>2, <2>3, <3>2
    <3> QED  BY Zenon, <2>1, <3>2, <3>3 DEF t
  <2>5. CASE ~IsCleanedUp(e, partition, err)
    <3>1. Step(i, r) = [r EXCEPT !.list = Append(@, e)]
      BY <2>5
    <3>2. Step(i, r) \in R /\ Step(i, r).list = Append(r.list, e) /\ Step(i, r).freed = r.freed
      <4>1. Append(r.list, e) \in Seq(D)
        BY <2>1, <2>2
      <4> HIDE DEF Step, e
      <4> QED  BY Zenon, <2>2, <3>1, <4>1
    <3> HIDE DEF Step, e
    <3>3. SumOf(Append(r.list, e)) = SumOf(r.list) + e.bytecount
      BY <2>1, <2>2, AppendAt
    <3>4. Balanced(Step(i, r), t)
      BY <2>1, <2>2, <2>3, <3>2, <3>3
    <3> QED  BY Zenon, <2>1, <3>2, <3>4 DEF t
  <2> QED  BY <2>4, <2>5
<1>4. G \in [(1 .. n) \X R -> R]
  BY ZenonT(20), <1>2
<1>5. ASSUME NEW i \in 1 .. n, NEW r \in R, r \in V[i - 1]
      PROVE  G[<<i, r>>] = Step(i, r) /\ G[<<i, r>>] \in V[i]
  <2>1. Step(i, r) \in R /\ Step(i, r) \in V[i]
    BY Zenon, <1>3, <1>5
  <2>2. G[<<i, r>>] = IF Step(i, r) \in R THEN Step(i, r) ELSE a
    <3> HIDE DEF Step, a, R, n
    <3> QED  OBVIOUS
  <2> QED  BY Zenon, <2>1, <2>2
<1> HIDE DEF G, V, R, n, a, Step, Balanced
<1>6. PICK f : IsWalk(f, R, n, a, G) /\ \A i \in 0 .. n : f[i] \in V[i]
  BY Zenon, <1>1, <1>2, <1>4, <1>5, WalkKeeps
<1>7. f \in [0 .. n -> R] /\ f[0] = a /\ \A i \in 1 .. n : f[i] = Step(i, f[i - 1])
  <2>1. f \in [0 .. n -> R] /\ f[0] = a /\ \A i \in 1 .. n : f[i] = G[<<i, f[i - 1]>>]
    BY <1>6 DEF IsWalk
  <2>2. ASSUME NEW i \in 1 .. n PROVE f[i] = Step(i, f[i - 1])
    <3>1. i - 1 \in 0 .. n
      BY <1>1
    <3>2. f[i - 1] \in R /\ f[i - 1] \in V[i - 1]
      BY <1>6, <2>1, <3>1
    <3> QED  BY Zenon, <1>5, <2>1, <3>2
  <2> QED  BY <2>1, <2>2
<1>8. f = F(f)
  BY <1>7
<1>9. W = F(W)
  <2> HIDE DEF F
  <2> QED  BY <1>8
<1>10. Cleaned(l, partition, err) = W[n]
  BY DEF Cleaned, Step, a, n
<1> HIDE DEF W
<1>11. W[0] = a /\ \A i \in 1 .. n : W[i] = Step(i, W[i - 1])
  <2>1. n \in Nat
    BY <1>1
  <2> QED  BY <1>9, <2>1
<1>12. W[n] = f[n]
  <2>1. W[0] = f[0] /\ \A i \in 1 .. n : W[i - 1] = f[i - 1] => W[i] = f[i]
    BY <1>7, <1>11
  <2> HIDE DEF F
  <2> QED  BY Zenon, <1>1, <2>1, SameWalk
<1>13. f[n] \in R /\ f[n] \in V[n]
  BY <1>1, <1>6, <1>7
<1>14. Balanced(f[n], Pre(n))
  BY <1>1, <1>13 DEF V
<1> QED  BY <1>1, <1>10, <1>12, <1>13, <1>14 DEF R, Balanced

(***************************************************************************)
(* ltfs_fsraw_cleanup_extent computes the last block an extent needs when  *)
(* the extent starts at the head of a block, as every extent added by a    *)
(* write does until a later edit cuts its front.                           *)
(***************************************************************************)
THEOREM CleanupBlockExact ==
  ASSUME NEW P, NEW e \in AnyExtent(P), e.byteoffset = 0
  PROVE  CleanupLastBlock(e) = LastBlock(e)
<1>1. e.bytecount \in Nat \ {0} /\ e.block \in Nat
  BY ExtentTypes
<1> DEFINE c == e.bytecount
           k == c \div BlockSize
           m == c % BlockSize
<1>2. /\ c = k * BlockSize + m /\ k \in Nat /\ m \in 0 .. BlockSize - 1
      /\ k * BlockSize \in Nat /\ c \in Nat \ {0}
  BY Zenon, <1>1, DivMod, Distributes
<1> HIDE DEF c, k, m
<1>3. (c - 1) \div BlockSize = IF m = 0 THEN k - 1 ELSE k
  <2>1. CASE m = 0
    <3>1. k # 0
      BY <1>2, <2>1, BlockSizeAssumption
    <3> DEFINE j == k - 1
    <3>2. j \in Nat /\ j + 1 = k /\ 1 * BlockSize = BlockSize
      BY <1>2, <3>1, BlockSizeAssumption
    <3> HIDE DEF j
    <3>3. k * BlockSize = j * BlockSize + BlockSize /\ j * BlockSize \in Nat
      BY Zenon, <3>2, Distributes
    <3>4. BlockSize - 1 \in 0 .. BlockSize - 1
      BY BlockSizeAssumption
    <3>5. (j * BlockSize + (BlockSize - 1)) \div BlockSize = j
      BY <3>2, <3>4, DivModUnique
    <3>6. c - 1 = j * BlockSize + (BlockSize - 1)
      BY <1>1, <1>2, <2>1, <3>3, BlockSizeAssumption
    <3> QED  BY <2>1, <3>2, <3>5, <3>6
  <2>2. CASE m # 0
    <3>1. m - 1 \in 0 .. BlockSize - 1
      BY <1>2, <2>2, BlockSizeAssumption
    <3>2. (k * BlockSize + (m - 1)) \div BlockSize = k
      BY <1>2, <3>1, DivModUnique
    <3>3. c - 1 = k * BlockSize + (m - 1)
      BY <1>2
    <3> QED  BY <2>2, <3>2, <3>3
  <2> QED  BY <2>1, <2>2
<1>4. LastBlock(e) = e.block + (c - 1) \div BlockSize
  BY <1>1 DEF LastBlock, c
<1>5. CleanupLastBlock(e) = e.block + k - (IF m = 0 THEN 1 ELSE 0)
  BY DEF CleanupLastBlock, c, k, m
<1> QED  BY <1>1, <1>2, <1>3, <1>4, <1>5

-----------------------------------------------------------------------------
(* The byte at a place of the tape. *)
Holds(tape, q, byte) ==
  /\ q[2] \div BlockSize \in DOMAIN tape[q[1]]
  /\ (q[2] % BlockSize) + 1 \in DOMAIN tape[q[1]][q[2] \div BlockSize]
  /\ tape[q[1]][q[2] \div BlockSize][(q[2] % BlockSize) + 1] = byte

(* Stored, as a statement about a place on the tape. *)
LEMMA StoredHolds ==
  ASSUME NEW tape, NEW e, NEW o, NEW n
  PROVE  Stored(tape, e, o, n) <=> Holds(tape, << e.partition, Address(e, o) >>, << n, o >>)
  BY DEF Stored, Holds

(* What a list says of a byte, in terms of places. *)
LEMMA InPlaceIff ==
  ASSUME NEW s, NEW tape, NEW o, NEW n
  PROVE  ByteInPlace(s, tape, o, n) <=>
           /\ n = 0 => \A q : ~HasByte(s, o, q)
           /\ n # 0 => \E q : HasByte(s, o, q) /\ Holds(tape, q, << n, o >>)
<1>1. (\A i \in DOMAIN s : ~Inside(s[i], o)) <=> \A q : ~HasByte(s, o, q)
  BY Zenon DEF HasByte, At
<1>2. (\E i \in DOMAIN s : Inside(s[i], o) /\ Stored(tape, s[i], o, n))
        <=> \E q : HasByte(s, o, q) /\ Holds(tape, q, << n, o >>)
  BY Zenon, StoredHolds DEF HasByte, At
<1> QED  BY <1>1, <1>2 DEF ByteInPlace

(* Lists that say the same of a byte. *)
LEMMA SameInPlace ==
  ASSUME NEW s, NEW r, NEW tape, NEW o, NEW n,
         \A q : HasByte(r, o, q) <=> HasByte(s, o, q),
         ByteInPlace(s, tape, o, n)
  PROVE  ByteInPlace(r, tape, o, n)
  BY Zenon, InPlaceIff

(***************************************************************************)
(* After ltfs_fsraw_add_extent every byte of the file is where the list    *)
(* says: one inside the new extent is that of the write, one between the   *)
(* old end and the new extent was never written, any other is as before.   *)
(***************************************************************************)
THEOREM AddedInPlace ==
  ASSUME NEW P, NEW l \in Seq(AnyExtent(P)), NEW x \in AnyExtent(P), InOrder(l),
         NEW size \in Nat, EndsBy(l, size), NEW tape, NEW n \in Nat \ {0},
         NEW o \in Nat, NEW c,
         Inside(x, o) => Stored(tape, x, o, n),
         o < size => ByteInPlace(l, tape, o, c),
         size <= o => c = 0
  PROVE  ByteInPlace(AddExtent(l, x).list, tape, o, IF Inside(x, o) THEN n ELSE c)
<1> DEFINE r == AddExtent(l, x).list
<1>1. \A q : HasByte(r, o, q) <=> IF Inside(x, o) THEN At(x, o, q) ELSE HasByte(l, o, q)
  BY AddExtentLaysOver DEF Overlaid
<1> HIDE DEF r
<1>2. CASE Inside(x, o)
  <2> DEFINE q == << x.partition, Address(x, o) >>
  <2>1. HasByte(r, o, q) /\ Holds(tape, q, << n, o >>)
    BY <1>1, <1>2, StoredHolds DEF At
  <2>2. ByteInPlace(r, tape, o, n)
    <3> HIDE DEF q
    <3> QED  BY <2>1, InPlaceIff
  <2> QED  BY <1>2, <2>2 DEF r
<1>3. CASE ~Inside(x, o) /\ o < size
  BY <1>1, <1>3, SameInPlace DEF r
<1>4. CASE ~Inside(x, o) /\ size <= o
  <2>1. ASSUME NEW q, HasByte(l, o, q) PROVE FALSE
    <3>1. o < size
      BY <2>1, NothingBehind
    <3> QED  BY <1>4, <3>1
  <2>2. ByteInPlace(r, tape, o, 0)
    BY Zenon, <1>1, <1>4, <2>1, InPlaceIff
  <2> QED  BY <1>4, <2>2 DEF r
<1> QED  BY <1>2, <1>3, <1>4

(* Further data on the tape moves no byte. *)
Extends(P, t, u) ==
  \A p \in P : \A b \in DOMAIN t[p] : b \in DOMAIN u[p] /\ u[p][b] = t[p][b]

(* A byte on the tape stays there when blocks are appended. *)
LEMMA StoredKept ==
  ASSUME NEW P, NEW e \in AnyExtent(P), NEW o, NEW n, NEW S,
         NEW t \in [P -> Seq(S)], NEW u \in [P -> Seq(S)], Extends(P, t, u),
         Stored(t, e, o, n)
  PROVE  Stored(u, e, o, n)
<1> DEFINE block == Address(e, o) \div BlockSize
           byte  == (Address(e, o) % BlockSize) + 1
           p     == e.partition
<1>1. p \in P /\ block \in DOMAIN t[p] /\ byte \in DOMAIN t[p][block]
      /\ t[p][block][byte] = << n, o >>
  BY ExtentTypes DEF Stored
<1>2. block \in DOMAIN u[p] /\ u[p][block] = t[p][block]
  <2> HIDE DEF block, p
  <2> QED  BY <1>1 DEF Extends
<1> QED  BY Zenon, <1>1, <1>2 DEF Stored

(* So does every byte of a file. *)
LEMMA InPlaceKept ==
  ASSUME NEW P, NEW s \in Seq(AnyExtent(P)), NEW o, NEW n, NEW S,
         NEW t \in [P -> Seq(S)], NEW u \in [P -> Seq(S)], Extends(P, t, u),
         ByteInPlace(s, t, o, n)
  PROVE  ByteInPlace(s, u, o, n)
<1>1. ASSUME NEW i \in DOMAIN s, Stored(t, s[i], o, n) PROVE Stored(u, s[i], o, n)
  <2>1. s[i] \in AnyExtent(P)
    OBVIOUS
  <2> QED  BY Zenon, <1>1, <2>1, StoredKept
<1> QED  BY <1>1 DEF ByteInPlace

=============================================================================
