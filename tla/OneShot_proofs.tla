-------------------------- MODULE OneShot_proofs --------------------------
(***************************************************************************)
(* Proofs about OneShot, for every block length, reserve, set of messages  *)
(* and number of threads that keep their calls apart.                      *)
(***************************************************************************)
EXTENDS OneShot, HashOps_proofs

\* The static padding: two blocks of cells.
TwoBlocks == [1..(2 * BL) -> Cell]

LEMMA Sizes ==
  /\ BL \in Nat /\ RES \in Nat /\ LW \in Nat /\ 1 <= LW /\ LW <= RES /\ RES < BL
  /\ 2 * BL \in Nat /\ NBLK \in Nat /\ NBLK > 2
BY SizeAssumption, KernelAssumption

\* It is a sequence of 2 * BL cells.
LEMMA TwoBlocksIsSeq ==
  ASSUME NEW d \in TwoBlocks
  PROVE  d \in Seq(Cell) /\ Len(d) = 2 * BL
<1>1. PICK n \in Nat : n = 2 * BL
  BY Sizes
<1>2. d \in [1..n -> Cell]
  BY <1>1 DEF TwoBlocks
<1>3. d \in Seq(Cell)
  BY <1>2, SeqDef
<1>4. DOMAIN d = 1..n /\ DOMAIN d = 1..Len(d) /\ Len(d) \in Nat
  BY <1>2, <1>3, LenProperties
<1>5. QED
  BY <1>1, <1>3, <1>4

\* OFFSETCPY into it.
LEMMA CopiedCells ==
  ASSUME NEW d \in TwoBlocks, NEW off \in Nat, NEW s \in Seq(Cell)
  PROVE  /\ OffsetCopy(d, off, s) \in TwoBlocks
         /\ \A i \in 1..(2 * BL) : OffsetCopy(d, off, s)[i] =
              IF off < i /\ i <= off + Len(s) THEN s[i - off] ELSE d[i]
<1>1. PICK n \in Nat : n = 2 * BL /\ Len(d) = n /\ d \in [1..n -> Cell]
  BY Sizes, TwoBlocksIsSeq DEF TwoBlocks
<1>2. Len(s) \in Nat /\ \A i \in 1..Len(s) : s[i] \in Cell
  BY LenProperties, ElementOfSeq
<1>3. OffsetCopy(d, off, s) =
        [i \in 1..n |-> IF off < i /\ i <= off + Len(s) THEN s[i - off] ELSE d[i]]
  BY <1>1 DEF OffsetCopy
<1>4. \A i \in 1..n :
        (IF off < i /\ i <= off + Len(s) THEN s[i - off] ELSE d[i]) \in Cell
  BY <1>1, <1>2
<1>5. QED
  BY <1>1, <1>3, <1>4 DEF TwoBlocks

\* OFFSETFILL of zeros.
LEMMA FilledCells ==
  ASSUME NEW d \in TwoBlocks, NEW off \in Nat, NEW end \in Nat
  PROVE  /\ OffsetFill(d, off, Zero, end) \in TwoBlocks
         /\ \A i \in 1..(2 * BL) : OffsetFill(d, off, Zero, end)[i] =
              IF off < i /\ i <= end THEN Zero ELSE d[i]
<1>1. PICK n \in Nat : n = 2 * BL /\ Len(d) = n /\ d \in [1..n -> Cell]
  BY Sizes, TwoBlocksIsSeq DEF TwoBlocks
<1>2. OffsetFill(d, off, Zero, end) =
        [i \in 1..n |-> IF off < i /\ i <= end THEN Zero ELSE d[i]]
  BY <1>1 DEF OffsetFill
<1>3. \A i \in 1..n : (IF off < i /\ i <= end THEN Zero ELSE d[i]) \in Cell
  BY <1>1 DEF Cell
<1>4. QED
  BY <1>1, <1>2, <1>3 DEF TwoBlocks

\* STOR64DE in front of end.
LEMMA StoredCells ==
  ASSUME NEW d \in TwoBlocks, NEW n \in Nat, NEW end \in Nat, LW <= end
  PROVE  /\ StoreLength(d, n, end) \in TwoBlocks
         /\ \A i \in 1..(2 * BL) : StoreLength(d, n, end)[i] =
              IF end - LW < i /\ i <= end THEN LengthCell(n, i - (end - LW)) ELSE d[i]
<1>1. PICK k \in Nat : k = 2 * BL /\ Len(d) = k /\ d \in [1..k -> Cell]
  BY Sizes, TwoBlocksIsSeq DEF TwoBlocks
<1>2. StoreLength(d, n, end) =
        [i \in 1..k |-> IF end - LW < i /\ i <= end
                        THEN LengthCell(n, i - (end - LW)) ELSE d[i]]
  BY <1>1 DEF StoreLength
<1>3. ASSUME NEW i \in 1..k
      PROVE  (IF end - LW < i /\ i <= end THEN LengthCell(n, i - (end - LW))
              ELSE d[i]) \in Cell
  <2>1. CASE end - LW < i /\ i <= end
    <3>1. i - (end - LW) \in Nat
      BY <2>1, Sizes
    <3>2. QED
      BY <2>1, <3>1 DEF LengthCell, Cell
  <2>2. CASE ~(end - LW < i /\ i <= end)
    BY <1>1, <2>2
  <2>3. QED
    BY <2>1, <2>2
<1>4. QED
  BY <1>1, <1>2, <1>3 DEF TwoBlocks

\* A message is its whole blocks and a rest shorter than a block.
LEMMA MessageParts ==
  ASSUME NEW m \in Seq(Cell), Len(m) < NBLK * BL
  PROVE  \E k \in Nat, r \in Nat :
           /\ k = Blocks(m) * BL /\ r = Len(Rest(m))
           /\ r < BL /\ Len(m) = k + r
           /\ Blocks(m) \in Nat /\ Blocks(m) < NBLK
           /\ Rest(m) \in Seq(Cell)
           /\ \A i \in 1..r : Rest(m)[i] = m[k + i]
           /\ SubSeq(m, 1, k) \in Seq(Cell)
           /\ Len(SubSeq(m, 1, k)) = k
           /\ \A i \in 1..k : SubSeq(m, 1, k)[i] = m[i]
<1>1. PICK n \in Nat : n = Len(m) /\ \A i \in 1..n : m[i] \in Cell
  BY LenProperties, ElementOfSeq
<1>2. PICK b \in Nat : b = Blocks(m) /\ b * BL \in Nat /\ b * BL <= n
                       /\ n - b * BL < BL /\ b < NBLK
  <2>1. NBLK \in Nat /\ n < NBLK * BL
    BY <1>1, Sizes
  <2>2. QED
    BY <1>1, <2>1, WholeBlocks DEF Blocks
<1>3. PICK k \in Nat : k = b * BL /\ k <= n /\ n - k < BL
  BY <1>2
<1>4. PICK r \in Nat : r = n - k /\ r < BL /\ n = k + r
  BY <1>3
<1>5. Rest(m) = SubSeq(m, k + 1, n)
  BY <1>1, <1>2, <1>3 DEF Rest
<1>6. /\ SubSeq(m, 1, k) \in Seq(Cell)
      /\ Len(SubSeq(m, 1, k)) = k
      /\ \A i \in 1..k : SubSeq(m, 1, k)[i] = m[i]
  BY <1>1, <1>3, SubSeqProperties
<1>7. /\ SubSeq(m, k + 1, n) \in Seq(Cell)
      /\ Len(SubSeq(m, k + 1, n)) = r
      /\ \A i \in 1..r : SubSeq(m, k + 1, n)[i] = m[k + i]
  <2>1. /\ SubSeq(m, k + 1, n) \in Seq(Cell)
        /\ Len(SubSeq(m, k + 1, n)) = (IF k + 1 <= n THEN n - (k + 1) + 1 ELSE 0)
        /\ \A i \in 1..(n - (k + 1) + 1) :
             SubSeq(m, k + 1, n)[i] = m[(k + 1) + i - 1]
    <3>1. \A i \in (k + 1)..n : m[i] \in Cell
      BY <1>1
    <3>2. k + 1 \in Int /\ n \in Int
      OBVIOUS
    <3>3. QED
      BY <3>1, <3>2, SubSeqProperties
  <2>2. /\ \A i \in 1..r : (k + 1) + i - 1 = k + i /\ i \in 1..(n - (k + 1) + 1)
        /\ (IF k + 1 <= n THEN n - (k + 1) + 1 ELSE 0) = r
    BY <1>4
  <2>3. Len(SubSeq(m, k + 1, n)) = r
    BY <2>1, <2>2, Zenon
  <2>4. ASSUME NEW i \in 1..r PROVE SubSeq(m, k + 1, n)[i] = m[k + i]
    <3>1. SubSeq(m, k + 1, n)[i] = m[(k + 1) + i - 1] /\ (k + 1) + i - 1 = k + i
      BY <2>1, <2>2, Zenon
    <3>2. QED
      BY <3>1, Zenon
  <2>5. QED
    BY <2>1, <2>3, <2>4, Zenon
<1>8. /\ k = Blocks(m) * BL /\ r = Len(Rest(m))
      /\ r < BL /\ Len(m) = k + r
      /\ Blocks(m) \in Nat /\ Blocks(m) < NBLK
      /\ Rest(m) \in Seq(Cell)
      /\ \A i \in 1..r : Rest(m)[i] = m[k + i]
  BY <1>1, <1>2, <1>3, <1>4, <1>5, <1>7
<1>9. QED
  BY <1>6, <1>8, Zenon

\* The first block of the padding, and both.
LEMMA FirstBlock ==
  ASSUME NEW d \in TwoBlocks
  PROVE  LET last == [i \in 1..BL |-> d[i]]
         IN  last \in Block /\ SubSeq(d, 1, BL) = last
<1> DEFINE last == [i \in 1..BL |-> d[i]]
<1>1. BL \in Nat /\ \A i \in 1..BL : d[i] \in Cell
  BY Sizes DEF TwoBlocks
<1>2. last \in Block /\ last \in Seq(Cell) /\ Len(last) = BL
  <2>1. last \in Block
    BY <1>1 DEF Block
  <2>2. QED
    BY <2>1, CellForm, BlockIsSeq
<1>3. /\ SubSeq(d, 1, BL) \in Seq(Cell)
      /\ Len(SubSeq(d, 1, BL)) = BL
      /\ \A i \in 1..BL : SubSeq(d, 1, BL)[i] = d[i]
  BY <1>1, SubSeqProperties
<1>4. \A i \in 1..BL : last[i] = SubSeq(d, 1, BL)[i]
  BY <1>3
<1> HIDE DEF last
<1>5. SubSeq(d, 1, BL) = last
  BY <1>2, <1>3, <1>4, SeqEqual
<1>6. QED
  BY <1>2, <1>5 DEF last

LEMMA BothBlocks ==
  ASSUME NEW d \in TwoBlocks
  PROVE  LET full == [i \in 1..BL |-> d[i]]
             last == [i \in 1..BL |-> d[BL + i]]
         IN  full \in Block /\ last \in Block /\ SubSeq(d, 1, 2 * BL) = full \o last
<1> DEFINE full == [i \in 1..BL |-> d[i]]
           last == [i \in 1..BL |-> d[BL + i]]
<1>1. PICK n \in Nat : n = BL /\ 2 * BL = n + n /\ d \in [1..(n + n) -> Cell]
                       /\ d \in Seq(Cell) /\ Len(d) = n + n
  BY Sizes, TwoBlocksIsSeq DEF TwoBlocks
<1>2. full \in Block /\ last \in Block
  <2>1. \A i \in 1..n : d[i] \in Cell /\ d[n + i] \in Cell
    BY <1>1
  <2>2. QED
    BY <1>1, <2>1 DEF Block
<1>3. full \in Seq(Cell) /\ Len(full) = n
  BY <1>1, <1>2, CellForm, BlockIsSeq
<1>4. /\ \A i \in 1..n : full[i] = d[i]
      /\ \A i \in 1..n : last[i] = d[n + i]
  BY <1>1
<1> HIDE DEF full, last
<1>5. /\ full \o last \in Seq(Cell)
      /\ Len(full \o last) = n + n
      /\ \A i \in 1..n : (full \o last)[i] = full[i]
      /\ \A j \in 1..n : (full \o last)[n + j] = last[j]
  <2>1. /\ full \o last \in Seq(Cell)
        /\ Len(full \o last) = Len(full) + BL
        /\ \A i \in 1..Len(full) : (full \o last)[i] = full[i]
        /\ \A j \in 1..BL : (full \o last)[Len(full) + j] = last[j]
    <3>1. Behind(Cell, full, last)
      BY <1>2, <1>3, CellForm, BlockBehind
    <3>2. QED
      BY <3>1, Zenon DEF Behind
  <2>2. Len(full) = n /\ BL = n
    BY <1>1, <1>3
  <2>3. QED
    BY <2>1, <2>2, Zenon
<1>6. ASSUME NEW i \in 1..(n + n) PROVE (full \o last)[i] = d[i]
  <2>0. n \in Nat
    BY <1>1
  <2>1. CASE i <= n
    BY <1>4, <1>5, <2>0, <2>1
  <2>2. CASE i > n
    <3>1. PICK j \in 1..n : i = n + j
      <4>1. i - n \in 1..n /\ i = n + (i - n)
        BY <2>0, <2>2
      <4>2. QED
        BY <4>1
    <3>2. QED
      BY <1>4, <1>5, <3>1
  <2>3. i <= n \/ i > n
    BY <2>0
  <2>4. QED
    BY <2>1, <2>2, <2>3, Zenon
<1>7. full \o last = d
  BY <1>1, <1>5, <1>6, SeqEqual
<1>8. SubSeq(d, 1, 2 * BL) = d
  BY <1>1, SubSeqFull
<1>9. QED
  BY <1>2, <1>7, <1>8, Zenon DEF full, last

\* Whole blocks of a message, and its tail laid out in the padding, are the
\* message padded.
LEMMA TailPads ==
  ASSUME NEW m \in Seq(Cell), Len(m) < NBLK * BL, NEW d \in TwoBlocks,
         NEW k \in Nat, NEW r \in Nat, NEW e \in Nat,
         k = Blocks(m) * BL, r = Len(Rest(m)), e = TailBlocks(m) * BL,
         \A i \in 1..r : d[i] = m[k + i],
         d[r + 1] = Pad80,
         \A i \in (r + 2)..(e - LW) : d[i] = Zero,
         \A i \in (e - LW + 1)..e : d[i] = LengthCell(Len(m), i - (e - LW))
  PROVE  IsPadded(m, SubSeq(m, 1, k) \o SubSeq(d, 1, e))
<1> DEFINE in == SubSeq(m, 1, k)
<1>1. /\ r < BL /\ Len(m) = k + r
      /\ Blocks(m) \in Nat
      /\ in \in Seq(Cell) /\ Len(in) = k
      /\ \A i \in 1..k : in[i] = m[i]
  BY MessageParts
<1>2. \E q \in 0..k : k = q * BL
  <2>1. BL \in Nat /\ BL > 0
    BY Sizes
  <2>2. Blocks(m) \in 0..k
    BY <1>1, <2>1
  <2>3. QED
    BY <2>2
<1> HIDE DEF in
<1>3. CASE r < BL - RES
  <2> DEFINE last == [i \in 1..BL |-> d[i]]
  <2>1. e = BL
    BY <1>3, Sizes DEF TailBlocks
  <2>2. last \in Block /\ SubSeq(d, 1, e) = last
    BY <2>1, FirstBlock
  <2>3. ASSUME NEW i \in 1..BL
        PROVE  last[i] = IF i <= r THEN m[k + i]
                         ELSE IF i = r + 1 THEN Pad80
                         ELSE IF i <= BL - LW THEN Zero
                         ELSE LengthCell(Len(m), i - (BL - LW))
    <3>1. last[i] = d[i]
      OBVIOUS
    <3>2. CASE i <= r
      BY <3>1, <3>2
    <3>3. CASE i = r + 1
      BY <3>1, <3>3
    <3>4. CASE i > r + 1 /\ i <= BL - LW
      <4>1. i \in (r + 2)..(e - LW)
        BY <2>1, <3>4, Sizes
      <4>2. QED
        BY <3>1, <3>4, <4>1
    <3>5. CASE i > r + 1 /\ i > BL - LW
      <4>1. i \in (e - LW + 1)..e /\ e - LW = BL - LW
        BY <2>1, <3>5, Sizes
      <4>2. QED
        BY <3>1, <3>5, <4>1
    <3>6. i <= r \/ i = r + 1 \/ (i > r + 1 /\ i <= BL - LW) \/ (i > r + 1 /\ i > BL - LW)
      BY Sizes
    <3>7. QED
      BY <3>2, <3>3, <3>4, <3>5, <3>6, Zenon
  <2> HIDE DEF last
  <2>4. /\ \E q \in 0..Len(in) : Len(in) = q * BL
        /\ Len(m) = Len(in) + r
        /\ \A i \in 1..Len(in) : m[i] = in[i]
        /\ \A i \in 1..BL : last[i] =
             IF i <= r THEN m[Len(in) + i]
             ELSE IF i = r + 1 THEN Pad80
             ELSE IF i <= BL - LW THEN Zero
             ELSE LengthCell(Len(m), i - (BL - LW))
    <3>1. Len(in) = k /\ Len(m) = k + r /\ \A i \in 1..k : m[i] = in[i]
      BY <1>1, Zenon
    <3>2. QED
      BY <1>2, <2>3, <3>1, Zenon
  <2>5. IsPadded(m, in \o last)
    <3>1. in \in Seq(Cell) /\ last \in BlockOf(Cell)
      BY <1>1, <2>2, CellForm, Zenon
    <3>2. QED
      BY <1>3, <2>4, <3>1, PaddedOne
  <2>6. QED
    BY <2>2, <2>5, Zenon DEF in
<1>4. CASE r >= BL - RES
  <2> DEFINE full == [i \in 1..BL |-> d[i]]
             last == [i \in 1..BL |-> d[BL + i]]
  <2>1. e = 2 * BL /\ e = BL + BL
    BY <1>4, Sizes DEF TailBlocks
  <2>2. full \in Block /\ last \in Block /\ SubSeq(d, 1, e) = full \o last
    BY <2>1, BothBlocks
  <2>3. ASSUME NEW i \in 1..BL
        PROVE  full[i] = IF i <= r THEN m[k + i] ELSE IF i = r + 1 THEN Pad80 ELSE Zero
    <3>1. full[i] = d[i]
      OBVIOUS
    <3>2. CASE i > r + 1
      <4>1. i \in (r + 2)..(e - LW)
        BY <2>1, <3>2, Sizes
      <4>2. QED
        BY <3>1, <3>2, <4>1
    <3>3. CASE i <= r + 1
      BY <3>1, <3>3
    <3>4. QED
      BY <3>2, <3>3, Sizes
  <2>4. ASSUME NEW i \in 1..BL
        PROVE  last[i] = IF i <= BL - LW THEN Zero ELSE LengthCell(Len(m), i - (BL - LW))
    <3>1. last[i] = d[BL + i]
      OBVIOUS
    <3>2. CASE i <= BL - LW
      <4>1. BL + i \in (r + 2)..(e - LW)
        BY <1>1, <2>1, <3>2, Sizes
      <4>2. QED
        BY <3>1, <3>2, <4>1
    <3>3. CASE i > BL - LW
      <4>1. BL + i \in (e - LW + 1)..e /\ (BL + i) - (e - LW) = i - (BL - LW)
        BY <2>1, <3>3, Sizes
      <4>2. d[BL + i] = LengthCell(Len(m), (BL + i) - (e - LW))
        BY <4>1, Zenon
      <4>3. ~(i <= BL - LW)
        BY <3>3, Sizes
      <4>4. QED
        BY <3>1, <4>1, <4>2, <4>3, Zenon
    <3>4. QED
      BY <3>2, <3>3, Sizes
  <2>5. full \in Seq(Cell) /\ last \in Seq(Cell)
    BY <2>2, CellForm, BlockIsSeq
  <2> HIDE DEF full, last
  <2>6. /\ \E q \in 0..Len(in) : Len(in) = q * BL
        /\ Len(m) = Len(in) + r
        /\ \A i \in 1..Len(in) : m[i] = in[i]
        /\ \A i \in 1..BL : full[i] =
             IF i <= r THEN m[Len(in) + i] ELSE IF i = r + 1 THEN Pad80 ELSE Zero
    <3>1. Len(in) = k /\ Len(m) = k + r /\ \A i \in 1..k : m[i] = in[i]
      BY <1>1, Zenon
    <3>2. QED
      BY <1>2, <2>3, <3>1, Zenon
  <2>7. IsPadded(m, (in \o full) \o last)
    <3>1. in \in Seq(Cell) /\ r < BL /\ full \in BlockOf(Cell) /\ last \in BlockOf(Cell)
      BY <1>1, <2>2, CellForm, Zenon
    <3>2. QED
      BY <1>4, <2>4, <2>6, <3>1, PaddedTwo
  <2>8. (in \o full) \o last = in \o (full \o last)
    <3>1. Associates(in, full, last)
      BY <1>1, <2>5, Assoc, Zenon
    <3>2. QED
      BY <3>1, Zenon DEF Associates
  <2>9. QED
    BY <2>2, <2>7, <2>8, Zenon DEF in
<1>5. QED
  BY <1>1, <1>3, <1>4, Sizes

-----------------------------------------------------------------------------
\* PaddingAt and StateAt of a thread at place p, over the lengths k of the
\* whole blocks, r of the rest and e of the padding it takes.
Laid(p, d, m, k, r, e) ==
  /\ p \in {"mark", "fill", "length", "compress"} => \A i \in 1..r : d[i] = m[k + i]
  /\ p \in {"fill", "length", "compress"} => d[r + 1] = Pad80
  /\ p \in {"length", "compress"} => \A i \in (r + 2)..(e - LW) : d[i] = Zero
  /\ p = "compress" =>
       \A i \in (e - LW + 1)..e : d[i] = LengthCell(Len(m), i - (e - LW))

Consumed(p, st, m, k) ==
  /\ st.iv = StdIV
  /\ p \in {"copy", "mark"} => st.in = <<>>
  /\ p \in {"fill", "length", "compress"} => st.in = SubSeq(m, 1, k)
  /\ p \in {"output", "returned"} => IsPadded(m, st.in)

\* Every message a thread holds is a sequence of cells the kernel can count.
LEMMA MessageOf ==
  ASSUME TypeOK, NEW t \in Thread
  PROVE  msg[t] \in Seq(Cell) /\ Len(msg[t]) \in Nat /\ Len(msg[t]) < NBLK * BL
<1>1. CASE msg[t] = <<>>
  <2>1. <<>> \in Seq(Cell) /\ Len(<<>>) = 0
    OBVIOUS
  <2>2. 0 < NBLK * BL
    <3>1. BL \in Nat /\ NBLK \in Nat /\ BL > 0 /\ NBLK > 0
      BY Sizes
    <3>2. QED
      BY <3>1
  <2>3. QED
    BY <1>1, <2>1, <2>2
<1>2. CASE msg[t] \in Messages
  <2>1. msg[t] \in Seq(Byte) /\ Len(msg[t]) < NBLK * BL
    BY <1>2, OneShotAssumption
  <2>2. Len(msg[t]) \in Nat /\ msg[t] \in [1..Len(msg[t]) -> Byte]
    BY <2>1, LenProperties
  <2>3. Byte \subseteq Cell
    BY DEF Cell
  <2>4. msg[t] \in [1..Len(msg[t]) -> Cell]
    BY <2>2, <2>3
  <2>5. msg[t] \in Seq(Cell)
    BY <2>2, <2>4, SeqDef
  <2>6. QED
    BY <2>1, <2>2, <2>5
<1>3. QED
  BY <1>1, <1>2 DEF TypeOK

\* What holds around a step of a thread that is in a call: the lengths of its
\* message's parts, the padding and state it has so far, and nobody else.
LEMMA InCall ==
  ASSUME IInv, NEW t \in Thread, pc[t] # "idle"
  PROVE  \E m \in Seq(Cell), k \in Nat, r \in Nat, e \in Nat :
           /\ m = msg[t] /\ Len(m) \in Nat /\ Len(m) < NBLK * BL
           /\ k = Blocks(m) * BL /\ r = Len(Rest(m)) /\ e = TailBlocks(m) * BL
           /\ Blocks(m) \in Nat /\ Blocks(m) < NBLK /\ k <= Len(m)
           /\ Rest(m) \in Seq(Cell) /\ \A i \in 1..r : Rest(m)[i] = m[k + i]
           /\ r < BL /\ r + 1 <= e - LW /\ e <= 2 * BL
           /\ TailBlocks(m) \in {1, 2}
           /\ padding \in TwoBlocks /\ state[t] \in State
           /\ Laid(pc[t], padding, m, k, r, e)
           /\ Consumed(pc[t], state[t], m, k)
<1>1. TypeOK /\ PaddingAt(t) /\ StateAt(t)
  BY DEF IInv
<1>2. PICK m \in Seq(Cell) : m = msg[t] /\ Len(m) \in Nat /\ Len(m) < NBLK * BL
  BY <1>1, MessageOf
<1>3. PICK k \in Nat, r \in Nat :
        /\ k = Blocks(m) * BL /\ r = Len(Rest(m))
        /\ Blocks(m) \in Nat /\ Blocks(m) < NBLK /\ Len(m) = k + r
        /\ Rest(m) \in Seq(Cell) /\ r < BL
        /\ \A i \in 1..r : Rest(m)[i] = m[k + i]
  BY <1>2, MessageParts
<1>4. PICK e \in Nat : /\ e = TailBlocks(m) * BL /\ TailBlocks(m) \in {1, 2}
                       /\ r + 1 <= e - LW /\ e <= 2 * BL
  <2>1. CASE r < BL - RES
    <3>1. TailBlocks(m) = 1
      BY <1>3, <2>1 DEF TailBlocks
    <3>2. TailBlocks(m) * BL = BL /\ BL \in Nat /\ r + 1 <= BL - LW /\ BL <= 2 * BL
      BY <2>1, <3>1, Sizes
    <3>3. QED
      BY <3>1, <3>2
  <2>2. CASE ~(r < BL - RES)
    <3>1. TailBlocks(m) = 2
      BY <1>3, <2>2 DEF TailBlocks
    <3>2. r < BL
      BY <1>3
    <3>3. TailBlocks(m) * BL = 2 * BL /\ 2 * BL \in Nat /\ r + 1 <= 2 * BL - LW
      BY <3>1, <3>2, Sizes
    <3>4. QED
      BY <3>1, <3>3
  <2>3. QED
    BY <2>1, <2>2, Zenon
<1>5. Laid(pc[t], padding, m, k, r, e)
  BY <1>1, <1>2, <1>3, <1>4, Zenon DEF PaddingAt, Laid
<1>6. Consumed(pc[t], state[t], m, k)
  BY <1>1, <1>2, <1>3, Zenon DEF StateAt, Consumed
<1>7. padding \in TwoBlocks /\ state[t] \in State
  BY <1>1 DEF TypeOK, TwoBlocks
<1>8. k <= Len(m)
  BY <1>2, <1>3
<1>9. QED
  BY <1>2, <1>3, <1>4, <1>5, <1>6, <1>7, <1>8, Zenon

\* A step of one thread, the others being outside a call.
LEMMA Alone ==
  ASSUME NEW t \in Thread, NEW p \in Places, TypeOK, TypeOK', Goto(t, p),
         \A u \in Thread \ {t} : pc[u] = "idle",
         p # "idle" => PaddingAt(t)' /\ StateAt(t)'
  PROVE  IInv'
<1>1. pc'[t] = p /\ \A u \in Thread \ {t} : pc'[u] = "idle"
  BY DEF TypeOK, Goto
<1>2. ASSUME NEW u \in Thread, pc'[u] # "idle"
      PROVE  /\ PaddingAt(u)' /\ StateAt(u)'
             /\ \A v \in Thread \ {u} : pc'[v] = "idle"
  <2>1. u = t
    BY <1>1, <1>2, Zenon
  <2>2. QED
    BY <1>1, <1>2, <2>1, Zenon
<1>3. QED
  BY <1>2, Zenon DEF IInv

\* The same, for a step that leaves the message and returns nothing yet.
LEMMA Proceeds ==
  ASSUME IInv, NEW t \in Thread, NEW p \in Places, pc[t] # "idle", TypeOK', Goto(t, p),
         p \notin {"idle", "returned"},
         UNCHANGED msg,
         NEW m, m = msg[t], NEW k, k = Blocks(m) * BL, NEW r, r = Len(Rest(m)),
         NEW e, e = TailBlocks(m) * BL,
         Laid(p, padding', m, k, r, e), Consumed(p, state'[t], m, k)
  PROVE  IInv'
<1>1. pc'[t] = p /\ msg'[t] = m /\ TypeOK
  BY DEF IInv, TypeOK, Goto
<1>2. PaddingAt(t)'
  BY <1>1, Zenon DEF PaddingAt, Laid
<1>3. StateAt(t)'
  BY <1>1 DEF StateAt, Consumed
<1>4. \A u \in Thread \ {t} : pc[u] = "idle"
  BY DEF IInv
<1>5. QED
  BY <1>1, <1>2, <1>3, <1>4, Alone, Zenon

LEMMA CallKeeps ==
  ASSUME Serial, IInv, NEW t \in Thread, NEW m \in Messages, NEW d \in Dests, Call(t, m, d)
  PROVE  IInv'
<1>1. TypeOK /\ Serial /\ \A u \in Thread : pc[u] = "idle"
  BY DEF IInv, Call
<1>2. [iv |-> StdIV, in |-> <<>>] \in State
  BY OneShotAssumption DEF State
<1>3. TypeOK'
  <2>1. /\ pc' \in [Thread -> Places]
        /\ state' \in [Thread -> State]
    BY <1>1, <1>2 DEF TypeOK, Call, Goto, Places
  <2>2. d \in {"own", "null"}
    BY OneShotAssumption
  <2>3. /\ msg' \in [Thread -> Messages \cup {<<>>}]
        /\ dest' \in [Thread -> {"own", "null"}]
    BY <1>1, <2>2 DEF TypeOK, Call
  <2>4. QED
    BY <1>1, <2>1, <2>3 DEF TypeOK, Call
<1>4. pc'[t] = "copy" /\ state'[t] = [iv |-> StdIV, in |-> <<>>]
  BY <1>1 DEF TypeOK, Call, Goto
<1>5. PaddingAt(t)' /\ StateAt(t)'
  BY <1>4 DEF PaddingAt, StateAt
<1>6. Goto(t, "copy") /\ "copy" \in Places
  BY DEF Call, Places
<1>7. QED
  BY <1>1, <1>3, <1>5, <1>6, Alone, Zenon

\* A step that writes the padding, and only that.
LEMMA WriteKeepsTypes ==
  ASSUME TypeOK, NEW t \in Thread, NEW p \in Places, Goto(t, p),
         padding' \in TwoBlocks, UNCHANGED <<hash_output, msg, dest, state, own>>
  PROVE  TypeOK'
BY DEF TypeOK, Goto, TwoBlocks

LEMMA CopyRestKeeps ==
  ASSUME IInv, NEW t \in Thread, CopyRest(t)
  PROVE  IInv'
<1>1. /\ pc[t] = "copy" /\ padding' = OffsetCopy(padding, 0, Rest(msg[t]))
      /\ Goto(t, "mark") /\ UNCHANGED <<hash_output, msg, dest, state, own>>
      /\ TypeOK /\ "mark" \in Places
  BY DEF CopyRest, IInv, Places
<1>2. PICK m \in Seq(Cell), k \in Nat, r \in Nat, e \in Nat :
        /\ m = msg[t] /\ k = Blocks(m) * BL /\ r = Len(Rest(m)) /\ e = TailBlocks(m) * BL
        /\ Rest(m) \in Seq(Cell) /\ \A i \in 1..r : Rest(m)[i] = m[k + i]
        /\ r < BL /\ padding \in TwoBlocks /\ Consumed(pc[t], state[t], m, k)
  BY <1>1, InCall
<1>3. /\ padding' \in TwoBlocks
      /\ \A i \in 1..(2 * BL) : padding'[i] =
           IF 0 < i /\ i <= 0 + r THEN Rest(m)[i - 0] ELSE padding[i]
  <2>1. /\ OffsetCopy(padding, 0, Rest(m)) \in TwoBlocks
        /\ \A i \in 1..(2 * BL) : OffsetCopy(padding, 0, Rest(m))[i] =
             IF 0 < i /\ i <= 0 + Len(Rest(m)) THEN Rest(m)[i - 0] ELSE padding[i]
    <3>1. 0 \in Nat /\ padding \in TwoBlocks /\ Rest(m) \in Seq(Cell)
      BY <1>2
    <3>2. QED
      BY <3>1, CopiedCells, Zenon
  <2>2. QED
    BY <1>1, <1>2, <2>1, Zenon
<1>4. TypeOK'
  BY <1>1, <1>3, WriteKeepsTypes
<1>5. ASSUME NEW i \in 1..r PROVE padding'[i] = m[k + i]
  <2>1. i \in 1..(2 * BL) /\ 0 < i /\ i <= 0 + r /\ i - 0 = i
    BY <1>2, Sizes
  <2>2. QED
    BY <1>2, <1>3, <2>1, Zenon
<1>6. Laid("mark", padding', m, k, r, e)
  BY <1>5 DEF Laid
<1>7. Consumed("mark", state'[t], m, k)
  BY <1>1, <1>2 DEF Consumed
<1>8. QED
  BY <1>1, <1>2, <1>4, <1>6, <1>7, Proceeds

LEMMA MarkEndKeeps ==
  ASSUME IInv, NEW t \in Thread, MarkEnd(t)
  PROVE  IInv'
<1>1. /\ pc[t] = "mark" /\ padding' = OffsetCopy(padding, Len(Rest(msg[t])), <<Pad80>>)
      /\ state' = [state EXCEPT ![t] =
           IF Blocks(msg[t]) # 0 THEN Transform(@, msg[t], Blocks(msg[t])) ELSE @]
      /\ Goto(t, "fill") /\ UNCHANGED <<hash_output, msg, dest, own>>
      /\ TypeOK /\ "fill" \in Places
  BY DEF MarkEnd, IInv, Places
<1>2. PICK m \in Seq(Cell), k \in Nat, r \in Nat, e \in Nat :
        /\ m = msg[t] /\ k = Blocks(m) * BL /\ r = Len(Rest(m)) /\ e = TailBlocks(m) * BL
        /\ Blocks(m) \in Nat /\ Blocks(m) < NBLK /\ k <= Len(m)
        /\ r < BL /\ padding \in TwoBlocks /\ state[t] \in State
        /\ Laid(pc[t], padding, m, k, r, e) /\ Consumed(pc[t], state[t], m, k)
  BY <1>1, InCall
<1>3. <<Pad80>> \in Seq(Cell) /\ Len(<<Pad80>>) = 1 /\ <<Pad80>>[1] = Pad80
  BY DEF Cell
<1>4. /\ padding' \in TwoBlocks
      /\ \A i \in 1..(2 * BL) : padding'[i] =
           IF r < i /\ i <= r + 1 THEN <<Pad80>>[i - r] ELSE padding[i]
  <2>1. /\ OffsetCopy(padding, r, <<Pad80>>) \in TwoBlocks
        /\ \A i \in 1..(2 * BL) : OffsetCopy(padding, r, <<Pad80>>)[i] =
             IF r < i /\ i <= r + Len(<<Pad80>>) THEN <<Pad80>>[i - r] ELSE padding[i]
    BY <1>2, <1>3, CopiedCells
  <2>2. QED
    BY <1>1, <1>2, <1>3, <2>1, Zenon
<1>5. state'[t] \in State /\ state'[t].iv = StdIV /\ state'[t].in = SubSeq(m, 1, k)
  <2>1. state[t].iv = StdIV /\ state[t].in = <<>>
    BY <1>1, <1>2 DEF Consumed
  <2>2. CASE Blocks(m) # 0
    <3>1. state'[t] = Transform(state[t], m, Blocks(m))
      BY <1>1, <1>2, <2>2 DEF TypeOK
    <3>2. /\ Transform(state[t], m, Blocks(m)) \in State
          /\ Transform(state[t], m, Blocks(m)) =
               [iv |-> state[t].iv, in |-> state[t].in \o SubSeq(m, 1, Blocks(m) * BL)]
          /\ SubSeq(m, 1, Blocks(m) * BL) \in Seq(Cell)
      <4>1. Absorbs(Cell, state[t], m, Blocks(m))
        BY <1>2, CellForm, TransformAbsorbs
      <4>2. QED
        BY <4>1, CellForm, Zenon DEF Absorbs
    <3>3. <<>> \o SubSeq(m, 1, k) = SubSeq(m, 1, k)
      BY <1>2, <3>2
    <3>4. QED
      BY <1>2, <2>1, <3>1, <3>2, <3>3
  <2>3. CASE Blocks(m) = 0
    <3>1. state'[t] = state[t]
      BY <1>1, <1>2, <2>3 DEF TypeOK
    <3>2. k = 0
      BY <1>2, <2>3, Sizes
    <3>3. SubSeq(m, 1, k) = <<>>
      BY <1>2, <3>2
    <3>4. QED
      BY <1>2, <2>1, <3>1, <3>3
  <2>4. QED
    BY <2>2, <2>3
<1>6. TypeOK'
  <2>1. state' \in [Thread -> State]
    BY <1>1, <1>5 DEF TypeOK
  <2>2. pc' \in [Thread -> Places]
    BY <1>1 DEF TypeOK, Goto
  <2>3. QED
    BY <1>1, <1>4, <2>1, <2>2 DEF TypeOK, TwoBlocks
<1>7. ASSUME NEW i \in 1..r PROVE padding'[i] = m[k + i]
  <2>1. i \in 1..(2 * BL) /\ ~(r < i)
    BY <1>2, Sizes
  <2>2. padding[i] = m[k + i]
    BY <1>1, <1>2 DEF Laid
  <2>3. QED
    BY <1>4, <2>1, <2>2, Zenon
<1>8. padding'[r + 1] = Pad80
  <2>1. r + 1 \in 1..(2 * BL) /\ r < r + 1 /\ r + 1 <= r + 1 /\ (r + 1) - r = 1
    BY <1>2, Sizes
  <2>2. QED
    BY <1>3, <1>4, <2>1, Zenon
<1>9. Laid("fill", padding', m, k, r, e)
  BY <1>7, <1>8 DEF Laid
<1>10. Consumed("fill", state'[t], m, k)
  BY <1>5 DEF Consumed
<1>11. QED
  BY <1>1, <1>2, <1>6, <1>9, <1>10, Proceeds

LEMMA FillZerosKeeps ==
  ASSUME IInv, NEW t \in Thread, FillZeros(t)
  PROVE  IInv'
<1>1. /\ pc[t] = "fill"
      /\ padding' = OffsetFill(padding, Len(Rest(msg[t])) + 1, Zero,
                               TailBlocks(msg[t]) * BL - LW)
      /\ Goto(t, "length") /\ UNCHANGED <<hash_output, msg, dest, state, own>>
      /\ TypeOK /\ "length" \in Places
  BY DEF FillZeros, IInv, Places
<1>2. PICK m \in Seq(Cell), k \in Nat, r \in Nat, e \in Nat :
        /\ m = msg[t] /\ k = Blocks(m) * BL /\ r = Len(Rest(m)) /\ e = TailBlocks(m) * BL
        /\ r < BL /\ r + 1 <= e - LW /\ e <= 2 * BL /\ padding \in TwoBlocks
        /\ Laid(pc[t], padding, m, k, r, e) /\ Consumed(pc[t], state[t], m, k)
  BY <1>1, InCall
<1>3. /\ padding' \in TwoBlocks
      /\ \A i \in 1..(2 * BL) : padding'[i] =
           IF r + 1 < i /\ i <= e - LW THEN Zero ELSE padding[i]
  <2>1. r + 1 \in Nat /\ e - LW \in Nat
    BY <1>2, Sizes
  <2>2. padding' = OffsetFill(padding, r + 1, Zero, e - LW)
    BY <1>1, <1>2, Zenon
  <2>3. /\ OffsetFill(padding, r + 1, Zero, e - LW) \in TwoBlocks
        /\ \A i \in 1..(2 * BL) : OffsetFill(padding, r + 1, Zero, e - LW)[i] =
             IF r + 1 < i /\ i <= e - LW THEN Zero ELSE padding[i]
    <3>1. padding \in TwoBlocks
      BY <1>2
    <3>2. QED
      BY <2>1, <3>1, FilledCells, Zenon
  <2>4. QED
    BY <2>2, <2>3, Zenon
<1>4. TypeOK'
  BY <1>1, <1>3, WriteKeepsTypes
<1>5. ASSUME NEW i \in 1..(r + 1) PROVE padding'[i] = padding[i]
  <2>1. i \in 1..(2 * BL) /\ ~(r + 1 < i)
    BY <1>2, Sizes
  <2>2. QED
    BY <1>3, <2>1, Zenon
<1>6. ASSUME NEW i \in (r + 2)..(e - LW) PROVE padding'[i] = Zero
  <2>1. i \in 1..(2 * BL) /\ r + 1 < i /\ i <= e - LW
    BY <1>2, Sizes
  <2>2. QED
    BY <1>3, <2>1, Zenon
<1>7. padding'[r + 1] = Pad80 /\ \A i \in 1..r : padding'[i] = m[k + i]
  <2>1. padding[r + 1] = Pad80 /\ \A i \in 1..r : padding[i] = m[k + i]
    BY <1>1, <1>2 DEF Laid
  <2>2. r + 1 \in 1..(r + 1) /\ \A i \in 1..r : i \in 1..(r + 1)
    BY <1>2
  <2>3. QED
    BY <1>5, <2>1, <2>2, Zenon
<1>8. Laid("length", padding', m, k, r, e)
  BY <1>6, <1>7 DEF Laid
<1>9. Consumed("length", state'[t], m, k)
  BY <1>1, <1>2 DEF Consumed
<1>10. QED
  BY <1>1, <1>2, <1>4, <1>8, <1>9, Proceeds

LEMMA PutLengthKeeps ==
  ASSUME IInv, NEW t \in Thread, PutLength(t)
  PROVE  IInv'
<1>1. /\ pc[t] = "length"
      /\ padding' = StoreLength(padding, Len(msg[t]), TailBlocks(msg[t]) * BL)
      /\ Goto(t, "compress") /\ UNCHANGED <<hash_output, msg, dest, state, own>>
      /\ TypeOK /\ "compress" \in Places
  BY DEF PutLength, IInv, Places
<1>2. PICK m \in Seq(Cell), k \in Nat, r \in Nat, e \in Nat :
        /\ m = msg[t] /\ k = Blocks(m) * BL /\ r = Len(Rest(m)) /\ e = TailBlocks(m) * BL
        /\ Len(m) \in Nat
        /\ r < BL /\ r + 1 <= e - LW /\ e <= 2 * BL /\ padding \in TwoBlocks
        /\ Laid(pc[t], padding, m, k, r, e) /\ Consumed(pc[t], state[t], m, k)
  BY <1>1, InCall
<1>3. /\ padding' \in TwoBlocks
      /\ \A i \in 1..(2 * BL) : padding'[i] =
           IF e - LW < i /\ i <= e THEN LengthCell(Len(m), i - (e - LW)) ELSE padding[i]
  <2>1. LW <= e
    BY <1>2, Sizes
  <2>2. padding' = StoreLength(padding, Len(m), e)
    BY <1>1, <1>2, Zenon
  <2>3. /\ StoreLength(padding, Len(m), e) \in TwoBlocks
        /\ \A i \in 1..(2 * BL) : StoreLength(padding, Len(m), e)[i] =
             IF e - LW < i /\ i <= e THEN LengthCell(Len(m), i - (e - LW)) ELSE padding[i]
    BY <1>2, <2>1, StoredCells
  <2>4. QED
    BY <2>2, <2>3, Zenon
<1>4. TypeOK'
  BY <1>1, <1>3, WriteKeepsTypes
<1>5. ASSUME NEW i \in 1..(e - LW) PROVE padding'[i] = padding[i]
  <2>1. i \in 1..(2 * BL) /\ ~(e - LW < i)
    BY <1>2, Sizes
  <2>2. QED
    BY <1>3, <2>1, Zenon
<1>6. ASSUME NEW i \in (e - LW + 1)..e
      PROVE  padding'[i] = LengthCell(Len(m), i - (e - LW))
  <2>1. i \in 1..(2 * BL) /\ e - LW < i /\ i <= e
    BY <1>2, Sizes
  <2>2. QED
    BY <1>3, <2>1, Zenon
<1>7. /\ \A i \in 1..r : padding'[i] = m[k + i]
      /\ padding'[r + 1] = Pad80
      /\ \A i \in (r + 2)..(e - LW) : padding'[i] = Zero
  <2>1. /\ \A i \in 1..r : padding[i] = m[k + i]
        /\ padding[r + 1] = Pad80
        /\ \A i \in (r + 2)..(e - LW) : padding[i] = Zero
    BY <1>1, <1>2 DEF Laid
  <2>2. /\ \A i \in 1..r : i \in 1..(e - LW)
        /\ r + 1 \in 1..(e - LW)
        /\ \A i \in (r + 2)..(e - LW) : i \in 1..(e - LW)
    BY <1>2, Sizes
  <2>3. QED
    BY <1>5, <2>1, <2>2, Zenon
<1>8. Laid("compress", padding', m, k, r, e)
  BY <1>6, <1>7 DEF Laid
<1>9. Consumed("compress", state'[t], m, k)
  BY <1>1, <1>2 DEF Consumed
<1>10. QED
  BY <1>1, <1>2, <1>4, <1>8, <1>9, Proceeds

LEMMA CompressKeeps ==
  ASSUME IInv, NEW t \in Thread, Compress(t)
  PROVE  IInv'
<1>1. /\ pc[t] = "compress"
      /\ state' = [state EXCEPT ![t] = Transform(@, padding, TailBlocks(msg[t]))]
      /\ Goto(t, "output") /\ UNCHANGED <<padding, hash_output, msg, dest, own>>
      /\ TypeOK /\ "output" \in Places
  BY DEF Compress, IInv, Places
<1>2. PICK m \in Seq(Cell), k \in Nat, r \in Nat, e \in Nat :
        /\ m = msg[t] /\ k = Blocks(m) * BL /\ r = Len(Rest(m)) /\ e = TailBlocks(m) * BL
        /\ Len(m) < NBLK * BL
        /\ e <= 2 * BL /\ TailBlocks(m) \in {1, 2} /\ padding \in TwoBlocks
        /\ state[t] \in State
        /\ Laid(pc[t], padding, m, k, r, e) /\ Consumed(pc[t], state[t], m, k)
  BY <1>1, InCall
<1>3. /\ state'[t] \in State
      /\ state'[t] = [iv |-> state[t].iv, in |-> state[t].in \o SubSeq(padding, 1, e)]
  <2>1. padding \in Seq(Cell) /\ Len(padding) = 2 * BL
    BY <1>2, TwoBlocksIsSeq
  <2>2. TailBlocks(m) \in Nat /\ TailBlocks(m) < NBLK /\ TailBlocks(m) * BL <= Len(padding)
    BY <1>2, <2>1, Sizes
  <2>3. /\ Transform(state[t], padding, TailBlocks(m)) \in State
        /\ Transform(state[t], padding, TailBlocks(m)) =
             [iv |-> state[t].iv,
              in |-> state[t].in \o SubSeq(padding, 1, TailBlocks(m) * BL)]
    <3>1. Absorbs(Cell, state[t], padding, TailBlocks(m))
      BY <1>2, <2>1, <2>2, CellForm, TransformAbsorbs
    <3>2. QED
      BY <3>1, CellForm, Zenon DEF Absorbs
  <2>4. state'[t] = Transform(state[t], padding, TailBlocks(m))
    BY <1>1, <1>2 DEF TypeOK
  <2>5. QED
    BY <1>2, <2>3, <2>4, Zenon
<1>4. state'[t].iv = StdIV /\ IsPadded(m, state'[t].in)
  <2>1. state[t].iv = StdIV /\ state[t].in = SubSeq(m, 1, k)
    BY <1>1, <1>2 DEF Consumed
  <2>2. IsPadded(m, SubSeq(m, 1, k) \o SubSeq(padding, 1, e))
    <3>1. /\ \A i \in 1..r : padding[i] = m[k + i]
          /\ padding[r + 1] = Pad80
          /\ \A i \in (r + 2)..(e - LW) : padding[i] = Zero
          /\ \A i \in (e - LW + 1)..e : padding[i] = LengthCell(Len(m), i - (e - LW))
      <4>1. Laid("compress", padding, m, k, r, e)
        BY <1>1, <1>2, Zenon
      <4>2. QED
        BY <4>1 DEF Laid
    <3>2. /\ m \in Seq(Cell) /\ k \in Nat /\ r \in Nat /\ e \in Nat
          /\ Len(m) < NBLK * BL /\ padding \in TwoBlocks
          /\ k = Blocks(m) * BL /\ r = Len(Rest(m)) /\ e = TailBlocks(m) * BL
      BY <1>2, Zenon
    <3>3. QED
      BY <3>1, <3>2, TailPads, Zenon
  <2>3. state'[t].iv = state[t].iv
        /\ state'[t].in = state[t].in \o SubSeq(padding, 1, e)
    <3>1. PICK a, b : a = state[t].iv /\ b = state[t].in \o SubSeq(padding, 1, e)
      OBVIOUS
    <3>2. state'[t] = [iv |-> a, in |-> b]
      BY <1>3, <3>1, Zenon
    <3>3. state'[t].iv = a /\ state'[t].in = b
      BY <3>2
    <3>4. QED
      BY <3>1, <3>3, Zenon
  <2>4. QED
    BY <2>1, <2>2, <2>3, Zenon
<1>5. TypeOK'
  <2>1. state' \in [Thread -> State]
    BY <1>1, <1>3 DEF TypeOK
  <2>2. pc' \in [Thread -> Places]
    BY <1>1 DEF TypeOK, Goto
  <2>3. QED
    BY <1>1, <2>1, <2>2 DEF TypeOK
<1>6. Laid("output", padding', m, k, r, e)
  BY DEF Laid
<1>7. Consumed("output", state'[t], m, k)
  BY <1>4 DEF Consumed
<1>8. QED
  BY <1>1, <1>2, <1>5, <1>6, <1>7, Proceeds

LEMMA OutputKeeps ==
  ASSUME IInv, NEW t \in Thread, Output(t)
  PROVE  IInv'
<1>1. /\ pc[t] = "output"
      /\ IF dest[t] = "own"
         THEN own' = [own EXCEPT ![t] = state[t]] /\ UNCHANGED hash_output
         ELSE hash_output' = state[t] /\ UNCHANGED own
      /\ Goto(t, "returned") /\ UNCHANGED <<padding, msg, dest, state>>
      /\ TypeOK /\ "returned" \in Places
  BY DEF Output, IInv, Places
<1>2. TypeOK'
  <2>1. pc' \in [Thread -> Places]
    BY <1>1 DEF TypeOK, Goto
  <2>2. /\ own' \in [Thread -> State \cup {NoDigest}]
        /\ hash_output' \in State \cup {NoDigest}
    BY <1>1 DEF TypeOK
  <2>3. QED
    BY <1>1, <2>1, <2>2 DEF TypeOK
<1>3. pc'[t] = "returned"
  BY <1>1 DEF TypeOK, Goto
<1>4. state[t].iv = StdIV /\ IsPadded(msg[t], state[t].in)
  BY <1>1 DEF IInv, StateAt
<1>5. Returned(t)' = state'[t]
  BY <1>1 DEF TypeOK, Returned
<1>6. StateAt(t)'
  BY <1>1, <1>3, <1>4, <1>5 DEF StateAt
<1>7. PaddingAt(t)'
  BY <1>3 DEF PaddingAt
<1>8. \A u \in Thread \ {t} : pc[u] = "idle"
  BY <1>1 DEF IInv
<1>9. QED
  BY <1>1, <1>2, <1>6, <1>7, <1>8, Alone, Zenon

LEMMA DoneKeeps ==
  ASSUME IInv, NEW t \in Thread, Done(t)
  PROVE  IInv'
<1>1. /\ pc[t] = "returned" /\ Goto(t, "idle")
      /\ UNCHANGED <<padding, hash_output, msg, dest, state, own>>
      /\ TypeOK /\ "idle" \in Places
  BY DEF Done, IInv, Places
<1>2. TypeOK'
  BY <1>1 DEF TypeOK, Goto
<1>3. \A u \in Thread \ {t} : pc[u] = "idle"
  BY <1>1 DEF IInv
<1>4. QED
  BY <1>1, <1>2, <1>3, Alone, Zenon

\* Whatever an earlier call left in the shared arrays, every call lays its own
\* padding over it, as long as no other call is under way.
THEOREM SerialInvariant ==
  ASSUME Serial
  PROVE  Spec => []IInv
<1>1. Init => IInv
  <2> SUFFICES ASSUME Init PROVE IInv
    OBVIOUS
  <2>1. [iv |-> StdIV, in |-> <<>>] \in State
    BY OneShotAssumption DEF State
  <2>2. padding \in [1..(2 * BL) -> Cell]
    BY DEF Init, Cell
  <2>3. TypeOK
    BY <2>1, <2>2 DEF Init, TypeOK, Places
  <2>4. QED
    BY <2>3 DEF Init, IInv
<1>2. IInv /\ [Next]_vars => IInv'
  <2> SUFFICES ASSUME IInv, [Next]_vars PROVE IInv'
    OBVIOUS
  <2>1. CASE UNCHANGED vars
    BY <2>1 DEF vars, IInv, TypeOK, PaddingAt, StateAt, Returned
  <2>2. CASE Next
    <3>1. PICK t \in Thread :
            \/ \E m \in Messages, d \in Dests : Call(t, m, d)
            \/ CopyRest(t) \/ MarkEnd(t) \/ FillZeros(t) \/ PutLength(t)
            \/ Compress(t) \/ Output(t) \/ Done(t)
      BY <2>2 DEF Next
    <3>2. QED
      BY <3>1, CallKeeps, CopyRestKeeps, MarkEndKeeps, FillZerosKeeps, PutLengthKeeps,
         CompressKeeps, OutputKeeps, DoneKeeps, Zenon
  <2>3. QED
    BY <2>1, <2>2
<1>3. QED
  BY <1>1, <1>2, PTL DEF Spec

\* HASH(): callers that keep their calls apart each find the digest of their
\* own message, wherever they had it written.
THEOREM SerialDigests ==
  ASSUME Serial
  PROVE  Spec => []ReturnsDigest
<1>1. IInv => ReturnsDigest
  <2> SUFFICES ASSUME IInv, NEW t \in Thread, pc[t] = "returned"
      PROVE  /\ Returned(t) # NoDigest
             /\ Returned(t).iv = StdIV
             /\ IsPadded(msg[t], Returned(t).in)
    BY DEF ReturnsDigest
  <2>1. TypeOK /\ StateAt(t)
    BY DEF IInv
  <2>2. Returned(t) = state[t] /\ state[t] \in State
    BY <2>1 DEF StateAt, TypeOK
  <2>3. state[t].iv = StdIV /\ IsPadded(msg[t], state[t].in)
    BY <2>1 DEF StateAt
  <2>4. QED
    BY <2>2, <2>3, OneShotAssumption
<1>2. QED
  BY <1>1, SerialInvariant, PTL
=============================================================================
