--------------------------- MODULE HashOps_proofs ---------------------------
(***************************************************************************)
(* Lemmas about buffers, chaining states and the padding, and about what   *)
(* the functions of the hash template do to one structure.  They hold for  *)
(* cells of any set that has those the padding writes: HashContext and     *)
(* OneShot take Cell, Hmac a set with masked bytes and digests.            *)
(***************************************************************************)
EXTENDS HashOps, SequenceTheorems, TLAPS

CellSet(S) == {Zero, Pad80} \cup (Nat \X Nat) \subseteq S

BlockOf(S) == [1..BL -> S]
StateOf(S) == [iv : IV, in : Seq(S)]
ContextOf(S) == [data : BlockOf(S), bytelen : Nat, state : StateOf(S), datalen : Nat]

\* Cell is such a set: the structures of HashContext and the arrays of OneShot.
LEMMA CellForm ==
  /\ CellSet(Cell)
  /\ Block = BlockOf(Cell)
  /\ State = StateOf(Cell)
  /\ Context = ContextOf(Cell)
<1>1. CellSet(Cell)
  BY DEF CellSet, Cell
<1>2. Block = BlockOf(Cell)
  BY DEF Block, BlockOf
<1>3. State = StateOf(Cell)
  BY DEF State, StateOf
<1>4. Context = ContextOf(Cell)
  BY <1>2, <1>3 DEF Context, ContextOf
<1>5. QED
  BY <1>1, <1>2, <1>3, <1>4

-----------------------------------------------------------------------------
\* What the lemmas on buffers say of their result, by name: a fact that is one
\* atom is found for any S, and opened where it is needed.
Associates(a, b, c) == (a \o b) \o c = a \o (b \o c)

\* s with the block d behind it.
Behind(S, s, d) ==
  /\ s \o d \in Seq(S)
  /\ Len(s \o d) = Len(s) + BL
  /\ \A i \in 1..Len(s) : (s \o d)[i] = s[i]
  /\ \A j \in 1..BL : (s \o d)[Len(s) + j] = d[j]

\* d with zeros from off to end.
Filled(S, d, off, end) ==
  /\ OffsetFill(d, off, Zero, end) \in BlockOf(S)
  /\ \A i \in 1..BL : OffsetFill(d, off, Zero, end)[i] =
       IF off < i /\ i <= end THEN Zero ELSE d[i]

\* A kernel absorbs the first n blocks of d.
Absorbs(S, st, d, n) ==
  /\ Transform(st, d, n) \in StateOf(S)
  /\ Transform(st, d, n) = [iv |-> st.iv, in |-> st.in \o SubSeq(d, 1, n * BL)]
  /\ SubSeq(d, 1, n * BL) \in Seq(S)
  /\ Len(SubSeq(d, 1, n * BL)) = n * BL

\* A kernel absorbs the one block d.
AbsorbsOne(S, st, d) ==
  /\ Transform(st, d, 1) = [iv |-> st.iv, in |-> st.in \o d]
  /\ Transform(st, d, 1) \in StateOf(S)
  /\ st.in \o d \in Seq(S)
  /\ Len(st.in \o d) = Len(st.in) + BL
  /\ \A i \in 1..(Len(st.in) + BL) :
       (st.in \o d)[i] = IF i <= Len(st.in) THEN st.in[i] ELSE d[i - Len(st.in)]

\* Update has compressed the whole blocks of m.
TookBlocks(S, x, m) ==
  LET k == (Len(m) \div BL) * BL IN
  /\ TakeBlocks(x, m) \in ContextOf(S)
  /\ Aligned(TakeBlocks(x, m))
  /\ TakeBlocks(x, m).datalen = 0
  /\ TakeBlocks(x, m).state.iv = x.state.iv
  /\ TakeBlocks(x, m).state.in = x.state.in \o SubSeq(m, 1, k)
  /\ SubSeq(m, 1, k) \in Seq(S)
  /\ k \in Nat /\ k <= Len(m) /\ Len(m) - k < BL

\* Final has compressed the block with the length n.
Closed(S, y, n) ==
  /\ CloseMessage(y) \in ContextOf(S)
  /\ CloseMessage(y).state.iv = y.state.iv
  /\ CloseMessage(y).state.in = y.state.in \o StoreLength(y.data, n, BL)
  /\ StoreLength(y.data, n, BL) \in BlockOf(S)
  /\ \A i \in 1..BL : StoreLength(y.data, n, BL)[i] =
       IF i <= BL - LW THEN y.data[i] ELSE LengthCell(n, i - (BL - LW))

-----------------------------------------------------------------------------
\* Concatenation of cells is associative.
LEMMA Assoc ==
  ASSUME NEW S, NEW a \in Seq(S), NEW b \in Seq(S), NEW c \in Seq(S)
  PROVE  Associates(a, b, c)
BY ConcatAssociative, SMTT(30) DEF Associates

\* A sequence is any prefix of it followed by the rest.
LEMMA Split ==
  ASSUME NEW S, NEW s \in Seq(S), NEW k \in Nat, k <= Len(s)
  PROVE  /\ s = SubSeq(s, 1, k) \o SubSeq(s, k + 1, Len(s))
         /\ SubSeq(s, 1, k) \in Seq(S)
         /\ Len(SubSeq(s, 1, k)) = k
         /\ SubSeq(s, k + 1, Len(s)) \in Seq(S)
         /\ Len(SubSeq(s, k + 1, Len(s))) = Len(s) - k
<1>1. Len(s) \in Nat /\ \A i \in 1..Len(s) : s[i] \in S
  BY LenProperties, ElementOfSeq
<1>2. SubSeq(s, 1, k) \in Seq(S) /\ Len(SubSeq(s, 1, k)) = k
  BY <1>1, SubSeqProperties
<1>3. SubSeq(s, k + 1, Len(s)) \in Seq(S) /\ Len(SubSeq(s, k + 1, Len(s))) = Len(s) - k
  BY <1>1, SubSeqProperties
<1>4. SubSeq(s, 1, k) \o SubSeq(s, k + 1, Len(s)) = SubSeq(s, 1, Len(s))
  <2>1. 1 \in 1..(Len(s) + 1) /\ k \in (1 - 1)..Len(s) /\ Len(s) \in k..Len(s)
    BY <1>1
  <2>2. QED
    BY <2>1, ConcatAdjacentSubSeq
<1>5. SubSeq(s, 1, Len(s)) = s
  BY SubSeqFull
<1>6. QED
  BY <1>2, <1>3, <1>4, <1>5, Zenon

\* A buffer of one block is a sequence of BL cells.
LEMMA BlockIsSeq ==
  ASSUME NEW S, NEW d \in BlockOf(S)
  PROVE  d \in Seq(S) /\ Len(d) = BL
<1>1. BL \in Nat
  BY SizeAssumption
<1>2. d \in Seq(S)
  BY <1>1, SeqDef DEF BlockOf
<1>3. DOMAIN d = 1..BL /\ DOMAIN d = 1..Len(d) /\ Len(d) \in Nat
  BY <1>2, LenProperties DEF BlockOf
<1>4. QED
  BY <1>1, <1>2, <1>3

\* OFFSETCPY and OFFSETFILL keep the size of the buffer they write into.
LEMMA BufferTypes ==
  ASSUME NEW S, NEW d \in BlockOf(S), NEW off \in Nat, NEW end \in Nat,
         NEW s \in Seq(S), NEW v \in S
  PROVE  /\ OffsetCopy(d, off, s) \in BlockOf(S)
         /\ OffsetFill(d, off, v, end) \in BlockOf(S)
<1>1. Len(d) = BL /\ BL \in Nat
  BY BlockIsSeq, SizeAssumption
<1>2. Len(s) \in Nat /\ \A i \in 1..Len(s) : s[i] \in S
  BY LenProperties, ElementOfSeq
<1>3. OffsetCopy(d, off, s) \in BlockOf(S)
  BY <1>1, <1>2 DEF OffsetCopy, BlockOf
<1>4. OffsetFill(d, off, v, end) \in BlockOf(S)
  BY <1>1 DEF OffsetFill, BlockOf
<1>5. QED
  BY <1>3, <1>4

\* A kernel absorbs exactly the blocks it is told to, if it can count them.
LEMMA TransformAbsorbs ==
  ASSUME NEW S, NEW st \in StateOf(S), NEW d \in Seq(S), NEW n \in Nat,
         n < NBLK, n * BL <= Len(d)
  PROVE  Absorbs(S, st, d, n)
<1>1. NBLK \in Nat /\ n % NBLK = n
  BY KernelAssumption
<1>2. n * BL \in Nat
  BY SizeAssumption
<1>3. SubSeq(d, 1, n * BL) \in Seq(S) /\ Len(SubSeq(d, 1, n * BL)) = n * BL
  <2> DEFINE k == n * BL
  <2>1. k \in Nat /\ k <= Len(d) /\ Len(d) \in Nat
    BY <1>2, LenProperties
  <2> HIDE DEF k
  <2>2. \A i \in 1..k : d[i] \in S
    BY <2>1, ElementOfSeq
  <2>3. SubSeq(d, 1, k) \in Seq(S) /\ Len(SubSeq(d, 1, k)) = k
    BY <2>1, <2>2, SubSeqProperties
  <2>4. QED
    BY <2>3 DEF k
<1>4. Transform(st, d, n) = [iv |-> st.iv, in |-> st.in \o SubSeq(d, 1, n * BL)]
  BY <1>1 DEF Transform, StateOf
<1>5. st.in \o SubSeq(d, 1, n * BL) \in Seq(S)
  BY <1>3, ConcatProperties DEF StateOf
<1>6. QED
  BY <1>3, <1>4, <1>5 DEF StateOf, Absorbs

\* The first cells of a block.
LEMMA PrefixOfBlock ==
  ASSUME NEW S, NEW d \in BlockOf(S), NEW n \in Nat, n <= BL
  PROVE  /\ SubSeq(d, 1, n) \in Seq(S)
         /\ Len(SubSeq(d, 1, n)) = n
         /\ \A i \in 1..n : SubSeq(d, 1, n)[i] = d[i]
<1>1. \A i \in 1..n : d[i] \in S
  BY SizeAssumption DEF BlockOf
<1>2. QED
  BY <1>1, SubSeqProperties

\* Copying s behind the first off cells of a block appends s to them.
LEMMA CopyAppends ==
  ASSUME NEW S, CellSet(S), NEW d \in BlockOf(S), NEW off \in Nat, NEW s \in Seq(S),
         off + Len(s) <= BL
  PROVE  SubSeq(OffsetCopy(d, off, s), 1, off + Len(s)) = SubSeq(d, 1, off) \o s
<1> DEFINE e == OffsetCopy(d, off, s)
           k == off + Len(s)
<1>1. /\ BL \in Nat /\ Len(s) \in Nat /\ k \in Nat /\ off <= k
      /\ e \in BlockOf(S) /\ Len(d) = BL
  <2>1. Zero \in S
    BY DEF CellSet
  <2>2. e \in BlockOf(S)
    BY <2>1, BufferTypes
  <2>3. QED
    BY <2>2, SizeAssumption, LenProperties, BlockIsSeq
<1>2. \A i \in 1..BL : e[i] = IF off < i /\ i <= off + Len(s) THEN s[i - off] ELSE d[i]
  BY <1>1 DEF OffsetCopy
<1> HIDE DEF e
<1>3. /\ SubSeq(d, 1, off) \in Seq(S)
      /\ Len(SubSeq(d, 1, off)) = off
      /\ \A i \in 1..off : SubSeq(d, 1, off)[i] = d[i]
  BY <1>1, PrefixOfBlock
<1>4. /\ SubSeq(e, 1, k) \in Seq(S)
      /\ Len(SubSeq(e, 1, k)) = k
      /\ \A i \in 1..k : SubSeq(e, 1, k)[i] = e[i]
  BY <1>1, PrefixOfBlock
<1>5. /\ SubSeq(d, 1, off) \o s \in Seq(S)
      /\ Len(SubSeq(d, 1, off) \o s) = k
      /\ \A i \in 1..k : (SubSeq(d, 1, off) \o s)[i] =
                           IF i <= off THEN SubSeq(d, 1, off)[i] ELSE s[i - off]
  BY <1>1, <1>3, ConcatProperties
<1>6. \A i \in 1..k : SubSeq(e, 1, k)[i] = (SubSeq(d, 1, off) \o s)[i]
  BY <1>1, <1>2, <1>3, <1>4, <1>5
<1>7. SubSeq(e, 1, k) = SubSeq(d, 1, off) \o s
  BY <1>4, <1>5, <1>6, SeqEqual
<1>8. QED
  BY <1>7 DEF e

\* Division of a length into whole blocks and a rest.
LEMMA WholeBlocks ==
  ASSUME NEW n \in Nat
  PROVE  /\ n \div BL \in Nat
         /\ (n \div BL) * BL \in Nat
         /\ (n \div BL) * BL <= n
         /\ n - (n \div BL) * BL < BL
         /\ \A k \in Nat : n < k * BL => n \div BL < k
<1>1. BL \in Nat /\ BL > 0
  BY SizeAssumption
<1>2. /\ n \div BL \in Nat
      /\ (n \div BL) * BL \in Nat
      /\ (n \div BL) * BL <= n
      /\ n - (n \div BL) * BL < BL
  BY <1>1
<1>3. ASSUME NEW k \in Nat, n < k * BL PROVE n \div BL < k
  BY <1>1, <1>2, <1>3
<1>4. QED
  BY <1>2, <1>3

\* Compressing one full buffer.
LEMMA OneBlock ==
  ASSUME NEW S, NEW st \in StateOf(S), NEW d \in BlockOf(S)
  PROVE  AbsorbsOne(S, st, d)
<1>1. d \in Seq(S) /\ Len(d) = BL /\ BL \in Nat /\ st.in \in Seq(S)
  BY BlockIsSeq, SizeAssumption DEF StateOf
<1>2. 1 < NBLK /\ 1 * BL = BL
  BY <1>1, KernelAssumption
<1>3. SubSeq(d, 1, BL) = d
  BY <1>1, SubSeqFull
<1>4. 1 % NBLK = 1
  BY KernelAssumption
<1>5. Transform(st, d, 1) = [iv |-> st.iv, in |-> st.in \o d]
  <2>1. (1 % NBLK) * BL = BL
    BY <1>2, <1>4, Zenon
  <2>2. QED
    BY <1>3, <2>1, Zenon DEF Transform
<1>6. st.in \o d \in Seq(S)
  BY <1>1, ConcatProperties
<1>7. Transform(st, d, 1) \in StateOf(S)
  <2>1. [iv |-> st.iv, in |-> st.in \o d] \in StateOf(S)
    BY <1>6 DEF StateOf
  <2>2. QED
    BY <1>5, <2>1, Zenon
<1>8. QED
  BY <1>1, <1>5, <1>6, <1>7, ConcatProperties DEF AbsorbsOne

\* Adding whole blocks keeps a length a multiple of the block length.
LEMMA MultipleGrows ==
  ASSUME NEW n \in Nat, NEW k \in Nat, \E q \in 0..n : n = q * BL
  PROVE  \E q \in 0..(n + k * BL) : n + k * BL = q * BL
<1>1. PICK q \in 0..n : n = q * BL
  OBVIOUS
<1>2. BL \in Nat /\ BL > 0 /\ q \in Nat
  BY SizeAssumption
<1>3. n + k * BL = (q + k) * BL
  BY <1>1, <1>2
<1>4. q + k <= (q + k) * BL
  BY <1>2
<1>5. QED
  BY <1>2, <1>3, <1>4

\* The cells a fill leaves in a block.
LEMMA FillCells ==
  ASSUME NEW S, CellSet(S), NEW d \in BlockOf(S), NEW off \in Nat, NEW end \in Nat
  PROVE  Filled(S, d, off, end)
<1>1. Len(d) = BL /\ Zero \in S /\ << >> \in Seq(S) /\ 0 \in Nat
  BY BlockIsSeq DEF CellSet
<1>2. OffsetFill(d, off, Zero, end) \in BlockOf(S)
  BY <1>1, BufferTypes
<1>3. QED
  BY <1>1, <1>2 DEF OffsetFill, Filled

\* The cells STOR64DE leaves in a block.
LEMMA LengthCells ==
  ASSUME NEW S, CellSet(S), NEW d \in BlockOf(S), NEW n \in Nat
  PROVE  /\ StoreLength(d, n, BL) \in BlockOf(S)
         /\ \A i \in 1..BL : StoreLength(d, n, BL)[i] =
              IF i <= BL - LW THEN d[i] ELSE LengthCell(n, i - (BL - LW))
<1>1. Len(d) = BL /\ BL \in Nat /\ LW \in Nat /\ LW < BL
  BY BlockIsSeq, SizeAssumption
<1>2. \A i \in 1..BL : i > BL - LW => LengthCell(n, i - (BL - LW)) \in S
  BY <1>1 DEF LengthCell, CellSet
<1>3. StoreLength(d, n, BL) = [i \in 1..BL |->
        IF BL - LW < i /\ i <= BL THEN LengthCell(n, i - (BL - LW)) ELSE d[i]]
  BY <1>1 DEF StoreLength
<1>4. \A i \in 1..BL : d[i] \in S
  BY DEF BlockOf
<1>5. StoreLength(d, n, BL) \in BlockOf(S)
  BY <1>1, <1>2, <1>3, <1>4 DEF BlockOf
<1>6. QED
  BY <1>1, <1>3, <1>5

\* The cells of a sequence with a block behind it.
LEMMA BlockBehind ==
  ASSUME NEW S, NEW s \in Seq(S), NEW d \in BlockOf(S)
  PROVE  Behind(S, s, d)
<1>1. d \in Seq(S) /\ Len(d) = BL /\ BL \in Nat /\ Len(s) \in Nat
  BY BlockIsSeq, SizeAssumption, LenProperties
<1>2. /\ s \o d \in Seq(S)
      /\ Len(s \o d) = Len(s) + BL
      /\ \A i \in 1..(Len(s) + BL) : (s \o d)[i] = IF i <= Len(s) THEN s[i] ELSE d[i - Len(s)]
  BY <1>1, ConcatProperties
<1>3. ASSUME NEW j \in 1..BL PROVE (s \o d)[Len(s) + j] = d[j]
  <2>1. Len(s) + j \in 1..(Len(s) + BL) /\ ~(Len(s) + j <= Len(s)) /\ (Len(s) + j) - Len(s) = j
    BY <1>1
  <2>2. QED
    BY <1>2, <2>1
<1>4. \A i \in 1..Len(s) : (s \o d)[i] = s[i]
  BY <1>1, <1>2
<1>5. QED
  BY <1>2, <1>3, <1>4 DEF Behind

\* A place behind n cells and before n + b is one of b places.
LEMMA PlaceBehind ==
  ASSUME NEW n \in Nat, NEW b \in Nat, NEW i \in Nat, i > n, i <= n + b
  PROVE  \E j \in 1..b : i = n + j
<1>1. i - n \in 1..b /\ i = n + (i - n)
  OBVIOUS
<1>2. QED
  BY <1>1, Zenon

\* The padding fits behind the partial block: one closing block.
LEMMA PaddedOne ==
  ASSUME NEW S, NEW in \in Seq(S), \E q \in 0..Len(in) : Len(in) = q * BL,
         NEW d \in Nat, d < BL - RES,
         NEW m \in Seq(S), Len(m) = Len(in) + d,
         NEW last \in BlockOf(S),
         \A i \in 1..Len(in) : m[i] = in[i],
         \A i \in 1..BL : last[i] =
           IF i <= d THEN m[Len(in) + i]
           ELSE IF i = d + 1 THEN Pad80
           ELSE IF i <= BL - LW THEN Zero
           ELSE LengthCell(Len(m), i - (BL - LW))
  PROVE  IsPadded(m, in \o last)
<1> DEFINE p == in \o last
<1>1. /\ BL \in Nat /\ RES \in Nat /\ LW \in Nat /\ 1 <= LW /\ LW <= RES /\ RES < BL
      /\ Len(in) \in Nat /\ last \in Seq(S) /\ Len(last) = BL
  BY SizeAssumption, LenProperties, BlockIsSeq
<1>2. /\ Len(p) = Len(in) + BL
      /\ \A i \in 1..(Len(in) + BL) : p[i] = IF i <= Len(in) THEN in[i] ELSE last[i - Len(in)]
  BY <1>1, ConcatProperties
<1>3. \E q \in 0..Len(p) : Len(p) = q * BL
  <2>1. 1 \in Nat /\ Len(in) \in Nat
    BY <1>1
  <2>2. \E q \in 0..(Len(in) + 1 * BL) : Len(in) + 1 * BL = q * BL
    BY <2>1, MultipleGrows, Zenon
  <2>3. Len(p) = Len(in) + 1 * BL
    BY <1>1, <1>2
  <2>4. QED
    BY <2>2, <2>3, Zenon
<1> HIDE DEF p
<1>4. Len(p) >= Len(m) + 1 + RES /\ Len(p) < Len(m) + 1 + RES + BL
  BY <1>1, <1>2
<1>5. ASSUME NEW i \in 1..Len(p)
      PROVE  p[i] = IF i <= Len(m) THEN m[i]
                    ELSE IF i = Len(m) + 1 THEN Pad80
                    ELSE IF i <= Len(p) - LW THEN Zero
                    ELSE LengthCell(Len(m), i - (Len(p) - LW))
  <2>1. CASE i <= Len(in)
    BY <1>1, <1>2, <2>1
  <2>2. CASE i > Len(in)
    <3>1. PICK j \in 1..BL : i = Len(in) + j
      BY <1>1, <1>2, <2>2
    <3>2. p[i] = last[j]
      BY <1>1, <1>2, <3>1
    <3>3. /\ (i <= Len(m)) <=> (j <= d)
          /\ (i = Len(m) + 1) <=> (j = d + 1)
          /\ (i <= Len(p) - LW) <=> (j <= BL - LW)
          /\ i - (Len(p) - LW) = j - (BL - LW)
      BY <1>1, <1>2, <3>1
    <3>4. QED
      BY <3>1, <3>2, <3>3
  <2>3. QED
    BY <1>1, <1>2, <2>1, <2>2
<1>6. QED
  BY <1>3, <1>4, <1>5, Zenon DEF IsPadded, p

\* It does not: the partial block is closed first, and a block of zeros and
\* the length follows.
LEMMA PaddedTwo ==
  ASSUME NEW S, NEW in \in Seq(S), \E q \in 0..Len(in) : Len(in) = q * BL,
         NEW d \in Nat, d < BL, d >= BL - RES,
         NEW m \in Seq(S), Len(m) = Len(in) + d,
         NEW full \in BlockOf(S), NEW last \in BlockOf(S),
         \A i \in 1..Len(in) : m[i] = in[i],
         \A i \in 1..BL : full[i] =
           IF i <= d THEN m[Len(in) + i] ELSE IF i = d + 1 THEN Pad80 ELSE Zero,
         \A i \in 1..BL : last[i] =
           IF i <= BL - LW THEN Zero ELSE LengthCell(Len(m), i - (BL - LW))
  PROVE  IsPadded(m, (in \o full) \o last)
<1>1. /\ BL \in Nat /\ RES \in Nat /\ LW \in Nat /\ 1 <= LW /\ LW <= RES /\ RES < BL
      /\ Len(in) \in Nat
  BY SizeAssumption, LenProperties
<1>2. PICK f \in Seq(S) :
        /\ f = in \o full /\ Len(f) = Len(in) + BL
        /\ \A i \in 1..Len(in) : f[i] = in[i]
        /\ \A j \in 1..BL : f[Len(in) + j] = full[j]
  <2>1. Behind(S, in, full)
    BY BlockBehind, Zenon
  <2>2. QED
    BY <2>1, Zenon DEF Behind
<1>3. PICK p \in Seq(S) :
        /\ p = f \o last /\ Len(p) = Len(in) + BL + BL
        /\ \A i \in 1..(Len(in) + BL) : p[i] = f[i]
        /\ \A j \in 1..BL : p[Len(in) + BL + j] = last[j]
  <2>1. Behind(S, f, last)
    BY BlockBehind, Zenon
  <2>2. Len(f) = Len(in) + BL
    BY <1>2
  <2>3. QED
    BY <2>1, <2>2, Zenon DEF Behind
<1>4. \E q \in 0..Len(p) : Len(p) = q * BL
  <2>1. 2 \in Nat /\ Len(in) \in Nat
    BY <1>1
  <2>2. \E q \in 0..(Len(in) + 2 * BL) : Len(in) + 2 * BL = q * BL
    BY <2>1, MultipleGrows, Zenon
  <2>3. Len(p) = Len(in) + 2 * BL
    BY <1>1, <1>3
  <2>4. QED
    BY <2>2, <2>3, Zenon
<1>5. Len(p) >= Len(m) + 1 + RES /\ Len(p) < Len(m) + 1 + RES + BL
  BY <1>1, <1>3
<1>6. ASSUME NEW i \in 1..Len(p)
      PROVE  p[i] = IF i <= Len(m) THEN m[i]
                    ELSE IF i = Len(m) + 1 THEN Pad80
                    ELSE IF i <= Len(p) - LW THEN Zero
                    ELSE LengthCell(Len(m), i - (Len(p) - LW))
  <2>1. CASE i <= Len(in)
    <3>1. i \in 1..Len(in) /\ i \in 1..(Len(in) + BL)
      BY <1>1, <2>1
    <3>2. p[i] = m[i]
      BY <1>2, <1>3, <3>1
    <3>3. i <= Len(m)
      BY <1>1, <2>1
    <3>4. QED
      BY <3>2, <3>3
  <2>2. CASE i > Len(in) /\ i <= Len(in) + BL
    <3>1. PICK j \in 1..BL : i = Len(in) + j
      <4>1. i \in Nat /\ Len(in) \in Nat /\ BL \in Nat /\ i > Len(in) /\ i <= Len(in) + BL
        BY <1>1, <2>2
      <4>2. QED
        BY <4>1, PlaceBehind, Zenon
    <3>2. i \in 1..(Len(in) + BL)
      BY <1>1, <2>2
    <3>3. p[i] = full[j]
      BY <1>2, <1>3, <3>1, <3>2
    <3>4. /\ (i <= Len(m)) <=> (j <= d)
          /\ (i = Len(m) + 1) <=> (j = d + 1)
          /\ i <= Len(p) - LW
      <4>1. Len(m) = Len(in) + d /\ Len(p) = Len(in) + BL + BL /\ j \in Nat /\ j <= BL
        BY <1>1, <1>3
      <4>2. QED
        BY <1>1, <3>1, <4>1
    <3>5. full[j] = IF j <= d THEN m[Len(in) + j] ELSE IF j = d + 1 THEN Pad80 ELSE Zero
      OBVIOUS
    <3>6. QED
      BY <3>1, <3>3, <3>4, <3>5
  <2>3. CASE i > Len(in) + BL
    <3>1. PICK j \in 1..BL : i = Len(in) + BL + j
      <4>1. Len(p) = Len(in) + BL + BL
        BY <1>3
      <4>2. /\ i - (Len(in) + BL) \in 1..BL
            /\ i = Len(in) + BL + (i - (Len(in) + BL))
        BY <1>1, <2>3, <4>1
      <4>3. QED
        BY <4>2, Zenon
    <3>2. p[i] = last[j]
      BY <1>3, <3>1
    <3>3. /\ ~(i <= Len(m)) /\ i # Len(m) + 1
          /\ (i <= Len(p) - LW) <=> (j <= BL - LW)
          /\ i - (Len(p) - LW) = j - (BL - LW)
      <4>1. Len(m) = Len(in) + d /\ Len(p) = Len(in) + BL + BL /\ j \in Nat /\ j >= 1
        BY <1>1, <1>3
      <4>2. QED
        BY <1>1, <3>1, <4>1
    <3>4. last[j] = IF j <= BL - LW THEN Zero ELSE LengthCell(Len(m), j - (BL - LW))
      OBVIOUS
    <3>5. QED
      BY <3>2, <3>3, <3>4
  <2>4. QED
    BY <1>1, <1>3, <2>1, <2>2, <2>3
<1>7. QED
  BY <1>2, <1>3, <1>4, <1>5, <1>6, Zenon DEF IsPadded

\* The padding loses nothing: two messages that Final pads to the same blocks
\* are the same message, so that distinct streams never share a digest's input.
THEOREM PaddingInjective ==
  ASSUME NEW m \in Seq(Byte), NEW n \in Seq(Byte), NEW p \in Seq(Cell),
         IsPadded(m, p), IsPadded(n, p)
  PROVE  m = n
<1>1. /\ LW \in Nat /\ 1 <= LW /\ LW <= RES /\ RES \in Nat
      /\ Len(m) \in Nat /\ Len(n) \in Nat /\ Len(p) \in Nat
  BY SizeAssumption, LenProperties
<1>2. PICK i \in 1..Len(p) : i = Len(p) - LW + 1
  <2>1. Len(p) >= Len(m) + 1 + RES
    BY DEF IsPadded
  <2>2. Len(p) - LW + 1 \in 1..Len(p)
    BY <1>1, <2>1
  <2>3. QED
    BY <2>2
<1>3. p[i] = LengthCell(Len(m), 1) /\ p[i] = LengthCell(Len(n), 1)
  <2>1. /\ Len(p) >= Len(m) + 1 + RES /\ Len(p) >= Len(n) + 1 + RES
    BY DEF IsPadded
  <2>2. /\ ~(i <= Len(m)) /\ i # Len(m) + 1 /\ ~(i <= Len(n)) /\ i # Len(n) + 1
        /\ ~(i <= Len(p) - LW) /\ i - (Len(p) - LW) = 1
    BY <1>1, <1>2, <2>1
  <2>3. p[i] = LengthCell(Len(m), i - (Len(p) - LW))
    BY <2>2, Zenon DEF IsPadded
  <2>4. p[i] = LengthCell(Len(n), i - (Len(p) - LW))
    BY <2>2, Zenon DEF IsPadded
  <2>5. QED
    BY <2>2, <2>3, <2>4, Zenon
<1>4. Len(m) = Len(n)
  BY <1>3 DEF LengthCell
<1>5. ASSUME NEW k \in 1..Len(m) PROVE m[k] = n[k]
  <2>1. k \in 1..Len(p) /\ k <= Len(m) /\ k <= Len(n)
    <3>1. Len(p) >= Len(m) + 1 + RES
      BY DEF IsPadded
    <3>2. QED
      BY <1>1, <1>4, <3>1
  <2>2. p[k] = m[k] /\ p[k] = n[k]
    BY <2>1, Zenon DEF IsPadded
  <2>3. QED
    BY <2>2
<1>6. QED
  BY <1>4, <1>5, SeqEqual

-----------------------------------------------------------------------------
\* The bytes a context stands for form a sequence as long as bytelen + datalen.
LEMMA AbsorbedType ==
  ASSUME NEW S, NEW x \in ContextOf(S), Aligned(x)
  PROVE  /\ Absorbed(x) \in Seq(S)
         /\ Len(Absorbed(x)) = x.bytelen + x.datalen
         /\ SubSeq(x.data, 1, x.datalen) \in Seq(S)
         /\ Len(SubSeq(x.data, 1, x.datalen)) = x.datalen
<1>1. /\ x.data \in BlockOf(S) /\ x.datalen \in Nat /\ x.datalen < BL /\ BL \in Nat
      /\ x.state.in \in Seq(S) /\ x.bytelen = Len(x.state.in)
  BY SizeAssumption DEF ContextOf, StateOf, Aligned
<1>2. SubSeq(x.data, 1, x.datalen) \in Seq(S) /\ Len(SubSeq(x.data, 1, x.datalen)) = x.datalen
  BY <1>1, PrefixOfBlock
<1>3. QED
  BY <1>1, <1>2, ConcatProperties DEF Absorbed

\* A context's fields, for the steps that take it apart.
LEMMA Fields ==
  ASSUME NEW S, NEW x \in ContextOf(S)
  PROVE  /\ x.data \in BlockOf(S) /\ x.bytelen \in Nat /\ x.datalen \in Nat
         /\ x.state \in StateOf(S) /\ x.state.in \in Seq(S) /\ Len(x.state.in) \in Nat
         /\ BL \in Nat /\ BL > 0
  BY SizeAssumption, LenProperties DEF ContextOf, StateOf

\* A buffering step: the chunk joins the partial block.
LEMMA BufferedStep ==
  ASSUME NEW S, CellSet(S), NEW x \in ContextOf(S), Aligned(x), NEW m \in Seq(S),
         x.datalen + Len(m) < BL
  PROVE  /\ Buffered(x, m) \in ContextOf(S)
         /\ Aligned(Buffered(x, m))
         /\ Buffered(x, m).state.iv = x.state.iv
         /\ Absorbed(Buffered(x, m)) = Absorbed(x) \o m
<1>1. Len(m) \in Nat
  BY LenProperties
<1>2. PICK e \in BlockOf(S) : e = OffsetCopy(x.data, x.datalen, m)
  BY Fields, BufferTypes, CellSet(S) DEF CellSet
<1>3. Buffered(x, m) = [data |-> e, bytelen |-> x.bytelen, state |-> x.state,
                        datalen |-> x.datalen + Len(m)]
  BY <1>2 DEF Buffered
<1>4. Buffered(x, m) \in ContextOf(S)
  BY <1>1, <1>3, Fields DEF ContextOf
<1>5. Aligned(Buffered(x, m))
  BY <1>3 DEF Aligned
<1>6. x.datalen + Len(m) <= BL
  BY <1>1, Fields
<1>7. SubSeq(e, 1, x.datalen + Len(m)) = SubSeq(x.data, 1, x.datalen) \o m
  <2>1. x.data \in BlockOf(S) /\ x.datalen \in Nat
    BY Fields
  <2>2. SubSeq(OffsetCopy(x.data, x.datalen, m), 1, x.datalen + Len(m))
          = SubSeq(x.data, 1, x.datalen) \o m
    BY <1>6, <2>1, CopyAppends, Zenon
  <2>3. QED
    BY <1>2, <2>2, Zenon
<1>8. Absorbed(Buffered(x, m)) = x.state.in \o SubSeq(e, 1, x.datalen + Len(m))
  <2>1. /\ Buffered(x, m).data = e
        /\ Buffered(x, m).state = x.state
        /\ Buffered(x, m).datalen = x.datalen + Len(m)
    BY <1>2, Zenon DEF Buffered
  <2>2. QED
    BY <2>1, Zenon DEF Absorbed
<1>9. /\ SubSeq(x.data, 1, x.datalen) \in Seq(S)
      /\ x.state.in \in Seq(S)
  BY AbsorbedType, Fields
<1>10. Absorbed(Buffered(x, m)) = Absorbed(x) \o m
  <2>1. (x.state.in \o SubSeq(x.data, 1, x.datalen)) \o m
          = x.state.in \o (SubSeq(x.data, 1, x.datalen) \o m)
    <3>1. Associates(x.state.in, SubSeq(x.data, 1, x.datalen), m)
      BY <1>9, Assoc, Zenon
    <3>2. QED
      BY <3>1, Zenon DEF Associates
  <2>2. QED
    BY <1>7, <1>8, <2>1, Zenon DEF Absorbed
<1>11. QED
  BY <1>3, <1>4, <1>5, <1>10

\* Update, topping up: the partial block and the head of the chunk are
\* compressed together, or there was no partial block.
LEMMA TopUpStep ==
  ASSUME NEW S, CellSet(S), NEW x \in ContextOf(S), Aligned(x), NEW m \in Seq(S), Room(x) <= Len(m)
  PROVE  /\ TopUp(x, m) \in ContextOf(S)
         /\ Aligned(TopUp(x, m))
         /\ TopUp(x, m).datalen = 0
         /\ TopUp(x, m).state.iv = x.state.iv
         /\ TopUp(x, m).state.in = Absorbed(x) \o SubSeq(m, 1, Room(x))
         /\ SubSeq(m, 1, Room(x)) \in Seq(S)
         /\ Room(x) \in Nat
<1>1. Len(m) \in Nat /\ x.datalen < BL /\ x.bytelen = Len(x.state.in)
  BY LenProperties DEF Aligned
<1>2. Room(x) \in Nat
  BY <1>1, Fields DEF Room
<1>3. PICK head \in Seq(S) : head = SubSeq(m, 1, Room(x)) /\ Len(head) = Room(x)
  <2>1. \A i \in 1..Room(x) : m[i] \in S
    BY <1>1, <1>2, ElementOfSeq
  <2>2. SubSeq(m, 1, Room(x)) \in Seq(S) /\ Len(SubSeq(m, 1, Room(x))) = Room(x)
    BY <1>2, <2>1, SubSeqProperties
  <2>3. QED
    BY <2>2
<1>4. SubSeq(x.data, 1, x.datalen) \in Seq(S)
  BY AbsorbedType
<1>5. CASE x.datalen = 0
  <2>1. TopUp(x, m) = x /\ Room(x) = 0
    BY <1>5 DEF TopUp, Room
  <2>2. head = << >>
    BY <1>3, <2>1, SubSeqEmpty
  <2>3. SubSeq(x.data, 1, x.datalen) = << >>
    BY <1>5, SubSeqEmpty
  <2>4. x.state.in \o << >> = x.state.in
    BY Fields, ConcatEmptySeq
  <2>5. Absorbed(x) \o head = x.state.in
    BY <2>2, <2>3, <2>4, Zenon DEF Absorbed
  <2>6. TopUp(x, m).state.in = Absorbed(x) \o SubSeq(m, 1, Room(x))
    BY <1>3, <2>1, <2>5, Zenon
  <2>7. SubSeq(m, 1, Room(x)) \in Seq(S)
    BY <1>3
  <2>8. QED
    BY <1>2, <1>5, <2>1, <2>6, <2>7, Zenon
<1>6. CASE x.datalen # 0
  <2>1. Room(x) = BL - x.datalen
    BY <1>6 DEF Room
  <2>2. PICK full \in BlockOf(S) : full = OffsetCopy(x.data, x.datalen, head)
    BY Fields, BufferTypes, CellSet(S) DEF CellSet
  <2>3. full = SubSeq(x.data, 1, x.datalen) \o head
    <3>1. /\ x.datalen + Len(head) = BL /\ x.datalen + Len(head) <= BL
          /\ x.data \in BlockOf(S) /\ x.datalen \in Nat
      <4>1. Len(head) = BL - x.datalen
        BY <1>3, <2>1, Zenon
      <4>2. x.data \in BlockOf(S) /\ x.datalen \in Nat /\ BL \in Nat
        BY Fields
      <4>3. QED
        BY <4>1, <4>2
    <3>2. SubSeq(full, 1, BL) = SubSeq(x.data, 1, x.datalen) \o head
      <4>1. SubSeq(OffsetCopy(x.data, x.datalen, head), 1, x.datalen + Len(head))
              = SubSeq(x.data, 1, x.datalen) \o head
        BY <3>1, CopyAppends, Zenon
      <4>2. QED
        BY <2>2, <3>1, <4>1, Zenon
    <3>3. full \in Seq(S) /\ Len(full) = BL
      BY BlockIsSeq
    <3>4. SubSeq(full, 1, BL) = full
      BY <3>3, SubSeqFull
    <3>5. QED
      BY <3>2, <3>4, Zenon
  <2>4. /\ Transform(x.state, full, 1) = [iv |-> x.state.iv, in |-> x.state.in \o full]
        /\ Transform(x.state, full, 1) \in StateOf(S)
        /\ Len(x.state.in \o full) = x.bytelen + BL
    <3>1. x.state \in StateOf(S)
      BY Fields
    <3>2. AbsorbsOne(S, x.state, full)
      BY <3>1, OneBlock, Zenon
    <3>3. QED
      BY <1>1, <3>2, Zenon DEF AbsorbsOne
  <2>5. TopUp(x, m) = [data |-> full, bytelen |-> x.bytelen + BL,
                       state |-> Transform(x.state, full, 1), datalen |-> 0]
    BY <1>3, <1>6, <2>2, Zenon DEF TopUp
  <2>6. TopUp(x, m) \in ContextOf(S)
    <3>1. [data |-> full, bytelen |-> x.bytelen + BL,
           state |-> Transform(x.state, full, 1), datalen |-> 0] \in ContextOf(S)
      BY <2>4, Fields DEF ContextOf
    <3>2. QED
      BY <2>5, <3>1, Zenon
  <2>7. /\ TopUp(x, m).bytelen = x.bytelen + BL
        /\ TopUp(x, m).datalen = 0
        /\ TopUp(x, m).state.iv = x.state.iv
        /\ TopUp(x, m).state.in = x.state.in \o full
    BY <2>4, <2>5
  <2>8. Aligned(TopUp(x, m))
    <3>1. \E q \in 0..x.bytelen : x.bytelen = q * BL
      BY DEF Aligned
    <3>2. x.bytelen + BL = x.bytelen + 1 * BL /\ 1 \in Nat /\ x.bytelen \in Nat
      BY Fields
    <3>3. \E q \in 0..(x.bytelen + BL) : x.bytelen + BL = q * BL
      <4>1. \E q \in 0..(x.bytelen + 1 * BL) : x.bytelen + 1 * BL = q * BL
        BY <3>1, <3>2, MultipleGrows, Zenon
      <4>2. QED
        BY <3>2, <4>1, Zenon
    <3>4. \E q \in 0..TopUp(x, m).bytelen : TopUp(x, m).bytelen = q * BL
      BY <2>7, <3>3, Zenon
    <3>5. TopUp(x, m).bytelen = Len(TopUp(x, m).state.in)
      BY <2>4, <2>7, Zenon
    <3>6. TopUp(x, m).datalen < BL
      BY <2>7, Fields
    <3>7. QED
      BY <3>4, <3>5, <3>6, Zenon DEF Aligned
  <2>9. x.state.in \o full = Absorbed(x) \o head
    <3>1. head \in Seq(S) /\ x.state.in \in Seq(S)
      BY <1>3, Fields
    <3>2. (x.state.in \o SubSeq(x.data, 1, x.datalen)) \o head
            = x.state.in \o (SubSeq(x.data, 1, x.datalen) \o head)
      <4>1. Associates(x.state.in, SubSeq(x.data, 1, x.datalen), head)
        BY <1>4, <3>1, Assoc, Zenon
      <4>2. QED
        BY <4>1, Zenon DEF Associates
    <3>3. QED
      BY <2>3, <3>2, Zenon DEF Absorbed
  <2>10. TopUp(x, m).state.in = Absorbed(x) \o SubSeq(m, 1, Room(x))
    BY <1>3, <2>7, <2>9, Zenon
  <2>11. QED
    BY <1>2, <1>3, <2>6, <2>7, <2>8, <2>10, Zenon
<1>7. QED
  BY <1>5, <1>6

\* Update, whole blocks: what is compressed straight from the caller's array.
LEMMA TakeBlocksStep ==
  ASSUME NEW S, NEW x \in ContextOf(S), Aligned(x), x.datalen = 0,
         NEW m \in Seq(S), Len(m) < NBLK * BL
  PROVE  TookBlocks(S, x, m)
<1>1. Len(m) \in Nat /\ x.bytelen = Len(x.state.in)
  BY LenProperties DEF Aligned
<1>2. PICK n \in Nat : /\ n = Len(m) \div BL
                       /\ n * BL \in Nat /\ n * BL <= Len(m)
                       /\ Len(m) - n * BL < BL /\ n < NBLK
  BY <1>1, WholeBlocks, KernelAssumption
<1>3. /\ Transform(x.state, m, n) \in StateOf(S)
      /\ Transform(x.state, m, n) = [iv |-> x.state.iv, in |-> x.state.in \o SubSeq(m, 1, n * BL)]
      /\ SubSeq(m, 1, n * BL) \in Seq(S)
      /\ Len(SubSeq(m, 1, n * BL)) = n * BL
  <2>1. x.state \in StateOf(S) /\ n \in Nat
    BY Fields
  <2>2. Absorbs(S, x.state, m, n)
    BY <1>2, <2>1, TransformAbsorbs, Zenon
  <2>3. QED
    BY <2>2, Zenon DEF Absorbs
<1>4. TakeBlocks(x, m) = [data |-> x.data, bytelen |-> x.bytelen + n * BL,
                          state |-> Transform(x.state, m, n), datalen |-> x.datalen]
  BY <1>2, Zenon DEF TakeBlocks
<1>5. TakeBlocks(x, m) \in ContextOf(S)
  <2>1. [data |-> x.data, bytelen |-> x.bytelen + n * BL,
         state |-> Transform(x.state, m, n), datalen |-> x.datalen] \in ContextOf(S)
    BY <1>2, <1>3, Fields DEF ContextOf
  <2>2. QED
    BY <1>4, <2>1, Zenon
<1>6. /\ TakeBlocks(x, m).bytelen = x.bytelen + n * BL
      /\ TakeBlocks(x, m).datalen = 0
      /\ TakeBlocks(x, m).state.iv = x.state.iv
      /\ TakeBlocks(x, m).state.in = x.state.in \o SubSeq(m, 1, n * BL)
  <2>1. /\ TakeBlocks(x, m).bytelen = x.bytelen + n * BL
        /\ TakeBlocks(x, m).datalen = x.datalen
        /\ TakeBlocks(x, m).state = Transform(x.state, m, n)
    BY <1>2, Zenon DEF TakeBlocks
  <2>2. /\ Transform(x.state, m, n).iv = x.state.iv
        /\ Transform(x.state, m, n).in = x.state.in \o SubSeq(m, 1, n * BL)
    BY <1>3
  <2>3. QED
    BY <2>1, <2>2, Zenon
<1>7. Aligned(TakeBlocks(x, m))
  <2>1. Len(x.state.in \o SubSeq(m, 1, n * BL)) = x.bytelen + n * BL
    BY <1>1, <1>3, Fields, ConcatProperties
  <2>2. \E q \in 0..(x.bytelen + n * BL) : x.bytelen + n * BL = q * BL
    <3>1. x.bytelen \in Nat /\ \E q \in 0..x.bytelen : x.bytelen = q * BL
      BY Fields DEF Aligned
    <3>2. QED
      BY <3>1, MultipleGrows, Zenon
  <2>3. \E q \in 0..TakeBlocks(x, m).bytelen : TakeBlocks(x, m).bytelen = q * BL
    BY <1>6, <2>2, Zenon
  <2>4. TakeBlocks(x, m).bytelen = Len(TakeBlocks(x, m).state.in)
    BY <1>6, <2>1, Zenon
  <2>5. TakeBlocks(x, m).datalen < BL
    BY <1>6, Fields
  <2>6. QED
    BY <2>3, <2>4, <2>5, Zenon DEF Aligned
<1>8. QED
  BY <1>2, <1>3, <1>5, <1>6, <1>7, Zenon DEF TookBlocks

\* Update as a whole: the chunk joins what the context stands for.
LEMMA UpdatedStep ==
  ASSUME NEW S, CellSet(S), NEW x \in ContextOf(S), Aligned(x), NEW m \in Seq(S), Len(m) < NBLK * BL
  PROVE  /\ Updated(x, m) \in ContextOf(S)
         /\ Aligned(Updated(x, m))
         /\ Updated(x, m).state.iv = x.state.iv
         /\ Absorbed(Updated(x, m)) = Absorbed(x) \o m
<1>1. Len(m) \in Nat /\ x.datalen < BL
  BY LenProperties DEF Aligned
<1>2. CASE x.datalen > 0 /\ Room(x) > Len(m)
  <2>1. Updated(x, m) = Buffered(x, m)
    BY <1>2 DEF Updated
  <2>2. x.datalen + Len(m) < BL
    BY <1>1, <1>2, Fields DEF Room
  <2>3. QED
    BY <2>1, <2>2, BufferedStep
<1>3. CASE ~(x.datalen > 0 /\ Room(x) > Len(m))
  <2>1. Room(x) <= Len(m)
    BY <1>1, <1>3, Fields DEF Room
  <2> DEFINE y == TopUp(x, m)
             head == SubSeq(m, 1, Room(x))
             rest == SubSeq(m, Room(x) + 1, Len(m))
             k == (Len(rest) \div BL) * BL
             z == TakeBlocks(y, rest)
             front == SubSeq(rest, 1, k)
             tail == SubSeq(rest, k + 1, Len(rest))
  <2>2. /\ y \in ContextOf(S) /\ Aligned(y) /\ y.datalen = 0 /\ y.state.iv = x.state.iv
        /\ y.state.in = Absorbed(x) \o head
        /\ head \in Seq(S) /\ Room(x) \in Nat
    BY <2>1, TopUpStep
  <2>3. /\ rest \in Seq(S) /\ Len(rest) = Len(m) - Room(x) /\ Len(rest) \in Nat
        /\ Len(rest) < NBLK * BL
    <3>1. rest \in Seq(S) /\ Len(rest) = Len(m) - Room(x)
      BY <2>1, <2>2, Split, Zenon
    <3> HIDE DEF rest
    <3>2. NBLK * BL \in Int
      BY KernelAssumption, SizeAssumption
    <3>3. QED
      BY <1>1, <2>1, <2>2, <3>1, <3>2
  <2>4. m = head \o rest
    BY <2>1, <2>2, Split, Zenon
  <2> HIDE DEF y, head, rest
  <2>5. /\ z \in ContextOf(S) /\ Aligned(z) /\ z.datalen = 0 /\ z.state.iv = y.state.iv
        /\ z.state.in = y.state.in \o front
        /\ front \in Seq(S) /\ k \in Nat /\ k <= Len(rest) /\ Len(rest) - k < BL
    <3>1. TookBlocks(S, y, rest)
      BY <2>2, <2>3, TakeBlocksStep, Zenon
    <3>2. QED
      BY <3>1, Zenon DEF TookBlocks
  <2> HIDE DEF z, k
  <2>6. tail \in Seq(S) /\ Len(tail) = Len(rest) - k /\ rest = front \o tail
    BY <2>3, <2>5, Split, Zenon
  <2> HIDE DEF front, tail
  <2>7. Updated(x, m) = Buffered(z, tail)
    BY <1>3, Zenon DEF Updated, y, z, k, rest, tail
  <2>8. z.datalen + Len(tail) < BL
    BY <2>3, <2>5, <2>6
  <2>9. /\ Buffered(z, tail) \in ContextOf(S) /\ Aligned(Buffered(z, tail))
         /\ Buffered(z, tail).state.iv = z.state.iv
         /\ Absorbed(Buffered(z, tail)) = Absorbed(z) \o tail
    BY <2>5, <2>6, <2>8, BufferedStep
  <2>10. Absorbed(z) = z.state.in
    <3>1. SubSeq(z.data, 1, z.datalen) = << >>
      BY <2>5, SubSeqEmpty
    <3>2. z.state.in \o << >> = z.state.in
      BY <2>5, Fields, ConcatEmptySeq
    <3>3. QED
      BY <3>1, <3>2, Zenon DEF Absorbed
  <2>11. Absorbed(x) \in Seq(S)
    BY AbsorbedType
  <2>12. Absorbed(z) \o tail = Absorbed(x) \o m
    <3>1. Absorbed(z) \o tail = ((Absorbed(x) \o head) \o front) \o tail
      BY <2>2, <2>5, <2>10, Zenon
    <3>2. Absorbed(x) \o head \in Seq(S)
      BY <2>2, <2>11, ConcatProperties
    <3>3. ((Absorbed(x) \o head) \o front) \o tail = (Absorbed(x) \o head) \o (front \o tail)
      <4>1. Associates(Absorbed(x) \o head, front, tail)
        BY <2>5, <2>6, <3>2, Assoc, Zenon
      <4>2. QED
        BY <4>1, Zenon DEF Associates
    <3>4. (Absorbed(x) \o head) \o rest = Absorbed(x) \o (head \o rest)
      <4>1. Associates(Absorbed(x), head, rest)
        BY <2>2, <2>3, <2>11, Assoc, Zenon
      <4>2. QED
        BY <4>1, Zenon DEF Associates
    <3>5. QED
      BY <2>4, <2>6, <3>1, <3>3, <3>4, Zenon
  <2>13. QED
    BY <2>2, <2>5, <2>7, <2>9, <2>12, Zenon
<1>4. QED
  BY <1>2, <1>3

-----------------------------------------------------------------------------
\* Final: the last block, written over a buffer of any content, holds the
\* partial block, 0x80, zeros and the length.
LEMMA MarkedCells ==
  ASSUME NEW S, CellSet(S), NEW x \in ContextOf(S), x.datalen < BL
  PROVE  /\ Marked(x) \in BlockOf(S)
         /\ \A i \in 1..BL : Marked(x)[i] =
              IF i = x.datalen + 1 THEN Pad80 ELSE x.data[i]
<1>1. <<Pad80>> \in Seq(S) /\ Len(<<Pad80>>) = 1 /\ <<Pad80>>[1] = Pad80
  BY DEF CellSet
<1>2. x.data \in BlockOf(S) /\ x.datalen \in Nat /\ BL \in Nat /\ Len(x.data) = BL
  BY Fields, BlockIsSeq
<1>3. Marked(x) \in BlockOf(S)
  BY <1>1, <1>2, BufferTypes, CellSet(S) DEF Marked, CellSet
<1>4. Marked(x) = [i \in 1..BL |->
        IF x.datalen < i /\ i <= x.datalen + 1 THEN <<Pad80>>[i - x.datalen] ELSE x.data[i]]
  BY <1>1, <1>2 DEF Marked, OffsetCopy
<1>5. ASSUME NEW i \in 1..BL
      PROVE  Marked(x)[i] = IF i = x.datalen + 1 THEN Pad80 ELSE x.data[i]
  <2>1. (x.datalen < i /\ i <= x.datalen + 1) <=> i = x.datalen + 1
    BY <1>2
  <2>2. CASE i = x.datalen + 1
    BY <1>1, <1>2, <1>4, <2>1, <2>2
  <2>3. CASE i # x.datalen + 1
    BY <1>4, <2>1, <2>3
  <2>4. QED
    BY <2>2, <2>3
<1>6. QED
  BY <1>3, <1>5

\* Final, last step: the length goes into the last block.
LEMMA ClosingStep ==
  ASSUME NEW S, CellSet(S), NEW y \in ContextOf(S), NEW n \in Nat, n = y.bytelen + y.datalen
  PROVE  Closed(S, y, n)
<1>1. y.data \in BlockOf(S) /\ y.datalen \in Nat /\ y.state \in StateOf(S)
  BY Fields
<1>2. /\ StoreLength(y.data, n, BL) \in BlockOf(S)
      /\ \A i \in 1..BL : StoreLength(y.data, n, BL)[i] =
           IF i <= BL - LW THEN y.data[i] ELSE LengthCell(n, i - (BL - LW))
  BY <1>1, LengthCells
<1>3. PICK last \in BlockOf(S) : last = StoreLength(y.data, n, BL)
  BY <1>2
<1>4. /\ Transform(y.state, last, 1) = [iv |-> y.state.iv, in |-> y.state.in \o last]
      /\ Transform(y.state, last, 1) \in StateOf(S)
  BY <1>1, OneBlock DEF AbsorbsOne
<1>5. CloseMessage(y) = [data |-> last, bytelen |-> n,
                         state |-> Transform(y.state, last, 1), datalen |-> y.datalen]
  BY <1>3, Zenon DEF CloseMessage
<1>6. CloseMessage(y) \in ContextOf(S)
  <2>1. [data |-> last, bytelen |-> n, state |-> Transform(y.state, last, 1),
         datalen |-> y.datalen] \in ContextOf(S)
    BY <1>1, <1>4 DEF ContextOf
  <2>2. QED
    BY <1>5, <2>1, Zenon
<1>7. /\ CloseMessage(y).state.iv = y.state.iv
      /\ CloseMessage(y).state.in = y.state.in \o last
  <2>1. CloseMessage(y).state = Transform(y.state, last, 1)
    BY Zenon, <1>3 DEF CloseMessage
  <2>2. /\ Transform(y.state, last, 1).iv = y.state.iv
        /\ Transform(y.state, last, 1).in = y.state.in \o last
    BY <1>4
  <2>3. QED
    BY <2>1, <2>2, Zenon
<1>8. QED
  BY <1>2, <1>3, <1>6, <1>7, Zenon DEF Closed

\* Final as a whole: what has been compressed is the padding of the bytes the
\* context stood for.
LEMMA FinishedStep ==
  ASSUME NEW S, CellSet(S), NEW x \in ContextOf(S), Aligned(x)
  PROVE  /\ Finished(x) \in ContextOf(S)
         /\ Finished(x).state.iv = x.state.iv
         /\ IsPadded(Absorbed(x), Finished(x).state.in)
<1> DEFINE m == Absorbed(x)
           y == ClosePartial(x)
           total == x.bytelen + x.datalen
<1>1. /\ BL \in Nat /\ RES \in Nat /\ LW \in Nat /\ 1 <= LW /\ LW <= RES /\ RES < BL
      /\ x.datalen \in Nat /\ x.bytelen \in Nat /\ x.datalen < BL
      /\ x.bytelen = Len(x.state.in) /\ x.state.in \in Seq(S)
      /\ x.state \in StateOf(S) /\ x.data \in BlockOf(S)
      /\ \E q \in 0..x.bytelen : x.bytelen = q * BL
  BY SizeAssumption, Fields DEF Aligned
<1>2. m \in Seq(S) /\ Len(m) = total /\ Len(m) = Len(x.state.in) + x.datalen
  BY <1>1, AbsorbedType
<1>3. /\ \A i \in 1..Len(x.state.in) : m[i] = x.state.in[i]
      /\ \A i \in 1..x.datalen : m[Len(x.state.in) + i] = x.data[i]
  <2>1. PICK s \in Seq(S) : /\ s = SubSeq(x.data, 1, x.datalen) /\ Len(s) = x.datalen
                               /\ \A i \in 1..x.datalen : s[i] = x.data[i]
    <3>1. x.datalen <= BL /\ x.data \in BlockOf(S) /\ x.datalen \in Nat
      BY <1>1
    <3>2. QED
      BY <3>1, PrefixOfBlock, Zenon
  <2>2. m = x.state.in \o s
    BY <2>1, Zenon DEF Absorbed
  <2> HIDE DEF m
  <2>3. PICK c \in Seq(S) : c = x.state.in
    BY <1>1
  <2>4. \A i \in 1..(Len(c) + x.datalen) : (c \o s)[i] = IF i <= Len(c) THEN c[i] ELSE s[i - Len(c)]
    BY <2>1, ConcatProperties
  <2>5. m = c \o s /\ Len(c) \in Nat
    BY <2>2, <2>3, LenProperties, Zenon
  <2>6. ASSUME NEW i \in 1..Len(c) PROVE m[i] = c[i]
    <3>1. i \in 1..(Len(c) + x.datalen) /\ i <= Len(c)
      BY <1>1, <2>5
    <3>2. QED
      BY <2>4, <2>5, <3>1, Zenon
  <2>7. ASSUME NEW i \in 1..x.datalen PROVE m[Len(c) + i] = x.data[i]
    <3>1. /\ Len(c) + i \in 1..(Len(c) + x.datalen)
          /\ ~(Len(c) + i <= Len(c)) /\ (Len(c) + i) - Len(c) = i
      BY <1>1, <2>5
    <3>2. m[Len(c) + i] = s[(Len(c) + i) - Len(c)]
      BY <2>4, <2>5, <3>1, Zenon
    <3>3. QED
      BY <2>1, <3>1, <3>2, Zenon
  <2>8. QED
    BY <2>3, <2>6, <2>7, Zenon
<1> HIDE DEF m
<1>4. /\ Marked(x) \in BlockOf(S)
      /\ \A i \in 1..BL : Marked(x)[i] = IF i = x.datalen + 1 THEN Pad80 ELSE x.data[i]
  BY <1>1, MarkedCells
<1>5. CASE x.datalen < BL - RES
  <2>1. PICK e \in BlockOf(S) :
          /\ e = OffsetFill(Marked(x), x.datalen + 1, Zero, BL - LW)
          /\ \A i \in 1..BL : e[i] =
               IF x.datalen + 1 < i /\ i <= BL - LW THEN Zero ELSE Marked(x)[i]
    <3>1. x.datalen + 1 \in Nat /\ BL - LW \in Nat
      BY <1>1
    <3>2. PICK d \in BlockOf(S) : d = Marked(x)
      BY <1>4, Zenon
    <3>3. Filled(S, d, x.datalen + 1, BL - LW)
      BY <3>1, FillCells, Zenon
    <3>4. QED
      BY <3>2, <3>3, Zenon DEF Filled
  <2>2. y = [data |-> e, bytelen |-> x.bytelen, state |-> x.state, datalen |-> x.datalen]
    BY <1>5, <2>1, Zenon DEF ClosePartial
  <2>3. y \in ContextOf(S)
    <3>1. [data |-> e, bytelen |-> x.bytelen, state |-> x.state, datalen |-> x.datalen]
            \in ContextOf(S)
      BY <1>1 DEF ContextOf
    <3>2. QED
      BY <2>2, <3>1, Zenon
  <2>4. y.data = e /\ y.bytelen = x.bytelen /\ y.datalen = x.datalen /\ y.state = x.state
    <3>1. y.data = e
      BY <2>2
    <3>2. y.bytelen = x.bytelen
      BY <2>2
    <3>3. y.datalen = x.datalen
      BY <2>2
    <3>4. y.state = x.state
      BY <2>2
    <3>5. QED
      BY <3>1, <3>2, <3>3, <3>4
  <2> HIDE DEF y
  <2>5. total \in Nat /\ total = y.bytelen + y.datalen
    BY <1>1, <2>4
  <2>6. PICK last \in BlockOf(S) :
          /\ CloseMessage(y) \in ContextOf(S)
          /\ CloseMessage(y).state.iv = y.state.iv
          /\ CloseMessage(y).state.in = y.state.in \o last
          /\ \A i \in 1..BL : last[i] =
               IF i <= BL - LW THEN y.data[i] ELSE LengthCell(total, i - (BL - LW))
    <3>1. Closed(S, y, total)
      BY <2>3, <2>5, ClosingStep, Zenon
    <3>2. QED
      BY <3>1, Zenon DEF Closed
  <2>7. ASSUME NEW i \in 1..BL
        PROVE  last[i] = IF i <= x.datalen THEN m[Len(x.state.in) + i]
                         ELSE IF i = x.datalen + 1 THEN Pad80
                         ELSE IF i <= BL - LW THEN Zero
                         ELSE LengthCell(Len(m), i - (BL - LW))
    <3>1. last[i] = IF i <= BL - LW THEN e[i] ELSE LengthCell(Len(m), i - (BL - LW))
      BY <1>2, <2>4, <2>6
    <3>2. CASE i <= x.datalen
      <4>1. i <= BL - LW /\ ~(x.datalen + 1 < i) /\ i # x.datalen + 1 /\ i \in 1..x.datalen
        BY <1>1, <1>5, <3>2
      <4>2. last[i] = x.data[i]
        BY <1>4, <2>1, <3>1, <4>1
      <4>3. QED
        BY <1>3, <3>2, <4>1, <4>2
    <3>3. CASE i = x.datalen + 1
      <4>1. i <= BL - LW /\ ~(x.datalen + 1 < i) /\ ~(i <= x.datalen)
        BY <1>1, <1>5, <3>3
      <4>2. QED
        BY <1>4, <2>1, <3>1, <3>3, <4>1
    <3>4. CASE i > x.datalen + 1
      <4>1. ~(i <= x.datalen) /\ i # x.datalen + 1 /\ x.datalen + 1 < i
        BY <1>1, <3>4
      <4>2. QED
        BY <2>1, <3>1, <4>1
    <3>5. QED
      BY <1>1, <3>2, <3>3, <3>4
  <2>8. IsPadded(m, x.state.in \o last)
    BY <1>1, <1>2, <1>3, <1>5, <2>7, PaddedOne
  <2>9. QED
    BY <2>4, <2>6, <2>8, Zenon DEF Finished, y, m
<1>6. CASE ~(x.datalen < BL - RES)
  <2>1. PICK full \in BlockOf(S) :
          /\ full = OffsetFill(Marked(x), x.datalen + 1, Zero, BL)
          /\ \A i \in 1..BL : full[i] =
               IF x.datalen + 1 < i /\ i <= BL THEN Zero ELSE Marked(x)[i]
    <3>1. x.datalen + 1 \in Nat /\ BL \in Nat
      BY <1>1
    <3>2. Filled(S, Marked(x), x.datalen + 1, BL)
      BY <1>4, <3>1, FillCells, Zenon
    <3>3. QED
      BY <3>2, Zenon DEF Filled
  <2>2. PICK e \in BlockOf(S) :
          /\ e = OffsetFill(full, 0, Zero, BL - LW)
          /\ \A i \in 1..BL : e[i] = IF 0 < i /\ i <= BL - LW THEN Zero ELSE full[i]
    <3>1. 0 \in Nat /\ BL - LW \in Nat
      BY <1>1
    <3>2. QED
      BY <3>1, FillCells DEF Filled
  <2>3. PICK st \in StateOf(S) : st = Transform(x.state, full, 1)
                            /\ st = [iv |-> x.state.iv, in |-> x.state.in \o full]
    BY <1>1, OneBlock DEF AbsorbsOne
  <2>4. y = [data |-> e, bytelen |-> x.bytelen, state |-> st, datalen |-> x.datalen]
    BY <1>6, <2>1, <2>2, <2>3, Zenon DEF ClosePartial
  <2>5. y \in ContextOf(S)
    <3>1. [data |-> e, bytelen |-> x.bytelen, state |-> st, datalen |-> x.datalen]
            \in ContextOf(S)
      BY <1>1 DEF ContextOf
    <3>2. QED
      BY <2>4, <3>1, Zenon
  <2>6. y.data = e /\ y.bytelen = x.bytelen /\ y.datalen = x.datalen /\ y.state = st
    <3>1. y.data = e
      BY <2>4
    <3>2. y.bytelen = x.bytelen
      BY <2>4
    <3>3. y.datalen = x.datalen
      BY <2>4
    <3>4. y.state = st
      BY <2>4
    <3>5. QED
      BY <3>1, <3>2, <3>3, <3>4
  <2>7. st.iv = x.state.iv /\ st.in = x.state.in \o full
    BY <2>3
  <2> HIDE DEF y
  <2>8. total \in Nat /\ total = y.bytelen + y.datalen
    BY <1>1, <2>6
  <2>9. PICK last \in BlockOf(S) :
          /\ CloseMessage(y) \in ContextOf(S)
          /\ CloseMessage(y).state.iv = y.state.iv
          /\ CloseMessage(y).state.in = y.state.in \o last
          /\ \A i \in 1..BL : last[i] =
               IF i <= BL - LW THEN y.data[i] ELSE LengthCell(total, i - (BL - LW))
    <3>1. Closed(S, y, total)
      BY <2>5, <2>8, ClosingStep, Zenon
    <3>2. QED
      BY <3>1, Zenon DEF Closed
  <2>10. \A i \in 1..BL : last[i] =
           IF i <= BL - LW THEN Zero ELSE LengthCell(Len(m), i - (BL - LW))
    BY <1>2, <2>2, <2>6, <2>9
  <2>11. ASSUME NEW i \in 1..BL
         PROVE  full[i] = IF i <= x.datalen THEN m[Len(x.state.in) + i]
                          ELSE IF i = x.datalen + 1 THEN Pad80 ELSE Zero
    <3>1. CASE i <= x.datalen
      <4>1. ~(x.datalen + 1 < i) /\ i # x.datalen + 1 /\ i \in 1..x.datalen
        BY <1>1, <3>1
      <4>2. full[i] = x.data[i]
        BY <1>4, <2>1, <4>1
      <4>3. QED
        BY <1>3, <3>1, <4>1, <4>2
    <3>2. CASE i = x.datalen + 1
      <4>1. ~(x.datalen + 1 < i) /\ ~(i <= x.datalen)
        BY <1>1, <3>2
      <4>2. QED
        BY <1>4, <2>1, <3>2, <4>1
    <3>3. CASE i > x.datalen + 1
      <4>1. ~(i <= x.datalen) /\ i # x.datalen + 1 /\ x.datalen + 1 < i
        BY <1>1, <3>3
      <4>2. QED
        BY <2>1, <4>1
    <3>4. QED
      BY <1>1, <3>1, <3>2, <3>3
  <2>12. IsPadded(m, (x.state.in \o full) \o last)
    <3>1. /\ x.datalen >= BL - RES
          /\ \E q \in 0..Len(x.state.in) : Len(x.state.in) = q * BL
      <4>1. x.datalen >= BL - RES
        BY <1>1, <1>6
      <4>2. \E q \in 0..Len(x.state.in) : Len(x.state.in) = q * BL
        BY <1>1, Zenon
      <4>3. QED
        BY <4>1, <4>2
    <3>2. QED
      BY <1>1, <1>2, <1>3, <2>10, <2>11, <3>1, PaddedTwo
  <2>13. QED
    BY <2>6, <2>7, <2>9, <2>12, Zenon DEF Finished, y, m
<1>7. QED
  BY <1>5, <1>6 DEF m

-----------------------------------------------------------------------------
\* The other calls, one context at a time.
LEMMA FreshStep ==
  ASSUME NEW S, NEW x \in ContextOf(S), NEW iv \in IV
  PROVE  /\ Fresh(x, iv) \in ContextOf(S)
         /\ Aligned(Fresh(x, iv))
         /\ Fresh(x, iv).datalen = 0
         /\ Fresh(x, iv).state.iv = iv
         /\ Absorbed(Fresh(x, iv)) = << >>
<1>1. [iv |-> iv, in |-> << >>] \in StateOf(S)
  BY DEF StateOf
<1>2. PICK st \in StateOf(S) : st = [iv |-> iv, in |-> << >>] /\ st.in = << >> /\ st.iv = iv
  BY <1>1
<1>3. Fresh(x, iv) = [data |-> x.data, bytelen |-> 0, state |-> st, datalen |-> 0]
  BY <1>2, Zenon DEF Fresh
<1>4. Fresh(x, iv) \in ContextOf(S)
  <2>1. [data |-> x.data, bytelen |-> 0, state |-> st, datalen |-> 0] \in ContextOf(S)
    BY Fields DEF ContextOf
  <2>2. QED
    BY <1>3, <2>1, Zenon
<1>5. /\ Fresh(x, iv).bytelen = 0 /\ Fresh(x, iv).datalen = 0
      /\ Fresh(x, iv).state = st /\ Fresh(x, iv).data = x.data
  BY <1>3
<1>6. Aligned(Fresh(x, iv))
  <2>1. Len(<< >>) = 0 /\ 0 \in 0..0 /\ 0 = 0 * BL /\ 0 < BL
    BY SizeAssumption
  <2>2. QED
    BY <1>2, <1>5, <2>1, Zenon DEF Aligned
<1>7. Absorbed(Fresh(x, iv)) = << >>
  <2>1. SubSeq(x.data, 1, 0) = << >>
    BY SubSeqEmpty
  <2>2. << >> \o << >> = << >>
    BY ConcatEmptySeq, << >> \in Seq(S)
  <2>3. QED
    BY <1>2, <1>5, <2>1, <2>2, Zenon DEF Absorbed
<1>8. QED
  BY <1>2, <1>4, <1>5, <1>6, <1>7, Zenon

LEMMA ClonedStep ==
  ASSUME NEW S, NEW dst \in ContextOf(S), NEW src \in ContextOf(S)
  PROVE  /\ Cloned(dst, src) \in ContextOf(S)
         /\ Aligned(src) => Aligned(Cloned(dst, src))
         /\ Cloned(dst, src).datalen = src.datalen
         /\ Cloned(dst, src).state = src.state
         /\ Absorbed(Cloned(dst, src)) = Absorbed(src)
<1>1. CASE src.datalen # 0
  BY <1>1 DEF Cloned
<1>2. CASE src.datalen = 0
  <2>1. Cloned(dst, src) = [data |-> dst.data, bytelen |-> src.bytelen,
                            state |-> src.state, datalen |-> src.datalen]
    BY <1>2 DEF Cloned
  <2>2. Cloned(dst, src) \in ContextOf(S)
    <3>1. [data |-> dst.data, bytelen |-> src.bytelen,
           state |-> src.state, datalen |-> src.datalen] \in ContextOf(S)
      BY Fields DEF ContextOf
    <3>2. QED
      BY <2>1, <3>1, Zenon
  <2>3. /\ Cloned(dst, src).data = dst.data /\ Cloned(dst, src).bytelen = src.bytelen
        /\ Cloned(dst, src).state = src.state /\ Cloned(dst, src).datalen = src.datalen
    BY <2>1
  <2>4. SubSeq(dst.data, 1, 0) = << >> /\ SubSeq(src.data, 1, 0) = << >>
    BY SubSeqEmpty
  <2>5. QED
    BY <1>2, <2>2, <2>3, <2>4, Zenon DEF Aligned, Absorbed
<1>3. QED
  BY <1>1, <1>2

LEMMA ExtendedStep ==
  ASSUME NEW S, NEW x \in ContextOf(S), x.datalen = 0, NEW st \in StateOf(S),
         \E q \in 0..Len(st.in) : Len(st.in) = q * BL
  PROVE  LET y == Extended(x, st, Len(st.in) \div BL) IN
         /\ y \in ContextOf(S) /\ Aligned(y)
         /\ y.state = st
         /\ Absorbed(y) = st.in
<1>1. Len(st.in) \in Nat /\ st.in \in Seq(S)
  BY LenProperties DEF StateOf
<1>2. PICK n \in Nat : n = Len(st.in) \div BL /\ BL * n = Len(st.in)
  <2>1. PICK q \in 0..Len(st.in) : Len(st.in) = q * BL
    OBVIOUS
  <2>2. BL \in Nat /\ BL > 0 /\ q \in Nat
    BY <1>1, SizeAssumption
  <2>3. Len(st.in) \div BL = q
    <3>1. /\ Len(st.in) \div BL \in Nat
          /\ (Len(st.in) \div BL) * BL <= Len(st.in)
          /\ Len(st.in) - (Len(st.in) \div BL) * BL < BL
      BY <1>1, WholeBlocks
    <3> DEFINE k == Len(st.in) \div BL
    <3>2. k \in Nat /\ k * BL <= q * BL /\ q * BL - k * BL < BL
      BY <2>1, <3>1, Zenon
    <3> HIDE DEF k
    <3>3. k = q
      BY <2>2, <3>2
    <3>4. QED
      BY <3>3 DEF k
  <2>4. BL * q = q * BL
    BY <2>2
  <2>5. QED
    BY <2>1, <2>2, <2>3, <2>4, Zenon
<1>3. Extended(x, st, n) = [data |-> x.data, bytelen |-> BL * n, state |-> st,
                            datalen |-> x.datalen]
  BY DEF Extended
<1>4. Extended(x, st, n) \in ContextOf(S)
  <2>1. BL * n \in Nat
    BY <1>1, <1>2
  <2>2. [data |-> x.data, bytelen |-> BL * n, state |-> st,
         datalen |-> x.datalen] \in ContextOf(S)
    BY <2>1, Fields DEF ContextOf
  <2>3. QED
    BY <1>3, <2>2, Zenon
<1>5. /\ Extended(x, st, n).data = x.data /\ Extended(x, st, n).bytelen = BL * n
      /\ Extended(x, st, n).state = st /\ Extended(x, st, n).datalen = 0
  BY <1>3
<1>6. Aligned(Extended(x, st, n))
  <2>1. 0 < BL
    BY SizeAssumption
  <2>2. QED
    BY <1>2, <1>5, <2>1, Zenon DEF Aligned
<1>7. Absorbed(Extended(x, st, n)) = st.in
  <2>1. SubSeq(x.data, 1, 0) = << >>
    BY SubSeqEmpty
  <2>2. st.in \o << >> = st.in
    BY <1>1, ConcatEmptySeq
  <2>3. QED
    BY <1>5, <2>1, <2>2, Zenon DEF Absorbed
<1>8. QED
  BY <1>2, <1>4, <1>5, <1>6, <1>7, Zenon
=============================================================================
