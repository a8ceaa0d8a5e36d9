----------------------------- MODULE MDBuffers -----------------------------
(***************************************************************************)
(* What every llhash template works on: byte buffers, the chaining state   *)
(* of a Merkle-Damgaard hash, and the padding of its last block.           *)
(*                                                                         *)
(* A buffer is a sequence of cells.  A cell is a message byte, or one of   *)
(* the bytes the padding writes; two cells of different origin are         *)
(* different values, so a stale or misplaced byte always shows.  The       *)
(* compression function is abstracted to what it has absorbed: a chaining  *)
(* state is the initial value together with the cells compressed into it,  *)
(* so that two states are equal only if the same cells were absorbed in    *)
(* the same order.                                                         *)
(***************************************************************************)
EXTENDS Integers, Sequences

CONSTANTS
  BL,      \* HASH_BLOCK_LENGTH
  RES,     \* HASH_WORD_SIZE/4: bytes the padding reserves for the length
  LW,      \* bytes STOR64DE writes (8 in the code)
  NBLK,    \* block counts a kernel can tell apart
  Byte,    \* message bytes
  IV,      \* initial values a context can start from
  Zero,    \* the byte 0 written by a fill
  Pad80,   \* the byte 0x80
  Junk     \* the byte found in memory nobody has written

ASSUME SizeAssumption ==
  /\ BL \in Nat /\ RES \in Nat /\ LW \in Nat
  /\ 1 <= LW /\ LW <= RES /\ RES < BL

\* Every call passes the kernel at least the two blocks the padding may take.
ASSUME KernelAssumption == NBLK \in Nat /\ NBLK > 2

\* k-th byte of the 64-bit message length n, as STOR64DE stores it.
LengthCell(n, k) == <<n, k>>

Cell == Byte \cup {Zero, Pad80, Junk} \cup (Nat \X Nat)

Block == [1..BL -> Cell]

State == [iv : IV, in : Seq(Cell)]

-----------------------------------------------------------------------------
\* llh_memcpy(d + off, s, Len(s))
OffsetCopy(d, off, s) ==
  [i \in 1..Len(d) |-> IF off < i /\ i <= off + Len(s) THEN s[i - off] ELSE d[i]]

\* llh_memset(d + off, v, end - off)
OffsetFill(d, off, v, end) ==
  [i \in 1..Len(d) |-> IF off < i /\ i <= end THEN v ELSE d[i]]

\* STOR64DE(d + end - LW, n * 8)
StoreLength(d, n, end) ==
  [i \in 1..Len(d) |->
     IF end - LW < i /\ i <= end THEN LengthCell(n, i - (end - LW)) ELSE d[i]]

\* The kernel compresses nblk blocks of d; it counts them modulo NBLK.
Transform(st, d, nblk) ==
  [iv |-> st.iv, in |-> st.in \o SubSeq(d, 1, (nblk % NBLK) * BL)]

-----------------------------------------------------------------------------
\* p is message m followed by its Merkle-Damgaard padding: 0x80, the least
\* number of zeros that leaves room for the length, and the length.
IsPadded(m, p) ==
  /\ \E q \in 0..Len(p) : Len(p) = q * BL
  /\ Len(p) >= Len(m) + 1 + RES
  /\ Len(p) < Len(m) + 1 + RES + BL
  /\ \A i \in 1..Len(p) :
       p[i] = IF i <= Len(m) THEN m[i]
              ELSE IF i = Len(m) + 1 THEN Pad80
              ELSE IF i <= Len(p) - LW THEN Zero
              ELSE LengthCell(Len(m), i - (Len(p) - LW))
=============================================================================
