------------------------------ MODULE HashOps ------------------------------
(***************************************************************************)
(* What the functions of src/md/hash.c.in do to one HASH_CTX structure.    *)
(* HashContext calls them on the structures of a caller, Hmac on the first *)
(* part of an HMAC_CTX, which hmac.c.in casts to a HASH_CTX.               *)
(***************************************************************************)
EXTENDS MDBuffers

Context == [data : Block, bytelen : Nat, state : State, datalen : Nat]

\* The bytes a context stands for: compressed ones, then buffered ones.
Absorbed(x) == x.state.in \o SubSeq(x.data, 1, x.datalen)

\* Between calls a started context holds less than a block, and bytelen counts
\* whole compressed blocks: Final relies on both to place 0x80 and the length,
\* and Update to fill the partial block without overrunning it.
Aligned(x) ==
  /\ x.datalen < BL
  /\ x.bytelen = Len(x.state.in)
  /\ \E q \in 0..x.bytelen : x.bytelen = q * BL

-----------------------------------------------------------------------------
\* Definitions marked "slip" are deliberate errors, one each.  No action uses
\* them: substituted for the definition they precede, they show which property
\* notices that error.

\* slip: Init leaves datalen as it was.
FreshKeepsDatalen(x, iv) ==
  [data |-> x.data, bytelen |-> 0, state |-> [iv |-> iv, in |-> <<>>],
   datalen |-> x.datalen]

\* HASH(Init) and HASH(Init_IV): data keeps whatever it held.
Fresh(x, iv) ==
  [data |-> x.data, bytelen |-> 0, state |-> [iv |-> iv, in |-> <<>>],
   datalen |-> 0]

\* HASH(Update), first half: fill and compress the partial block.
Room(x) == IF x.datalen = 0 THEN 0 ELSE BL - x.datalen

\* slip: the topped-up block is not counted.
TopUpUncounted(x, m) ==
  IF x.datalen = 0 THEN x
  ELSE LET full == OffsetCopy(x.data, x.datalen, SubSeq(m, 1, Room(x)))
       IN [data |-> full, bytelen |-> x.bytelen,
           state |-> Transform(x.state, full, 1), datalen |-> 0]

TopUp(x, m) ==
  IF x.datalen = 0 THEN x
  ELSE LET full == OffsetCopy(x.data, x.datalen, SubSeq(m, 1, Room(x)))
       IN [data |-> full, bytelen |-> x.bytelen + BL,
           state |-> Transform(x.state, full, 1), datalen |-> 0]

\* HASH(Update), second half: compress whole blocks, keep the rest.
TakeBlocks(x, m) ==
  LET n == Len(m) \div BL
  IN [data |-> x.data, bytelen |-> x.bytelen + n * BL,
      state |-> Transform(x.state, m, n), datalen |-> x.datalen]

\* slip: the length is subtracted.
BufferedBackwards(x, m) ==
  [data |-> OffsetCopy(x.data, x.datalen, m), bytelen |-> x.bytelen,
   state |-> x.state, datalen |-> x.datalen - Len(m)]

\* llh_memcpy into data behind the bytes already there.
Buffered(x, m) ==
  [data |-> OffsetCopy(x.data, x.datalen, m), bytelen |-> x.bytelen,
   state |-> x.state, datalen |-> x.datalen + Len(m)]

Updated(x, m) ==
  IF x.datalen > 0 /\ Room(x) > Len(m) THEN Buffered(x, m)
  ELSE LET rest == SubSeq(m, Room(x) + 1, Len(m))
           tail == SubSeq(rest, (Len(rest) \div BL) * BL + 1, Len(rest))
       IN Buffered(TakeBlocks(TopUp(x, m), rest), tail)

\* HASH(Final): the block or blocks that close the message.
Marked(x) == OffsetCopy(x.data, x.datalen, <<Pad80>>)

\* slip: 0x80 and the length share a cell when exactly the reserve is left.
ClosePartialTight(x) ==
  IF x.datalen <= BL - RES
  THEN [data |-> OffsetFill(Marked(x), x.datalen + 1, Zero, BL - LW),
        bytelen |-> x.bytelen, state |-> x.state, datalen |-> x.datalen]
  ELSE LET full == OffsetFill(Marked(x), x.datalen + 1, Zero, BL)
       IN [data |-> OffsetFill(full, 0, Zero, BL - LW), bytelen |-> x.bytelen,
           state |-> Transform(x.state, full, 1), datalen |-> x.datalen]

ClosePartial(x) ==
  IF x.datalen < BL - RES
  THEN [data |-> OffsetFill(Marked(x), x.datalen + 1, Zero, BL - LW),
        bytelen |-> x.bytelen, state |-> x.state, datalen |-> x.datalen]
  ELSE LET full == OffsetFill(Marked(x), x.datalen + 1, Zero, BL)
       IN [data |-> OffsetFill(full, 0, Zero, BL - LW), bytelen |-> x.bytelen,
           state |-> Transform(x.state, full, 1), datalen |-> x.datalen]

CloseMessage(x) ==
  LET last == StoreLength(x.data, x.bytelen + x.datalen, BL)
  IN [data |-> last, bytelen |-> x.bytelen + x.datalen,
      state |-> Transform(x.state, last, 1), datalen |-> x.datalen]

Finished(x) == CloseMessage(ClosePartial(x))

\* slip: the copy of the tail starts behind bytelen.
ClonedShort(dst, src) ==
  IF src.datalen # 0 THEN src
  ELSE [data |-> dst.data, bytelen |-> dst.bytelen, state |-> src.state,
        datalen |-> src.datalen]

\* HASH(Clone) skips data when the source buffers nothing.
Cloned(dst, src) ==
  IF src.datalen # 0 THEN src
  ELSE [data |-> dst.data, bytelen |-> src.bytelen, state |-> src.state,
        datalen |-> src.datalen]

\* HASH(Extend): datalen and data are left as they are.
Extended(x, digest, nblk) ==
  [data |-> x.data, bytelen |-> BL * nblk, state |-> digest, datalen |-> x.datalen]
=============================================================================
