-------------------------------- MODULE Hmac --------------------------------
(***************************************************************************)
(* The HMAC of src/md/hmac.c.in: an HMAC_CTX is a HASH_CTX, which the code *)
(* casts it to, followed by the blocks of the outer hash.  Those hold, in  *)
(* place, the masked key, the inner digest and the padding, all as words   *)
(* in the machine's byte order, ready for the kernel that swaps nothing.   *)
(* phase, keyed and fed are the caller's record of its calls.              *)
(***************************************************************************)
EXTENDS HashOps

CONSTANTS
  WB,         \* HASH_WORD_BYTES
  DL,         \* HASH_DIGEST_LENGTH
  SL,         \* HASH_STATE_BYTES, more than DL for a truncated hash
  HashEndian, \* HASH_ENDIAN, the order of the bytes in its words
  Orders,     \* whether the machines it is built for have another order
  StdIV, Ctx, Keys, Chunks,
  Inner, Outer, Digested, NoDigest,
  MaxBytes    \* bound: bytes fed to a context

ASSUME HmacAssumption ==
  /\ WB \in Nat \ {0} /\ DL \in Nat \ {0} /\ SL \in Nat
  /\ BL % WB = 0 /\ DL % WB = 0 /\ SL % WB = 0 /\ LW % WB = 0
  /\ DL <= SL /\ SL <= BL /\ DL < BL
  /\ LW \in {WB, 2 * WB}
  /\ HashEndian \in {"big", "little"} /\ Orders \subseteq BOOLEAN
  /\ StdIV \in IV
  /\ Keys \subseteq Seq(Byte) /\ Chunks \subseteq Seq(Byte)
  /\ MaxBytes \in Nat

\* The outer hash takes up to three blocks.
ASSUME OuterAssumption == NBLK > 3

VARIABLES
  swapped,    \* whether HASH_ENDIAN differs from the machine's order
  ctx,        \* the HASH_CTX part of the structures
  hmac,       \* and the blocks behind it
  phase, keyed, fed

vars == <<swapped, ctx, hmac, phase, keyed, fed>>

Phases == {"raw", "new", "open", "done", "cleared"}

Open(c) == phase[c] \in {"new", "open"}

\* Semifinal leaves the HMAC in the context; Final serializes it from there.
Mac == [c \in Ctx |-> IF phase[c] = "done" THEN ctx[c].state ELSE NoDigest]

Ref == INSTANCE HmacAbs WITH mac <- Mac

\* HMAC_OUTER_BLOCKS
OuterBlocks == IF (BL + DL) % BL < BL - RES THEN 2 ELSE 3
OuterEnd == OuterBlocks * BL
ILen == BL + DL

-----------------------------------------------------------------------------
\* Where the i-th byte of a buffer is once its words are swapped.
SwapAt(i) == IF swapped THEN ((i - 1) \div WB) * WB + WB - ((i - 1) % WB) ELSE i

\* blockDetoh
Flip(d) == [i \in DOMAIN d |-> d[SwapAt(i)]]

\* HASH(Native): its words are in the machine's order already.
Native(st, d, nblk) == Transform(st, Flip(d), nblk)

\* The chaining state as it is in memory.
InMemory(st) == [i \in 1..SL |-> Ref!DigestCell(st, SwapAt(i))]

\* The two masks: 0x36, and 0x6a over it, which makes 0x5c.
Masked(h, n) == [i \in DOMAIN h |-> IF i <= n THEN <<Inner, h[i]>> ELSE h[i]]
Remasked(h) == [i \in DOMAIN h |-> IF i <= BL THEN <<Outer, h[i][2]>> ELSE h[i]]

Start == [iv |-> StdIV, in |-> <<>>]

\* A long key is hashed in place, in data and at the start of hmac, by the
\* statements of HASH(Final) over again.
HashKey(x, k) ==
  LET nblk == Len(k) \div BL
      rest == SubSeq(k, nblk * BL + 1, Len(k))
  IN Finished([data |-> OffsetCopy(x.data, 0, rest), bytelen |-> nblk * BL,
               state |-> Transform(Start, k, nblk), datalen |-> Len(rest)])

\* slip: the mask ends with the state, not with the digest.
LongKeyWide(h, st) ==
  OffsetFill(Masked(OffsetCopy(h, 0, InMemory(st)), SL), SL, <<Inner, Zero>>, BL)

LongKey(h, st) ==
  OffsetFill(Masked(OffsetCopy(h, 0, InMemory(st)), DL), DL, <<Inner, Zero>>, BL)

ShortKey(h, k) ==
  LET masked == OffsetFill(Masked(OffsetCopy(h, 0, k), Len(k)), Len(k), <<Inner, Zero>>, BL)
  IN OffsetCopy(h, 0, Flip(SubSeq(masked, 1, BL)))

\* STOR64H, or STOR32H of the high half of the length and then of the low one:
\* each word is in the machine's order, the two in that of a big-endian hash.
LengthAt(k) ==
  SwapAt(IF swapped /\ HashEndian = "little" THEN ((k - 1 + WB) % LW) + 1 ELSE k)

\* slip: 0x80 goes where it would be without the swap.
OuterPaddingUnswapped(h) ==
  LET marked == OffsetCopy(OffsetFill(h, ILen, Zero, OuterEnd - LW), ILen, <<Pad80>>)
  IN OffsetCopy(marked, OuterEnd - LW, [k \in 1..LW |-> LengthCell(ILen, LengthAt(k))])

\* The padding behind the inner digest, word by word in the machine's order.
OuterPadding(h) ==
  LET marked == OffsetCopy(OffsetFill(h, ILen, Zero, OuterEnd - LW),
                           SwapAt(ILen + 1) - 1, <<Pad80>>)
  IN OffsetCopy(marked, OuterEnd - LW, [k \in 1..LW |-> LengthCell(ILen, LengthAt(k))])

\* HMAC(Init)
Keyed(x, h, k) ==
  LET long == Len(k) > BL
      hashed == HashKey(x, k)
      ipad == IF long THEN LongKey(h, hashed.state) ELSE ShortKey(h, k)
  IN [ctx |-> [data |-> IF long THEN hashed.data ELSE x.data, bytelen |-> BL,
               state |-> Native(Start, ipad, 1), datalen |-> 0],
      hmac |-> OuterPadding(Remasked(ipad))]

\* HMAC(Outer): the inner digest into its place, and the outer hash.
WithDigest(h, st) == OffsetCopy(h, BL, SubSeq(InMemory(st), 1, DL))
OuterHash(h) == Native(Start, h, OuterBlocks)

-----------------------------------------------------------------------------
Init ==
  /\ swapped \in Orders
  /\ ctx = [c \in Ctx |-> [data |-> [i \in 1..BL |-> Junk], bytelen |-> 0,
                           state |-> Start, datalen |-> 1]]
  /\ hmac = [c \in Ctx |-> [i \in 1..OuterEnd |-> Junk]]
  /\ phase = [c \in Ctx |-> "raw"]
  /\ keyed = [c \in Ctx |-> <<>>]
  /\ fed = [c \in Ctx |-> <<>>]

HmacInit(c, k) ==
  LET new == Keyed(ctx[c], hmac[c], k)
  IN /\ ctx' = [ctx EXCEPT ![c] = new.ctx]
     /\ hmac' = [hmac EXCEPT ![c] = new.hmac]
     /\ phase' = [phase EXCEPT ![c] = "new"]
     /\ keyed' = [keyed EXCEPT ![c] = k]
     /\ fed' = [fed EXCEPT ![c] = <<>>]
     /\ UNCHANGED swapped

HmacUpdate(c, m) ==
  /\ Open(c)
  /\ Len(fed[c]) + Len(m) <= MaxBytes
  /\ ctx' = [ctx EXCEPT ![c] = Updated(@, m)]
  /\ phase' = [phase EXCEPT ![c] = "open"]
  /\ fed' = [fed EXCEPT ![c] = @ \o m]
  /\ UNCHANGED <<swapped, hmac, keyed>>

\* HMAC(Final), Semifinal included.
HmacFinal(c) ==
  /\ Open(c)
  /\ LET inner == Finished(ctx[c])
         h == WithDigest(hmac[c], inner.state)
     IN /\ ctx' = [ctx EXCEPT ![c] = [inner EXCEPT !.state = OuterHash(h)]]
        /\ hmac' = [hmac EXCEPT ![c] = h]
  /\ phase' = [phase EXCEPT ![c] = "done"]
  /\ UNCHANGED <<swapped, keyed, fed>>

\* slip: only the part a HASH_CTX has is copied.
HmacCloneInner(dst, src) ==
  /\ dst # src
  /\ phase[src] \in {"new", "open", "done"}
  /\ ctx' = [ctx EXCEPT ![dst] = Cloned(@, ctx[src])]
  /\ phase' = [phase EXCEPT ![dst] = phase[src]]
  /\ keyed' = [keyed EXCEPT ![dst] = keyed[src]]
  /\ fed' = [fed EXCEPT ![dst] = fed[src]]
  /\ UNCHANGED <<swapped, hmac>>

\* The tail of the structure that is always copied includes hmac.
HmacClone(dst, src) ==
  /\ dst # src
  /\ phase[src] \in {"new", "open", "done"}
  /\ ctx' = [ctx EXCEPT ![dst] = Cloned(@, ctx[src])]
  /\ hmac' = [hmac EXCEPT ![dst] = hmac[src]]
  /\ phase' = [phase EXCEPT ![dst] = phase[src]]
  /\ keyed' = [keyed EXCEPT ![dst] = keyed[src]]
  /\ fed' = [fed EXCEPT ![dst] = fed[src]]
  /\ UNCHANGED swapped

\* wipe(ctx, sizeof(HMAC_CTX))
HmacClear(c) ==
  /\ ctx' = [ctx EXCEPT ![c] = [data |-> [i \in 1..BL |-> Zero], bytelen |-> 0,
                                state |-> [iv |-> Zero, in |-> <<>>], datalen |-> 0]]
  /\ hmac' = [hmac EXCEPT ![c] = [i \in 1..OuterEnd |-> Zero]]
  /\ phase' = [phase EXCEPT ![c] = "cleared"]
  /\ UNCHANGED <<swapped, keyed, fed>>

Next ==
  \E c \in Ctx :
    \/ \E k \in Keys : HmacInit(c, k)
    \/ \E m \in Chunks : HmacUpdate(c, m)
    \/ HmacFinal(c)
    \/ \E src \in Ctx : HmacClone(c, src)
    \/ HmacClear(c)

Spec == Init /\ [][Next]_vars

-----------------------------------------------------------------------------
\* The structures have their shape and the caller's record its values.
TypeOK ==
  /\ swapped \in BOOLEAN
  /\ \A c \in Ctx :
       /\ DOMAIN ctx[c].data = 1..BL
       /\ ctx[c].bytelen \in Nat /\ ctx[c].datalen \in 0..BL
       /\ DOMAIN hmac[c] = 1..OuterEnd
  /\ phase \in [Ctx -> Phases]
  /\ keyed \in [Ctx -> Keys \cup {<<>>}]

\* A context that is open has absorbed the masked key and what was fed to it,
\* and is aligned as HASH(Update) and HASH(Final) need it.
InnerReady(c) ==
  /\ Aligned(ctx[c])
  /\ Absorbed(ctx[c]) = Ref!MaskedKey(Inner, keyed[c]) \o fed[c]

\* Its outer blocks are complete but for the inner digest: read in the order of
\* the hash, they are the masked key, whatever fills the digest's place, and the
\* padding of a message of that length.
OuterReady(c) ==
  LET h == Flip(hmac[c])
  IN h = Ref!Padded(SubSeq(h, 1, ILen)) /\ SubSeq(h, 1, BL) = Ref!MaskedKey(Outer, keyed[c])

\* The invariant behind the refinement: key material laid out once by Init stays
\* good for every later Update, Final and Clone.
Prepared == \A c \in Ctx : Open(c) => InnerReady(c) /\ OuterReady(c)

\* The inductive invariant behind both: what Init lays out is where later calls look
\* for it, in structures of the shape the buffer arithmetic needs.  Only the chaining
\* state of a context in use is one of cells; Final leaves one of digests of these.
KeyCell == Cell \cup ({Digested} \X State \X Nat)
InnerCell == Cell \cup ({Inner} \X KeyCell)

Shaped(x) ==
  /\ x.data \in [1..BL -> InnerCell]
  /\ x.bytelen \in Nat /\ x.datalen \in 0..BL

InUse(c) ==
  /\ ctx[c] \in [data : [1..BL -> InnerCell], bytelen : Nat,
                 state : [iv : IV, in : Seq(InnerCell)], datalen : Nat]
  /\ ctx[c].state.iv = StdIV
  /\ keyed[c] \in Keys /\ fed[c] \in Seq(Byte)

IsFun(f, D) == f = [i \in D |-> f[i]]

IInv ==
  /\ swapped \in Orders
  /\ IsFun(ctx, Ctx) /\ IsFun(hmac, Ctx) /\ IsFun(fed, Ctx)
  /\ \A c \in Ctx : Shaped(ctx[c]) /\ IsFun(hmac[c], 1..OuterEnd)
  /\ phase \in [Ctx -> Phases]
  /\ keyed \in [Ctx -> Keys \cup {<<>>}]
  /\ \A c \in Ctx : Open(c) => InUse(c) /\ InnerReady(c) /\ OuterReady(c)
  /\ \A c \in Ctx : phase[c] = "done" => ctx[c].state = Ref!HmacOf(keyed[c], fed[c])

\* What the code leaves to its callers, no longer key or chunk than a kernel can
\* count blocks of; and what holds of the length of the outer message, which Init
\* lays out for a big-endian hash, or one whose words are as long as the length.
ShortCalls ==
  /\ \A k \in Keys : Len(k) < NBLK * BL
  /\ \A m \in Chunks : Len(m) < NBLK * BL
LengthInOrder == HashEndian = "little" /\ LW # WB => TRUE \notin Orders

\* A finished context holds the HMAC of its key and of what was fed to it.
FinalIsHmac == \A c \in Ctx : phase[c] = "done" => Mac[c] = Ref!HmacOf(keyed[c], fed[c])

\* Whatever the keys, the calls, the old bytes in the structures and the byte
\* order of the machine, Final leaves the HMAC of the bytes fed to the context.
ImplementsHmac == Ref!AbsSpec
=============================================================================
