--------------------------- MODULE KeyDerivation ---------------------------
(***************************************************************************)
(* PBKDF2 (whole, by range, and with one iteration) and the single-block   *)
(* case of HKDF(Expand) in src/md/ext.c.in, as clients of HMAC: a call     *)
(* keys, clones and feeds contexts of its own with the actions of Hmac,    *)
(* lays the salt's last block and the block number out behind its back,    *)
(* and then runs the compression function on those two buffers.  Digests   *)
(* or-ed exclusively are the set of those or-ed an odd number of times.    *)
(* Definitions marked "slip" are deliberate errors that no action uses.    *)
(***************************************************************************)
EXTENDS Hmac

CONSTANTS
  Calls,     \* the calls: [fn, pass, salt, c, off, end]
  CB,        \* bytes STOR32BE writes (4 in the code)
  Counter,   \* tags a byte of a block number
  Hosts      \* the byte orders each function is called in

Functions == {"whole", "range", "one", "expand"}

\* A call of PBKDF2 derives the bytes off up to end; off is 0 but in a range, c is
\* 1 in "one".  HKDF(Expand) has the key in pass and info in salt, and one block.
ASSUME KeyDerivationAssumption ==
  /\ Ctx = {"ictx", "octx"}
  /\ CB \in Nat \ {0}
  /\ \A a \in Calls :
       /\ a.fn \in Functions /\ a.pass \in Keys /\ a.salt \in Seq(Byte)
       /\ a.c \in Nat \ {0} /\ a.off \in 0..a.end /\ a.end \in Nat
       /\ a.fn # "range" => a.off = 0
       /\ a.fn = "one" => a.c = 1
       /\ a.fn = "expand" => a.end <= DL
  /\ Hosts \in [Functions -> SUBSET BOOLEAN]

VARIABLES
  call,          \* the arguments
  pc,            \* where the call is
  W,             \* the state keyed with the outer key
  otail, itail,  \* the last blocks of the two inner messages
  oblks, iblks,  \* and how many
  block, nout,   \* the block number and the bytes before it
  pos,           \* dk_pos
  dk             \* the derived key, and as many bytes behind it as a digest has

scratch == <<W, otail, itail, oblks, iblks, block, nout, pos>>
kdfVars == <<vars, call, pc, scratch, dk>>

\* The k-th byte of a block number, most significant first.
CounterCell(n, k) == <<Counter, n, k>>
STOR32BE(n) == [k \in 1..CB |-> CounterCell(n, k)]

\* HASH(Tail)
HashTail(d, len) ==
  LET remaining == len % BL
      blks == IF remaining < BL - RES THEN 1 ELSE 2
      marked == OffsetCopy(d, remaining, <<Pad80>>)
  IN [d |-> StoreLength(OffsetFill(marked, remaining + 1, Zero, blks * BL - LW), len, blks * BL),
      blks |-> blks]

\* HASH(Serialize), SERIALIZE
Serialized(st) == Ref!DigestOf(st)

Xor(s, t) == (s \cup t) \ (s \cap t)

Unwritten(n) == [i \in 1..n |-> Junk]

-----------------------------------------------------------------------------
KInit ==
  /\ Init
  /\ call \in Calls
  /\ swapped \in Hosts[call.fn]
  /\ pc = "key"
  /\ W = Start
  /\ otail = Unwritten(2 * BL) /\ itail = Unwritten(2 * BL)
  /\ oblks = 0 /\ iblks = 0
  /\ block = 1 /\ nout = 0 /\ pos = 0
  /\ dk = Unwritten(call.end - call.off + DL)

\* HMAC(Init): ictx is cloned into octx where there are more iterations.
Key ==
  /\ pc = "key"
  /\ IF call.fn \in {"whole", "range"}
     THEN HmacInit("ictx", call.pass) /\ pc' = "clone"
     ELSE HmacInit("octx", call.pass) /\ pc' = "feed"
  /\ UNCHANGED <<call, scratch, dk>>

Clone ==
  /\ pc = "clone"
  /\ HmacClone("octx", "ictx")
  /\ pc' = "feed"
  /\ UNCHANGED <<call, scratch, dk>>

Feed ==
  /\ pc = "feed"
  /\ HmacUpdate("octx", call.salt)
  /\ pc' = IF call.fn = "expand" THEN "number" ELSE "layout"
  /\ UNCHANGED <<call, scratch, dk>>

\* slip: the bytes that are compressed already are not part of the length.
LayoutShort ==
  LET x == ctx["octx"]
      outer == HashTail(OffsetCopy(otail, 0, SubSeq(x.data, 1, x.datalen)), x.datalen + CB)
      inner == HashTail(itail, BL + DL)
  IN /\ pc = "layout"
     /\ W' = Native(Start, hmac["ictx"], 1)
     /\ otail' = outer.d /\ oblks' = outer.blks
     /\ itail' = Flip(inner.d) /\ iblks' = inner.blks
     /\ block' = (call.off \div DL) + 1
     /\ nout' = call.off - (call.off % DL)
     /\ pc' = "block"
     /\ UNCHANGED <<vars, call, pos, dk>>

\* The buffers are laid out once for all blocks.
Layout ==
  LET x == ctx["octx"]
      outer == HashTail(OffsetCopy(otail, 0, SubSeq(x.data, 1, x.datalen)), x.bytelen + x.datalen + CB)
      inner == HashTail(itail, BL + DL)
  IN /\ pc = "layout"
     /\ W' = Native(Start, hmac["ictx"], 1)
     /\ otail' = outer.d /\ oblks' = outer.blks
     /\ itail' = Flip(inner.d) /\ iblks' = inner.blks
     /\ block' = (call.off \div DL) + 1
     /\ nout' = call.off - (call.off % DL)
     /\ pc' = "block"
     /\ UNCHANGED <<vars, call, pos, dk>>

-----------------------------------------------------------------------------
\* The first inner hash of a block.
First(tail) == Transform(ctx["octx"].state, tail, oblks)

\* One more iteration: s has the digest U, the sum T, and the buffers.
Iterate(s) ==
  IF swapped
  THEN LET in == OffsetCopy(s.itail, 0, InMemory(s.U))
           inner == Native(ctx["ictx"].state, in, iblks)
           out == OffsetCopy(in, 0, InMemory(inner))
           U == Native(W, out, iblks)
       IN [U |-> U, T |-> Xor(s.T, {U}), itail |-> out, outer |-> s.outer]
  ELSE LET in == OffsetCopy(s.itail, 0, Serialized(s.U))
           outer == WithDigest(s.outer, Transform(ctx["ictx"].state, in, iblks))
           U == Transform(Start, outer, OuterBlocks)
       IN [U |-> U, T |-> Xor(s.T, {U}), itail |-> in, outer |-> outer]

\* The c iterations of PBKDF2(Block), from the outer hash of the first.
Rounds(U) ==
  LET at[i \in 1..call.c] ==
        IF i = 1 THEN [U |-> U, T |-> {U}, itail |-> itail, outer |-> hmac["ictx"]]
        ELSE Iterate(at[i - 1])
  IN at

Iterated(U) == Rounds(U)[call.c]

\* PBKDF2(1) serializes the inner digest into blocks that are in the machine's
\* order and has them compressed in the hash's.
SerializedInner(h, st) == OffsetCopy(h, BL, Serialized(st))

\* What a block adds to the key: SERIALIZE where all of it is wanted, else Partial.
Output(T) ==
  LET from == IF nout < call.off THEN call.off - nout ELSE 0
      upto == IF call.end < nout + DL THEN call.end - nout ELSE DL
  IN SubSeq(Serialized(T), from + 1, upto)

\* Only a block that is cut at its end leaves the loop from within.
Emit(T) ==
  /\ dk' = OffsetCopy(dk, pos, Output(T))
  /\ IF call.end < nout + DL
     THEN pc' = "wipe" /\ UNCHANGED <<pos, nout, block>>
     ELSE /\ pos' = pos + Len(Output(T))
          /\ nout' = nout + DL
          /\ block' = block + 1
          /\ UNCHANGED pc

\* A turn of the loop, with PBKDF2(Block).
DeriveBlock ==
  /\ pc = "block" /\ call.fn \in {"whole", "range"} /\ nout < call.end
  /\ otail' = OffsetCopy(otail, ctx["octx"].datalen, STOR32BE(block))
  /\ LET h == WithDigest(hmac["octx"], First(otail'))
         end == Iterated(OuterHash(h))
     IN /\ hmac' = [hmac EXCEPT !["octx"] = h, !["ictx"] = end.outer]
        /\ itail' = end.itail
        /\ Emit(end.T)
  /\ UNCHANGED <<swapped, ctx, phase, keyed, fed, call, W, oblks, iblks>>

\* A turn of the loop of PBKDF2(1).
DeriveOnce ==
  /\ pc = "block" /\ call.fn = "one" /\ nout < call.end
  /\ otail' = OffsetCopy(otail, ctx["octx"].datalen, STOR32BE(block))
  /\ LET h == SerializedInner(hmac["octx"], First(otail'))
     IN /\ hmac' = [hmac EXCEPT !["octx"] = h]
        /\ Emit({Transform(Start, h, OuterBlocks)})
  /\ UNCHANGED <<swapped, ctx, phase, keyed, fed, call, W, itail, oblks, iblks>>

LastBlock ==
  /\ pc = "block" /\ nout >= call.end
  /\ pc' = "wipe"
  /\ UNCHANGED <<vars, call, scratch, dk>>

\* HKDF(Expand), one block: the block number is one byte.
Number ==
  /\ pc = "number"
  /\ HmacUpdate("octx", <<CounterCell(1, CB)>>)
  /\ pc' = "final"
  /\ UNCHANGED <<call, scratch, dk>>

\* HMAC(Final), or HMAC(Semifinal) and HASH(Partial).
Expand ==
  /\ pc = "final"
  /\ HmacFinal("octx")
  /\ dk' = OffsetCopy(dk, 0, SubSeq(Serialized(ctx'["octx"].state), 1, call.end))
  /\ pc' = "wipe"
  /\ UNCHANGED <<call, scratch>>

\* The contexts that lie in a call's scratch.
InScratch(c) == c = "octx" \/ call.fn \in {"whole", "range"}

WipedState == [iv |-> Zero, in |-> <<>>]

\* wipe(scratch), which holds the contexts, the states and the tails; HKDF(Expand) has
\* only a context to wipe.
Wipe ==
  /\ pc = "wipe"
  /\ ctx' = [c \in Ctx |->
       IF InScratch(c)
       THEN [data |-> [i \in 1..BL |-> Zero], bytelen |-> 0, state |-> WipedState, datalen |-> 0]
       ELSE ctx[c]]
  /\ hmac' = [c \in Ctx |-> IF InScratch(c) THEN [i \in 1..OuterEnd |-> Zero] ELSE hmac[c]]
  /\ phase' = [c \in Ctx |-> IF InScratch(c) THEN "cleared" ELSE phase[c]]
  /\ IF call.fn = "expand"
     THEN UNCHANGED <<W, otail, itail>>
     ELSE /\ W' = WipedState
          /\ otail' = [i \in DOMAIN otail |-> Zero]
          /\ itail' = [i \in DOMAIN itail |-> Zero]
  /\ pc' = "done"
  /\ UNCHANGED <<swapped, keyed, fed, call, oblks, iblks, block, nout, pos, dk>>

Done == pc = "done" /\ UNCHANGED kdfVars

Derive ==
  \/ Key \/ Clone \/ Feed \/ Layout \/ DeriveBlock \/ DeriveOnce \/ LastBlock
  \/ Number \/ Expand \/ Wipe

KNext == Derive \/ Done

KSpec == KInit /\ [][KNext]_kdfVars

-----------------------------------------------------------------------------
\* RFC 8018: U_1 is the HMAC of salt and block number, U_j+1 that of U_j, and a
\* block is U_1 to U_c or-ed exclusively.
Chain(a, n) ==
  LET U[j \in 1..a.c] ==
        Ref!HmacOf(a.pass, IF j = 1 THEN a.salt \o STOR32BE(n) ELSE Ref!DigestOf(U[j - 1]))
  IN U

Sums(a, n) ==
  LET T[j \in 1..a.c] ==
        IF j = 1 THEN {Chain(a, n)[1]} ELSE Xor(T[j - 1], {Chain(a, n)[j]})
  IN T

Chained(a, n) == Sums(a, n)[a.c]

\* RFC 5869: T(1) is the HMAC of info and the byte 1.
Expanded(a) == Ref!HmacOf(a.pass, a.salt \o <<CounterCell(1, CB)>>)

\* The i-th byte of the key a call asks for, counted from its very first.
KeyByte(a, i) ==
  Ref!DigestCell(IF a.fn = "expand" THEN Expanded(a) ELSE Chained(a, ((i - 1) \div DL) + 1),
                 ((i - 1) % DL) + 1)

Written == IF pc \in {"wipe", "done"} THEN call.end - call.off ELSE pos

\* What the code leaves to its callers: salts no longer than a kernel can count blocks
\* of, that leave room for a block number in the last of theirs, PBKDF2(1) only where
\* the hash has the machine's byte order, and no iterations over chaining states in
\* another order of a hash that is truncated.
CarefulRequests ==
  /\ TRUE \notin Hosts["one"]
  /\ \A a \in Calls :
       /\ Len(a.salt) < NBLK * BL
       /\ a.fn # "expand" => (Len(a.salt) % BL) + CB < BL
       /\ a.c = 1 \/ DL = SL \/ TRUE \notin Hosts[a.fn]

\* Whatever the password, the salt, the iterations and the range, each byte given
\* out is that of the key the RFC defines, and the memory behind it is untouched.
DerivedKey ==
  \A i \in DOMAIN dk :
    dk[i] = IF i <= Written THEN KeyByte(call, call.off + i) ELSE Junk
=============================================================================
