------------------------------ MODULE HmacAbs ------------------------------
(***************************************************************************)
(* What the HMAC interface promises: a context stands for a key and the    *)
(* bytes fed to it since, and Final leaves their HMAC, as RFC 2104 defines *)
(* it from the hash of whole messages, whatever the calls and the memory.  *)
(***************************************************************************)
EXTENDS MDBuffers

CONSTANTS
  DL,         \* HASH_DIGEST_LENGTH
  StdIV,      \* HASH(IV)
  Ctx,        \* the caller's HMAC_CTX structures
  Keys,       \* the keys they are given
  Chunks,     \* the data arrays handed to Update
  Inner,      \* tags a byte that was or-ed exclusively with 0x36
  Outer,      \* tags a byte that was or-ed exclusively with 0x5c
  Digested,   \* tags a byte of a digest
  NoDigest    \* the context holds no HMAC

VARIABLES
  phase,      \* what the caller has last done with each context
  keyed,      \* the key each context was last given
  fed,        \* the bytes fed to it since
  mac         \* the HMAC a finished context holds

absVars == <<phase, keyed, fed, mac>>

Open(c) == phase[c] \in {"new", "open"}

-----------------------------------------------------------------------------
\* The k-th byte of a digest, and all of them.
DigestCell(st, k) == <<Digested, st, k>>
DigestOf(st) == [k \in 1..DL |-> DigestCell(st, k)]

\* The hash of a message: all of it is absorbed, followed by its padding.
BlocksFor(n) == CHOOSE q \in 1..(n + 1 + RES) : (q - 1) * BL < n + 1 + RES /\ n + 1 + RES <= q * BL

Padded(m) ==
  LET n == Len(m)
      e == BlocksFor(n) * BL
  IN [i \in 1..e |->
        IF i <= n THEN m[i]
        ELSE IF i = n + 1 THEN Pad80
        ELSE IF i <= e - LW THEN Zero
        ELSE LengthCell(n, i - (e - LW))]

HashOf(m) == [iv |-> StdIV, in |-> Padded(m)]

\* The key, or its hash if it is longer than a block, filled up with zeros and
\* masked.
ShortKey(k) == IF Len(k) > BL THEN DigestOf(HashOf(k)) ELSE k
MaskedKey(tag, k) ==
  LET key == ShortKey(k)
  IN [i \in 1..BL |-> <<tag, IF i <= Len(key) THEN key[i] ELSE Zero>>]

\* RFC 2104: H(K xor opad, H(K xor ipad, m)).
HmacOf(k, m) ==
  HashOf(MaskedKey(Outer, k) \o DigestOf(HashOf(MaskedKey(Inner, k) \o m)))

-----------------------------------------------------------------------------
AbsInit ==
  /\ phase = [c \in Ctx |-> "raw"]
  /\ keyed = [c \in Ctx |-> <<>>]
  /\ fed = [c \in Ctx |-> <<>>]
  /\ mac = [c \in Ctx |-> NoDigest]

Start(c, k) ==
  /\ phase' = [phase EXCEPT ![c] = "new"]
  /\ keyed' = [keyed EXCEPT ![c] = k]
  /\ fed' = [fed EXCEPT ![c] = <<>>]
  /\ mac' = [mac EXCEPT ![c] = NoDigest]

Feed(c, m) ==
  /\ Open(c)
  /\ phase' = [phase EXCEPT ![c] = "open"]
  /\ fed' = [fed EXCEPT ![c] = @ \o m]
  /\ UNCHANGED <<keyed, mac>>

Finish(c) ==
  /\ Open(c)
  /\ phase' = [phase EXCEPT ![c] = "done"]
  /\ UNCHANGED <<keyed, fed>>
  /\ mac' = [mac EXCEPT ![c] = HmacOf(keyed[c], fed[c])]

Duplicate(dst, src) ==
  /\ phase' = [phase EXCEPT ![dst] = phase[src]]
  /\ keyed' = [keyed EXCEPT ![dst] = keyed[src]]
  /\ fed' = [fed EXCEPT ![dst] = fed[src]]
  /\ mac' = [mac EXCEPT ![dst] = mac[src]]

Forget(c) ==
  /\ phase' = [phase EXCEPT ![c] = "cleared"]
  /\ mac' = [mac EXCEPT ![c] = NoDigest]
  /\ UNCHANGED <<keyed, fed>>

AbsNext ==
  \E c \in Ctx :
    \/ \E k \in Keys : Start(c, k)
    \/ \E m \in Chunks : Feed(c, m)
    \/ Finish(c)
    \/ \E src \in Ctx : Duplicate(c, src)
    \/ Forget(c)

AbsSpec == AbsInit /\ [][AbsNext]_absVars
=============================================================================
