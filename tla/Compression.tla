----------------------------- MODULE Compression -----------------------------
(***************************************************************************)
(* The C library end to end on real words: a hash absorbs blocks through   *)
(* Transform or Native, several to a call or one by one, and is finished   *)
(* with the last bytes of its message, by Tail behind the blocks or by Pad *)
(* and Raw from the start.  What it leaves is compared with the standards  *)
(* and with sha2t.c, which has a SHA-2 of its own.                         *)
(***************************************************************************)
EXTENDS Helpers, Standards, Sha2t

M == INSTANCE MemFunctions

CONSTANTS
  Hash,         \* names of hashes
  Pattern,      \* sequences of 128 bytes that messages are made of
  MaxBlocks,    \* bound: blocks absorbed
  Slack(_),     \* how many bytes may be left of the last block, by the hash
  KeyLengths(_) \* how many bytes HMAC keys have that fit into a block, by the hash

ASSUME CompressionAssumption ==
  /\ Hash \subseteq DOMAIN Hashes
  /\ \A b \in Pattern : b \in [1..128 -> Byte]
  /\ MaxBlocks \in Nat
  /\ \A h \in Hash : Slack(Hashes[h]) \subseteq 0..(Hashes[h].BLOCK_LENGTH - 1)
  /\ \A h \in Hash : KeyLengths(Hashes[h]) \subseteq 0..Hashes[h].BLOCK_LENGTH

VARIABLES
  hash,     \* the hash in use
  message,  \* what it was fed
  digest,   \* the chaining state
  out       \* the digest it was finished with

vars == <<hash, message, digest, out>>

P == Hashes[hash]
BlockOf(b) == SubSeq(b, 1, P.BLOCK_LENGTH)

NoOutput == <<>>

Init ==
  /\ hash \in Hash
  /\ message = <<>>
  /\ digest = P.IV
  /\ out = NoOutput

\* One or two blocks to a call.
Input == {<<b>> : b \in Pattern} \cup (Pattern \X Pattern)

Data(bs) == IF Len(bs) = 1 THEN BlockOf(bs[1]) ELSE BlockOf(bs[1]) \o BlockOf(bs[2])

Feed(bs) ==
  LET data == Data(bs)
  IN /\ out = NoOutput
     /\ Len(message) + Len(data) <= MaxBlocks * P.BLOCK_LENGTH
     /\ message' = message \o data
     /\ UNCHANGED <<hash, out>>

FeedTransform(bs) ==
  /\ Feed(bs)
  /\ digest' = Transform(hash, digest, Data(bs), Len(bs))

\* The caller swaps the words first: Bswap, then the kernel that swaps nothing.
FeedNative(bs) ==
  /\ Feed(bs)
  /\ digest' = Native(hash, digest, Bswap(P, Data(bs)), Len(bs))

\* Two blocks of old bytes, with the last of the message at the start.
Leftover(rest) == Put(Fill(2 * P.BLOCK_LENGTH, 255), 0, rest)

FinishTail(b, n) ==
  LET rest == SubSeq(b, 1, n)
      tail == HashTail(P, Leftover(rest), Len(message) + n)
  IN /\ out = NoOutput /\ message # <<>>
     /\ message' = message \o rest
     /\ digest' = Transform(hash, digest, tail[1], tail[2])
     /\ out' = Serialize(P, digest')
     /\ UNCHANGED hash

FinishRaw(b, n) ==
  LET rest == SubSeq(b, 1, n)
      padded == Pad(P, message \o Leftover(rest), Len(message) + n)
  IN /\ out = NoOutput /\ message = <<>>
     /\ message' = rest
     /\ out' = Raw(hash, padded[1], padded[2])
     /\ digest' = Transform(hash, P.IV, padded[1], padded[2])
     /\ UNCHANGED hash

\* The fills of the library, as values and lengths.  Those with zeros close a message or
\* clear a block: the longest is Pad's, behind the 0x80, in the second of two blocks.
ZeroFills(p) == {0} \X (0..(p.BLOCK_LENGTH + Reserve(p) - 9))

\* HMAC(Init) fills a block with 0x36 behind a key, or behind the digest of a long one.
MaskFills(p) ==
  {54} \X {p.BLOCK_LENGTH - n : n \in KeyLengths(p) \cup {p.DIGEST_LENGTH}}

Next ==
  \/ \E bs \in Input : FeedTransform(bs) \/ FeedNative(bs)
  \/ \E b \in Pattern : \E n \in Slack(P) : FinishTail(b, n) \/ FinishRaw(b, n)

Spec == Init /\ [][Next]_vars

-----------------------------------------------------------------------------
\* The compression function of a hash in its standard.  For SHA-2 it is sha2t.c's.
Standard(h, d, w) ==
  CASE h = "md4" -> Md4Standard(d, w)
    [] h = "md5" -> Md5Standard(d, w)
    [] h = "sha1" -> Sha1Standard(d, w)
    [] h = "ripemd160" -> RmdStandard(d, w)
    [] h \in {"sha2_224", "sha2_256"} -> Sha2tTransform(sha2_256, d, w)
    [] h \in {"sha2_384", "sha2_512"} -> Sha2tTransform(sha2_512, d, w)

WordsOf(p, m) ==
  IF p.BIG_ENDIAN THEN BigEndian(m, p.WORD_BYTES) ELSE LittleEndian(m, p.WORD_BYTES)

StandardChain(h, d, m) ==
  LET w == WordsOf(Hashes[h], m)
  IN Chain(LAMBDA e, x : Standard(h, e, x), d, w, Len(w) \div 16)

\* The message, 0x80, zeros up to the length, and the length.
StandardPadding(p, m) ==
  LET used == Len(m) + 1 + Reserve(p)
      end == used + ((p.BLOCK_LENGTH - (used % p.BLOCK_LENGTH)) % p.BLOCK_LENGTH)
  IN m \o <<128>> \o Fill(end - 8 - (Len(m) + 1), 0) \o BitLength(p, Len(m))

StandardHash(h, m) ==
  LET p == Hashes[h] IN
  CASE h \in {"sha2_224", "sha2_256"} -> SubSeq(sha256iv(p.IV, m), 1, p.DIGEST_LENGTH)
    [] h \in {"sha2_384", "sha2_512"} -> SubSeq(sha512iv(p.IV, m), 1, p.DIGEST_LENGTH)
    [] OTHER -> Serialize(p, StandardChain(h, p.IV, StandardPadding(p, m)))

\* The chaining state is the standard's after the same blocks, however they were
\* divided into calls and whichever of the two kernels compressed them: unrolled
\* rounds, registers that change roles and the ring of words come to the same.
ChainsAsStandard == out = NoOutput => digest = StandardChain(hash, P.IV, message)

\* A digest is the standard's of the whole message, for messages that end on
\* either side of every boundary of the padding.
DigestsAsStandard == out # NoOutput => out = StandardHash(hash, message)

\* Partial leaves the same bytes as the copy of a whole digest, for every start and
\* every end, within a word and across words.
PartialIsSlice ==
  out # NoOutput =>
    \A end \in 0..P.DIGEST_LENGTH : \A start \in 0..end :
      Partial(P, digest, start, end) = SubSeq(out, start + 1, end)

\* The fill behind an empty key of a hash with 128-byte blocks.
MaskedBlock == <<54, 128>>

\* The fills of a hash are the same whether or not the compiler knows their length: the
\* loops of llh_memset meet at their bounds and store the value.  A single fill is not:
\* behind an empty key HMAC(Init) masks 128 bytes at once, and where it is inlined into
\* a call with such a key llh_memset stores zeros for 0x36.
MemsetFills ==
  message = <<>> /\ out = NoOutput =>
    \A f \in ZeroFills(P) \cup MaskFills(P) :
      M!MemsetAgrees([i \in 1..(2 * P.BLOCK_LENGTH) |-> 255], f[1], f[2]) <=> f # MaskedBlock

-----------------------------------------------------------------------------
\* HMAC over bytes, as the vectors of src/scripts need it, for keys no longer than
\* a block.
VectorHmac(h, key, m) ==
  LET p == Hashes[h]
      padded == key \o Fill(p.BLOCK_LENGTH - Len(key), 0)
      mask(v) == padded (+) Fill(p.BLOCK_LENGTH, v)
      run(data) ==
        LET q == Pad(p, data \o Fill(2 * p.BLOCK_LENGTH, 0), Len(data)) IN Raw(h, q[1], q[2])
  IN run(mask(92) \o run(mask(54) \o m))
=============================================================================
