------------------------------- MODULE Helpers -------------------------------
(***************************************************************************)
(* The stateless functions of src/md/hash.c.in on bytes and words: Pad,    *)
(* Tail, Raw, Bswap, Serialize and Partial, and the kernel each hash has   *)
(* behind Transform and Native, on a little-endian machine.  h names a     *)
(* hash, p is its record of Params.  Definitions marked "slip" are         *)
(* deliberate errors that nothing else uses.                               *)
(***************************************************************************)
EXTENDS Kernels, Params

\* BASE_IMPL: a truncated hash runs the kernel of the full one.
Transform(h, d, data, nblk) ==
  CASE h = "md4" -> md4_xform(d, data, nblk)
    [] h = "md5" -> md5_xform(d, data, nblk)
    [] h = "sha1" -> sha1_xform(d, data, nblk)
    [] h = "ripemd160" -> ripemd160_xform(d, data, nblk)
    [] h \in {"sha2_224", "sha2_256"} -> sha2_256_xform(d, data, nblk)
    [] h \in {"sha2_384", "sha2_512"} -> sha2_512_xform(d, data, nblk)

\* NATIVE_SUFFIX
Native(h, d, data, nblk) ==
  CASE h = "sha1" -> sha1_xform_le(d, data, nblk)
    [] h \in {"sha2_224", "sha2_256"} -> sha2_256_xform_le(d, data, nblk)
    [] h \in {"sha2_384", "sha2_512"} -> sha2_512_xform_le(d, data, nblk)
    [] OTHER -> Transform(h, d, data, nblk)

-----------------------------------------------------------------------------
\* The bytes b written over those of d from offset off on; n times the byte b.
Put(d, off, b) == SubSeq(d, 1, off) \o b \o SubSeq(d, off + Len(b) + 1, Len(d))
Fill(n, b) == Word([i \in 1..n |-> b])

\* slip: the length is left in bytes.
BitLengthInBytes(p, len) ==
  LET byte(i) == IF i > 4 THEN 0 ELSE (len \div 256 ^ (i - 1)) % 256
  IN [i \in 1..8 |-> byte(IF p.BIG_ENDIAN THEN 9 - i ELSE i)]

\* STOR64DE of len * 8, from the lower and from the upper 32 bits.
BitLength(p, len) ==
  LET half(i) == IF i > 4 THEN ((8 * len) \div 256 ^ 3) \div 256 ELSE 8 * len
      byte(i) == (half(i) \div 256 ^ ((i - 1) % 4)) % 256
  IN [i \in 1..8 |-> byte(IF p.BIG_ENDIAN THEN 9 - i ELSE i)]

\* HASH_WORD_SIZE/4, in bits and bytes both
Reserve(p) == 2 * p.WORD_BYTES

\* slip: the length needs eight bytes, not the reserve.
TailBlocksTight(p, remaining) == IF remaining < p.BLOCK_LENGTH - 8 THEN 1 ELSE 2

TailBlocks(p, remaining) == IF remaining < p.BLOCK_LENGTH - Reserve(p) THEN 1 ELSE 2

\* <<data, nblk>>: what lies behind len in the blocks used is written over.
Pad(p, data, len) ==
  LET nblk == (len \div p.BLOCK_LENGTH) + TailBlocks(p, len % p.BLOCK_LENGTH)
      end == nblk * p.BLOCK_LENGTH - 8
      marked == Put(data, len, <<128>>)
  IN <<Put(Put(marked, len + 1, Fill(end - (len + 1), 0)), end, BitLength(p, len)), nblk>>

\* The same in a buffer that holds only what is left of the last block.
HashTail(p, last, len) ==
  LET remaining == len % p.BLOCK_LENGTH
      nblk == TailBlocks(p, remaining)
      end == nblk * p.BLOCK_LENGTH - 8
      marked == Put(last, remaining, <<128>>)
  IN <<Put(Put(marked, remaining + 1, Fill(end - (remaining + 1), 0)), end, BitLength(p, len)), nblk>>

\* Bswap, where the orders differ.
Bswap(p, data) ==
  LET w == p.WORD_BYTES
      from(i) == ((i - 1) \div w) * w + w - ((i - 1) % w)
  IN IF p.BIG_ENDIAN THEN Word([i \in 1..Len(data) |-> data[from(i)]]) ELSE data

\* The k-th byte of a word in the order of the hash, for k from 0.
NthByte(p, word, k) == word[IF p.BIG_ENDIAN THEN k + 1 ELSE p.WORD_BYTES - k]

Serialize(p, state) ==
  Word([i \in 1..p.DIGEST_LENGTH |->
          NthByte(p, state[((i - 1) \div p.WORD_BYTES) + 1], (i - 1) % p.WORD_BYTES)])

\* n bytes of a word, from bit i downwards.
Downwards(p, word, i, n) == Word([k \in 1..n |-> word[p.WORD_BYTES - (i \div 8) + k - 1]])

\* n, but no more than what remains.
AtMost(n, rem) == IF rem >= n THEN n ELSE rem

\* slip: a word that was begun is not left behind.
PartialStuck(p, state, start, end) ==
  LET wb == p.WORD_BYTES
      top == 8 * wb - 8
      i == top - 8 * (start % wb)
      head == IF start % wb = 0 THEN <<>>
              ELSE Downwards(p, state[start \div wb + 1], i, AtMost(i \div 8 + 1, end - start))
      pos == start + Len(head)
      words == IF end - pos > wb THEN (end - pos + wb - 1) \div wb ELSE 1
      body[k \in 0..words] ==
        IF k = 0 THEN <<>>
        ELSE body[k - 1] \o Downwards(p, state[start \div wb + k], top, AtMost(wb, end - (pos + (k - 1) * wb)))
  IN IF p.BIG_ENDIAN THEN head \o body[words] ELSE SubSeq(Serialize(p, state), start + 1, end)

\* The bytes start up to end of a digest.  Where the orders differ: what is left of
\* the word start lies in, then whole words, then the first bytes of one.
Partial(p, state, start, end) ==
  LET wb == p.WORD_BYTES
      top == 8 * wb - 8
      i == top - 8 * (start % wb)
      head == IF start % wb = 0 THEN <<>>
              ELSE Downwards(p, state[start \div wb + 1], i, AtMost(i \div 8 + 1, end - start))
      pos == start + Len(head)
      first == IF start % wb = 0 THEN start \div wb ELSE start \div wb + 1
      words == IF end - pos > wb THEN (end - pos + wb - 1) \div wb ELSE 1
      body[k \in 0..words] ==
        IF k = 0 THEN <<>>
        ELSE body[k - 1] \o Downwards(p, state[first + k], top, AtMost(wb, end - (pos + (k - 1) * wb)))
  IN IF p.BIG_ENDIAN THEN head \o body[words] ELSE SubSeq(Serialize(p, state), start + 1, end)

Raw(h, data, nblk) ==
  LET p == Hashes[h] IN Serialize(p, Transform(h, p.IV, data, nblk))
=============================================================================
