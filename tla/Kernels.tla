------------------------------- MODULE Kernels -------------------------------
(***************************************************************************)
(* The C compression functions, src/md/*/xform.c.  They are unrolled by    *)
(* macros: the registers stay in place and change roles from round to      *)
(* round, and the message schedule is a ring of sixteen words written over *)
(* as it is read.  A kernel takes the chaining state as a sequence of      *)
(* words, the data as bytes, and a number of blocks.  A definition marked  *)
(* "slip" is a deliberate error that nothing else uses.                    *)
(***************************************************************************)
EXTENDS Words

\* The register that is the k-th argument of the macro P in round r, for n
\* registers.
Role(n, r, k) == ((k - r) % n) + 1

\* n steps numbered from first, each from what the one before left.
Steps(Step(_, _), s, first, n) ==
  LET at[r \in 0..n] ==
        IF r = 0 THEN s ELSE After(LAMBDA t : Step(t, first + r - 1), at[r - 1])
  IN at[n]

\* The rounds of a block, in rows of sixteen, from the registers (and the ring).
Rounds(Step(_, _), s, n) ==
  Steps(LAMBDA t, row : Steps(Step, t, 16 * row, 16), s, 0, n \div 16)

\* The loop over blocks: sixteen words of input to each.
Chain(Compress(_, _), digest, input, nblk) ==
  Steps(LAMBDA d, i : Compress(d, SubSeq(input, 16 * i + 1, 16 * i + 16)), digest, 0, nblk)

\* digest[i] += A, B, ...
Plus(digest, v) == [i \in DOMAIN digest |-> digest[i] ++ v[i]]

\* One of several functions or constants, by the round.
Phase(seq, r, n) == seq[(r \div n) + 1]

K32(h) == Constants(h, 4)

-----------------------------------------------------------------------------
\* The choice and the majority of three words, in the forms the kernels use.
Choose3(x, y, z) == z (+) (x & (y (+) z))
Major3(x, y, z) == (x & y) | (z & (x | y))
Parity3(x, y, z) == x (+) y (+) z

-----------------------------------------------------------------------------
Md4Words == <<
     0,  1,  2,  3,  4,  5,  6,  7,  8,  9, 10, 11, 12, 13, 14, 15,
     0,  4,  8, 12,  1,  5,  9, 13,  2,  6, 10, 14,  3,  7, 11, 15,
     0,  8,  4, 12,  2, 10,  6, 14,  1,  9,  5, 13,  3, 11,  7, 15 >>
Md4Shifts == <<<<3, 7, 11, 19>>, <<3, 5, 9, 13>>, <<3, 9, 11, 15>>>>
Md4K == K32(<<0, 0, \h5a82, \h7999, \h6ed9, \heba1>>)

Md4Mix(r, b, c, d) ==
  CASE r < 16 -> ((c (+) d) & b) (+) d
    [] r \in 16..31 -> (b & c) | (b & d) | (c & d)
    [] r >= 32 -> Parity3(b, c, d)

Md4Round(v, w, r) ==
  LET x(k) == v[Role(4, r, k)]
      sum == x(0) ++ Md4Mix(r, x(1), x(2), x(3)) ++ w[Md4Words[r + 1] + 1] ++ Phase(Md4K, r, 16)
  IN [v EXCEPT ![Role(4, r, 0)] = RotL(sum, Phase(Md4Shifts, r, 16)[(r % 4) + 1])]

Md4Compress(d, w) == Plus(d, Rounds(LAMBDA v, r : Md4Round(v, w, r), d, 48))

md4_xform(digest, data, nblk) == Chain(Md4Compress, digest, LittleEndian(data, 4), nblk)

-----------------------------------------------------------------------------
Md5Shifts == <<<<7, 12, 17, 22>>, <<5, 9, 14, 20>>, <<4, 11, 16, 23>>, <<6, 10, 15, 21>>>>
Md5Halves == <<
    \hd76a, \ha478, \he8c7, \hb756, \h2420, \h70db, \hc1bd, \hceee,
    \hf57c, \h0faf, \h4787, \hc62a, \ha830, \h4613, \hfd46, \h9501,
    \h6980, \h98d8, \h8b44, \hf7af, \hffff, \h5bb1, \h895c, \hd7be,
    \h6b90, \h1122, \hfd98, \h7193, \ha679, \h438e, \h49b4, \h0821,
    \hf61e, \h2562, \hc040, \hb340, \h265e, \h5a51, \he9b6, \hc7aa,
    \hd62f, \h105d, \h0244, \h1453, \hd8a1, \he681, \he7d3, \hfbc8,
    \h21e1, \hcde6, \hc337, \h07d6, \hf4d5, \h0d87, \h455a, \h14ed,
    \ha9e3, \he905, \hfcef, \ha3f8, \h676f, \h02d9, \h8d2a, \h4c8a,
    \hfffa, \h3942, \h8771, \hf681, \h6d9d, \h6122, \hfde5, \h380c,
    \ha4be, \hea44, \h4bde, \hcfa9, \hf6bb, \h4b60, \hbebf, \hbc70,
    \h289b, \h7ec6, \heaa1, \h27fa, \hd4ef, \h3085, \h0488, \h1d05,
    \hd9d4, \hd039, \he6db, \h99e5, \h1fa2, \h7cf8, \hc4ac, \h5665,
    \hf429, \h2244, \h432a, \hff97, \hab94, \h23a7, \hfc93, \ha039,
    \h655b, \h59c3, \h8f0c, \hcc92, \hffef, \hf47d, \h8584, \h5dd1,
    \h6fa8, \h7e4f, \hfe2c, \he6e0, \ha301, \h4314, \h4e08, \h11a1,
    \hf753, \h7e82, \hbd3a, \hf235, \h2ad7, \hd2bb, \heb86, \hd391 >>
Md5K == K32(Md5Halves)

\* The word of round r: its multiple and its offset.
Md5Word(r) ==
  LET step == Phase(<<<<1, 0>>, <<5, 1>>, <<3, 5>>, <<7, 0>>>>, r, 16)
  IN ((r * step[1] + step[2]) % 16) + 1

Md5Mix(r, x, y, z) ==
  CASE r < 16 -> Choose3(x, y, z)
    [] r \in 16..31 -> (z & x) | (Not(z) & y)
    [] r \in 32..47 -> Parity3(x, y, z)
    [] r >= 48 -> y (+) (x | Not(z))

Md5Round(v, w, r) ==
  LET x(k) == v[Role(4, r, k)]
      sum == x(0) ++ Md5Mix(r, x(1), x(2), x(3)) ++ w[Md5Word(r)] ++ Md5K[r + 1]
  IN [v EXCEPT ![Role(4, r, 0)] = RotL(sum, Phase(Md5Shifts, r, 16)[(r % 4) + 1]) ++ x(1)]

Md5Compress(d, w) == Plus(d, Rounds(LAMBDA v, r : Md5Round(v, w, r), d, 64))

md5_xform(digest, data, nblk) == Chain(Md5Compress, digest, LittleEndian(data, 4), nblk)

-----------------------------------------------------------------------------
Sha1K == K32(<<\h5a82, \h7999, \h6ed9, \heba1, \h8f1b, \hbcdc, \hca62, \hc1d6>>)

\* slip: the new word is not rotated, as in the hash SHA-1 replaced.
Sha1RingUnrotated(w, r) ==
  LET W(i) == w[((r + i) % 16) + 1]
  IN IF r < 16 THEN w ELSE [w EXCEPT ![(r % 16) + 1] = W(13) (+) W(8) (+) W(2) (+) W(0)]

\* W(r): from the sixteenth round on, a word of the ring is replaced as it is read.
Sha1Ring(w, r) ==
  LET W(i) == w[((r + i) % 16) + 1]
  IN IF r < 16 THEN w
     ELSE [w EXCEPT ![(r % 16) + 1] = RotL(W(13) (+) W(8) (+) W(2) (+) W(0), 1)]

Sha1Mix(r, x, y, z) ==
  CASE r < 20 -> Choose3(x, y, z)
    [] r \in 40..59 -> Major3(x, y, z)
    [] OTHER -> Parity3(x, y, z)

Sha1Round(s, r) ==
  LET x(k) == s.v[Role(5, r, k)]
      w == Sha1Ring(s.w, r)
      sum == x(4) ++ Sha1Mix(r, x(1), x(2), x(3)) ++ w[(r % 16) + 1]
               ++ Phase(Sha1K, r, 20) ++ RotL(x(0), 5)
  IN [v |-> [s.v EXCEPT ![Role(5, r, 4)] = sum, ![Role(5, r, 1)] = RotL(@, 30)], w |-> w]

Sha1Compress(d, w) == Plus(d, Rounds(Sha1Round, [v |-> d, w |-> w], 80).v)

sha1_xform(digest, data, nblk) == Chain(Sha1Compress, digest, BigEndian(data, 4), nblk)
\* For data in the order of a little-endian machine.
sha1_xform_le(digest, data, nblk) == Chain(Sha1Compress, digest, LittleEndian(data, 4), nblk)

-----------------------------------------------------------------------------
\* The left and the right line of RIPEMD-160: which word each round reads and how
\* far it rotates.
RmdWords == [left |-> <<
     0,  1,  2,  3,  4,  5,  6,  7,  8,  9, 10, 11, 12, 13, 14, 15,
     7,  4, 13,  1, 10,  6, 15,  3, 12,  0,  9,  5,  2, 14, 11,  8,
     3, 10, 14,  4,  9, 15,  8,  1,  2,  7,  0,  6, 13, 11,  5, 12,
     1,  9, 11, 10,  0,  8, 12,  4, 13,  3,  7, 15, 14,  5,  6,  2,
     4,  0,  5,  9,  7, 12,  2, 10, 14,  1,  3,  8, 11,  6, 15, 13 >>, right |-> <<
     5, 14,  7,  0,  9,  2, 11,  4, 13,  6, 15,  8,  1, 10,  3, 12,
     6, 11,  3,  7,  0, 13,  5, 10, 14, 15,  8, 12,  4,  9,  1,  2,
    15,  5,  1,  3,  7, 14,  6,  9, 11,  8, 12,  2, 10,  0,  4, 13,
     8,  6,  4,  1,  3, 11, 15,  0,  5, 12,  2, 13,  9,  7, 10, 14,
    12, 15, 10,  4,  1,  5,  8,  7,  6,  2, 13, 14,  0,  3,  9, 11 >>]
RmdShifts == [left |-> <<
    11, 14, 15, 12,  5,  8,  7,  9, 11, 13, 14, 15,  6,  7,  9,  8,
     7,  6,  8, 13, 11,  9,  7, 15,  7, 12, 15,  9, 11,  7, 13, 12,
    11, 13,  6,  7, 14,  9, 13, 15, 14,  8, 13,  6,  5, 12,  7,  5,
    11, 12, 14, 15, 14, 15,  9,  8,  9, 14,  5,  6,  8,  6,  5, 12,
     9, 15,  5, 11,  6,  8, 13, 12,  5, 12, 13, 14, 11,  8,  5,  6 >>, right |-> <<
     8,  9,  9, 11, 13, 15, 15,  5,  7,  7,  8, 11, 14, 14, 12,  6,
     9, 13, 15,  7, 12,  8,  9, 11,  7,  7, 12,  7,  6, 15, 13, 11,
     9,  7, 15, 11,  8,  6,  6, 14, 12, 13,  5, 14, 13, 13,  7,  5,
    15,  5,  8, 11, 14, 14,  6, 14,  6,  9, 12,  9, 12,  5, 15,  8,
     8,  5, 12,  9, 12,  5, 14,  6,  8, 13,  6,  5, 15, 13, 11, 11 >>]
RmdK == [left  |-> K32(<<0, 0, \h5a82, \h7999, \h6ed9, \heba1, \h8f1b, \hbcdc, \ha953, \hfd4e>>),
         right |-> K32(<<\h50a2, \h8be6, \h5c4d, \hd124, \h6d70, \h3ef3, \h7a6d, \h76e9, 0, 0>>)]

\* F, G, H, I, J; the right line takes them in the reverse order.
RmdMix(n, x, y, z) ==
  CASE n = 1 -> Parity3(x, y, z)
    [] n = 2 -> ((y (+) z) & x) (+) z
    [] n = 3 -> (x | Not(y)) (+) z
    [] n = 4 -> ((x (+) y) & z) (+) y
    [] n = 5 -> (y | Not(z)) (+) x

RmdRound(line, v, w, r) ==
  LET x(k) == v[Role(5, r, k)]
      n == (r \div 16) + 1
      mix == RmdMix(IF line = "left" THEN n ELSE 6 - n, x(1), x(2), x(3))
      sum == x(0) ++ mix ++ w[RmdWords[line][r + 1] + 1] ++ RmdK[line][n]
  IN [v EXCEPT ![Role(5, r, 0)] = RotL(sum, RmdShifts[line][r + 1]) ++ x(4),
               ![Role(5, r, 2)] = RotL(@, 10)]

RmdLine(line, d, w) == Rounds(LAMBDA v, r : RmdRound(line, v, w, r), d, 80)

RmdCompress(d, w) ==
  LET left == RmdLine("left", d, w)
      right == RmdLine("right", d, w)
      next(i, n) == ((i + n - 1) % 5) + 1
  IN [i \in 1..5 |-> d[next(i, 1)] ++ left[next(i, 2)] ++ right[next(i, 3)]]

ripemd160_xform(digest, data, nblk) == Chain(RmdCompress, digest, LittleEndian(data, 4), nblk)

-----------------------------------------------------------------------------
\* The two families of SHA-2 differ in the width, the rotations and the rounds.
\* The shorter constants are the upper halves of the longer ones.
Sha512Halves == <<
    \h428a, \h2f98, \hd728, \hae22, \h7137, \h4491, \h23ef, \h65cd,
    \hb5c0, \hfbcf, \hec4d, \h3b2f, \he9b5, \hdba5, \h8189, \hdbbc,
    \h3956, \hc25b, \hf348, \hb538, \h59f1, \h11f1, \hb605, \hd019,
    \h923f, \h82a4, \haf19, \h4f9b, \hab1c, \h5ed5, \hda6d, \h8118,
    \hd807, \haa98, \ha303, \h0242, \h1283, \h5b01, \h4570, \h6fbe,
    \h2431, \h85be, \h4ee4, \hb28c, \h550c, \h7dc3, \hd5ff, \hb4e2,
    \h72be, \h5d74, \hf27b, \h896f, \h80de, \hb1fe, \h3b16, \h96b1,
    \h9bdc, \h06a7, \h25c7, \h1235, \hc19b, \hf174, \hcf69, \h2694,
    \he49b, \h69c1, \h9ef1, \h4ad2, \hefbe, \h4786, \h384f, \h25e3,
    \h0fc1, \h9dc6, \h8b8c, \hd5b5, \h240c, \ha1cc, \h77ac, \h9c65,
    \h2de9, \h2c6f, \h592b, \h0275, \h4a74, \h84aa, \h6ea6, \he483,
    \h5cb0, \ha9dc, \hbd41, \hfbd4, \h76f9, \h88da, \h8311, \h53b5,
    \h983e, \h5152, \hee66, \hdfab, \ha831, \hc66d, \h2db4, \h3210,
    \hb003, \h27c8, \h98fb, \h213f, \hbf59, \h7fc7, \hbeef, \h0ee4,
    \hc6e0, \h0bf3, \h3da8, \h8fc2, \hd5a7, \h9147, \h930a, \ha725,
    \h06ca, \h6351, \he003, \h826f, \h1429, \h2967, \h0a0e, \h6e70,
    \h27b7, \h0a85, \h46d2, \h2ffc, \h2e1b, \h2138, \h5c26, \hc926,
    \h4d2c, \h6dfc, \h5ac4, \h2aed, \h5338, \h0d13, \h9d95, \hb3df,
    \h650a, \h7354, \h8baf, \h63de, \h766a, \h0abb, \h3c77, \hb2a8,
    \h81c2, \hc92e, \h47ed, \haee6, \h9272, \h2c85, \h1482, \h353b,
    \ha2bf, \he8a1, \h4cf1, \h0364, \ha81a, \h664b, \hbc42, \h3001,
    \hc24b, \h8b70, \hd0f8, \h9791, \hc76c, \h51a3, \h0654, \hbe30,
    \hd192, \he819, \hd6ef, \h5218, \hd699, \h0624, \h5565, \ha910,
    \hf40e, \h3585, \h5771, \h202a, \h106a, \ha070, \h32bb, \hd1b8,
    \h19a4, \hc116, \hb8d2, \hd0c8, \h1e37, \h6c08, \h5141, \hab53,
    \h2748, \h774c, \hdf8e, \heb99, \h34b0, \hbcb5, \he19b, \h48a8,
    \h391c, \h0cb3, \hc5c9, \h5a63, \h4ed8, \haa4a, \he341, \h8acb,
    \h5b9c, \hca4f, \h7763, \he373, \h682e, \h6ff3, \hd6b2, \hb8a3,
    \h748f, \h82ee, \h5def, \hb2fc, \h78a5, \h636f, \h4317, \h2f60,
    \h84c8, \h7814, \ha1f0, \hab72, \h8cc7, \h0208, \h1a64, \h39ec,
    \h90be, \hfffa, \h2363, \h1e28, \ha450, \h6ceb, \hde82, \hbde9,
    \hbef9, \ha3f7, \hb2c6, \h7915, \hc671, \h78f2, \he372, \h532b,
    \hca27, \h3ece, \hea26, \h619c, \hd186, \hb8c7, \h21c0, \hc207,
    \heada, \h7dd6, \hcde0, \heb1e, \hf57d, \h4f7f, \hee6e, \hd178,
    \h06f0, \h67aa, \h7217, \h6fba, \h0a63, \h7dc5, \ha2c8, \h98a6,
    \h113f, \h9804, \hbef9, \h0dae, \h1b71, \h0b35, \h131c, \h471b,
    \h28db, \h77f5, \h2304, \h7d84, \h32ca, \hab7b, \h40c7, \h2493,
    \h3c9e, \hbe0a, \h15c9, \hbebc, \h431d, \h67c4, \h9c10, \h0d4c,
    \h4cc5, \hd4be, \hcb3e, \h42b6, \h597f, \h299c, \hfc65, \h7e2a,
    \h5fcb, \h6fab, \h3ad6, \hfaec, \h6c44, \h198c, \h4a47, \h5817 >>
Sha512K == Constants(Sha512Halves, 8)
Sha256K == [r \in 1..64 |-> SubSeq(Sha512K[r], 1, 4)]

sha2_256 == [rounds |-> 64, k |-> Sha256K, s0 |-> <<7, 18, 3>>, s1 |-> <<17, 19, 10>>,
             s2 |-> <<2, 13, 22>>, s3 |-> <<6, 11, 25>>]
sha2_512 == [rounds |-> 80, k |-> Sha512K, s0 |-> <<1, 8, 7>>, s1 |-> <<19, 61, 6>>,
             s2 |-> <<28, 34, 39>>, s3 |-> <<14, 18, 41>>]

\* S0 and S1 end in a shift, S2 and S3 in a rotation.
SmallSigma(n, x) == RotR(x, n[1]) (+) RotR(x, n[2]) (+) ShiftR(x, n[3])
BigSigma(n, x) == RotR(x, n[1]) (+) RotR(x, n[2]) (+) RotR(x, n[3])

Sha2Ring(h, w, r) ==
  LET W(i) == w[((r + i) % 16) + 1]
  IN IF r < 16 THEN w
     ELSE [w EXCEPT ![(r % 16) + 1] =
             SmallSigma(h.s1, W(14)) ++ W(9) ++ SmallSigma(h.s0, W(1)) ++ W(0)]

Sha2Round(h, s, r) ==
  LET x(k) == s.v[Role(8, r, k)]
      w == Sha2Ring(h, s.w, r)
      temp == x(7) ++ BigSigma(h.s3, x(4)) ++ Choose3(x(4), x(5), x(6)) ++ h.k[r + 1] ++ w[(r % 16) + 1]
  IN [v |-> [s.v EXCEPT ![Role(8, r, 3)] = @ ++ temp,
                        ![Role(8, r, 7)] = temp ++ BigSigma(h.s2, x(0)) ++ Major3(x(0), x(1), x(2))],
      w |-> w]

Sha2Compress(h, d, w) ==
  Plus(d, Rounds(LAMBDA s, r : Sha2Round(h, s, r), [v |-> d, w |-> w], h.rounds).v)

sha2_256_xform(digest, data, nblk) ==
  Chain(LAMBDA d, w : Sha2Compress(sha2_256, d, w), digest, BigEndian(data, 4), nblk)
sha2_256_xform_le(digest, data, nblk) ==
  Chain(LAMBDA d, w : Sha2Compress(sha2_256, d, w), digest, LittleEndian(data, 4), nblk)
sha2_512_xform(digest, data, nblk) ==
  Chain(LAMBDA d, w : Sha2Compress(sha2_512, d, w), digest, BigEndian(data, 8), nblk)
sha2_512_xform_le(digest, data, nblk) ==
  Chain(LAMBDA d, w : Sha2Compress(sha2_512, d, w), digest, LittleEndian(data, 8), nblk)
=============================================================================
