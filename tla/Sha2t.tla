-------------------------------- MODULE Sha2t --------------------------------
(***************************************************************************)
(* The program sha2t.c, which computes the initial values of SHA-256/t and *)
(* SHA-512/t.  It has its own SHA-2, written as the standard is: the whole *)
(* message schedule is laid out first and the registers are moved.  A      *)
(* definition marked "slip" is a deliberate error that nothing uses.       *)
(***************************************************************************)
EXTENDS Kernels, Params

\* CH, MAJ: the 64-bit macros are those of the kernels.
CH(h, x, y, z) == IF h.rounds = 64 THEN (x & y) (+) (Not(x) & z) ELSE Choose3(x, y, z)
MAJ(h, x, y, z) == IF h.rounds = 64 THEN (x & y) (+) (x & z) (+) (y & z) ELSE Major3(x, y, z)

\* The words of the schedule, one appended to those before.
Extended(h, m, r) ==
  Append(m, SmallSigma(h.s1, m[r + 15]) ++ m[r + 10] ++ SmallSigma(h.s0, m[r + 2]) ++ m[r + 1])

Schedule(h, w) == Rounds(LAMBDA m, r : Extended(h, m, r), w, h.rounds - 16)

\* <<a, b, c, d, e, f, g, h>> after one round.
Sha2tRound(h, v, k, w) ==
  LET t1 == v[8] ++ BigSigma(h.s3, v[5]) ++ CH(h, v[5], v[6], v[7]) ++ k ++ w
      t2 == BigSigma(h.s2, v[1]) ++ MAJ(h, v[1], v[2], v[3])
  IN <<t1 ++ t2, v[1], v[2], v[3], v[4] ++ t1, v[5], v[6], v[7]>>

Sha2tTransform(h, state, w) ==
  LET m == Schedule(h, w)
  IN Plus(state, Rounds(LAMBDA v, r : Sha2tRound(h, v, h.k[r + 1], m[r + 1]), state, h.rounds))

\* The eight bytes of (len * 8) >> 56, ...
LengthBytes(n) ==
  LET half(i) == IF i <= 4 THEN ((8 * n) \div 256 ^ 3) \div 256 ELSE 8 * n
  IN [i \in 1..8 |-> (half(i) \div 256 ^ ((8 - i) % 4)) % 256]

\* What is compressed: whole blocks of the input, then the padding buffer.  The
\* longer length of SHA-512 is never used: the zeros before it make up for it.
Sha2tInput(m, word) ==
  LET block == 16 * word
      p == (Len(m) % block) + 1
      end == IF p <= block - 2 * word THEN block - 8 ELSE 2 * block - 8
  IN m \o <<128>> \o [i \in 1..(end - p) |-> 0] \o LengthBytes(Len(m))

Sha2tHash(h, word, iv, m) ==
  LET input == Sha2tInput(m, word)
      n == Len(input) \div (16 * word)
      state == Chain(LAMBDA d, w : Sha2tTransform(h, d, w), iv, BigEndian(input, word), n)
  IN [i \in 1..(8 * word) |-> state[((i - 1) \div word) + 1][((i - 1) % word) + 1]]

sha256iv(iv, m) == Sha2tHash(sha2_256, 4, iv, m)
sha512iv(iv, m) == Sha2tHash(sha2_512, 8, iv, m)

\* slip: the tens still hold the hundreds.
DigitsRunOn(t) ==
  (IF t > 99 THEN <<48 + (t \div 100)>> ELSE <<>>)
    \o (IF t > 9 THEN <<48 + (t \div 10)>> ELSE <<>>)
    \o <<48 + (t % 10)>>

\* The decimal digits of t < 1000 in ASCII.
Digits(t) ==
  (IF t > 99 THEN <<48 + (t \div 100)>> ELSE <<>>)
    \o (IF t > 9 THEN <<48 + ((t \div 10) % 10)>> ELSE <<>>)
    \o <<48 + (t % 10)>>

\* "SHA-256/" and "SHA-512/"
Prefix(n) == <<83, 72, 65, 45>> \o n \o <<47>>

\* The initial value of the truncated hash; none for more bits than there are.
Failed == "-1"

sha256t(t) ==
  CASE t = 256 -> SHA2_256.IV
    [] t = 224 -> SHA2_224.IV
    [] t > 256 -> Failed
    [] OTHER -> LET iv == [i \in 1..8 |-> SHA2_256.IV[i] (+) <<165, 165, 165, 165>>]
                IN BigEndian(sha256iv(iv, Prefix(<<50, 53, 54>>) \o Digits(t)), 4)

sha512t(t) ==
  CASE t = 512 -> SHA2_512.IV
    [] t = 384 -> SHA2_384.IV
    [] t > 512 -> Failed
    [] OTHER -> LET iv == [i \in 1..8 |-> SHA2_512.IV[i] (+) [k \in 1..8 |-> 165]]
                IN BigEndian(sha512iv(iv, Prefix(<<53, 49, 50>>) \o Digits(t)), 8)
=============================================================================
