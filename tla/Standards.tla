------------------------------ MODULE Standards ------------------------------
(***************************************************************************)
(* The compression functions as their standards write them (RFC 1320, RFC  *)
(* 1321, FIPS 180-4, and the RIPEMD-160 paper): the registers move, the    *)
(* message schedule is laid out, the orders of the words are given by the  *)
(* permutations they come from.  They share with the kernels the constants *)
(* a standard gives as numbers, and nothing else.                          *)
(***************************************************************************)
EXTENDS Kernels

If3(x, y, z) == (x & y) | (Not(x) & z)
Most3(x, y, z) == (x & y) (+) (x & z) (+) (y & z)

\* One round of MD4 or MD5: the registers move one place.
Shift4(v, new) == <<v[4], new, v[2], v[3]>>

Md4F(n, x, y, z) ==
  CASE n = 0 -> If3(x, y, z)
    [] n = 1 -> Most3(x, y, z)
    [] n = 2 -> Parity3(x, y, z)

\* The words of a row: in order, by columns, by the bits of the index reversed.
Md4Index(n, i) ==
  CASE n = 0 -> i
    [] n = 1 -> 4 * (i % 4) + (i \div 4)
    [] n = 2 -> 8 * (i % 2) + 4 * ((i \div 2) % 2) + 2 * ((i \div 4) % 2) + (i \div 8)

Md4Step(v, w, r) ==
  Shift4(v, RotL(v[1] ++ Md4F(r \div 16, v[2], v[3], v[4])
                   ++ w[Md4Index(r \div 16, r % 16) + 1] ++ Phase(Md4K, r, 16),
                 Phase(Md4Shifts, r, 16)[(r % 4) + 1]))

Md4Standard(d, w) == Plus(d, Rounds(LAMBDA v, r : Md4Step(v, w, r), d, 48))

Md5F(n, x, y, z) ==
  CASE n = 0 -> If3(x, y, z)
    [] n = 1 -> If3(z, x, y)
    [] n = 2 -> Parity3(x, y, z)
    [] n = 3 -> y (+) (x | Not(z))

Md5Index(r) == <<r, 5 * r + 1, 3 * r + 5, 7 * r>>[(r \div 16) + 1] % 16

Md5Step(v, w, r) ==
  Shift4(v, v[2] ++ RotL(v[1] ++ Md5F(r \div 16, v[2], v[3], v[4])
                           ++ w[Md5Index(r) + 1] ++ Md5K[r + 1],
                         Phase(Md5Shifts, r, 16)[(r % 4) + 1]))

Md5Standard(d, w) == Plus(d, Rounds(LAMBDA v, r : Md5Step(v, w, r), d, 64))

\* The schedule, one word appended to those before.
Sha1Next(p, r) == Append(p, RotL(p[r + 14] (+) p[r + 9] (+) p[r + 3] (+) p[r + 1], 1))

Sha1F(n, x, y, z) ==
  CASE n = 0 -> If3(x, y, z)
    [] n \in {1, 3} -> Parity3(x, y, z)
    [] n = 2 -> Most3(x, y, z)

Sha1Step(v, W, r) ==
  <<RotL(v[1], 5) ++ Sha1F(r \div 20, v[2], v[3], v[4]) ++ v[5] ++ W[r + 1] ++ Phase(Sha1K, r, 20),
    v[1], RotL(v[2], 30), v[3], v[4]>>

Sha1Standard(d, w) ==
  LET W == Rounds(Sha1Next, w, 64)
  IN Plus(d, Rounds(LAMBDA v, r : Sha1Step(v, W, r), d, 80))

\* The two permutations RIPEMD-160 takes the orders of its words from, and how far
\* each row rotates each word: the two lines agree on it.
RmdRho == <<7, 4, 13, 1, 10, 6, 15, 3, 12, 0, 9, 5, 2, 14, 11, 8>>
RmdPi(i) == (9 * i + 5) % 16
RmdRotate == <<
  <<11, 14, 15, 12,  5,  8,  7,  9, 11, 13, 14, 15,  6,  7,  9,  8>>,
  <<12, 13, 11, 15,  6,  9,  9,  7, 12, 15, 11, 13,  7,  8,  7,  7>>,
  <<13, 15, 14, 11,  7,  7,  6,  8, 13, 14, 13, 12,  5,  5,  6,  9>>,
  <<14, 11, 12, 14,  8,  6,  5,  5, 15, 12, 15, 14,  9,  9,  8,  6>>,
  <<15, 12, 13, 13,  9,  5,  8,  6, 14, 11, 12, 11,  8,  6,  5,  5>>>>

RmdF(n, x, y, z) ==
  CASE n = 1 -> Parity3(x, y, z)
    [] n = 2 -> If3(x, y, z)
    [] n = 3 -> (x | Not(y)) (+) z
    [] n = 4 -> If3(z, x, y)
    [] n = 5 -> x (+) (y | Not(z))

RmdIndex(line, n, i) ==
  LET rho(k) == RmdRho[k + 1]
      j == IF line = "left" THEN i ELSE RmdPi(i)
  IN CASE n = 1 -> j
       [] n = 2 -> rho(j)
       [] n = 3 -> rho(rho(j))
       [] n = 4 -> rho(rho(rho(j)))
       [] n = 5 -> rho(rho(rho(rho(j))))

RmdStep(line, v, w, r) ==
  LET n == (r \div 16) + 1
      i == RmdIndex(line, n, r % 16)
      f == RmdF(IF line = "left" THEN n ELSE 6 - n, v[2], v[3], v[4])
  IN <<v[5], RotL(v[1] ++ f ++ w[i + 1] ++ RmdK[line][n], RmdRotate[n][i + 1]) ++ v[5],
       v[2], RotL(v[3], 10), v[4]>>

RmdStandard(d, w) ==
  LET left == Rounds(LAMBDA v, r : RmdStep("left", v, w, r), d, 80)
      right == Rounds(LAMBDA v, r : RmdStep("right", v, w, r), d, 80)
  IN <<d[2] ++ left[3] ++ right[4], d[3] ++ left[4] ++ right[5], d[4] ++ left[5] ++ right[1],
       d[5] ++ left[1] ++ right[2], d[1] ++ left[2] ++ right[3]>>
=============================================================================
