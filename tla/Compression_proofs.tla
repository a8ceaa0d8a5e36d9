------------------------- MODULE Compression_proofs -------------------------
(***************************************************************************)
(* Proofs about Compression and the modules it rests on, for every state,  *)
(* block and message: each kernel computes the compression function of its *)
(* standard, and the functions around the kernels its chain, its padding   *)
(* and its digest.                                                         *)
(*                                                                         *)
(* Operators that take an operator cannot be quantified over here, so what *)
(* Steps goes through is stated once for each function it is used with.    *)
(***************************************************************************)
EXTENDS Compression, WellFoundedInduction, TLAPS

-----------------------------------------------------------------------------
\* Bytes: the bits of the bitwise operators.

\* Eight bits.
Octet == [1..8 -> {0, 1}]

LEMMA BitsAre ==
  ASSUME NEW a \in Byte
  PROVE  Bits(a) \in Octet /\ ByteOf(Bits(a)) = a
<1>1. Bits(a) \in Octet
  BY DEF Byte, Bits, Octet
<1>2. ByteOf(Bits(a)) = a
  BY DEF Byte, Bits, ByteOf
<1>3. QED
  BY <1>1, <1>2

LEMMA ByteOfBits ==
  ASSUME NEW b \in Octet
  PROVE  ByteOf(b) \in Byte /\ \A i \in 1..8 : Bits(ByteOf(b))[i] = b[i]
<1>1. /\ b[1] \in 0..1 /\ b[2] \in 0..1 /\ b[3] \in 0..1 /\ b[4] \in 0..1
      /\ b[5] \in 0..1 /\ b[6] \in 0..1 /\ b[7] \in 0..1 /\ b[8] \in 0..1
  BY DEF Octet
<1>2. ByteOf(b) \in Int
  BY <1>1 DEF ByteOf
<1> DEFINE a == ByteOf(b)
<1>3. a = b[1] + 2 * b[2] + 4 * b[3] + 8 * b[4] + 16 * b[5] + 32 * b[6] + 64 * b[7] + 128 * b[8]
  BY DEF ByteOf
<1> HIDE DEF a
<1>4. /\ a \in 0..255
      /\ a % 2 = b[1] /\ (a \div 2) % 2 = b[2] /\ (a \div 4) % 2 = b[3] /\ (a \div 8) % 2 = b[4]
      /\ (a \div 16) % 2 = b[5] /\ (a \div 32) % 2 = b[6] /\ (a \div 64) % 2 = b[7]
      /\ (a \div 128) % 2 = b[8]
  <2>1. a \in Int
    BY <1>2 DEF a
  <2>2. PICK b1 \in 0..1, b2 \in 0..1, b3 \in 0..1, b4 \in 0..1 :
          b1 = b[1] /\ b2 = b[2] /\ b3 = b[3] /\ b4 = b[4]
    BY <1>1
  <2>3. PICK b5 \in 0..1, b6 \in 0..1, b7 \in 0..1, b8 \in 0..1 :
          b5 = b[5] /\ b6 = b[6] /\ b7 = b[7] /\ b8 = b[8]
    BY <1>1
  <2>4. a = b1 + 2 * b2 + 4 * b3 + 8 * b4 + 16 * b5 + 32 * b6 + 64 * b7 + 128 * b8
    BY <1>3, <2>2, <2>3
  <2>5. /\ a \in 0..255
        /\ a % 2 = b1 /\ (a \div 2) % 2 = b2 /\ (a \div 4) % 2 = b3 /\ (a \div 8) % 2 = b4
        /\ (a \div 16) % 2 = b5 /\ (a \div 32) % 2 = b6 /\ (a \div 64) % 2 = b7
        /\ (a \div 128) % 2 = b8
    BY <2>1, <2>4
  <2>6. QED
    BY <2>2, <2>3, <2>5
<1>5. \A i \in 1..8 : Bits(a)[i] = b[i]
  BY <1>4 DEF Bits
<1>6. QED
  BY <1>4, <1>5 DEF a, Byte

\* Bytes with the same bits are the same.
LEMMA SameBits ==
  ASSUME NEW a \in Byte, NEW b \in Byte, \A i \in 1..8 : Bits(a)[i] = Bits(b)[i]
  PROVE  a = b
<1>1. Bits(a) = Bits(b)
  BY DEF Bits
<1>2. QED
  BY <1>1, BitsAre

\* The operators on bytes, bit by bit.
AndOf(a, b) == AndByte[a][b]
OrOf(a, b) == a + b - AndByte[a][b]
XorOf(a, b) == a + b - 2 * AndByte[a][b]
NotOf(a) == 255 - a

LEMMA AndBits ==
  ASSUME NEW a \in Byte, NEW b \in Byte
  PROVE  /\ AndOf(a, b) \in Byte
         /\ \A i \in 1..8 : Bits(AndOf(a, b))[i] = IF Bits(a)[i] = 1 THEN Bits(b)[i] ELSE 0
<1> DEFINE c == [i \in 1..8 |-> IF Bits(a)[i] = 1 THEN Bits(b)[i] ELSE 0]
<1>1. AndOf(a, b) = ByteOf(c)
  BY DEF AndOf, AndByte
<1>2. c \in Octet
  BY BitsAre DEF Octet
<1>3. QED
  BY <1>1, <1>2, ByteOfBits

LEMMA OrBits ==
  ASSUME NEW a \in Byte, NEW b \in Byte
  PROVE  /\ OrOf(a, b) \in Byte
         /\ \A i \in 1..8 : Bits(OrOf(a, b))[i] = IF Bits(a)[i] = 1 THEN 1 ELSE Bits(b)[i]
<1> DEFINE x == Bits(a)
           y == Bits(b)
           c == [i \in 1..8 |-> IF x[i] = 1 THEN y[i] ELSE 0]
           e == [i \in 1..8 |-> IF x[i] = 1 THEN 1 ELSE y[i]]
<1>1. x \in Octet /\ y \in Octet /\ ByteOf(x) = a /\ ByteOf(y) = b
  BY BitsAre
<1>2. AndByte[a][b] = ByteOf(c)
  BY DEF AndByte
<1> HIDE DEF x, y
<1>3. \A i \in 1..8 : x[i] \in 0..1 /\ y[i] \in 0..1 /\ c[i] \in 0..1 /\ e[i] = x[i] + y[i] - c[i]
  BY <1>1 DEF Octet
<1> HIDE DEF c, e
<1>4. ByteOf(e) = ByteOf(x) + ByteOf(y) - ByteOf(c)
  <2>1. PICK x1 \in 0..1, x2 \in 0..1, x3 \in 0..1, x4 \in 0..1,
            x5 \in 0..1, x6 \in 0..1, x7 \in 0..1, x8 \in 0..1 :
          /\ x[1] = x1 /\ x[2] = x2 /\ x[3] = x3 /\ x[4] = x4
          /\ x[5] = x5 /\ x[6] = x6 /\ x[7] = x7 /\ x[8] = x8
    BY <1>3
  <2>2. PICK y1 \in 0..1, y2 \in 0..1, y3 \in 0..1, y4 \in 0..1,
            y5 \in 0..1, y6 \in 0..1, y7 \in 0..1, y8 \in 0..1 :
          /\ y[1] = y1 /\ y[2] = y2 /\ y[3] = y3 /\ y[4] = y4
          /\ y[5] = y5 /\ y[6] = y6 /\ y[7] = y7 /\ y[8] = y8
    BY <1>3
  <2>3. PICK c1 \in 0..1, c2 \in 0..1, c3 \in 0..1, c4 \in 0..1,
            c5 \in 0..1, c6 \in 0..1, c7 \in 0..1, c8 \in 0..1 :
          /\ c[1] = c1 /\ c[2] = c2 /\ c[3] = c3 /\ c[4] = c4
          /\ c[5] = c5 /\ c[6] = c6 /\ c[7] = c7 /\ c[8] = c8
    BY <1>3
  <2>4. /\ e[1] = x[1] + y[1] - c[1] /\ e[2] = x[2] + y[2] - c[2] /\ e[3] = x[3] + y[3] - c[3]
        /\ e[4] = x[4] + y[4] - c[4] /\ e[5] = x[5] + y[5] - c[5] /\ e[6] = x[6] + y[6] - c[6]
        /\ e[7] = x[7] + y[7] - c[7] /\ e[8] = x[8] + y[8] - c[8]
    BY <1>3
  <2>5. /\ e[1] = x1 + y1 - c1 /\ e[2] = x2 + y2 - c2 /\ e[3] = x3 + y3 - c3
        /\ e[4] = x4 + y4 - c4 /\ e[5] = x5 + y5 - c5 /\ e[6] = x6 + y6 - c6
        /\ e[7] = x7 + y7 - c7 /\ e[8] = x8 + y8 - c8
    BY <2>1, <2>2, <2>3, <2>4
  <2>6. QED
    BY <2>1, <2>2, <2>3, <2>5 DEF ByteOf
<1>5. e \in Octet
  BY <1>1 DEF Octet, e
<1>6. OrOf(a, b) = ByteOf(e)
  BY <1>1, <1>2, <1>4 DEF OrOf
<1>7. QED
  BY <1>5, <1>6, ByteOfBits DEF e, x, y

LEMMA XorBits ==
  ASSUME NEW a \in Byte, NEW b \in Byte
  PROVE  /\ XorOf(a, b) \in Byte
         /\ \A i \in 1..8 : Bits(XorOf(a, b))[i] = IF Bits(a)[i] = Bits(b)[i] THEN 0 ELSE 1
<1> DEFINE x == Bits(a)
           y == Bits(b)
           c == [i \in 1..8 |-> IF x[i] = 1 THEN y[i] ELSE 0]
           e == [i \in 1..8 |-> IF x[i] = y[i] THEN 0 ELSE 1]
<1>1. x \in Octet /\ y \in Octet /\ ByteOf(x) = a /\ ByteOf(y) = b
  BY BitsAre
<1>2. AndByte[a][b] = ByteOf(c)
  BY DEF AndByte
<1> HIDE DEF x, y
<1>3. \A i \in 1..8 : x[i] \in 0..1 /\ y[i] \in 0..1 /\ c[i] \in 0..1 /\ e[i] = x[i] + y[i] - 2 * c[i]
  BY <1>1 DEF Octet
<1> HIDE DEF c, e
<1>4. ByteOf(e) = ByteOf(x) + ByteOf(y) - 2 * ByteOf(c)
  <2>1. PICK x1 \in 0..1, x2 \in 0..1, x3 \in 0..1, x4 \in 0..1,
            x5 \in 0..1, x6 \in 0..1, x7 \in 0..1, x8 \in 0..1 :
          /\ x[1] = x1 /\ x[2] = x2 /\ x[3] = x3 /\ x[4] = x4
          /\ x[5] = x5 /\ x[6] = x6 /\ x[7] = x7 /\ x[8] = x8
    BY <1>3
  <2>2. PICK y1 \in 0..1, y2 \in 0..1, y3 \in 0..1, y4 \in 0..1,
            y5 \in 0..1, y6 \in 0..1, y7 \in 0..1, y8 \in 0..1 :
          /\ y[1] = y1 /\ y[2] = y2 /\ y[3] = y3 /\ y[4] = y4
          /\ y[5] = y5 /\ y[6] = y6 /\ y[7] = y7 /\ y[8] = y8
    BY <1>3
  <2>3. PICK c1 \in 0..1, c2 \in 0..1, c3 \in 0..1, c4 \in 0..1,
            c5 \in 0..1, c6 \in 0..1, c7 \in 0..1, c8 \in 0..1 :
          /\ c[1] = c1 /\ c[2] = c2 /\ c[3] = c3 /\ c[4] = c4
          /\ c[5] = c5 /\ c[6] = c6 /\ c[7] = c7 /\ c[8] = c8
    BY <1>3
  <2>4. /\ e[1] = x[1] + y[1] - 2 * c[1] /\ e[2] = x[2] + y[2] - 2 * c[2] /\ e[3] = x[3] + y[3] - 2 * c[3]
        /\ e[4] = x[4] + y[4] - 2 * c[4] /\ e[5] = x[5] + y[5] - 2 * c[5] /\ e[6] = x[6] + y[6] - 2 * c[6]
        /\ e[7] = x[7] + y[7] - 2 * c[7] /\ e[8] = x[8] + y[8] - 2 * c[8]
    BY <1>3
  <2>5. /\ e[1] = x1 + y1 - 2 * c1 /\ e[2] = x2 + y2 - 2 * c2 /\ e[3] = x3 + y3 - 2 * c3
        /\ e[4] = x4 + y4 - 2 * c4 /\ e[5] = x5 + y5 - 2 * c5 /\ e[6] = x6 + y6 - 2 * c6
        /\ e[7] = x7 + y7 - 2 * c7 /\ e[8] = x8 + y8 - 2 * c8
    BY <2>1, <2>2, <2>3, <2>4
  <2>6. QED
    BY <2>1, <2>2, <2>3, <2>5 DEF ByteOf
<1>5. e \in Octet
  BY <1>1 DEF Octet, e
<1>6. XorOf(a, b) = ByteOf(e)
  BY <1>1, <1>2, <1>4 DEF XorOf
<1>7. QED
  BY <1>5, <1>6, ByteOfBits DEF e, x, y

LEMMA NotBits ==
  ASSUME NEW a \in Byte
  PROVE  /\ NotOf(a) \in Byte
         /\ \A i \in 1..8 : Bits(NotOf(a))[i] = IF Bits(a)[i] = 1 THEN 0 ELSE 1
<1> DEFINE x == Bits(a)
           e == [i \in 1..8 |-> IF x[i] = 1 THEN 0 ELSE 1]
<1>1. x \in Octet /\ ByteOf(x) = a
  BY BitsAre
<1> HIDE DEF x
<1>2. \A i \in 1..8 : x[i] \in 0..1 /\ e[i] = 1 - x[i]
  BY <1>1 DEF Octet
<1> HIDE DEF e
<1>3. ByteOf(e) = 255 - ByteOf(x)
  BY <1>2 DEF ByteOf
<1>4. e \in Octet
  BY <1>1 DEF Octet, e
<1>5. NotOf(a) = ByteOf(e)
  BY <1>1, <1>3 DEF NotOf
<1>6. QED
  BY <1>4, <1>5, ByteOfBits DEF e, x

\* What the identities below need of the bits.
BitAt(a, i) == Bits(a)[i]

BitRules ==
  /\ \A a \in Byte : \A i \in 1..8 : BitAt(a, i) \in {0, 1}
  /\ \A a \in Byte : \A i \in 1..8 : BitAt(NotOf(a), i) = IF BitAt(a, i) = 1 THEN 0 ELSE 1
  /\ \A a, b \in Byte : \A i \in 1..8 :
       BitAt(AndOf(a, b), i) = IF BitAt(a, i) = 1 THEN BitAt(b, i) ELSE 0
  /\ \A a, b \in Byte : \A i \in 1..8 :
       BitAt(OrOf(a, b), i) = IF BitAt(a, i) = 1 THEN 1 ELSE BitAt(b, i)
  /\ \A a, b \in Byte : \A i \in 1..8 :
       BitAt(XorOf(a, b), i) = IF BitAt(a, i) = BitAt(b, i) THEN 0 ELSE 1

LEMMA BitsRule == BitRules
<1>1. \A a \in Byte : \A i \in 1..8 : BitAt(a, i) \in {0, 1}
  BY BitsAre DEF BitAt, Octet
<1>2. \A a \in Byte : \A i \in 1..8 : BitAt(NotOf(a), i) = IF BitAt(a, i) = 1 THEN 0 ELSE 1
  BY NotBits DEF BitAt
<1>3. \A a, b \in Byte : \A i \in 1..8 :
        BitAt(AndOf(a, b), i) = IF BitAt(a, i) = 1 THEN BitAt(b, i) ELSE 0
  BY AndBits DEF BitAt
<1>4. \A a, b \in Byte : \A i \in 1..8 :
        BitAt(OrOf(a, b), i) = IF BitAt(a, i) = 1 THEN 1 ELSE BitAt(b, i)
  BY OrBits DEF BitAt
<1>5. \A a, b \in Byte : \A i \in 1..8 :
        BitAt(XorOf(a, b), i) = IF BitAt(a, i) = BitAt(b, i) THEN 0 ELSE 1
  BY XorBits DEF BitAt
<1>6. QED
  BY <1>1, <1>2, <1>3, <1>4, <1>5 DEF BitRules

LEMMA Bytewise ==
  /\ \A a \in Byte : NotOf(a) \in Byte
  /\ \A a, b \in Byte : AndOf(a, b) \in Byte
  /\ \A a, b \in Byte : OrOf(a, b) \in Byte
  /\ \A a, b \in Byte : XorOf(a, b) \in Byte
BY NotBits, AndBits, OrBits, XorBits

\* Bytes with the same bits are the same.
LEMMA EqualBits ==
  ASSUME NEW a \in Byte, NEW b \in Byte, \A i \in 1..8 : BitAt(a, i) = BitAt(b, i)
  PROVE  a = b
BY SameBits DEF BitAt

\* The choice and the majority, in each form a kernel or a standard has.
LEMMA ByteChoice ==
  ASSUME NEW a \in Byte, NEW b \in Byte, NEW c \in Byte
  PROVE  /\ XorOf(c, AndOf(a, XorOf(b, c))) = OrOf(AndOf(a, b), AndOf(NotOf(a), c))
         /\ XorOf(AndOf(XorOf(b, c), a), c) = OrOf(AndOf(a, b), AndOf(NotOf(a), c))
         /\ XorOf(AndOf(XorOf(c, b), a), c) = OrOf(AndOf(a, b), AndOf(NotOf(a), c))
         /\ XorOf(AndOf(a, b), AndOf(NotOf(a), c)) = OrOf(AndOf(a, b), AndOf(NotOf(a), c))
<1> DEFINE p == OrOf(AndOf(a, b), AndOf(NotOf(a), c))
           q1 == XorOf(c, AndOf(a, XorOf(b, c)))
           q2 == XorOf(AndOf(XorOf(b, c), a), c)
           q3 == XorOf(AndOf(XorOf(c, b), a), c)
           q4 == XorOf(AndOf(a, b), AndOf(NotOf(a), c))
<1>1. /\ NotOf(a) \in Byte /\ XorOf(b, c) \in Byte /\ XorOf(c, b) \in Byte /\ AndOf(a, b) \in Byte
  BY Bytewise
<1>2. /\ AndOf(NotOf(a), c) \in Byte /\ AndOf(a, XorOf(b, c)) \in Byte
      /\ AndOf(XorOf(b, c), a) \in Byte /\ AndOf(XorOf(c, b), a) \in Byte
  BY <1>1, Bytewise
<1>3. p \in Byte /\ q1 \in Byte /\ q2 \in Byte /\ q3 \in Byte /\ q4 \in Byte
  BY <1>1, <1>2, Bytewise
<1>4. ASSUME NEW i \in 1..8
      PROVE  /\ BitAt(q1, i) = BitAt(p, i) /\ BitAt(q2, i) = BitAt(p, i)
             /\ BitAt(q3, i) = BitAt(p, i) /\ BitAt(q4, i) = BitAt(p, i)
  BY <1>1, <1>2, BitsRule DEF BitRules
<1>5. QED
  <2> HIDE DEF p, q1, q2, q3, q4
  <2>1. q1 = p /\ q2 = p /\ q3 = p /\ q4 = p
    BY <1>3, <1>4, EqualBits
  <2>2. QED
    BY <2>1 DEF p, q1, q2, q3, q4

LEMMA ByteMajority ==
  ASSUME NEW a \in Byte, NEW b \in Byte, NEW c \in Byte
  PROVE  /\ OrOf(AndOf(a, b), AndOf(c, OrOf(a, b)))
              = XorOf(XorOf(AndOf(a, b), AndOf(a, c)), AndOf(b, c))
         /\ OrOf(OrOf(AndOf(a, b), AndOf(a, c)), AndOf(b, c))
              = XorOf(XorOf(AndOf(a, b), AndOf(a, c)), AndOf(b, c))
<1> DEFINE p == XorOf(XorOf(AndOf(a, b), AndOf(a, c)), AndOf(b, c))
           q1 == OrOf(AndOf(a, b), AndOf(c, OrOf(a, b)))
           q2 == OrOf(OrOf(AndOf(a, b), AndOf(a, c)), AndOf(b, c))
<1>1. AndOf(a, b) \in Byte /\ AndOf(a, c) \in Byte /\ AndOf(b, c) \in Byte /\ OrOf(a, b) \in Byte
  BY Bytewise
<1>2. /\ AndOf(c, OrOf(a, b)) \in Byte /\ OrOf(AndOf(a, b), AndOf(a, c)) \in Byte
      /\ XorOf(AndOf(a, b), AndOf(a, c)) \in Byte
  BY <1>1, Bytewise
<1>3. p \in Byte /\ q1 \in Byte /\ q2 \in Byte
  BY <1>1, <1>2, Bytewise
<1>4. ASSUME NEW i \in 1..8
      PROVE  BitAt(q1, i) = BitAt(p, i) /\ BitAt(q2, i) = BitAt(p, i)
  BY <1>1, <1>2, BitsRule DEF BitRules
<1>5. QED
  <2> HIDE DEF p, q1, q2
  <2>1. q1 = p /\ q2 = p
    BY <1>3, <1>4, EqualBits
  <2>2. QED
    BY <2>1 DEF p, q1, q2

LEMMA ByteExchange ==
  ASSUME NEW a \in Byte, NEW b \in Byte
  PROVE  XorOf(a, b) = XorOf(b, a)
<1>1. XorOf(a, b) \in Byte /\ XorOf(b, a) \in Byte
  BY Bytewise
<1>2. ASSUME NEW i \in 1..8 PROVE BitAt(XorOf(a, b), i) = BitAt(XorOf(b, a), i)
  BY BitsRule DEF BitRules
<1>3. QED
  BY <1>1, <1>2, EqualBits

-----------------------------------------------------------------------------
\* Words: sums, rotations, and what choice and majority have in common.

\* The words of n bytes.
Bytes(n) == [1..n -> Byte]

\* The widths of the words there are.
Width == {4, 8}

LEMMA WordIs ==
  ASSUME NEW n \in Nat, NEW x \in Bytes(n)
  PROVE  Len(x) = n /\ Word(x) = x /\ DOMAIN x = 1..n
<1>1. x \in Seq(Byte) /\ Len(x) = n /\ DOMAIN x = 1..n
  BY DEF Bytes
<1>2. SubSeq(x, 1, n) = x
  BY <1>1
<1>3. QED
  BY <1>1, <1>2 DEF Word

LEMMA Operators ==
  ASSUME NEW n \in Nat, NEW x \in Bytes(n), NEW y \in Bytes(n)
  PROVE  /\ x & y = [i \in 1..n |-> AndOf(x[i], y[i])] /\ x & y \in Bytes(n)
         /\ x | y = [i \in 1..n |-> OrOf(x[i], y[i])] /\ x | y \in Bytes(n)
         /\ x (+) y = [i \in 1..n |-> XorOf(x[i], y[i])] /\ x (+) y \in Bytes(n)
         /\ Not(x) = [i \in 1..n |-> NotOf(x[i])] /\ Not(x) \in Bytes(n)
<1>1. \A i \in 1..n : x[i] \in Byte /\ y[i] \in Byte
  BY DEF Bytes
<1>2. DOMAIN x = 1..n
  BY WordIs
<1>3. /\ [i \in 1..n |-> AndOf(x[i], y[i])] \in Bytes(n)
      /\ [i \in 1..n |-> OrOf(x[i], y[i])] \in Bytes(n)
      /\ [i \in 1..n |-> XorOf(x[i], y[i])] \in Bytes(n)
      /\ [i \in 1..n |-> NotOf(x[i])] \in Bytes(n)
  BY <1>1, Bytewise DEF Bytes
<1>4. /\ x & y = Word([i \in 1..n |-> AndOf(x[i], y[i])])
      /\ x | y = Word([i \in 1..n |-> OrOf(x[i], y[i])])
      /\ x (+) y = Word([i \in 1..n |-> XorOf(x[i], y[i])])
      /\ Not(x) = Word([i \in 1..n |-> NotOf(x[i])])
  BY <1>2 DEF &, |, (+), Not, AndOf, OrOf, XorOf, NotOf
<1>5. QED
  BY <1>3, <1>4, WordIs

LEMMA OperatorsAt ==
  ASSUME NEW n \in Nat, NEW i \in 1..n
  PROVE  /\ \A x \in Bytes(n) : x[i] \in Byte
         /\ \A x, y \in Bytes(n) : (x & y)[i] = AndOf(x[i], y[i])
         /\ \A x, y \in Bytes(n) : (x | y)[i] = OrOf(x[i], y[i])
         /\ \A x, y \in Bytes(n) : (x (+) y)[i] = XorOf(x[i], y[i])
         /\ \A x \in Bytes(n) : Not(x)[i] = NotOf(x[i])
<1>1. \A x \in Bytes(n) : x[i] \in Byte
  BY DEF Bytes
<1>2. ASSUME NEW x \in Bytes(n), NEW y \in Bytes(n) PROVE (x & y)[i] = AndOf(x[i], y[i])
  <2>1. x & y = [j \in 1..n |-> AndOf(x[j], y[j])]
    BY Operators
  <2>2. QED
    BY <2>1
<1>3. \A x, y \in Bytes(n) : (x | y)[i] = OrOf(x[i], y[i])
  BY Operators
<1>4. \A x, y \in Bytes(n) : (x (+) y)[i] = XorOf(x[i], y[i])
  BY Operators
<1>5. \A x \in Bytes(n) : Not(x)[i] = NotOf(x[i])
  BY Operators
<1>6. QED
  BY <1>1, <1>2, <1>3, <1>4, <1>5

LEMMA SameWord ==
  ASSUME NEW n \in Nat, NEW x \in Bytes(n), NEW y \in Bytes(n), \A i \in 1..n : x[i] = y[i]
  PROVE  x = y
BY DEF Bytes

LEMMA Choice ==
  ASSUME NEW n \in Nat, NEW x \in Bytes(n), NEW y \in Bytes(n), NEW z \in Bytes(n)
  PROVE  /\ z (+) (x & (y (+) z)) = (x & y) | (Not(x) & z)
         /\ ((y (+) z) & x) (+) z = (x & y) | (Not(x) & z)
         /\ ((z (+) y) & x) (+) z = (x & y) | (Not(x) & z)
         /\ (x & y) (+) (Not(x) & z) = (x & y) | (Not(x) & z)
<1> DEFINE p == (x & y) | (Not(x) & z)
           q1 == z (+) (x & (y (+) z))
           q2 == ((y (+) z) & x) (+) z
           q3 == ((z (+) y) & x) (+) z
           q4 == (x & y) (+) (Not(x) & z)
<1>1. /\ Not(x) \in Bytes(n) /\ (y (+) z) \in Bytes(n) /\ (z (+) y) \in Bytes(n) /\ (x & y) \in Bytes(n)
  BY Operators
<1>2. /\ (Not(x) & z) \in Bytes(n) /\ (x & (y (+) z)) \in Bytes(n)
      /\ ((y (+) z) & x) \in Bytes(n) /\ ((z (+) y) & x) \in Bytes(n)
  BY <1>1, Operators
<1>3. p \in Bytes(n) /\ q1 \in Bytes(n) /\ q2 \in Bytes(n) /\ q3 \in Bytes(n) /\ q4 \in Bytes(n)
  BY <1>1, <1>2, Operators
<1>4. ASSUME NEW i \in 1..n
      PROVE  /\ p[i] = OrOf(AndOf(x[i], y[i]), AndOf(NotOf(x[i]), z[i]))
             /\ q1[i] = XorOf(z[i], AndOf(x[i], XorOf(y[i], z[i])))
             /\ q2[i] = XorOf(AndOf(XorOf(y[i], z[i]), x[i]), z[i])
             /\ q3[i] = XorOf(AndOf(XorOf(z[i], y[i]), x[i]), z[i])
             /\ q4[i] = XorOf(AndOf(x[i], y[i]), AndOf(NotOf(x[i]), z[i]))
  BY <1>1, <1>2, OperatorsAt
<1> HIDE DEF p, q1, q2, q3, q4
<1>5. ASSUME NEW i \in 1..n PROVE q1[i] = p[i] /\ q2[i] = p[i] /\ q3[i] = p[i] /\ q4[i] = p[i]
  <2>1. x[i] \in Byte /\ y[i] \in Byte /\ z[i] \in Byte
    BY OperatorsAt
  <2>2. QED
    BY <1>4, <2>1, ByteChoice
<1>6. q1 = p /\ q2 = p /\ q3 = p /\ q4 = p
  BY <1>3, <1>5, SameWord
<1>7. QED
  BY <1>6 DEF p, q1, q2, q3, q4

LEMMA Majority ==
  ASSUME NEW n \in Nat, NEW x \in Bytes(n), NEW y \in Bytes(n), NEW z \in Bytes(n)
  PROVE  /\ (x & y) | (z & (x | y)) = (x & y) (+) (x & z) (+) (y & z)
         /\ (x & y) | (x & z) | (y & z) = (x & y) (+) (x & z) (+) (y & z)
<1> DEFINE p == (x & y) (+) (x & z) (+) (y & z)
           q1 == (x & y) | (z & (x | y))
           q2 == (x & y) | (x & z) | (y & z)
<1>1. /\ (x & y) \in Bytes(n) /\ (x & z) \in Bytes(n) /\ (y & z) \in Bytes(n) /\ (x | y) \in Bytes(n)
  BY Operators
<1>2. /\ (z & (x | y)) \in Bytes(n) /\ ((x & y) (+) (x & z)) \in Bytes(n)
      /\ ((x & y) | (x & z)) \in Bytes(n)
  BY <1>1, Operators
<1>3. p \in Bytes(n) /\ q1 \in Bytes(n) /\ q2 \in Bytes(n)
  BY <1>1, <1>2, Operators
<1>4. ASSUME NEW i \in 1..n
      PROVE  /\ p[i] = XorOf(XorOf(AndOf(x[i], y[i]), AndOf(x[i], z[i])), AndOf(y[i], z[i]))
             /\ q1[i] = OrOf(AndOf(x[i], y[i]), AndOf(z[i], OrOf(x[i], y[i])))
             /\ q2[i] = OrOf(OrOf(AndOf(x[i], y[i]), AndOf(x[i], z[i])), AndOf(y[i], z[i]))
  BY <1>1, <1>2, OperatorsAt
<1> HIDE DEF p, q1, q2
<1>5. ASSUME NEW i \in 1..n PROVE q1[i] = p[i] /\ q2[i] = p[i]
  <2>1. x[i] \in Byte /\ y[i] \in Byte /\ z[i] \in Byte
    BY OperatorsAt
  <2>2. QED
    BY <1>4, <2>1, ByteMajority
<1>6. q1 = p /\ q2 = p
  BY <1>3, <1>5, SameWord
<1>7. QED
  BY <1>6 DEF p, q1, q2

LEMMA Exchange ==
  ASSUME NEW n \in Nat, NEW x \in Bytes(n), NEW y \in Bytes(n)
  PROVE  x (+) y = y (+) x
<1>1. (x (+) y) \in Bytes(n) /\ (y (+) x) \in Bytes(n)
  BY Operators
<1>2. ASSUME NEW i \in 1..n PROVE (x (+) y)[i] = (y (+) x)[i]
  <2>1. x[i] \in Byte /\ y[i] \in Byte
    BY OperatorsAt
  <2>2. QED
    BY <2>1, OperatorsAt, ByteExchange
<1>3. QED
  BY <1>1, <1>2, SameWord

\* A set that has 0, and the successor of each number it has, has all numbers.
LEMMA AllNumbers ==
  ASSUME NEW G, 0 \in G, \A i \in Nat : i \in G => i + 1 \in G
  PROVE  \A i \in Nat : i \in G
<1> DEFINE T == {i \in Nat : i \notin G}
           R == OpToRel(<, Nat)
<1> SUFFICES ASSUME T # {} PROVE FALSE
  OBVIOUS
<1>1. PICK j \in T : \A k \in T : ~(<<k, j>> \in R)
  <2>1. IsWellFoundedOn(R, Nat)
    BY NatLessThanWellFounded, Zenon
  <2>2. T \subseteq Nat
    OBVIOUS
  <2> HIDE DEF T, R
  <2>3. QED
    BY <2>1, <2>2, WFMin
<1>2. j \in Nat /\ j # 0 /\ j - 1 \in Nat /\ (j - 1) + 1 = j /\ j - 1 < j
  OBVIOUS
<1>3. j - 1 \in G
  <2>1. <<j - 1, j>> \in R
    BY <1>2, Zenon DEF OpToRel
  <2>2. QED
    BY <1>1, <1>2, <2>1
<1>4. QED
  BY <1>2, <1>3

LEMMA ByteRange ==
  /\ \A a \in Byte : a \in Nat
  /\ \A a, b \in Byte : a + b \in Nat /\ a + b = b + a
  /\ \A a \in Nat : a % 256 \in Byte
  /\ \A a \in Nat : a \div 256 \in Nat
BY DEF Byte

\* The carries of the places of a sum: c[i] goes from place i to the one before.
Carries(t, n, c) ==
  /\ \A i \in 1..(n + 1) : c[i] \in Nat
  /\ c[n + 1] = 0
  /\ \A i \in 1..n : c[i] = (t[i] + c[i + 1]) \div 256

LEMMA CarriesThere ==
  ASSUME NEW n \in Nat, NEW t \in [1..n -> Nat]
  PROVE  \E c : /\ c = [i \in 1..(n + 1) |-> IF i > n THEN 0 ELSE (t[i] + c[i + 1]) \div 256]
<1> DEFINE Upto(c, k) == /\ c \in [1..(n + 1) -> Nat]
                         /\ \A i \in 1..(n + 1) : i > n => c[i] = 0
                         /\ \A i \in 1..n : i > n - k => c[i] = (t[i] + c[i + 1]) \div 256
           G == {k \in Nat : k <= n => \E c : Upto(c, k)}
<1>1. 0 \in G
  <2>1. Upto([i \in 1..(n + 1) |-> 0], 0)
    OBVIOUS
  <2>2. QED
    BY <2>1
<1>2. ASSUME NEW k \in Nat, k \in G PROVE k + 1 \in G
  <2>1. SUFFICES ASSUME k + 1 <= n PROVE \E c : Upto(c, k + 1)
    OBVIOUS
  <2>2. PICK c : Upto(c, k)
    BY <1>2, <2>1
  <2> DEFINE j == n - k
             v == (t[j] + c[j + 1]) \div 256
  <2>3. j \in 1..n /\ j + 1 \in 1..(n + 1)
    BY <2>1
  <2>4. v \in Nat
    <3>1. t[j] \in Nat /\ c[j + 1] \in Nat
      BY <2>2, <2>3
    <3>2. QED
      BY <3>1
  <2> DEFINE e == [i \in 1..(n + 1) |-> IF i = j THEN v ELSE c[i]]
  <2>5. e \in [1..(n + 1) -> Nat]
    BY <2>2, <2>4
  <2>6. \A i \in 1..(n + 1) : i > n => e[i] = 0
    BY <2>2, <2>3
  <2>7. ASSUME NEW i \in 1..n, i > n - (k + 1) PROVE e[i] = (t[i] + e[i + 1]) \div 256
    <3>1. i + 1 # j /\ i + 1 \in 1..(n + 1) /\ i \in 1..(n + 1)
      BY <2>7, <2>3
    <3>2. e[i + 1] = c[i + 1]
      BY <3>1
    <3>3. CASE i = j
      BY <3>1, <3>2, <3>3
    <3>4. CASE i # j
      <4>1. i > n - k
        BY <2>7, <3>4
      <4>2. c[i] = (t[i] + c[i + 1]) \div 256
        BY <2>2, <4>1
      <4>3. QED
        BY <3>1, <3>2, <3>4, <4>2
    <3>5. QED
      BY <3>3, <3>4
  <2> HIDE DEF e
  <2>8. Upto(e, k + 1)
    BY <2>5, <2>6, <2>7
  <2>9. QED
    BY <2>8
<1> HIDE DEF G
<1>3. n \in G
  BY <1>1, <1>2, AllNumbers
<1>4. PICK c : Upto(c, n)
  <2> HIDE DEF Upto
  <2>1. n <= n
    OBVIOUS
  <2>2. QED
    BY <1>3, <2>1 DEF G
<1>5. c = [i \in 1..(n + 1) |-> IF i > n THEN 0 ELSE (t[i] + c[i + 1]) \div 256]
  <2>1. ASSUME NEW i \in 1..(n + 1)
        PROVE  c[i] = IF i > n THEN 0 ELSE (t[i] + c[i + 1]) \div 256
    <3>1. CASE i > n
      BY <1>4, <3>1
    <3>2. CASE ~(i > n)
      <4>1. i \in 1..n /\ i > n - n
        BY <3>2
      <4>2. QED
        BY <1>4, <3>2, <4>1
    <3>3. QED
      BY <3>1, <3>2
  <2>2. QED
    BY <1>4, <2>1
<1>6. QED
  BY <1>5

\* A sum brought back to bytes is the sums of the places and what is carried.
LEMMA CarriedIs ==
  ASSUME NEW n \in Nat, NEW t \in [1..n -> Nat]
  PROVE  /\ Carried(t) \in Bytes(n)
         /\ \E c : Carries(t, n, c) /\ \A i \in 1..n : Carried(t)[i] = (t[i] + c[i + 1]) % 256
<1> DEFINE Is(c) == c = [i \in 1..(n + 1) |-> IF i > n THEN 0 ELSE (t[i] + c[i + 1]) \div 256]
           carry == CHOOSE c : Is(c)
           s == [i \in 1..n |-> (t[i] + carry[i + 1]) % 256]
<1>1. Len(t) = n
  <2>1. t \in Seq(Nat) /\ DOMAIN t = 1..n
    OBVIOUS
  <2>2. QED
    BY <2>1
<1>2. Is(carry)
  BY CarriesThere
<1> HIDE DEF carry
<1>3. Carried(t) = Word(s)
  BY <1>1 DEF Carried, carry
<1>4. Carries(t, n, carry)
  <2> DEFINE H == {k \in Nat : k <= n => carry[n + 1 - k] \in Nat}
  <2>1. 0 \in H
    BY <1>2
  <2>2. ASSUME NEW k \in Nat, k \in H PROVE k + 1 \in H
    <3>1. SUFFICES ASSUME k + 1 <= n PROVE carry[n - k] \in Nat
      OBVIOUS
    <3>2. n - k \in 1..n /\ n + 1 - k = (n - k) + 1
      BY <3>1
    <3>3. carry[n - k] = (t[n - k] + carry[(n - k) + 1]) \div 256
      BY <1>2, <3>2
    <3>4. carry[(n - k) + 1] \in Nat /\ t[n - k] \in Nat
      BY <2>2, <3>1, <3>2
    <3>5. QED
      BY <3>3, <3>4
  <2> HIDE DEF H
  <2>3. \A k \in Nat : k \in H
    BY <2>1, <2>2, AllNumbers
  <2>4. ASSUME NEW i \in 1..(n + 1) PROVE carry[i] \in Nat
    <3>1. n + 1 - i \in H
      BY <2>3
    <3>2. CASE i = n + 1
      BY <1>2, <3>2
    <3>3. CASE i <= n
      <4>1. n + 1 - i <= n /\ n + 1 - (n + 1 - i) = i
        BY <3>3
      <4>2. QED
        BY <3>1, <4>1 DEF H
    <3>4. QED
      BY <3>2, <3>3
  <2>5. QED
    BY <1>2, <2>4 DEF Carries
<1>5. s \in Bytes(n)
  <2>1. ASSUME NEW i \in 1..n PROVE (t[i] + carry[i + 1]) % 256 \in Byte
    <3>1. t[i] \in Nat /\ carry[i + 1] \in Nat
      BY <1>4 DEF Carries
    <3>2. t[i] + carry[i + 1] \in Nat
      BY <3>1
    <3>3. QED
      BY <3>2, ByteRange
  <2>2. QED
    BY <2>1 DEF Bytes
<1>6. Word(s) = s
  BY <1>5, WordIs
<1>7. \A i \in 1..n : s[i] = (t[i] + carry[i + 1]) % 256
  OBVIOUS
<1> HIDE DEF s
<1>8. QED
  BY <1>3, <1>4, <1>5, <1>6, <1>7

\* x ++ y, place by place: s is the sum, c what is carried.
SumBy(n, x, y, s, c) ==
  /\ \A i \in 1..(n + 1) : c[i] \in Nat
  /\ c[n + 1] = 0
  /\ \A i \in 1..n : /\ c[i] = (x[i] + y[i] + c[i + 1]) \div 256
                     /\ s[i] = (x[i] + y[i] + c[i + 1]) % 256

LEMMA SumIs ==
  ASSUME NEW n \in Nat, NEW x \in Bytes(n), NEW y \in Bytes(n)
  PROVE  /\ x ++ y \in Bytes(n)
         /\ \E c : SumBy(n, x, y, x ++ y, c)
<1> DEFINE t == [i \in 1..n |-> x[i] + y[i]]
<1>1. \A i \in 1..n : x[i] \in Byte /\ y[i] \in Byte
  BY DEF Bytes
<1>2. t \in [1..n -> Nat]
  <2>1. \A i \in 1..n : x[i] + y[i] \in Nat
    BY <1>1, ByteRange
  <2>2. QED
    BY <2>1
<1>3. x ++ y = Carried(t)
  BY WordIs DEF ++
<1>4. \A i \in 1..n : t[i] = x[i] + y[i]
  OBVIOUS
<1> HIDE DEF t
<1>5. Carried(t) \in Bytes(n)
  BY <1>2, CarriedIs
<1>6. PICK c : Carries(t, n, c) /\ \A i \in 1..n : Carried(t)[i] = (t[i] + c[i + 1]) % 256
  BY <1>2, CarriedIs
<1>7. \A i \in 1..n : /\ c[i] = (x[i] + y[i] + c[i + 1]) \div 256
                      /\ Carried(t)[i] = (x[i] + y[i] + c[i + 1]) % 256
  BY <1>4, <1>6 DEF Carries
<1>8. SumBy(n, x, y, Carried(t), c)
  BY <1>6, <1>7 DEF Carries, SumBy
<1>9. QED
  BY <1>3, <1>5, <1>8

\* Sums of sums carry the same, in whatever order they are taken.
LEMMA SumShifts ==
  ASSUME NEW n \in Nat, NEW x \in Bytes(n), NEW y \in Bytes(n), NEW z \in Bytes(n)
  PROVE  (x ++ y) ++ z = x ++ (y ++ z)
<1> DEFINE p == x ++ y
           q == y ++ z
           l == p ++ z
           r == x ++ q
<1>1. p \in Bytes(n) /\ q \in Bytes(n)
  BY SumIs
<1>2. PICK c : SumBy(n, x, y, p, c)
  BY SumIs
<1>3. PICK e : SumBy(n, y, z, q, e)
  BY SumIs
<1> HIDE DEF p, q
<1>4. PICK d : SumBy(n, p, z, l, d)
  BY <1>1, SumIs
<1>5. PICK f : SumBy(n, x, q, r, f)
  BY <1>1, SumIs
<1>6. l \in Bytes(n) /\ r \in Bytes(n)
  BY <1>1, SumIs
<1> HIDE DEF l, r
<1>7. ASSUME NEW i \in 1..n, c[i + 1] + d[i + 1] = e[i + 1] + f[i + 1]
      PROVE  l[i] = r[i] /\ c[i] + d[i] = e[i] + f[i]
  <2>1. i \in 1..(n + 1) /\ i + 1 \in 1..(n + 1)
    OBVIOUS
  <2>2. PICK xi \in Nat, yi \in Nat, zi \in Nat : xi = x[i] /\ yi = y[i] /\ zi = z[i]
    BY ByteRange DEF Bytes
  <2>3. PICK ci \in Nat, di \in Nat, ei \in Nat, fi \in Nat :
          ci = c[i + 1] /\ di = d[i + 1] /\ ei = e[i + 1] /\ fi = f[i + 1]
    BY <2>1, <1>2, <1>3, <1>4, <1>5 DEF SumBy
  <2>4. PICK pi \in Nat, qi \in Nat : pi = (xi + yi + ci) % 256 /\ qi = (yi + zi + ei) % 256
    OBVIOUS
  <2>5. p[i] = pi /\ c[i] = (xi + yi + ci) \div 256
    BY <1>2, <2>2, <2>3, <2>4 DEF SumBy
  <2>6. q[i] = qi /\ e[i] = (yi + zi + ei) \div 256
    BY <1>3, <2>2, <2>3, <2>4 DEF SumBy
  <2>7. l[i] = (pi + zi + di) % 256 /\ d[i] = (pi + zi + di) \div 256
    BY <1>4, <2>2, <2>3, <2>5 DEF SumBy
  <2>8. r[i] = (xi + qi + fi) % 256 /\ f[i] = (xi + qi + fi) \div 256
    BY <1>5, <2>2, <2>3, <2>6 DEF SumBy
  <2>9. ci + di = ei + fi
    BY <1>7, <2>3
  <2>10. /\ (pi + zi + di) % 256 = (xi + qi + fi) % 256
         /\ (xi + yi + ci) \div 256 + (pi + zi + di) \div 256
              = (yi + zi + ei) \div 256 + (xi + qi + fi) \div 256
    BY <2>4, <2>9
  <2>11. QED
    BY <2>5, <2>6, <2>7, <2>8, <2>10
<1>8. \A i \in 1..n : l[i] = r[i]
  <2> DEFINE G == {k \in Nat : k <= n => /\ c[n + 1 - k] + d[n + 1 - k] = e[n + 1 - k] + f[n + 1 - k]
                                         /\ k > 0 => l[n + 1 - k] = r[n + 1 - k]}
  <2>1. 0 \in G
    BY <1>2, <1>3, <1>4, <1>5 DEF SumBy
  <2>2. ASSUME NEW k \in Nat, k \in G PROVE k + 1 \in G
    <3>1. SUFFICES ASSUME k + 1 <= n
                   PROVE  /\ c[n - k] + d[n - k] = e[n - k] + f[n - k]
                          /\ l[n - k] = r[n - k]
      OBVIOUS
    <3>2. n - k \in 1..n /\ n + 1 - k = (n - k) + 1
      BY <3>1
    <3>3. c[(n - k) + 1] + d[(n - k) + 1] = e[(n - k) + 1] + f[(n - k) + 1]
      BY <2>2, <3>1, <3>2
    <3>4. QED
      BY <1>7, <3>2, <3>3
  <2> HIDE DEF G
  <2>3. \A k \in Nat : k \in G
    BY <2>1, <2>2, AllNumbers
  <2>4. ASSUME NEW i \in 1..n PROVE l[i] = r[i]
    <3>1. n + 1 - i \in G
      BY <2>3
    <3>2. n + 1 - i <= n /\ n + 1 - i > 0 /\ n + 1 - (n + 1 - i) = i
      OBVIOUS
    <3>3. QED
      BY <3>1, <3>2 DEF G
  <2>5. QED
    BY <2>4
<1>9. l = r
  BY <1>6, <1>8, SameWord
<1>10. QED
  BY <1>9 DEF l, r, p, q

LEMMA SumTurns ==
  ASSUME NEW n \in Nat, NEW x \in Bytes(n), NEW y \in Bytes(n)
  PROVE  x ++ y = y ++ x
<1>1. \A i \in 1..n : x[i] + y[i] = y[i] + x[i]
  BY ByteRange DEF Bytes
<1>2. [i \in 1..n |-> x[i] + y[i]] = [i \in 1..n |-> y[i] + x[i]]
  BY <1>1
<1>3. QED
  BY <1>2, WordIs DEF ++

\* Rotations and shifts give words.
LEMMA Turns ==
  ASSUME NEW n \in Width, NEW x \in Bytes(n), NEW k \in Nat
  PROVE  RotR(x, k) \in Bytes(n) /\ ShiftR(x, k) \in Bytes(n)
<1> DEFINE m == Len(x)
           low == 2 ^ (k % 8)
           from(i) == x[((i - 1 - (k \div 8)) % m) + 1]
           under(i) == IF i > k \div 8 THEN x[i - (k \div 8)] ELSE 0
           part(a, b) == (a \div low) + (b % low) * (256 \div low)
<1>1. n \in Nat /\ m = n
  BY WordIs DEF Width
<1>2. low \in {1, 2, 4, 8, 16, 32, 64, 128}
  <2>1. k % 8 \in 0..7
    OBVIOUS
  <2>2. /\ 2 ^ 0 = 1 /\ 2 ^ 1 = 2 /\ 2 ^ 2 = 4 /\ 2 ^ 3 = 8 /\ 2 ^ 4 = 16
        /\ 2 ^ 5 = 32 /\ 2 ^ 6 = 64 /\ 2 ^ 7 = 128
    OBVIOUS
  <2>3. k % 8 = 0 \/ k % 8 = 1 \/ k % 8 = 2 \/ k % 8 = 3 \/ k % 8 = 4 \/ k % 8 = 5
          \/ k % 8 = 6 \/ k % 8 = 7
    BY <2>1
  <2>4. /\ k % 8 = 0 => low = 2 ^ 0
        /\ k % 8 = 1 => low = 2 ^ 1
        /\ k % 8 = 2 => low = 2 ^ 2
        /\ k % 8 = 3 => low = 2 ^ 3
        /\ k % 8 = 4 => low = 2 ^ 4
        /\ k % 8 = 5 => low = 2 ^ 5
        /\ k % 8 = 6 => low = 2 ^ 6
        /\ k % 8 = 7 => low = 2 ^ 7
    BY Zenon
  <2> HIDE DEF low
  <2>5. /\ k % 8 = 0 => low = 1
        /\ k % 8 = 1 => low = 2
        /\ k % 8 = 2 => low = 4
        /\ k % 8 = 3 => low = 8
        /\ k % 8 = 4 => low = 16
        /\ k % 8 = 5 => low = 32
        /\ k % 8 = 6 => low = 64
        /\ k % 8 = 7 => low = 128
    BY <2>2, <2>4, Zenon
  <2>6. QED
    BY <2>3, <2>5
<1> HIDE DEF low
<1>3. \A a, b \in Byte : part(a, b) \in Byte
  <2>1. ASSUME NEW a \in Byte, NEW b \in Byte PROVE part(a, b) \in Byte
    BY <1>2 DEF Byte
  <2>2. QED
    BY <2>1
<1>4. \A j \in 1..n : x[j] \in Byte
  BY DEF Bytes
<1>5. \A i \in Int : from(i) \in Byte
  <2>1. ASSUME NEW i \in Int PROVE ((i - 1 - (k \div 8)) % n) + 1 \in 1..n
    BY DEF Width
  <2>2. QED
    BY <1>1, <1>4, <2>1
<1>6. \A i \in 0..n : under(i) \in Byte
  <2>1. ASSUME NEW i \in 0..n, i > k \div 8 PROVE i - (k \div 8) \in 1..n
    BY <1>1, <2>1
  <2>2. QED
    BY <1>4, <2>1 DEF Byte
<1>7. RotR(x, k) = Word([i \in 1..n |-> part(from(i), from(i - 1))])
  BY <1>1 DEF RotR, low
<1>8. ShiftR(x, k) = Word([i \in 1..n |-> part(under(i), under(i - 1))])
  BY <1>1 DEF ShiftR, low
<1> HIDE DEF part, from, under
<1>9. /\ [i \in 1..n |-> part(from(i), from(i - 1))] \in Bytes(n)
      /\ [i \in 1..n |-> part(under(i), under(i - 1))] \in Bytes(n)
  <2>1. \A i \in 1..n : i \in Int /\ i - 1 \in Int /\ i \in 0..n /\ i - 1 \in 0..n
    BY <1>1
  <2>2. QED
    BY <2>1, <1>3, <1>5, <1>6 DEF Bytes
<1>10. QED
  BY <1>1, <1>7, <1>8, <1>9, WordIs

-----------------------------------------------------------------------------
\* What Steps and Chain go through, function by function.

LEMMA SameTrace ==
  ASSUME NEW n \in Nat, NEW f, NEW b, f[0] = b[0],
         \A r \in 0..(n - 1) : f[r] = b[r] => f[r + 1] = b[r + 1]
  PROVE  f[n] = b[n]
<1> DEFINE G == {k \in Nat : k <= n => f[k] = b[k]}
<1>1. 0 \in G
  OBVIOUS
<1>2. \A k \in Nat : k \in G => k + 1 \in G
  OBVIOUS
<1> HIDE DEF G
<1>3. n \in G
  BY <1>1, <1>2, AllNumbers
<1>4. QED
  BY <1>3 DEF G

\* What n steps F go through, from s.
Trace(S, F, n, s, a) ==
  /\ a \in [0..n -> S]
  /\ a[0] = s
  /\ \A r \in 0..(n - 1) : a[r + 1] = F[r][a[r]]

LEMMA TraceThere ==
  ASSUME NEW n \in Nat, NEW S, NEW F \in [0..(n - 1) -> [S -> S]], NEW s \in S
  PROVE  \E a : Trace(S, F, n, s, a)
<1> DEFINE Upto(k) == \E a \in [0..n -> S] : a[0] = s /\ \A r \in 0..(k - 1) : a[r + 1] = F[r][a[r]]
           G == {k \in Nat : k <= n => Upto(k)}
<1>1. 0 \in G
  <2> DEFINE b == [i \in 0..n |-> s]
  <2>1. b \in [0..n -> S] /\ b[0] = s /\ \A r \in 0..(0 - 1) : b[r + 1] = F[r][b[r]]
    OBVIOUS
  <2> HIDE DEF b
  <2>2. QED
    BY <2>1
<1>2. ASSUME NEW k \in Nat, k \in G PROVE k + 1 \in G
  <2>1. SUFFICES ASSUME k + 1 <= n PROVE Upto(k + 1)
    OBVIOUS
  <2>2. PICK a \in [0..n -> S] : a[0] = s /\ \A r \in 0..(k - 1) : a[r + 1] = F[r][a[r]]
    BY <1>2, <2>1
  <2> DEFINE v == F[k][a[k]]
             b == [i \in 0..n |-> IF i = k + 1 THEN v ELSE a[i]]
  <2>3. v \in S
    <3>1. k \in 0..(n - 1) /\ k \in 0..n
      BY <2>1
    <3>2. F[k] \in [S -> S] /\ a[k] \in S
      BY <3>1
    <3>3. QED
      BY <3>2
  <2>4. b \in [0..n -> S]
    BY <2>3
  <2>5. b[0] = s
    BY <2>2
  <2>6. ASSUME NEW r \in 0..k PROVE b[r + 1] = F[r][b[r]]
    <3>1. r \in 0..n /\ r + 1 \in 0..n /\ r # k + 1
      BY <2>1
    <3>2. b[r] = a[r]
      BY <3>1
    <3>3. CASE r = k
      BY <3>1, <3>2, <3>3
    <3>4. CASE r # k
      BY <2>2, <3>1, <3>2, <3>4
    <3>5. QED
      BY <3>3, <3>4
  <2> HIDE DEF b
  <2>7. QED
    BY <2>4, <2>5, <2>6
<1> HIDE DEF G
<1>3. n \in G
  BY <1>1, <1>2, AllNumbers
<1>4. Upto(n)
  BY <1>3 DEF G
<1>5. QED
  BY <1>4 DEF Trace

Md4Run(w, s) == Rounds(LAMBDA v, r : Md4Round(v, w, r), s, 48)

Md4Goes(w, a) == \A r \in 0..(48 - 1) : a[r + 1] = Md4Round(a[r], w, r)

LEMMA Md4Trace ==
  ASSUME NEW w, NEW a, Md4Goes(w, a)
  PROVE  Md4Run(w, a[0]) = a[48]
<1> DEFINE Row(t, k) == Steps(LAMBDA v, r : Md4Round(v, w, r), t, 16 * k, 16)
<1>1. PICK m \in Nat : (48) \div 16 = m /\ 48 = 16 * m
  OBVIOUS
<1>2. ASSUME NEW k \in 0..(m - 1) PROVE Row(a[16 * k], k) = a[16 * (k + 1)]
  <2> DEFINE Is(f) == f = [r \in 0..16 |->
                IF r = 0 THEN a[16 * k]
                ELSE [t \in {f[r - 1]} |-> Md4Round(t, w, 16 * k + r - 1)][f[r - 1]]]
             g == CHOOSE f : Is(f)
             b == [r \in 0..16 |-> a[16 * k + r]]
  <2>1. \A r \in 0..15 : a[16 * k + r + 1] = Md4Round(a[16 * k + r], w, 16 * k + r)
    <3>1. \A r \in 0..15 : 16 * k + r \in 0..(48 - 1)
      BY <1>1
    <3>2. QED
      BY <3>1 DEF Md4Goes
  <2>2. Is(b)
    <3>1. b[0] = a[16 * k] /\ b = [r \in 0..16 |-> b[r]]
      OBVIOUS
    <3>2. \A r \in 1..16 : b[r] = Md4Round(b[r - 1], w, 16 * k + r - 1)
      <4>1. \A r \in 1..16 : /\ r - 1 \in 0..15
                             /\ 16 * k + (r - 1) + 1 = 16 * k + r
                             /\ 16 * k + (r - 1) = 16 * k + r - 1
        OBVIOUS
      <4>2. QED
        BY <2>1, <4>1
    <3> HIDE DEF b
    <3>3. QED
      BY <3>1, <3>2
  <2>3. Is(g)
    BY <2>2
  <2>4. Row(a[16 * k], k) = g[16]
    BY DEF Steps, After
  <2> HIDE DEF g
  <2>5. \A r \in 0..15 : g[r + 1] = Md4Round(g[r], w, 16 * k + r)
    <3>1. \A r \in 0..15 : r + 1 \in 1..16 /\ (r + 1) - 1 = r /\ 16 * k + (r + 1) - 1 = 16 * k + r
      OBVIOUS
    <3>2. QED
      BY <2>3, <3>1
  <2>6. g[0] = b[0] /\ \A r \in 0..15 : g[r] = b[r] => g[r + 1] = b[r + 1]
    BY <2>1, <2>3, <2>5
  <2>7. b[16] = a[16 * (k + 1)]
    BY 16 * k + 16 = 16 * (k + 1)
  <2> HIDE DEF b, Row, Is
  <2>8. QED
    BY <2>4, <2>6, <2>7, SameTrace
<1> DEFINE Is(f) == f = [k \in 0..m |->
              IF k = 0 THEN a[0] ELSE [t \in {f[k - 1]} |-> Row(t, 0 + k - 1)][f[k - 1]]]
           g == CHOOSE f : Is(f)
           b == [k \in 0..m |-> a[16 * k]]
<1>3. Is(b)
  <2> HIDE DEF Row
  <2>1. b[0] = a[0] /\ b = [k \in 0..m |-> b[k]]
    OBVIOUS
  <2>2. ASSUME NEW k \in 1..m PROVE b[k] = Row(b[k - 1], k - 1)
    <3>1. k - 1 \in 0..(m - 1) /\ (k - 1) + 1 = k
      OBVIOUS
    <3>2. QED
      BY <1>2, <3>1
  <2> HIDE DEF b
  <2>3. ASSUME NEW k \in 0..m
        PROVE  b[k] = IF k = 0 THEN a[0] ELSE [t \in {b[k - 1]} |-> Row(t, 0 + k - 1)][b[k - 1]]
    <3>1. CASE k = 0
      BY <2>1, <3>1
    <3>2. CASE k # 0
      <4>1. k \in 1..m /\ 0 + k - 1 = k - 1
        BY <3>2
      <4>2. QED
        BY <2>2, <3>2, <4>1
    <3>3. QED
      BY <3>1, <3>2
  <2>4. QED
    BY <2>1, <2>3
<1>4. Is(g)
  <2> HIDE DEF Row
  <2>1. QED
    BY <1>3
<1>5. Md4Run(w, a[0]) = g[m]
  BY <1>1 DEF Md4Run, Rounds, Steps, After
<1> HIDE DEF g, Row
<1>6. g[0] = b[0] /\ \A k \in 0..(m - 1) : g[k] = b[k] => g[k + 1] = b[k + 1]
  <2>1. g[0] = a[0] /\ b[0] = a[0]
    BY <1>4
  <2>2. \A i \in 1..m : g[i] = Row(g[i - 1], 0 + i - 1)
    BY <1>4
  <2>3. ASSUME NEW k \in 0..(m - 1) PROVE g[k + 1] = Row(g[k], k) /\ b[k + 1] = Row(b[k], k)
    <3>1. k \in 0..m /\ k + 1 \in 1..m /\ k + 1 # 0 /\ (k + 1) - 1 = k /\ 0 + (k + 1) - 1 = k
      OBVIOUS
    <3>2. g[k + 1] = Row(g[k], k)
      BY <2>2, <3>1
    <3>3. b[k + 1] = a[16 * (k + 1)] /\ b[k] = a[16 * k]
      BY <3>1
    <3>4. QED
      BY <1>2, <3>2, <3>3
  <2> HIDE DEF b, Is
  <2>4. QED
    BY <2>1, <2>3
<1>7. b[m] = a[48]
  BY <1>1
<1> HIDE DEF b, Is
<1>8. g[m] = b[m]
  BY <1>6, SameTrace
<1>9. QED
  BY <1>5, <1>7, <1>8

Md4StepRun(w, s) == Rounds(LAMBDA v, r : Md4Step(v, w, r), s, 48)

Md4StepGoes(w, a) == \A r \in 0..(48 - 1) : a[r + 1] = Md4Step(a[r], w, r)

LEMMA Md4StepTrace ==
  ASSUME NEW w, NEW a, Md4StepGoes(w, a)
  PROVE  Md4StepRun(w, a[0]) = a[48]
<1> DEFINE Row(t, k) == Steps(LAMBDA v, r : Md4Step(v, w, r), t, 16 * k, 16)
<1>1. PICK m \in Nat : (48) \div 16 = m /\ 48 = 16 * m
  OBVIOUS
<1>2. ASSUME NEW k \in 0..(m - 1) PROVE Row(a[16 * k], k) = a[16 * (k + 1)]
  <2> DEFINE Is(f) == f = [r \in 0..16 |->
                IF r = 0 THEN a[16 * k]
                ELSE [t \in {f[r - 1]} |-> Md4Step(t, w, 16 * k + r - 1)][f[r - 1]]]
             g == CHOOSE f : Is(f)
             b == [r \in 0..16 |-> a[16 * k + r]]
  <2>1. \A r \in 0..15 : a[16 * k + r + 1] = Md4Step(a[16 * k + r], w, 16 * k + r)
    <3>1. \A r \in 0..15 : 16 * k + r \in 0..(48 - 1)
      BY <1>1
    <3>2. QED
      BY <3>1 DEF Md4StepGoes
  <2>2. Is(b)
    <3>1. b[0] = a[16 * k] /\ b = [r \in 0..16 |-> b[r]]
      OBVIOUS
    <3>2. \A r \in 1..16 : b[r] = Md4Step(b[r - 1], w, 16 * k + r - 1)
      <4>1. \A r \in 1..16 : /\ r - 1 \in 0..15
                             /\ 16 * k + (r - 1) + 1 = 16 * k + r
                             /\ 16 * k + (r - 1) = 16 * k + r - 1
        OBVIOUS
      <4>2. QED
        BY <2>1, <4>1
    <3> HIDE DEF b
    <3>3. QED
      BY <3>1, <3>2
  <2>3. Is(g)
    BY <2>2
  <2>4. Row(a[16 * k], k) = g[16]
    BY DEF Steps, After
  <2> HIDE DEF g
  <2>5. \A r \in 0..15 : g[r + 1] = Md4Step(g[r], w, 16 * k + r)
    <3>1. \A r \in 0..15 : r + 1 \in 1..16 /\ (r + 1) - 1 = r /\ 16 * k + (r + 1) - 1 = 16 * k + r
      OBVIOUS
    <3>2. QED
      BY <2>3, <3>1
  <2>6. g[0] = b[0] /\ \A r \in 0..15 : g[r] = b[r] => g[r + 1] = b[r + 1]
    BY <2>1, <2>3, <2>5
  <2>7. b[16] = a[16 * (k + 1)]
    BY 16 * k + 16 = 16 * (k + 1)
  <2> HIDE DEF b, Row, Is
  <2>8. QED
    BY <2>4, <2>6, <2>7, SameTrace
<1> DEFINE Is(f) == f = [k \in 0..m |->
              IF k = 0 THEN a[0] ELSE [t \in {f[k - 1]} |-> Row(t, 0 + k - 1)][f[k - 1]]]
           g == CHOOSE f : Is(f)
           b == [k \in 0..m |-> a[16 * k]]
<1>3. Is(b)
  <2> HIDE DEF Row
  <2>1. b[0] = a[0] /\ b = [k \in 0..m |-> b[k]]
    OBVIOUS
  <2>2. ASSUME NEW k \in 1..m PROVE b[k] = Row(b[k - 1], k - 1)
    <3>1. k - 1 \in 0..(m - 1) /\ (k - 1) + 1 = k
      OBVIOUS
    <3>2. QED
      BY <1>2, <3>1
  <2> HIDE DEF b
  <2>3. ASSUME NEW k \in 0..m
        PROVE  b[k] = IF k = 0 THEN a[0] ELSE [t \in {b[k - 1]} |-> Row(t, 0 + k - 1)][b[k - 1]]
    <3>1. CASE k = 0
      BY <2>1, <3>1
    <3>2. CASE k # 0
      <4>1. k \in 1..m /\ 0 + k - 1 = k - 1
        BY <3>2
      <4>2. QED
        BY <2>2, <3>2, <4>1
    <3>3. QED
      BY <3>1, <3>2
  <2>4. QED
    BY <2>1, <2>3
<1>4. Is(g)
  <2> HIDE DEF Row
  <2>1. QED
    BY <1>3
<1>5. Md4StepRun(w, a[0]) = g[m]
  BY <1>1 DEF Md4StepRun, Rounds, Steps, After
<1> HIDE DEF g, Row
<1>6. g[0] = b[0] /\ \A k \in 0..(m - 1) : g[k] = b[k] => g[k + 1] = b[k + 1]
  <2>1. g[0] = a[0] /\ b[0] = a[0]
    BY <1>4
  <2>2. \A i \in 1..m : g[i] = Row(g[i - 1], 0 + i - 1)
    BY <1>4
  <2>3. ASSUME NEW k \in 0..(m - 1) PROVE g[k + 1] = Row(g[k], k) /\ b[k + 1] = Row(b[k], k)
    <3>1. k \in 0..m /\ k + 1 \in 1..m /\ k + 1 # 0 /\ (k + 1) - 1 = k /\ 0 + (k + 1) - 1 = k
      OBVIOUS
    <3>2. g[k + 1] = Row(g[k], k)
      BY <2>2, <3>1
    <3>3. b[k + 1] = a[16 * (k + 1)] /\ b[k] = a[16 * k]
      BY <3>1
    <3>4. QED
      BY <1>2, <3>2, <3>3
  <2> HIDE DEF b, Is
  <2>4. QED
    BY <2>1, <2>3
<1>7. b[m] = a[48]
  BY <1>1
<1> HIDE DEF b, Is
<1>8. g[m] = b[m]
  BY <1>6, SameTrace
<1>9. QED
  BY <1>5, <1>7, <1>8

Md5Run(w, s) == Rounds(LAMBDA v, r : Md5Round(v, w, r), s, 64)

Md5Goes(w, a) == \A r \in 0..(64 - 1) : a[r + 1] = Md5Round(a[r], w, r)

LEMMA Md5Trace ==
  ASSUME NEW w, NEW a, Md5Goes(w, a)
  PROVE  Md5Run(w, a[0]) = a[64]
<1> DEFINE Row(t, k) == Steps(LAMBDA v, r : Md5Round(v, w, r), t, 16 * k, 16)
<1>1. PICK m \in Nat : (64) \div 16 = m /\ 64 = 16 * m
  OBVIOUS
<1>2. ASSUME NEW k \in 0..(m - 1) PROVE Row(a[16 * k], k) = a[16 * (k + 1)]
  <2> DEFINE Is(f) == f = [r \in 0..16 |->
                IF r = 0 THEN a[16 * k]
                ELSE [t \in {f[r - 1]} |-> Md5Round(t, w, 16 * k + r - 1)][f[r - 1]]]
             g == CHOOSE f : Is(f)
             b == [r \in 0..16 |-> a[16 * k + r]]
  <2>1. \A r \in 0..15 : a[16 * k + r + 1] = Md5Round(a[16 * k + r], w, 16 * k + r)
    <3>1. \A r \in 0..15 : 16 * k + r \in 0..(64 - 1)
      BY <1>1
    <3>2. QED
      BY <3>1 DEF Md5Goes
  <2>2. Is(b)
    <3>1. b[0] = a[16 * k] /\ b = [r \in 0..16 |-> b[r]]
      OBVIOUS
    <3>2. \A r \in 1..16 : b[r] = Md5Round(b[r - 1], w, 16 * k + r - 1)
      <4>1. \A r \in 1..16 : /\ r - 1 \in 0..15
                             /\ 16 * k + (r - 1) + 1 = 16 * k + r
                             /\ 16 * k + (r - 1) = 16 * k + r - 1
        OBVIOUS
      <4>2. QED
        BY <2>1, <4>1
    <3> HIDE DEF b
    <3>3. QED
      BY <3>1, <3>2
  <2>3. Is(g)
    BY <2>2
  <2>4. Row(a[16 * k], k) = g[16]
    BY DEF Steps, After
  <2> HIDE DEF g
  <2>5. \A r \in 0..15 : g[r + 1] = Md5Round(g[r], w, 16 * k + r)
    <3>1. \A r \in 0..15 : r + 1 \in 1..16 /\ (r + 1) - 1 = r /\ 16 * k + (r + 1) - 1 = 16 * k + r
      OBVIOUS
    <3>2. QED
      BY <2>3, <3>1
  <2>6. g[0] = b[0] /\ \A r \in 0..15 : g[r] = b[r] => g[r + 1] = b[r + 1]
    BY <2>1, <2>3, <2>5
  <2>7. b[16] = a[16 * (k + 1)]
    BY 16 * k + 16 = 16 * (k + 1)
  <2> HIDE DEF b, Row, Is
  <2>8. QED
    BY <2>4, <2>6, <2>7, SameTrace
<1> DEFINE Is(f) == f = [k \in 0..m |->
              IF k = 0 THEN a[0] ELSE [t \in {f[k - 1]} |-> Row(t, 0 + k - 1)][f[k - 1]]]
           g == CHOOSE f : Is(f)
           b == [k \in 0..m |-> a[16 * k]]
<1>3. Is(b)
  <2> HIDE DEF Row
  <2>1. b[0] = a[0] /\ b = [k \in 0..m |-> b[k]]
    OBVIOUS
  <2>2. ASSUME NEW k \in 1..m PROVE b[k] = Row(b[k - 1], k - 1)
    <3>1. k - 1 \in 0..(m - 1) /\ (k - 1) + 1 = k
      OBVIOUS
    <3>2. QED
      BY <1>2, <3>1
  <2> HIDE DEF b
  <2>3. ASSUME NEW k \in 0..m
        PROVE  b[k] = IF k = 0 THEN a[0] ELSE [t \in {b[k - 1]} |-> Row(t, 0 + k - 1)][b[k - 1]]
    <3>1. CASE k = 0
      BY <2>1, <3>1
    <3>2. CASE k # 0
      <4>1. k \in 1..m /\ 0 + k - 1 = k - 1
        BY <3>2
      <4>2. QED
        BY <2>2, <3>2, <4>1
    <3>3. QED
      BY <3>1, <3>2
  <2>4. QED
    BY <2>1, <2>3
<1>4. Is(g)
  <2> HIDE DEF Row
  <2>1. QED
    BY <1>3
<1>5. Md5Run(w, a[0]) = g[m]
  BY <1>1 DEF Md5Run, Rounds, Steps, After
<1> HIDE DEF g, Row
<1>6. g[0] = b[0] /\ \A k \in 0..(m - 1) : g[k] = b[k] => g[k + 1] = b[k + 1]
  <2>1. g[0] = a[0] /\ b[0] = a[0]
    BY <1>4
  <2>2. \A i \in 1..m : g[i] = Row(g[i - 1], 0 + i - 1)
    BY <1>4
  <2>3. ASSUME NEW k \in 0..(m - 1) PROVE g[k + 1] = Row(g[k], k) /\ b[k + 1] = Row(b[k], k)
    <3>1. k \in 0..m /\ k + 1 \in 1..m /\ k + 1 # 0 /\ (k + 1) - 1 = k /\ 0 + (k + 1) - 1 = k
      OBVIOUS
    <3>2. g[k + 1] = Row(g[k], k)
      BY <2>2, <3>1
    <3>3. b[k + 1] = a[16 * (k + 1)] /\ b[k] = a[16 * k]
      BY <3>1
    <3>4. QED
      BY <1>2, <3>2, <3>3
  <2> HIDE DEF b, Is
  <2>4. QED
    BY <2>1, <2>3
<1>7. b[m] = a[64]
  BY <1>1
<1> HIDE DEF b, Is
<1>8. g[m] = b[m]
  BY <1>6, SameTrace
<1>9. QED
  BY <1>5, <1>7, <1>8

Md5StepRun(w, s) == Rounds(LAMBDA v, r : Md5Step(v, w, r), s, 64)

Md5StepGoes(w, a) == \A r \in 0..(64 - 1) : a[r + 1] = Md5Step(a[r], w, r)

LEMMA Md5StepTrace ==
  ASSUME NEW w, NEW a, Md5StepGoes(w, a)
  PROVE  Md5StepRun(w, a[0]) = a[64]
<1> DEFINE Row(t, k) == Steps(LAMBDA v, r : Md5Step(v, w, r), t, 16 * k, 16)
<1>1. PICK m \in Nat : (64) \div 16 = m /\ 64 = 16 * m
  OBVIOUS
<1>2. ASSUME NEW k \in 0..(m - 1) PROVE Row(a[16 * k], k) = a[16 * (k + 1)]
  <2> DEFINE Is(f) == f = [r \in 0..16 |->
                IF r = 0 THEN a[16 * k]
                ELSE [t \in {f[r - 1]} |-> Md5Step(t, w, 16 * k + r - 1)][f[r - 1]]]
             g == CHOOSE f : Is(f)
             b == [r \in 0..16 |-> a[16 * k + r]]
  <2>1. \A r \in 0..15 : a[16 * k + r + 1] = Md5Step(a[16 * k + r], w, 16 * k + r)
    <3>1. \A r \in 0..15 : 16 * k + r \in 0..(64 - 1)
      BY <1>1
    <3>2. QED
      BY <3>1 DEF Md5StepGoes
  <2>2. Is(b)
    <3>1. b[0] = a[16 * k] /\ b = [r \in 0..16 |-> b[r]]
      OBVIOUS
    <3>2. \A r \in 1..16 : b[r] = Md5Step(b[r - 1], w, 16 * k + r - 1)
      <4>1. \A r \in 1..16 : /\ r - 1 \in 0..15
                             /\ 16 * k + (r - 1) + 1 = 16 * k + r
                             /\ 16 * k + (r - 1) = 16 * k + r - 1
        OBVIOUS
      <4>2. QED
        BY <2>1, <4>1
    <3> HIDE DEF b
    <3>3. QED
      BY <3>1, <3>2
  <2>3. Is(g)
    BY <2>2
  <2>4. Row(a[16 * k], k) = g[16]
    BY DEF Steps, After
  <2> HIDE DEF g
  <2>5. \A r \in 0..15 : g[r + 1] = Md5Step(g[r], w, 16 * k + r)
    <3>1. \A r \in 0..15 : r + 1 \in 1..16 /\ (r + 1) - 1 = r /\ 16 * k + (r + 1) - 1 = 16 * k + r
      OBVIOUS
    <3>2. QED
      BY <2>3, <3>1
  <2>6. g[0] = b[0] /\ \A r \in 0..15 : g[r] = b[r] => g[r + 1] = b[r + 1]
    BY <2>1, <2>3, <2>5
  <2>7. b[16] = a[16 * (k + 1)]
    BY 16 * k + 16 = 16 * (k + 1)
  <2> HIDE DEF b, Row, Is
  <2>8. QED
    BY <2>4, <2>6, <2>7, SameTrace
<1> DEFINE Is(f) == f = [k \in 0..m |->
              IF k = 0 THEN a[0] ELSE [t \in {f[k - 1]} |-> Row(t, 0 + k - 1)][f[k - 1]]]
           g == CHOOSE f : Is(f)
           b == [k \in 0..m |-> a[16 * k]]
<1>3. Is(b)
  <2> HIDE DEF Row
  <2>1. b[0] = a[0] /\ b = [k \in 0..m |-> b[k]]
    OBVIOUS
  <2>2. ASSUME NEW k \in 1..m PROVE b[k] = Row(b[k - 1], k - 1)
    <3>1. k - 1 \in 0..(m - 1) /\ (k - 1) + 1 = k
      OBVIOUS
    <3>2. QED
      BY <1>2, <3>1
  <2> HIDE DEF b
  <2>3. ASSUME NEW k \in 0..m
        PROVE  b[k] = IF k = 0 THEN a[0] ELSE [t \in {b[k - 1]} |-> Row(t, 0 + k - 1)][b[k - 1]]
    <3>1. CASE k = 0
      BY <2>1, <3>1
    <3>2. CASE k # 0
      <4>1. k \in 1..m /\ 0 + k - 1 = k - 1
        BY <3>2
      <4>2. QED
        BY <2>2, <3>2, <4>1
    <3>3. QED
      BY <3>1, <3>2
  <2>4. QED
    BY <2>1, <2>3
<1>4. Is(g)
  <2> HIDE DEF Row
  <2>1. QED
    BY <1>3
<1>5. Md5StepRun(w, a[0]) = g[m]
  BY <1>1 DEF Md5StepRun, Rounds, Steps, After
<1> HIDE DEF g, Row
<1>6. g[0] = b[0] /\ \A k \in 0..(m - 1) : g[k] = b[k] => g[k + 1] = b[k + 1]
  <2>1. g[0] = a[0] /\ b[0] = a[0]
    BY <1>4
  <2>2. \A i \in 1..m : g[i] = Row(g[i - 1], 0 + i - 1)
    BY <1>4
  <2>3. ASSUME NEW k \in 0..(m - 1) PROVE g[k + 1] = Row(g[k], k) /\ b[k + 1] = Row(b[k], k)
    <3>1. k \in 0..m /\ k + 1 \in 1..m /\ k + 1 # 0 /\ (k + 1) - 1 = k /\ 0 + (k + 1) - 1 = k
      OBVIOUS
    <3>2. g[k + 1] = Row(g[k], k)
      BY <2>2, <3>1
    <3>3. b[k + 1] = a[16 * (k + 1)] /\ b[k] = a[16 * k]
      BY <3>1
    <3>4. QED
      BY <1>2, <3>2, <3>3
  <2> HIDE DEF b, Is
  <2>4. QED
    BY <2>1, <2>3
<1>7. b[m] = a[64]
  BY <1>1
<1> HIDE DEF b, Is
<1>8. g[m] = b[m]
  BY <1>6, SameTrace
<1>9. QED
  BY <1>5, <1>7, <1>8

Sha1Run(s) == Rounds(Sha1Round, s, 80)

Sha1Goes(a) == \A r \in 0..(80 - 1) : a[r + 1] = Sha1Round(a[r], r)

LEMMA Sha1Trace ==
  ASSUME NEW a, Sha1Goes(a)
  PROVE  Sha1Run(a[0]) = a[80]
<1> DEFINE Row(t, k) == Steps(Sha1Round, t, 16 * k, 16)
<1>1. PICK m \in Nat : (80) \div 16 = m /\ 80 = 16 * m
  OBVIOUS
<1>2. ASSUME NEW k \in 0..(m - 1) PROVE Row(a[16 * k], k) = a[16 * (k + 1)]
  <2> DEFINE Is(f) == f = [r \in 0..16 |->
                IF r = 0 THEN a[16 * k]
                ELSE [t \in {f[r - 1]} |-> Sha1Round(t, 16 * k + r - 1)][f[r - 1]]]
             g == CHOOSE f : Is(f)
             b == [r \in 0..16 |-> a[16 * k + r]]
  <2>1. \A r \in 0..15 : a[16 * k + r + 1] = Sha1Round(a[16 * k + r], 16 * k + r)
    <3>1. \A r \in 0..15 : 16 * k + r \in 0..(80 - 1)
      BY <1>1
    <3>2. QED
      BY <3>1 DEF Sha1Goes
  <2>2. Is(b)
    <3>1. b[0] = a[16 * k] /\ b = [r \in 0..16 |-> b[r]]
      OBVIOUS
    <3>2. \A r \in 1..16 : b[r] = Sha1Round(b[r - 1], 16 * k + r - 1)
      <4>1. \A r \in 1..16 : /\ r - 1 \in 0..15
                             /\ 16 * k + (r - 1) + 1 = 16 * k + r
                             /\ 16 * k + (r - 1) = 16 * k + r - 1
        OBVIOUS
      <4>2. QED
        BY <2>1, <4>1
    <3> HIDE DEF b
    <3>3. QED
      BY <3>1, <3>2
  <2>3. Is(g)
    BY <2>2
  <2>4. Row(a[16 * k], k) = g[16]
    BY DEF Steps, After
  <2> HIDE DEF g
  <2>5. \A r \in 0..15 : g[r + 1] = Sha1Round(g[r], 16 * k + r)
    <3>1. \A r \in 0..15 : r + 1 \in 1..16 /\ (r + 1) - 1 = r /\ 16 * k + (r + 1) - 1 = 16 * k + r
      OBVIOUS
    <3>2. QED
      BY <2>3, <3>1
  <2>6. g[0] = b[0] /\ \A r \in 0..15 : g[r] = b[r] => g[r + 1] = b[r + 1]
    BY <2>1, <2>3, <2>5
  <2>7. b[16] = a[16 * (k + 1)]
    BY 16 * k + 16 = 16 * (k + 1)
  <2> HIDE DEF b, Row, Is
  <2>8. QED
    BY <2>4, <2>6, <2>7, SameTrace
<1> DEFINE Is(f) == f = [k \in 0..m |->
              IF k = 0 THEN a[0] ELSE [t \in {f[k - 1]} |-> Row(t, 0 + k - 1)][f[k - 1]]]
           g == CHOOSE f : Is(f)
           b == [k \in 0..m |-> a[16 * k]]
<1>3. Is(b)
  <2> HIDE DEF Row
  <2>1. b[0] = a[0] /\ b = [k \in 0..m |-> b[k]]
    OBVIOUS
  <2>2. ASSUME NEW k \in 1..m PROVE b[k] = Row(b[k - 1], k - 1)
    <3>1. k - 1 \in 0..(m - 1) /\ (k - 1) + 1 = k
      OBVIOUS
    <3>2. QED
      BY <1>2, <3>1
  <2> HIDE DEF b
  <2>3. ASSUME NEW k \in 0..m
        PROVE  b[k] = IF k = 0 THEN a[0] ELSE [t \in {b[k - 1]} |-> Row(t, 0 + k - 1)][b[k - 1]]
    <3>1. CASE k = 0
      BY <2>1, <3>1
    <3>2. CASE k # 0
      <4>1. k \in 1..m /\ 0 + k - 1 = k - 1
        BY <3>2
      <4>2. QED
        BY <2>2, <3>2, <4>1
    <3>3. QED
      BY <3>1, <3>2
  <2>4. QED
    BY <2>1, <2>3
<1>4. Is(g)
  <2> HIDE DEF Row
  <2>1. QED
    BY <1>3
<1>5. Sha1Run(a[0]) = g[m]
  BY <1>1 DEF Sha1Run, Rounds, Steps, After
<1> HIDE DEF g, Row
<1>6. g[0] = b[0] /\ \A k \in 0..(m - 1) : g[k] = b[k] => g[k + 1] = b[k + 1]
  <2>1. g[0] = a[0] /\ b[0] = a[0]
    BY <1>4
  <2>2. \A i \in 1..m : g[i] = Row(g[i - 1], 0 + i - 1)
    BY <1>4
  <2>3. ASSUME NEW k \in 0..(m - 1) PROVE g[k + 1] = Row(g[k], k) /\ b[k + 1] = Row(b[k], k)
    <3>1. k \in 0..m /\ k + 1 \in 1..m /\ k + 1 # 0 /\ (k + 1) - 1 = k /\ 0 + (k + 1) - 1 = k
      OBVIOUS
    <3>2. g[k + 1] = Row(g[k], k)
      BY <2>2, <3>1
    <3>3. b[k + 1] = a[16 * (k + 1)] /\ b[k] = a[16 * k]
      BY <3>1
    <3>4. QED
      BY <1>2, <3>2, <3>3
  <2> HIDE DEF b, Is
  <2>4. QED
    BY <2>1, <2>3
<1>7. b[m] = a[80]
  BY <1>1
<1> HIDE DEF b, Is
<1>8. g[m] = b[m]
  BY <1>6, SameTrace
<1>9. QED
  BY <1>5, <1>7, <1>8

Sha1NextRun(s) == Rounds(Sha1Next, s, 64)

Sha1NextGoes(a) == \A r \in 0..(64 - 1) : a[r + 1] = Sha1Next(a[r], r)

LEMMA Sha1NextTrace ==
  ASSUME NEW a, Sha1NextGoes(a)
  PROVE  Sha1NextRun(a[0]) = a[64]
<1> DEFINE Row(t, k) == Steps(Sha1Next, t, 16 * k, 16)
<1>1. PICK m \in Nat : (64) \div 16 = m /\ 64 = 16 * m
  OBVIOUS
<1>2. ASSUME NEW k \in 0..(m - 1) PROVE Row(a[16 * k], k) = a[16 * (k + 1)]
  <2> DEFINE Is(f) == f = [r \in 0..16 |->
                IF r = 0 THEN a[16 * k]
                ELSE [t \in {f[r - 1]} |-> Sha1Next(t, 16 * k + r - 1)][f[r - 1]]]
             g == CHOOSE f : Is(f)
             b == [r \in 0..16 |-> a[16 * k + r]]
  <2>1. \A r \in 0..15 : a[16 * k + r + 1] = Sha1Next(a[16 * k + r], 16 * k + r)
    <3>1. \A r \in 0..15 : 16 * k + r \in 0..(64 - 1)
      BY <1>1
    <3>2. QED
      BY <3>1 DEF Sha1NextGoes
  <2>2. Is(b)
    <3>1. b[0] = a[16 * k] /\ b = [r \in 0..16 |-> b[r]]
      OBVIOUS
    <3>2. \A r \in 1..16 : b[r] = Sha1Next(b[r - 1], 16 * k + r - 1)
      <4>1. \A r \in 1..16 : /\ r - 1 \in 0..15
                             /\ 16 * k + (r - 1) + 1 = 16 * k + r
                             /\ 16 * k + (r - 1) = 16 * k + r - 1
        OBVIOUS
      <4>2. QED
        BY <2>1, <4>1
    <3> HIDE DEF b
    <3>3. QED
      BY <3>1, <3>2
  <2>3. Is(g)
    BY <2>2
  <2>4. Row(a[16 * k], k) = g[16]
    BY DEF Steps, After
  <2> HIDE DEF g
  <2>5. \A r \in 0..15 : g[r + 1] = Sha1Next(g[r], 16 * k + r)
    <3>1. \A r \in 0..15 : r + 1 \in 1..16 /\ (r + 1) - 1 = r /\ 16 * k + (r + 1) - 1 = 16 * k + r
      OBVIOUS
    <3>2. QED
      BY <2>3, <3>1
  <2>6. g[0] = b[0] /\ \A r \in 0..15 : g[r] = b[r] => g[r + 1] = b[r + 1]
    BY <2>1, <2>3, <2>5
  <2>7. b[16] = a[16 * (k + 1)]
    BY 16 * k + 16 = 16 * (k + 1)
  <2> HIDE DEF b, Row, Is
  <2>8. QED
    BY <2>4, <2>6, <2>7, SameTrace
<1> DEFINE Is(f) == f = [k \in 0..m |->
              IF k = 0 THEN a[0] ELSE [t \in {f[k - 1]} |-> Row(t, 0 + k - 1)][f[k - 1]]]
           g == CHOOSE f : Is(f)
           b == [k \in 0..m |-> a[16 * k]]
<1>3. Is(b)
  <2> HIDE DEF Row
  <2>1. b[0] = a[0] /\ b = [k \in 0..m |-> b[k]]
    OBVIOUS
  <2>2. ASSUME NEW k \in 1..m PROVE b[k] = Row(b[k - 1], k - 1)
    <3>1. k - 1 \in 0..(m - 1) /\ (k - 1) + 1 = k
      OBVIOUS
    <3>2. QED
      BY <1>2, <3>1
  <2> HIDE DEF b
  <2>3. ASSUME NEW k \in 0..m
        PROVE  b[k] = IF k = 0 THEN a[0] ELSE [t \in {b[k - 1]} |-> Row(t, 0 + k - 1)][b[k - 1]]
    <3>1. CASE k = 0
      BY <2>1, <3>1
    <3>2. CASE k # 0
      <4>1. k \in 1..m /\ 0 + k - 1 = k - 1
        BY <3>2
      <4>2. QED
        BY <2>2, <3>2, <4>1
    <3>3. QED
      BY <3>1, <3>2
  <2>4. QED
    BY <2>1, <2>3
<1>4. Is(g)
  <2> HIDE DEF Row
  <2>1. QED
    BY <1>3
<1>5. Sha1NextRun(a[0]) = g[m]
  BY <1>1 DEF Sha1NextRun, Rounds, Steps, After
<1> HIDE DEF g, Row
<1>6. g[0] = b[0] /\ \A k \in 0..(m - 1) : g[k] = b[k] => g[k + 1] = b[k + 1]
  <2>1. g[0] = a[0] /\ b[0] = a[0]
    BY <1>4
  <2>2. \A i \in 1..m : g[i] = Row(g[i - 1], 0 + i - 1)
    BY <1>4
  <2>3. ASSUME NEW k \in 0..(m - 1) PROVE g[k + 1] = Row(g[k], k) /\ b[k + 1] = Row(b[k], k)
    <3>1. k \in 0..m /\ k + 1 \in 1..m /\ k + 1 # 0 /\ (k + 1) - 1 = k /\ 0 + (k + 1) - 1 = k
      OBVIOUS
    <3>2. g[k + 1] = Row(g[k], k)
      BY <2>2, <3>1
    <3>3. b[k + 1] = a[16 * (k + 1)] /\ b[k] = a[16 * k]
      BY <3>1
    <3>4. QED
      BY <1>2, <3>2, <3>3
  <2> HIDE DEF b, Is
  <2>4. QED
    BY <2>1, <2>3
<1>7. b[m] = a[64]
  BY <1>1
<1> HIDE DEF b, Is
<1>8. g[m] = b[m]
  BY <1>6, SameTrace
<1>9. QED
  BY <1>5, <1>7, <1>8

Sha1StepRun(W, s) == Rounds(LAMBDA v, r : Sha1Step(v, W, r), s, 80)

Sha1StepGoes(W, a) == \A r \in 0..(80 - 1) : a[r + 1] = Sha1Step(a[r], W, r)

LEMMA Sha1StepTrace ==
  ASSUME NEW W, NEW a, Sha1StepGoes(W, a)
  PROVE  Sha1StepRun(W, a[0]) = a[80]
<1> DEFINE Row(t, k) == Steps(LAMBDA v, r : Sha1Step(v, W, r), t, 16 * k, 16)
<1>1. PICK m \in Nat : (80) \div 16 = m /\ 80 = 16 * m
  OBVIOUS
<1>2. ASSUME NEW k \in 0..(m - 1) PROVE Row(a[16 * k], k) = a[16 * (k + 1)]
  <2> DEFINE Is(f) == f = [r \in 0..16 |->
                IF r = 0 THEN a[16 * k]
                ELSE [t \in {f[r - 1]} |-> Sha1Step(t, W, 16 * k + r - 1)][f[r - 1]]]
             g == CHOOSE f : Is(f)
             b == [r \in 0..16 |-> a[16 * k + r]]
  <2>1. \A r \in 0..15 : a[16 * k + r + 1] = Sha1Step(a[16 * k + r], W, 16 * k + r)
    <3>1. \A r \in 0..15 : 16 * k + r \in 0..(80 - 1)
      BY <1>1
    <3>2. QED
      BY <3>1 DEF Sha1StepGoes
  <2>2. Is(b)
    <3>1. b[0] = a[16 * k] /\ b = [r \in 0..16 |-> b[r]]
      OBVIOUS
    <3>2. \A r \in 1..16 : b[r] = Sha1Step(b[r - 1], W, 16 * k + r - 1)
      <4>1. \A r \in 1..16 : /\ r - 1 \in 0..15
                             /\ 16 * k + (r - 1) + 1 = 16 * k + r
                             /\ 16 * k + (r - 1) = 16 * k + r - 1
        OBVIOUS
      <4>2. QED
        BY <2>1, <4>1
    <3> HIDE DEF b
    <3>3. QED
      BY <3>1, <3>2
  <2>3. Is(g)
    BY <2>2
  <2>4. Row(a[16 * k], k) = g[16]
    BY DEF Steps, After
  <2> HIDE DEF g
  <2>5. \A r \in 0..15 : g[r + 1] = Sha1Step(g[r], W, 16 * k + r)
    <3>1. \A r \in 0..15 : r + 1 \in 1..16 /\ (r + 1) - 1 = r /\ 16 * k + (r + 1) - 1 = 16 * k + r
      OBVIOUS
    <3>2. QED
      BY <2>3, <3>1
  <2>6. g[0] = b[0] /\ \A r \in 0..15 : g[r] = b[r] => g[r + 1] = b[r + 1]
    BY <2>1, <2>3, <2>5
  <2>7. b[16] = a[16 * (k + 1)]
    BY 16 * k + 16 = 16 * (k + 1)
  <2> HIDE DEF b, Row, Is
  <2>8. QED
    BY <2>4, <2>6, <2>7, SameTrace
<1> DEFINE Is(f) == f = [k \in 0..m |->
              IF k = 0 THEN a[0] ELSE [t \in {f[k - 1]} |-> Row(t, 0 + k - 1)][f[k - 1]]]
           g == CHOOSE f : Is(f)
           b == [k \in 0..m |-> a[16 * k]]
<1>3. Is(b)
  <2> HIDE DEF Row
  <2>1. b[0] = a[0] /\ b = [k \in 0..m |-> b[k]]
    OBVIOUS
  <2>2. ASSUME NEW k \in 1..m PROVE b[k] = Row(b[k - 1], k - 1)
    <3>1. k - 1 \in 0..(m - 1) /\ (k - 1) + 1 = k
      OBVIOUS
    <3>2. QED
      BY <1>2, <3>1
  <2> HIDE DEF b
  <2>3. ASSUME NEW k \in 0..m
        PROVE  b[k] = IF k = 0 THEN a[0] ELSE [t \in {b[k - 1]} |-> Row(t, 0 + k - 1)][b[k - 1]]
    <3>1. CASE k = 0
      BY <2>1, <3>1
    <3>2. CASE k # 0
      <4>1. k \in 1..m /\ 0 + k - 1 = k - 1
        BY <3>2
      <4>2. QED
        BY <2>2, <3>2, <4>1
    <3>3. QED
      BY <3>1, <3>2
  <2>4. QED
    BY <2>1, <2>3
<1>4. Is(g)
  <2> HIDE DEF Row
  <2>1. QED
    BY <1>3
<1>5. Sha1StepRun(W, a[0]) = g[m]
  BY <1>1 DEF Sha1StepRun, Rounds, Steps, After
<1> HIDE DEF g, Row
<1>6. g[0] = b[0] /\ \A k \in 0..(m - 1) : g[k] = b[k] => g[k + 1] = b[k + 1]
  <2>1. g[0] = a[0] /\ b[0] = a[0]
    BY <1>4
  <2>2. \A i \in 1..m : g[i] = Row(g[i - 1], 0 + i - 1)
    BY <1>4
  <2>3. ASSUME NEW k \in 0..(m - 1) PROVE g[k + 1] = Row(g[k], k) /\ b[k + 1] = Row(b[k], k)
    <3>1. k \in 0..m /\ k + 1 \in 1..m /\ k + 1 # 0 /\ (k + 1) - 1 = k /\ 0 + (k + 1) - 1 = k
      OBVIOUS
    <3>2. g[k + 1] = Row(g[k], k)
      BY <2>2, <3>1
    <3>3. b[k + 1] = a[16 * (k + 1)] /\ b[k] = a[16 * k]
      BY <3>1
    <3>4. QED
      BY <1>2, <3>2, <3>3
  <2> HIDE DEF b, Is
  <2>4. QED
    BY <2>1, <2>3
<1>7. b[m] = a[80]
  BY <1>1
<1> HIDE DEF b, Is
<1>8. g[m] = b[m]
  BY <1>6, SameTrace
<1>9. QED
  BY <1>5, <1>7, <1>8

RmdRun(line, w, s) == Rounds(LAMBDA v, r : RmdRound(line, v, w, r), s, 80)

RmdGoes(line, w, a) == \A r \in 0..(80 - 1) : a[r + 1] = RmdRound(line, a[r], w, r)

LEMMA RmdTrace ==
  ASSUME NEW line, NEW w, NEW a, RmdGoes(line, w, a)
  PROVE  RmdRun(line, w, a[0]) = a[80]
<1> DEFINE Row(t, k) == Steps(LAMBDA v, r : RmdRound(line, v, w, r), t, 16 * k, 16)
<1>1. PICK m \in Nat : (80) \div 16 = m /\ 80 = 16 * m
  OBVIOUS
<1>2. ASSUME NEW k \in 0..(m - 1) PROVE Row(a[16 * k], k) = a[16 * (k + 1)]
  <2> DEFINE Is(f) == f = [r \in 0..16 |->
                IF r = 0 THEN a[16 * k]
                ELSE [t \in {f[r - 1]} |-> RmdRound(line, t, w, 16 * k + r - 1)][f[r - 1]]]
             g == CHOOSE f : Is(f)
             b == [r \in 0..16 |-> a[16 * k + r]]
  <2>1. \A r \in 0..15 : a[16 * k + r + 1] = RmdRound(line, a[16 * k + r], w, 16 * k + r)
    <3>1. \A r \in 0..15 : 16 * k + r \in 0..(80 - 1)
      BY <1>1
    <3>2. QED
      BY <3>1 DEF RmdGoes
  <2>2. Is(b)
    <3>1. b[0] = a[16 * k] /\ b = [r \in 0..16 |-> b[r]]
      OBVIOUS
    <3>2. \A r \in 1..16 : b[r] = RmdRound(line, b[r - 1], w, 16 * k + r - 1)
      <4>1. \A r \in 1..16 : /\ r - 1 \in 0..15
                             /\ 16 * k + (r - 1) + 1 = 16 * k + r
                             /\ 16 * k + (r - 1) = 16 * k + r - 1
        OBVIOUS
      <4>2. QED
        BY <2>1, <4>1
    <3> HIDE DEF b
    <3>3. QED
      BY <3>1, <3>2
  <2>3. Is(g)
    BY <2>2
  <2>4. Row(a[16 * k], k) = g[16]
    BY DEF Steps, After
  <2> HIDE DEF g
  <2>5. \A r \in 0..15 : g[r + 1] = RmdRound(line, g[r], w, 16 * k + r)
    <3>1. \A r \in 0..15 : r + 1 \in 1..16 /\ (r + 1) - 1 = r /\ 16 * k + (r + 1) - 1 = 16 * k + r
      OBVIOUS
    <3>2. QED
      BY <2>3, <3>1
  <2>6. g[0] = b[0] /\ \A r \in 0..15 : g[r] = b[r] => g[r + 1] = b[r + 1]
    BY <2>1, <2>3, <2>5
  <2>7. b[16] = a[16 * (k + 1)]
    BY 16 * k + 16 = 16 * (k + 1)
  <2> HIDE DEF b, Row, Is
  <2>8. QED
    BY <2>4, <2>6, <2>7, SameTrace
<1> DEFINE Is(f) == f = [k \in 0..m |->
              IF k = 0 THEN a[0] ELSE [t \in {f[k - 1]} |-> Row(t, 0 + k - 1)][f[k - 1]]]
           g == CHOOSE f : Is(f)
           b == [k \in 0..m |-> a[16 * k]]
<1>3. Is(b)
  <2> HIDE DEF Row
  <2>1. b[0] = a[0] /\ b = [k \in 0..m |-> b[k]]
    OBVIOUS
  <2>2. ASSUME NEW k \in 1..m PROVE b[k] = Row(b[k - 1], k - 1)
    <3>1. k - 1 \in 0..(m - 1) /\ (k - 1) + 1 = k
      OBVIOUS
    <3>2. QED
      BY <1>2, <3>1
  <2> HIDE DEF b
  <2>3. ASSUME NEW k \in 0..m
        PROVE  b[k] = IF k = 0 THEN a[0] ELSE [t \in {b[k - 1]} |-> Row(t, 0 + k - 1)][b[k - 1]]
    <3>1. CASE k = 0
      BY <2>1, <3>1
    <3>2. CASE k # 0
      <4>1. k \in 1..m /\ 0 + k - 1 = k - 1
        BY <3>2
      <4>2. QED
        BY <2>2, <3>2, <4>1
    <3>3. QED
      BY <3>1, <3>2
  <2>4. QED
    BY <2>1, <2>3
<1>4. Is(g)
  <2> HIDE DEF Row
  <2>1. QED
    BY <1>3
<1>5. RmdRun(line, w, a[0]) = g[m]
  BY <1>1 DEF RmdRun, Rounds, Steps, After
<1> HIDE DEF g, Row
<1>6. g[0] = b[0] /\ \A k \in 0..(m - 1) : g[k] = b[k] => g[k + 1] = b[k + 1]
  <2>1. g[0] = a[0] /\ b[0] = a[0]
    BY <1>4
  <2>2. \A i \in 1..m : g[i] = Row(g[i - 1], 0 + i - 1)
    BY <1>4
  <2>3. ASSUME NEW k \in 0..(m - 1) PROVE g[k + 1] = Row(g[k], k) /\ b[k + 1] = Row(b[k], k)
    <3>1. k \in 0..m /\ k + 1 \in 1..m /\ k + 1 # 0 /\ (k + 1) - 1 = k /\ 0 + (k + 1) - 1 = k
      OBVIOUS
    <3>2. g[k + 1] = Row(g[k], k)
      BY <2>2, <3>1
    <3>3. b[k + 1] = a[16 * (k + 1)] /\ b[k] = a[16 * k]
      BY <3>1
    <3>4. QED
      BY <1>2, <3>2, <3>3
  <2> HIDE DEF b, Is
  <2>4. QED
    BY <2>1, <2>3
<1>7. b[m] = a[80]
  BY <1>1
<1> HIDE DEF b, Is
<1>8. g[m] = b[m]
  BY <1>6, SameTrace
<1>9. QED
  BY <1>5, <1>7, <1>8

RmdStepRun(line, w, s) == Rounds(LAMBDA v, r : RmdStep(line, v, w, r), s, 80)

RmdStepGoes(line, w, a) == \A r \in 0..(80 - 1) : a[r + 1] = RmdStep(line, a[r], w, r)

LEMMA RmdStepTrace ==
  ASSUME NEW line, NEW w, NEW a, RmdStepGoes(line, w, a)
  PROVE  RmdStepRun(line, w, a[0]) = a[80]
<1> DEFINE Row(t, k) == Steps(LAMBDA v, r : RmdStep(line, v, w, r), t, 16 * k, 16)
<1>1. PICK m \in Nat : (80) \div 16 = m /\ 80 = 16 * m
  OBVIOUS
<1>2. ASSUME NEW k \in 0..(m - 1) PROVE Row(a[16 * k], k) = a[16 * (k + 1)]
  <2> DEFINE Is(f) == f = [r \in 0..16 |->
                IF r = 0 THEN a[16 * k]
                ELSE [t \in {f[r - 1]} |-> RmdStep(line, t, w, 16 * k + r - 1)][f[r - 1]]]
             g == CHOOSE f : Is(f)
             b == [r \in 0..16 |-> a[16 * k + r]]
  <2>1. \A r \in 0..15 : a[16 * k + r + 1] = RmdStep(line, a[16 * k + r], w, 16 * k + r)
    <3>1. \A r \in 0..15 : 16 * k + r \in 0..(80 - 1)
      BY <1>1
    <3>2. QED
      BY <3>1 DEF RmdStepGoes
  <2>2. Is(b)
    <3>1. b[0] = a[16 * k] /\ b = [r \in 0..16 |-> b[r]]
      OBVIOUS
    <3>2. \A r \in 1..16 : b[r] = RmdStep(line, b[r - 1], w, 16 * k + r - 1)
      <4>1. \A r \in 1..16 : /\ r - 1 \in 0..15
                             /\ 16 * k + (r - 1) + 1 = 16 * k + r
                             /\ 16 * k + (r - 1) = 16 * k + r - 1
        OBVIOUS
      <4>2. QED
        BY <2>1, <4>1
    <3> HIDE DEF b
    <3>3. QED
      BY <3>1, <3>2
  <2>3. Is(g)
    BY <2>2
  <2>4. Row(a[16 * k], k) = g[16]
    BY DEF Steps, After
  <2> HIDE DEF g
  <2>5. \A r \in 0..15 : g[r + 1] = RmdStep(line, g[r], w, 16 * k + r)
    <3>1. \A r \in 0..15 : r + 1 \in 1..16 /\ (r + 1) - 1 = r /\ 16 * k + (r + 1) - 1 = 16 * k + r
      OBVIOUS
    <3>2. QED
      BY <2>3, <3>1
  <2>6. g[0] = b[0] /\ \A r \in 0..15 : g[r] = b[r] => g[r + 1] = b[r + 1]
    BY <2>1, <2>3, <2>5
  <2>7. b[16] = a[16 * (k + 1)]
    BY 16 * k + 16 = 16 * (k + 1)
  <2> HIDE DEF b, Row, Is
  <2>8. QED
    BY <2>4, <2>6, <2>7, SameTrace
<1> DEFINE Is(f) == f = [k \in 0..m |->
              IF k = 0 THEN a[0] ELSE [t \in {f[k - 1]} |-> Row(t, 0 + k - 1)][f[k - 1]]]
           g == CHOOSE f : Is(f)
           b == [k \in 0..m |-> a[16 * k]]
<1>3. Is(b)
  <2> HIDE DEF Row
  <2>1. b[0] = a[0] /\ b = [k \in 0..m |-> b[k]]
    OBVIOUS
  <2>2. ASSUME NEW k \in 1..m PROVE b[k] = Row(b[k - 1], k - 1)
    <3>1. k - 1 \in 0..(m - 1) /\ (k - 1) + 1 = k
      OBVIOUS
    <3>2. QED
      BY <1>2, <3>1
  <2> HIDE DEF b
  <2>3. ASSUME NEW k \in 0..m
        PROVE  b[k] = IF k = 0 THEN a[0] ELSE [t \in {b[k - 1]} |-> Row(t, 0 + k - 1)][b[k - 1]]
    <3>1. CASE k = 0
      BY <2>1, <3>1
    <3>2. CASE k # 0
      <4>1. k \in 1..m /\ 0 + k - 1 = k - 1
        BY <3>2
      <4>2. QED
        BY <2>2, <3>2, <4>1
    <3>3. QED
      BY <3>1, <3>2
  <2>4. QED
    BY <2>1, <2>3
<1>4. Is(g)
  <2> HIDE DEF Row
  <2>1. QED
    BY <1>3
<1>5. RmdStepRun(line, w, a[0]) = g[m]
  BY <1>1 DEF RmdStepRun, Rounds, Steps, After
<1> HIDE DEF g, Row
<1>6. g[0] = b[0] /\ \A k \in 0..(m - 1) : g[k] = b[k] => g[k + 1] = b[k + 1]
  <2>1. g[0] = a[0] /\ b[0] = a[0]
    BY <1>4
  <2>2. \A i \in 1..m : g[i] = Row(g[i - 1], 0 + i - 1)
    BY <1>4
  <2>3. ASSUME NEW k \in 0..(m - 1) PROVE g[k + 1] = Row(g[k], k) /\ b[k + 1] = Row(b[k], k)
    <3>1. k \in 0..m /\ k + 1 \in 1..m /\ k + 1 # 0 /\ (k + 1) - 1 = k /\ 0 + (k + 1) - 1 = k
      OBVIOUS
    <3>2. g[k + 1] = Row(g[k], k)
      BY <2>2, <3>1
    <3>3. b[k + 1] = a[16 * (k + 1)] /\ b[k] = a[16 * k]
      BY <3>1
    <3>4. QED
      BY <1>2, <3>2, <3>3
  <2> HIDE DEF b, Is
  <2>4. QED
    BY <2>1, <2>3
<1>7. b[m] = a[80]
  BY <1>1
<1> HIDE DEF b, Is
<1>8. g[m] = b[m]
  BY <1>6, SameTrace
<1>9. QED
  BY <1>5, <1>7, <1>8

Sha2Run(h, s) == Rounds(LAMBDA v, r : Sha2Round(h, v, r), s, h.rounds)

Sha2Goes(h, a) == \A r \in 0..(h.rounds - 1) : a[r + 1] = Sha2Round(h, a[r], r)

LEMMA Sha2Trace ==
  ASSUME NEW h, h.rounds \in {64, 80}, NEW a, Sha2Goes(h, a)
  PROVE  Sha2Run(h, a[0]) = a[h.rounds]
<1> DEFINE Row(t, k) == Steps(LAMBDA v, r : Sha2Round(h, v, r), t, 16 * k, 16)
<1>1. PICK m \in Nat : (h.rounds) \div 16 = m /\ h.rounds = 16 * m
  OBVIOUS
<1>2. ASSUME NEW k \in 0..(m - 1) PROVE Row(a[16 * k], k) = a[16 * (k + 1)]
  <2> DEFINE Is(f) == f = [r \in 0..16 |->
                IF r = 0 THEN a[16 * k]
                ELSE [t \in {f[r - 1]} |-> Sha2Round(h, t, 16 * k + r - 1)][f[r - 1]]]
             g == CHOOSE f : Is(f)
             b == [r \in 0..16 |-> a[16 * k + r]]
  <2>1. \A r \in 0..15 : a[16 * k + r + 1] = Sha2Round(h, a[16 * k + r], 16 * k + r)
    <3>1. \A r \in 0..15 : 16 * k + r \in 0..(h.rounds - 1)
      BY <1>1
    <3>2. QED
      BY <3>1 DEF Sha2Goes
  <2>2. Is(b)
    <3>1. b[0] = a[16 * k] /\ b = [r \in 0..16 |-> b[r]]
      OBVIOUS
    <3>2. \A r \in 1..16 : b[r] = Sha2Round(h, b[r - 1], 16 * k + r - 1)
      <4>1. \A r \in 1..16 : /\ r - 1 \in 0..15
                             /\ 16 * k + (r - 1) + 1 = 16 * k + r
                             /\ 16 * k + (r - 1) = 16 * k + r - 1
        OBVIOUS
      <4>2. QED
        BY <2>1, <4>1
    <3> HIDE DEF b
    <3>3. QED
      BY <3>1, <3>2
  <2>3. Is(g)
    BY <2>2
  <2>4. Row(a[16 * k], k) = g[16]
    BY DEF Steps, After
  <2> HIDE DEF g
  <2>5. \A r \in 0..15 : g[r + 1] = Sha2Round(h, g[r], 16 * k + r)
    <3>1. \A r \in 0..15 : r + 1 \in 1..16 /\ (r + 1) - 1 = r /\ 16 * k + (r + 1) - 1 = 16 * k + r
      OBVIOUS
    <3>2. QED
      BY <2>3, <3>1
  <2>6. g[0] = b[0] /\ \A r \in 0..15 : g[r] = b[r] => g[r + 1] = b[r + 1]
    BY <2>1, <2>3, <2>5
  <2>7. b[16] = a[16 * (k + 1)]
    BY 16 * k + 16 = 16 * (k + 1)
  <2> HIDE DEF b, Row, Is
  <2>8. QED
    BY <2>4, <2>6, <2>7, SameTrace
<1> DEFINE Is(f) == f = [k \in 0..m |->
              IF k = 0 THEN a[0] ELSE [t \in {f[k - 1]} |-> Row(t, 0 + k - 1)][f[k - 1]]]
           g == CHOOSE f : Is(f)
           b == [k \in 0..m |-> a[16 * k]]
<1>3. Is(b)
  <2> HIDE DEF Row
  <2>1. b[0] = a[0] /\ b = [k \in 0..m |-> b[k]]
    OBVIOUS
  <2>2. ASSUME NEW k \in 1..m PROVE b[k] = Row(b[k - 1], k - 1)
    <3>1. k - 1 \in 0..(m - 1) /\ (k - 1) + 1 = k
      OBVIOUS
    <3>2. QED
      BY <1>2, <3>1
  <2> HIDE DEF b
  <2>3. ASSUME NEW k \in 0..m
        PROVE  b[k] = IF k = 0 THEN a[0] ELSE [t \in {b[k - 1]} |-> Row(t, 0 + k - 1)][b[k - 1]]
    <3>1. CASE k = 0
      BY <2>1, <3>1
    <3>2. CASE k # 0
      <4>1. k \in 1..m /\ 0 + k - 1 = k - 1
        BY <3>2
      <4>2. QED
        BY <2>2, <3>2, <4>1
    <3>3. QED
      BY <3>1, <3>2
  <2>4. QED
    BY <2>1, <2>3
<1>4. Is(g)
  <2> HIDE DEF Row
  <2>1. QED
    BY <1>3
<1>5. Sha2Run(h, a[0]) = g[m]
  BY <1>1 DEF Sha2Run, Rounds, Steps, After
<1> HIDE DEF g, Row
<1>6. g[0] = b[0] /\ \A k \in 0..(m - 1) : g[k] = b[k] => g[k + 1] = b[k + 1]
  <2>1. g[0] = a[0] /\ b[0] = a[0]
    BY <1>4
  <2>2. \A i \in 1..m : g[i] = Row(g[i - 1], 0 + i - 1)
    BY <1>4
  <2>3. ASSUME NEW k \in 0..(m - 1) PROVE g[k + 1] = Row(g[k], k) /\ b[k + 1] = Row(b[k], k)
    <3>1. k \in 0..m /\ k + 1 \in 1..m /\ k + 1 # 0 /\ (k + 1) - 1 = k /\ 0 + (k + 1) - 1 = k
      OBVIOUS
    <3>2. g[k + 1] = Row(g[k], k)
      BY <2>2, <3>1
    <3>3. b[k + 1] = a[16 * (k + 1)] /\ b[k] = a[16 * k]
      BY <3>1
    <3>4. QED
      BY <1>2, <3>2, <3>3
  <2> HIDE DEF b, Is
  <2>4. QED
    BY <2>1, <2>3
<1>7. b[m] = a[h.rounds]
  BY <1>1
<1> HIDE DEF b, Is
<1>8. g[m] = b[m]
  BY <1>6, SameTrace
<1>9. QED
  BY <1>5, <1>7, <1>8

ExtendedRun(h, s) == Rounds(LAMBDA v, r : Extended(h, v, r), s, h.rounds - 16)

ExtendedGoes(h, a) == \A r \in 0..(h.rounds - 16 - 1) : a[r + 1] = Extended(h, a[r], r)

LEMMA ExtendedTrace ==
  ASSUME NEW h, h.rounds \in {64, 80}, NEW a, ExtendedGoes(h, a)
  PROVE  ExtendedRun(h, a[0]) = a[h.rounds - 16]
<1> DEFINE Row(t, k) == Steps(LAMBDA v, r : Extended(h, v, r), t, 16 * k, 16)
<1>1. PICK m \in Nat : (h.rounds - 16) \div 16 = m /\ h.rounds - 16 = 16 * m
  OBVIOUS
<1>2. ASSUME NEW k \in 0..(m - 1) PROVE Row(a[16 * k], k) = a[16 * (k + 1)]
  <2> DEFINE Is(f) == f = [r \in 0..16 |->
                IF r = 0 THEN a[16 * k]
                ELSE [t \in {f[r - 1]} |-> Extended(h, t, 16 * k + r - 1)][f[r - 1]]]
             g == CHOOSE f : Is(f)
             b == [r \in 0..16 |-> a[16 * k + r]]
  <2>1. \A r \in 0..15 : a[16 * k + r + 1] = Extended(h, a[16 * k + r], 16 * k + r)
    <3>1. \A r \in 0..15 : 16 * k + r \in 0..(h.rounds - 16 - 1)
      BY <1>1
    <3>2. QED
      BY <3>1 DEF ExtendedGoes
  <2>2. Is(b)
    <3>1. b[0] = a[16 * k] /\ b = [r \in 0..16 |-> b[r]]
      OBVIOUS
    <3>2. \A r \in 1..16 : b[r] = Extended(h, b[r - 1], 16 * k + r - 1)
      <4>1. \A r \in 1..16 : /\ r - 1 \in 0..15
                             /\ 16 * k + (r - 1) + 1 = 16 * k + r
                             /\ 16 * k + (r - 1) = 16 * k + r - 1
        OBVIOUS
      <4>2. QED
        BY <2>1, <4>1
    <3> HIDE DEF b
    <3>3. QED
      BY <3>1, <3>2
  <2>3. Is(g)
    BY <2>2
  <2>4. Row(a[16 * k], k) = g[16]
    BY DEF Steps, After
  <2> HIDE DEF g
  <2>5. \A r \in 0..15 : g[r + 1] = Extended(h, g[r], 16 * k + r)
    <3>1. \A r \in 0..15 : r + 1 \in 1..16 /\ (r + 1) - 1 = r /\ 16 * k + (r + 1) - 1 = 16 * k + r
      OBVIOUS
    <3>2. QED
      BY <2>3, <3>1
  <2>6. g[0] = b[0] /\ \A r \in 0..15 : g[r] = b[r] => g[r + 1] = b[r + 1]
    BY <2>1, <2>3, <2>5
  <2>7. b[16] = a[16 * (k + 1)]
    BY 16 * k + 16 = 16 * (k + 1)
  <2> HIDE DEF b, Row, Is
  <2>8. QED
    BY <2>4, <2>6, <2>7, SameTrace
<1> DEFINE Is(f) == f = [k \in 0..m |->
              IF k = 0 THEN a[0] ELSE [t \in {f[k - 1]} |-> Row(t, 0 + k - 1)][f[k - 1]]]
           g == CHOOSE f : Is(f)
           b == [k \in 0..m |-> a[16 * k]]
<1>3. Is(b)
  <2> HIDE DEF Row
  <2>1. b[0] = a[0] /\ b = [k \in 0..m |-> b[k]]
    OBVIOUS
  <2>2. ASSUME NEW k \in 1..m PROVE b[k] = Row(b[k - 1], k - 1)
    <3>1. k - 1 \in 0..(m - 1) /\ (k - 1) + 1 = k
      OBVIOUS
    <3>2. QED
      BY <1>2, <3>1
  <2> HIDE DEF b
  <2>3. ASSUME NEW k \in 0..m
        PROVE  b[k] = IF k = 0 THEN a[0] ELSE [t \in {b[k - 1]} |-> Row(t, 0 + k - 1)][b[k - 1]]
    <3>1. CASE k = 0
      BY <2>1, <3>1
    <3>2. CASE k # 0
      <4>1. k \in 1..m /\ 0 + k - 1 = k - 1
        BY <3>2
      <4>2. QED
        BY <2>2, <3>2, <4>1
    <3>3. QED
      BY <3>1, <3>2
  <2>4. QED
    BY <2>1, <2>3
<1>4. Is(g)
  <2> HIDE DEF Row
  <2>1. QED
    BY <1>3
<1>5. ExtendedRun(h, a[0]) = g[m]
  BY <1>1 DEF ExtendedRun, Rounds, Steps, After
<1> HIDE DEF g, Row
<1>6. g[0] = b[0] /\ \A k \in 0..(m - 1) : g[k] = b[k] => g[k + 1] = b[k + 1]
  <2>1. g[0] = a[0] /\ b[0] = a[0]
    BY <1>4
  <2>2. \A i \in 1..m : g[i] = Row(g[i - 1], 0 + i - 1)
    BY <1>4
  <2>3. ASSUME NEW k \in 0..(m - 1) PROVE g[k + 1] = Row(g[k], k) /\ b[k + 1] = Row(b[k], k)
    <3>1. k \in 0..m /\ k + 1 \in 1..m /\ k + 1 # 0 /\ (k + 1) - 1 = k /\ 0 + (k + 1) - 1 = k
      OBVIOUS
    <3>2. g[k + 1] = Row(g[k], k)
      BY <2>2, <3>1
    <3>3. b[k + 1] = a[16 * (k + 1)] /\ b[k] = a[16 * k]
      BY <3>1
    <3>4. QED
      BY <1>2, <3>2, <3>3
  <2> HIDE DEF b, Is
  <2>4. QED
    BY <2>1, <2>3
<1>7. b[m] = a[h.rounds - 16]
  BY <1>1
<1> HIDE DEF b, Is
<1>8. g[m] = b[m]
  BY <1>6, SameTrace
<1>9. QED
  BY <1>5, <1>7, <1>8

Sha2tRun(h, W, s) == Rounds(LAMBDA v, r : Sha2tRound(h, v, h.k[r + 1], W[r + 1]), s, h.rounds)

Sha2tGoes(h, W, a) == \A r \in 0..(h.rounds - 1) : a[r + 1] = Sha2tRound(h, a[r], h.k[r + 1], W[r + 1])

LEMMA Sha2tTrace ==
  ASSUME NEW h, NEW W, h.rounds \in {64, 80}, NEW a, Sha2tGoes(h, W, a)
  PROVE  Sha2tRun(h, W, a[0]) = a[h.rounds]
<1> DEFINE Row(t, k) == Steps(LAMBDA v, r : Sha2tRound(h, v, h.k[r + 1], W[r + 1]), t, 16 * k, 16)
<1>1. PICK m \in Nat : (h.rounds) \div 16 = m /\ h.rounds = 16 * m
  OBVIOUS
<1>2. ASSUME NEW k \in 0..(m - 1) PROVE Row(a[16 * k], k) = a[16 * (k + 1)]
  <2> DEFINE Is(f) == f = [r \in 0..16 |->
                IF r = 0 THEN a[16 * k]
                ELSE [t \in {f[r - 1]} |-> Sha2tRound(h, t, h.k[16 * k + r - 1 + 1], W[16 * k + r - 1 + 1])][f[r - 1]]]
             g == CHOOSE f : Is(f)
             b == [r \in 0..16 |-> a[16 * k + r]]
  <2>1. \A r \in 0..15 : a[16 * k + r + 1] = Sha2tRound(h, a[16 * k + r], h.k[16 * k + r + 1], W[16 * k + r + 1])
    <3>1. \A r \in 0..15 : 16 * k + r \in 0..(h.rounds - 1)
      BY <1>1
    <3>2. QED
      BY <3>1 DEF Sha2tGoes
  <2>2. Is(b)
    <3>1. b[0] = a[16 * k] /\ b = [r \in 0..16 |-> b[r]]
      OBVIOUS
    <3>2. \A r \in 1..16 : b[r] = Sha2tRound(h, b[r - 1], h.k[16 * k + r - 1 + 1], W[16 * k + r - 1 + 1])
      <4>1. \A r \in 1..16 : /\ r - 1 \in 0..15
                             /\ 16 * k + (r - 1) + 1 = 16 * k + r
                             /\ 16 * k + (r - 1) = 16 * k + r - 1
        OBVIOUS
      <4>2. QED
        BY <2>1, <4>1
    <3> HIDE DEF b
    <3>3. QED
      BY <3>1, <3>2
  <2>3. Is(g)
    BY <2>2
  <2>4. Row(a[16 * k], k) = g[16]
    BY DEF Steps, After
  <2> HIDE DEF g
  <2>5. \A r \in 0..15 : g[r + 1] = Sha2tRound(h, g[r], h.k[16 * k + r + 1], W[16 * k + r + 1])
    <3>1. \A r \in 0..15 : r + 1 \in 1..16 /\ (r + 1) - 1 = r /\ 16 * k + (r + 1) - 1 = 16 * k + r
      OBVIOUS
    <3>2. QED
      BY <2>3, <3>1
  <2>6. g[0] = b[0] /\ \A r \in 0..15 : g[r] = b[r] => g[r + 1] = b[r + 1]
    BY <2>1, <2>3, <2>5
  <2>7. b[16] = a[16 * (k + 1)]
    BY 16 * k + 16 = 16 * (k + 1)
  <2> HIDE DEF b, Row, Is
  <2>8. QED
    BY <2>4, <2>6, <2>7, SameTrace
<1> DEFINE Is(f) == f = [k \in 0..m |->
              IF k = 0 THEN a[0] ELSE [t \in {f[k - 1]} |-> Row(t, 0 + k - 1)][f[k - 1]]]
           g == CHOOSE f : Is(f)
           b == [k \in 0..m |-> a[16 * k]]
<1>3. Is(b)
  <2> HIDE DEF Row
  <2>1. b[0] = a[0] /\ b = [k \in 0..m |-> b[k]]
    OBVIOUS
  <2>2. ASSUME NEW k \in 1..m PROVE b[k] = Row(b[k - 1], k - 1)
    <3>1. k - 1 \in 0..(m - 1) /\ (k - 1) + 1 = k
      OBVIOUS
    <3>2. QED
      BY <1>2, <3>1
  <2> HIDE DEF b
  <2>3. ASSUME NEW k \in 0..m
        PROVE  b[k] = IF k = 0 THEN a[0] ELSE [t \in {b[k - 1]} |-> Row(t, 0 + k - 1)][b[k - 1]]
    <3>1. CASE k = 0
      BY <2>1, <3>1
    <3>2. CASE k # 0
      <4>1. k \in 1..m /\ 0 + k - 1 = k - 1
        BY <3>2
      <4>2. QED
        BY <2>2, <3>2, <4>1
    <3>3. QED
      BY <3>1, <3>2
  <2>4. QED
    BY <2>1, <2>3
<1>4. Is(g)
  <2> HIDE DEF Row
  <2>1. QED
    BY <1>3
<1>5. Sha2tRun(h, W, a[0]) = g[m]
  BY <1>1 DEF Sha2tRun, Rounds, Steps, After
<1> HIDE DEF g, Row
<1>6. g[0] = b[0] /\ \A k \in 0..(m - 1) : g[k] = b[k] => g[k + 1] = b[k + 1]
  <2>1. g[0] = a[0] /\ b[0] = a[0]
    BY <1>4
  <2>2. \A i \in 1..m : g[i] = Row(g[i - 1], 0 + i - 1)
    BY <1>4
  <2>3. ASSUME NEW k \in 0..(m - 1) PROVE g[k + 1] = Row(g[k], k) /\ b[k + 1] = Row(b[k], k)
    <3>1. k \in 0..m /\ k + 1 \in 1..m /\ k + 1 # 0 /\ (k + 1) - 1 = k /\ 0 + (k + 1) - 1 = k
      OBVIOUS
    <3>2. g[k + 1] = Row(g[k], k)
      BY <2>2, <3>1
    <3>3. b[k + 1] = a[16 * (k + 1)] /\ b[k] = a[16 * k]
      BY <3>1
    <3>4. QED
      BY <1>2, <3>2, <3>3
  <2> HIDE DEF b, Is
  <2>4. QED
    BY <2>1, <2>3
<1>7. b[m] = a[h.rounds]
  BY <1>1
<1> HIDE DEF b, Is
<1>8. g[m] = b[m]
  BY <1>6, SameTrace
<1>9. QED
  BY <1>5, <1>7, <1>8

\* The registers of n words.
Registers(m, n) == [1..m -> Bytes(n)]

\* The registers change roles from round to round: what was the k-th is the next.
LEMMA Roles ==
  ASSUME NEW n \in {4, 5, 8}, NEW r \in Nat
  PROVE  /\ \A k \in 0..(n - 1) : Role(n, r, k) \in 1..n
         /\ \A j, k \in 0..(n - 1) : Role(n, r, j) = Role(n, r, k) => j = k
         /\ \A k \in 0..(n - 2) : Role(n, r + 1, k + 1) = Role(n, r, k)
         /\ Role(n, r + 1, 0) = Role(n, r, n - 1)
         /\ r % n = 0 => \A k \in 0..(n - 1) : Role(n, r, k) = k + 1
<1>1. CASE n = 4
  BY <1>1 DEF Role
<1>2. CASE n = 5
  BY <1>2 DEF Role
<1>3. CASE n = 8
  BY <1>3 DEF Role
<1>4. QED
  BY <1>1, <1>2, <1>3

LEMMA Md4Indices ==
  \A r \in 0..47 : Md4Words[r + 1] = Md4Index(r \div 16, r % 16) /\ Md4Words[r + 1] \in 0..15
BY DEF Md4Words, Md4Index

LEMMA Md4Amounts == 
  \A r \in 0..47 : Phase(Md4Shifts, r, 16)[(r % 4) + 1] \in 0..31
BY DEF Md4Shifts, Phase

-----------------------------------------------------------------------------
\* Constants and initial values are words.

\* The numbers constants are written in.
Half == {x \in Nat : x < 65536}

LEMMA HalfRange == \A a \in Half : a \div 256 \in Byte /\ a % 256 \in Byte
<1>1. ASSUME NEW a \in Nat, a < 65536 PROVE a \div 256 \in 0..255 /\ a % 256 \in 0..255
  <2>1. PICK q \in Int, s \in Int : q = a \div 256 /\ s = a % 256
    OBVIOUS
  <2>2. a = 256 * q + s /\ 0 <= s /\ s < 256
    BY <2>1
  <2>3. QED
    BY <1>1, <2>1, <2>2
<1>2. QED
  BY <1>1 DEF Half, Byte

LEMMA HalvesAre ==
  ASSUME NEW h \in Seq(Half)
  PROVE  Halves(h) \in Bytes(2 * Len(h))
<1>1. ASSUME NEW i \in 1..(2 * Len(h))
      PROVE  (IF i % 2 = 1 THEN h[(i + 1) \div 2] \div 256 ELSE h[i \div 2] % 256) \in Byte
  <2>1. CASE i % 2 = 1
    <3>1. (i + 1) \div 2 \in 1..Len(h)
      BY <2>1
    <3>2. h[(i + 1) \div 2] \in Half
      BY <3>1
    <3>3. QED
      BY <2>1, <3>2, HalfRange
  <2>2. CASE i % 2 # 1
    <3>1. i \div 2 \in 1..Len(h)
      BY <2>2
    <3>2. h[i \div 2] \in Half
      BY <3>1
    <3>3. QED
      BY <2>2, <3>2, HalfRange
  <2>3. QED
    BY <2>1, <2>2
<1>2. QED
  BY <1>1 DEF Halves, Bytes

LEMMA ConstantsAre ==
  ASSUME NEW h \in Seq(Half), NEW n \in Width
  PROVE  Constants(h, n) \in [1..((2 * Len(h)) \div n) -> Bytes(n)]
<1>1. ASSUME NEW r \in 1..((2 * Len(h)) \div n)
      PROVE  Halves(SubSeq(h, (r - 1) * (n \div 2) + 1, r * (n \div 2))) \in Bytes(n)
  <2> DEFINE a == (r - 1) * (n \div 2) + 1
             b == r * (n \div 2)
             s == SubSeq(h, a, b)
  <2>1. a \in 1..Len(h) /\ b \in 1..Len(h) /\ a <= b /\ 2 * (b - a + 1) = n
    <3>1. Len(h) \in Nat
      OBVIOUS
    <3>2. CASE n = 4
      BY <3>1, <3>2
    <3>3. CASE n = 8
      BY <3>1, <3>3
    <3>4. QED
      BY <3>2, <3>3 DEF Width
  <2> HIDE DEF a, b
  <2>2. s \in Seq(Half) /\ Len(s) = b - a + 1
    BY <2>1
  <2> HIDE DEF s
  <2>3. Halves(s) \in Bytes(n)
    BY <2>1, <2>2, HalvesAre
  <2>4. QED
    BY <2>3 DEF s, a, b
<1>2. QED
  BY <1>1 DEF Constants

LEMMA Md4Constants == Md4K \in [1..3 -> Bytes(4)]
<1> DEFINE h == <<0, 0, \h5a82, \h7999, \h6ed9, \heba1>>
<1>1. h \in Seq(Half) /\ 4 \in Width /\ (2 * Len(h)) \div 4 = 3
  BY DEF Half, Width
<1>2. Md4K = Constants(h, 4)
  BY DEF Md4K, K32
<1> HIDE DEF h
<1>3. QED
  BY <1>1, <1>2, ConstantsAre

LEMMA Md5Constants == Md5K \in [1..64 -> Bytes(4)]
<1>1. Md5Halves \in Seq(Half) /\ 4 \in Width /\ (2 * Len(Md5Halves)) \div 4 = 64
  BY DEF Md5Halves, Half, Width
<1>2. QED
  BY <1>1, ConstantsAre DEF Md5K, K32

LEMMA Sha1Constants == Sha1K \in [1..4 -> Bytes(4)]
<1> DEFINE h == <<\h5a82, \h7999, \h6ed9, \heba1, \h8f1b, \hbcdc, \hca62, \hc1d6>>
<1>1. h \in Seq(Half) /\ 4 \in Width /\ (2 * Len(h)) \div 4 = 4
  BY DEF Half, Width
<1>2. Sha1K = Constants(h, 4)
  BY DEF Sha1K, K32
<1> HIDE DEF h
<1>3. QED
  BY <1>1, <1>2, ConstantsAre

LEMMA RmdConstants ==
  ASSUME NEW line \in {"left", "right"}
  PROVE  RmdK[line] \in [1..5 -> Bytes(4)]
<1> DEFINE h == <<0, 0, \h5a82, \h7999, \h6ed9, \heba1, \h8f1b, \hbcdc, \ha953, \hfd4e>>
           g == <<\h50a2, \h8be6, \h5c4d, \hd124, \h6d70, \h3ef3, \h7a6d, \h76e9, 0, 0>>
<1>1. /\ h \in Seq(Half) /\ 4 \in Width /\ (2 * Len(h)) \div 4 = 5
      /\ g \in Seq(Half) /\ (2 * Len(g)) \div 4 = 5
  BY DEF Half, Width
<1>2. RmdK = [left |-> Constants(h, 4), right |-> Constants(g, 4)]
  BY DEF RmdK, K32
<1> HIDE DEF h, g
<1>3. Constants(h, 4) \in [1..5 -> Bytes(4)] /\ Constants(g, 4) \in [1..5 -> Bytes(4)]
  BY <1>1, ConstantsAre
<1>4. QED
  BY <1>2, <1>3

LEMMA BytesOf ==
  ASSUME NEW s \in Seq(Byte)
  PROVE  s \in Bytes(Len(s))
BY DEF Bytes

LEMMA UpperHalf ==
  ASSUME NEW n \in Nat, NEW m \in 0..n, NEW x \in Bytes(n)
  PROVE  SubSeq(x, 1, m) \in Bytes(m)
<1>1. x \in Seq(Byte) /\ Len(x) = n
  BY DEF Bytes
<1>2. SubSeq(x, 1, m) \in Seq(Byte) /\ Len(SubSeq(x, 1, m)) = m
  BY <1>1
<1>3. QED
  BY <1>2, BytesOf

LEMMA Sha2Constants ==
  /\ Sha512K \in [1..80 -> Bytes(8)]
  /\ Sha256K \in [1..64 -> Bytes(4)]
<1>1. Sha512Halves \in Seq(Half) /\ 8 \in Width /\ (2 * Len(Sha512Halves)) \div 8 = 80
  BY DEF Sha512Halves, Half, Width
<1>2. Sha512K \in [1..80 -> Bytes(8)]
  BY <1>1, ConstantsAre DEF Sha512K
<1>3. ASSUME NEW r \in 1..64 PROVE SubSeq(Sha512K[r], 1, 4) \in Bytes(4)
  <2>1. Sha512K[r] \in Bytes(8)
    BY <1>2
  <2>2. QED
    BY <2>1, UpperHalf
<1>4. QED
  BY <1>2, <1>3 DEF Sha256K

\* The initial values are states.
LEMMA InitialValues ==
  ASSUME NEW h \in DOMAIN Hashes
  PROVE  Hashes[h].IV \in Registers(Hashes[h].STATE_WORDS, Hashes[h].WORD_BYTES)
<1>1. MD4.IV \in Registers(4, 4) /\ MD4.STATE_WORDS = 4 /\ MD4.WORD_BYTES = 4
  <2> DEFINE x == <<\h6745, \h2301, \hefcd, \hab89, \h98ba, \hdcfe, \h1032, \h5476>>
  <2>1. x \in Seq(Half) /\ 4 \in Width /\ (2 * Len(x)) \div 4 = 4
    BY DEF Half, Width
  <2>2. MD4.IV = Constants(x, 4) /\ MD4.STATE_WORDS = 4 /\ MD4.WORD_BYTES = 4
    BY DEF MD4
  <2> HIDE DEF x
  <2>3. QED
    BY <2>1, <2>2, ConstantsAre DEF Registers
<1>2. MD5.IV \in Registers(4, 4) /\ MD5.STATE_WORDS = 4 /\ MD5.WORD_BYTES = 4
  <2> DEFINE x == <<\h6745, \h2301, \hefcd, \hab89, \h98ba, \hdcfe, \h1032, \h5476>>
  <2>1. x \in Seq(Half) /\ 4 \in Width /\ (2 * Len(x)) \div 4 = 4
    BY DEF Half, Width
  <2>2. MD5.IV = Constants(x, 4) /\ MD5.STATE_WORDS = 4 /\ MD5.WORD_BYTES = 4
    BY DEF MD5
  <2> HIDE DEF x
  <2>3. QED
    BY <2>1, <2>2, ConstantsAre DEF Registers
<1>3. SHA1.IV \in Registers(5, 4) /\ SHA1.STATE_WORDS = 5 /\ SHA1.WORD_BYTES = 4
  <2> DEFINE x == <<\h6745, \h2301, \hefcd, \hab89, \h98ba, \hdcfe, \h1032, \h5476, \hc3d2, \he1f0>>
  <2>1. x \in Seq(Half) /\ 4 \in Width /\ (2 * Len(x)) \div 4 = 5
    BY DEF Half, Width
  <2>2. SHA1.IV = Constants(x, 4) /\ SHA1.STATE_WORDS = 5 /\ SHA1.WORD_BYTES = 4
    BY DEF SHA1
  <2> HIDE DEF x
  <2>3. QED
    BY <2>1, <2>2, ConstantsAre DEF Registers
<1>4. RIPEMD160.IV \in Registers(5, 4) /\ RIPEMD160.STATE_WORDS = 5 /\ RIPEMD160.WORD_BYTES = 4
  <2> DEFINE x == <<\h6745, \h2301, \hefcd, \hab89, \h98ba, \hdcfe, \h1032, \h5476, \hc3d2, \he1f0>>
  <2>1. x \in Seq(Half) /\ 4 \in Width /\ (2 * Len(x)) \div 4 = 5
    BY DEF Half, Width
  <2>2. RIPEMD160.IV = Constants(x, 4) /\ RIPEMD160.STATE_WORDS = 5 /\ RIPEMD160.WORD_BYTES = 4
    BY DEF RIPEMD160
  <2> HIDE DEF x
  <2>3. QED
    BY <2>1, <2>2, ConstantsAre DEF Registers
<1>5. SHA2_224.IV \in Registers(8, 4) /\ SHA2_224.STATE_WORDS = 8 /\ SHA2_224.WORD_BYTES = 4
  <2> DEFINE x == <<\hc105, \h9ed8, \h367c, \hd507, \h3070, \hdd17, \hf70e, \h5939, \hffc0, \h0b31, \h6858, \h1511, \h64f9, \h8fa7, \hbefa, \h4fa4>>
  <2>1. x \in Seq(Half) /\ 4 \in Width /\ (2 * Len(x)) \div 4 = 8
    BY DEF Half, Width
  <2>2. SHA2_224.IV = Constants(x, 4) /\ SHA2_224.STATE_WORDS = 8 /\ SHA2_224.WORD_BYTES = 4
    BY DEF SHA2_224
  <2> HIDE DEF x
  <2>3. QED
    BY <2>1, <2>2, ConstantsAre DEF Registers
<1>6. SHA2_256.IV \in Registers(8, 4) /\ SHA2_256.STATE_WORDS = 8 /\ SHA2_256.WORD_BYTES = 4
  <2> DEFINE x == <<\h6a09, \he667, \hbb67, \hae85, \h3c6e, \hf372, \ha54f, \hf53a, \h510e, \h527f, \h9b05, \h688c, \h1f83, \hd9ab, \h5be0, \hcd19>>
  <2>1. x \in Seq(Half) /\ 4 \in Width /\ (2 * Len(x)) \div 4 = 8
    BY DEF Half, Width
  <2>2. SHA2_256.IV = Constants(x, 4) /\ SHA2_256.STATE_WORDS = 8 /\ SHA2_256.WORD_BYTES = 4
    BY DEF SHA2_256
  <2> HIDE DEF x
  <2>3. QED
    BY <2>1, <2>2, ConstantsAre DEF Registers
<1>7. SHA2_384.IV \in Registers(8, 8) /\ SHA2_384.STATE_WORDS = 8 /\ SHA2_384.WORD_BYTES = 8
  <2> DEFINE x == <<\hcbbb, \h9d5d, \hc105, \h9ed8, \h629a, \h292a, \h367c, \hd507, \h9159, \h015a, \h3070, \hdd17, \h152f, \hecd8, \hf70e, \h5939, \h6733, \h2667, \hffc0, \h0b31, \h8eb4, \h4a87, \h6858, \h1511, \hdb0c, \h2e0d, \h64f9, \h8fa7, \h47b5, \h481d, \hbefa, \h4fa4>>
  <2>1. x \in Seq(Half) /\ 8 \in Width /\ (2 * Len(x)) \div 8 = 8
    BY DEF Half, Width
  <2>2. SHA2_384.IV = Constants(x, 8) /\ SHA2_384.STATE_WORDS = 8 /\ SHA2_384.WORD_BYTES = 8
    BY DEF SHA2_384
  <2> HIDE DEF x
  <2>3. QED
    BY <2>1, <2>2, ConstantsAre DEF Registers
<1>8. SHA2_512.IV \in Registers(8, 8) /\ SHA2_512.STATE_WORDS = 8 /\ SHA2_512.WORD_BYTES = 8
  <2> DEFINE x == <<\h6a09, \he667, \hf3bc, \hc908, \hbb67, \hae85, \h84ca, \ha73b, \h3c6e, \hf372, \hfe94, \hf82b, \ha54f, \hf53a, \h5f1d, \h36f1, \h510e, \h527f, \hade6, \h82d1, \h9b05, \h688c, \h2b3e, \h6c1f, \h1f83, \hd9ab, \hfb41, \hbd6b, \h5be0, \hcd19, \h137e, \h2179>>
  <2>1. x \in Seq(Half) /\ 8 \in Width /\ (2 * Len(x)) \div 8 = 8
    BY DEF Half, Width
  <2>2. SHA2_512.IV = Constants(x, 8) /\ SHA2_512.STATE_WORDS = 8 /\ SHA2_512.WORD_BYTES = 8
    BY DEF SHA2_512
  <2> HIDE DEF x
  <2>3. QED
    BY <2>1, <2>2, ConstantsAre DEF Registers
<1>9. QED
  BY <1>1, <1>2, <1>3, <1>4, <1>5, <1>6, <1>7, <1>8 DEF Hashes

-----------------------------------------------------------------------------
\* Registers that change roles, and MD4.

\* The registers as a kernel holds them before round r, those of the standard being u.
Turned(m, r, u) == [i \in 1..m |-> u[((i - 1 + r) % m) + 1]]

LEMMA TurnedIs ==
  ASSUME NEW m \in {4, 5, 8}, NEW n, NEW r \in Nat, NEW u \in Registers(m, n)
  PROVE  /\ Turned(m, r, u) \in Registers(m, n)
         /\ \A k \in 0..(m - 1) : Turned(m, r, u)[Role(m, r, k)] = u[k + 1]
         /\ r % m = 0 => Turned(m, r, u) = u
<1>1. ASSUME NEW i \in 1..m PROVE ((i - 1 + r) % m) + 1 \in 1..m
  OBVIOUS
<1>2. ASSUME NEW k \in 0..(m - 1)
      PROVE  Role(m, r, k) \in 1..m /\ ((Role(m, r, k) - 1 + r) % m) + 1 = k + 1
  <2>1. CASE m = 4
    BY <2>1 DEF Role
  <2>2. CASE m = 5
    BY <2>2 DEF Role
  <2>3. CASE m = 8
    BY <2>3 DEF Role
  <2>4. QED
    BY <2>1, <2>2, <2>3
<1>3. ASSUME NEW i \in 1..m, r % m = 0 PROVE ((i - 1 + r) % m) + 1 = i
  <2>1. CASE m = 4
    BY <1>3, <2>1
  <2>2. CASE m = 5
    BY <1>3, <2>2
  <2>3. CASE m = 8
    BY <1>3, <2>3
  <2>4. QED
    BY <2>1, <2>2, <2>3
<1>4. Turned(m, r, u) \in Registers(m, n)
  BY <1>1 DEF Turned, Registers
<1>5. \A k \in 0..(m - 1) : Turned(m, r, u)[Role(m, r, k)] = u[k + 1]
  BY <1>2 DEF Turned
<1>6. r % m = 0 => Turned(m, r, u) = u
  BY <1>3 DEF Turned, Registers
<1>7. QED
  BY <1>4, <1>5, <1>6

LEMMA TurnedFour ==
  ASSUME NEW n, NEW r \in Nat, NEW u \in Registers(4, n)
  PROVE  /\ Turned(4, r, u) \in Registers(4, n)
         /\ Turned(4, r, u)[Role(4, r, 0)] = u[1]
         /\ Turned(4, r, u)[Role(4, r, 1)] = u[2]
         /\ Turned(4, r, u)[Role(4, r, 2)] = u[3]
         /\ Turned(4, r, u)[Role(4, r, 3)] = u[4]
<1>1. \A k \in 0..(4 - 1) : Turned(4, r, u)[Role(4, r, k)] = u[k + 1]
  BY TurnedIs
<1>2. QED
  BY <1>1, TurnedIs

LEMMA TurnedFive ==
  ASSUME NEW n, NEW r \in Nat, NEW u \in Registers(5, n)
  PROVE  /\ Turned(5, r, u) \in Registers(5, n)
         /\ Turned(5, r, u)[Role(5, r, 0)] = u[1]
         /\ Turned(5, r, u)[Role(5, r, 1)] = u[2]
         /\ Turned(5, r, u)[Role(5, r, 2)] = u[3]
         /\ Turned(5, r, u)[Role(5, r, 3)] = u[4]
         /\ Turned(5, r, u)[Role(5, r, 4)] = u[5]
<1>1. \A k \in 0..(5 - 1) : Turned(5, r, u)[Role(5, r, k)] = u[k + 1]
  BY TurnedIs
<1>2. QED
  BY <1>1, TurnedIs

LEMMA TurnedEight ==
  ASSUME NEW n, NEW r \in Nat, NEW u \in Registers(8, n)
  PROVE  /\ Turned(8, r, u) \in Registers(8, n)
         /\ Turned(8, r, u)[Role(8, r, 0)] = u[1]
         /\ Turned(8, r, u)[Role(8, r, 1)] = u[2]
         /\ Turned(8, r, u)[Role(8, r, 2)] = u[3]
         /\ Turned(8, r, u)[Role(8, r, 3)] = u[4]
         /\ Turned(8, r, u)[Role(8, r, 4)] = u[5]
         /\ Turned(8, r, u)[Role(8, r, 5)] = u[6]
         /\ Turned(8, r, u)[Role(8, r, 6)] = u[7]
         /\ Turned(8, r, u)[Role(8, r, 7)] = u[8]
<1>1. \A k \in 0..(8 - 1) : Turned(8, r, u)[Role(8, r, k)] = u[k + 1]
  BY TurnedIs
<1>2. QED
  BY <1>1, TurnedIs

\* After so many rounds every register is back in its place.
LEMMA TurnedBack ==
  ASSUME NEW n, NEW m \in {4, 5, 8}, NEW r \in {0, 48, 64, 80}, NEW u \in Registers(m, n),
         r = 48 => m = 4, r = 64 => m \in {4, 8}
  PROVE  Turned(m, r, u) = u
<1>1. r \in Nat /\ r % m = 0
  <2>1. CASE m = 4
    BY <2>1
  <2>2. CASE m = 5
    BY <2>2
  <2>3. CASE m = 8
    BY <2>3
  <2>4. QED
    BY <2>1, <2>2, <2>3
<1>2. QED
  BY <1>1, TurnedIs

\* Registers are what their roles are.
LEMMA SameRoles ==
  ASSUME NEW m \in {4, 5, 8}, NEW n, NEW r \in Nat,
         NEW v \in Registers(m, n), NEW u \in Registers(m, n),
         \A k \in 0..(m - 1) : v[Role(m, r, k)] = u[Role(m, r, k)]
  PROVE  v = u
<1>1. ASSUME NEW i \in 1..m PROVE v[i] = u[i]
  <2> DEFINE k == (i - 1 + r) % m
  <2>1. k \in 0..(m - 1) /\ Role(m, r, k) = i
    <3>1. CASE m = 4
      BY <3>1 DEF Role
    <3>2. CASE m = 5
      BY <3>2 DEF Role
    <3>3. CASE m = 8
      BY <3>3 DEF Role
    <3>4. QED
      BY <3>1, <3>2, <3>3
  <2>2. QED
    BY <2>1
<1>2. QED
  BY <1>1 DEF Registers

\* The words there are, closed under the operators.
LEMMA WordRules ==
  ASSUME NEW n \in Width
  PROVE  /\ n \in Nat
         /\ \A x, y \in Bytes(n) : x & y \in Bytes(n)
         /\ \A x, y \in Bytes(n) : x | y \in Bytes(n)
         /\ \A x, y \in Bytes(n) : x (+) y \in Bytes(n)
         /\ \A x, y \in Bytes(n) : x ++ y \in Bytes(n)
         /\ \A x \in Bytes(n) : Not(x) \in Bytes(n)
         /\ \A x \in Bytes(n) : \A k \in 0..63 : RotR(x, k) \in Bytes(n) /\ ShiftR(x, k) \in Bytes(n)
         /\ \A x \in Bytes(n) : \A k \in 0..31 : RotL(x, k) \in Bytes(n)
<1>1. n \in Nat
  BY DEF Width
<1>2. ASSUME NEW x \in Bytes(n), NEW k \in 0..31 PROVE RotL(x, k) \in Bytes(n)
  <2>1. Len(x) = n
    BY <1>1, WordIs
  <2>2. 8 * n - k \in Nat
    BY DEF Width
  <2>3. QED
    BY <2>1, <2>2, Turns DEF RotL
<1>3. ASSUME NEW x \in Bytes(n), NEW y \in Bytes(n)
      PROVE  /\ x & y \in Bytes(n) /\ x | y \in Bytes(n) /\ x (+) y \in Bytes(n)
             /\ x ++ y \in Bytes(n) /\ Not(x) \in Bytes(n)
  BY <1>1, Operators, SumIs
<1>4. ASSUME NEW x \in Bytes(n), NEW k \in 0..63
      PROVE  RotR(x, k) \in Bytes(n) /\ ShiftR(x, k) \in Bytes(n)
  BY Turns
<1>5. QED
  BY <1>1, <1>2, <1>3, <1>4

LEMMA Md4Mixes ==
  ASSUME NEW r \in 0..47, NEW x \in Bytes(4), NEW y \in Bytes(4), NEW z \in Bytes(4)
  PROVE  /\ Md4Mix(r, x, y, z) = Md4F(r \div 16, x, y, z)
         /\ Md4Mix(r, x, y, z) \in Bytes(4)
<1>0. 4 \in Nat /\ 4 \in Width
  BY DEF Width
<1>1. CASE r < 16
  <2>1. Md4Mix(r, x, y, z) = ((y (+) z) & x) (+) z
    BY <1>1 DEF Md4Mix
  <2>2. Md4F(r \div 16, x, y, z) = (x & y) | (Not(x) & z)
    BY <1>1 DEF Md4F, If3
  <2>3. QED
    BY <1>0, <2>1, <2>2, Choice, WordRules
<1>2. CASE r \in 16..31
  <2>1. Md4Mix(r, x, y, z) = (x & y) | (x & z) | (y & z)
    BY <1>2 DEF Md4Mix
  <2>2. Md4F(r \div 16, x, y, z) = (x & y) (+) (x & z) (+) (y & z)
    BY <1>2 DEF Md4F, Most3
  <2>3. QED
    BY <1>0, <2>1, <2>2, Majority, WordRules
<1>3. CASE r >= 32
  <2>1. Md4Mix(r, x, y, z) = Parity3(x, y, z)
    BY <1>3 DEF Md4Mix
  <2>2. Md4F(r \div 16, x, y, z) = Parity3(x, y, z)
    BY <1>3 DEF Md4F
  <2>3. QED
    BY <1>0, <2>1, <2>2, WordRules DEF Parity3
<1>4. QED
  BY <1>1, <1>2, <1>3

LEMMA Md4Rounds ==
  ASSUME NEW w \in Registers(16, 4), NEW r \in 0..47, NEW u \in Registers(4, 4)
  PROVE  /\ Md4Step(u, w, r) \in Registers(4, 4)
         /\ Md4Round(Turned(4, r, u), w, r) = Turned(4, r + 1, Md4Step(u, w, r))
<1> DEFINE v == Turned(4, r, u)
           t == Turned(4, r + 1, Md4Step(u, w, r))
           word == w[Md4Words[r + 1] + 1]
           key == Phase(Md4K, r, 16)
           turn == Phase(Md4Shifts, r, 16)[(r % 4) + 1]
           new == RotL(u[1] ++ Md4F(r \div 16, u[2], u[3], u[4]) ++ word ++ key, turn)
<1>1. u[1] \in Bytes(4) /\ u[2] \in Bytes(4) /\ u[3] \in Bytes(4) /\ u[4] \in Bytes(4)
  BY DEF Registers
<1>2. word \in Bytes(4) /\ word = w[Md4Index(r \div 16, r % 16) + 1]
  BY Md4Indices DEF Registers
<1>3. key \in Bytes(4)
  BY Md4Constants DEF Phase
<1>4. turn \in 0..31
  BY Md4Amounts
<1>5. /\ v \in Registers(4, 4)
      /\ v[Role(4, r, 0)] = u[1] /\ v[Role(4, r, 1)] = u[2]
      /\ v[Role(4, r, 2)] = u[3] /\ v[Role(4, r, 3)] = u[4]
  <2>1. r \in Nat
    OBVIOUS
  <2>2. QED
    BY <2>1, TurnedFour
<1> HIDE DEF v
<1>6. Md4Mix(r, u[2], u[3], u[4]) = Md4F(r \div 16, u[2], u[3], u[4])
  BY <1>1, Md4Mixes
<1>7. Md4Round(v, w, r) = [v EXCEPT ![Role(4, r, 0)] = new]
  BY <1>5, <1>6 DEF Md4Round
<1>8. Md4Step(u, w, r) = <<u[4], new, u[2], u[3]>>
  BY <1>2 DEF Md4Step, Shift4
<1> HIDE DEF word, key, turn
<1>9. new \in Bytes(4)
  <2>1. 4 \in Width /\ Md4F(r \div 16, u[2], u[3], u[4]) \in Bytes(4)
    BY <1>1, <1>6, Md4Mixes DEF Width
  <2>2. QED
    BY <2>1, <1>1, <1>2, <1>3, <1>4, WordRules
<1> HIDE DEF new
<1>10. Md4Round(v, w, r) \in Registers(4, 4)
  BY <1>5, <1>7, <1>9 DEF Registers
<1>11. Md4Step(u, w, r) \in Registers(4, 4)
  BY <1>1, <1>8, <1>9 DEF Registers
<1>12. /\ t \in Registers(4, 4)
       /\ t[Role(4, r + 1, 0)] = u[4] /\ t[Role(4, r + 1, 1)] = new
       /\ t[Role(4, r + 1, 2)] = u[2] /\ t[Role(4, r + 1, 3)] = u[3]
  <2>1. r + 1 \in Nat
    OBVIOUS
  <2>2. /\ t \in Registers(4, 4)
        /\ t[Role(4, r + 1, 0)] = Md4Step(u, w, r)[1] /\ t[Role(4, r + 1, 1)] = Md4Step(u, w, r)[2]
        /\ t[Role(4, r + 1, 2)] = Md4Step(u, w, r)[3] /\ t[Role(4, r + 1, 3)] = Md4Step(u, w, r)[4]
    BY <1>11, <2>1, TurnedFour
  <2> HIDE DEF t
  <2>3. QED
    BY <1>8, <2>2
<1> HIDE DEF t
<1>13. \A k \in 0..3 : Md4Round(v, w, r)[Role(4, r + 1, k)] = t[Role(4, r + 1, k)]
  <2>1. DOMAIN v = 1..4
    BY <1>5 DEF Registers
  <2>2. /\ Role(4, r + 1, 0) = Role(4, r, 3) /\ Role(4, r + 1, 1) = Role(4, r, 0)
        /\ Role(4, r + 1, 2) = Role(4, r, 1) /\ Role(4, r + 1, 3) = Role(4, r, 2)
    BY Roles
  <2>3. /\ Role(4, r, 1) # Role(4, r, 0) /\ Role(4, r, 2) # Role(4, r, 0)
        /\ Role(4, r, 3) # Role(4, r, 0)
    BY Roles
  <2>4. \A k \in 0..3 : Role(4, r, k) \in DOMAIN v
    BY <2>1, Roles
  <2>5. ASSUME NEW k \in 0..3 PROVE Md4Round(v, w, r)[Role(4, r + 1, k)] = t[Role(4, r + 1, k)]
    <3>1. k = 0 \/ k = 1 \/ k = 2 \/ k = 3
      OBVIOUS
    <3>2. QED
      BY <1>5, <1>7, <1>12, <2>2, <2>3, <2>4, <3>1
  <2>6. QED
    BY <2>5
<1>14. Md4Round(v, w, r) = t
  BY <1>10, <1>12, <1>13, SameRoles
<1>15. QED
  BY <1>11, <1>14 DEF v, t

LEMMA PlusIs ==
  ASSUME NEW m \in Nat, NEW n \in Width, NEW d \in Registers(m, n), NEW v \in Registers(m, n)
  PROVE  Plus(d, v) = [i \in 1..m |-> d[i] ++ v[i]] /\ Plus(d, v) \in Registers(m, n)
BY WordRules DEF Plus, Registers

LEMMA Md4CompressIs ==
  ASSUME NEW d \in Registers(4, 4), NEW w \in Registers(16, 4)
  PROVE  /\ Md4Compress(d, w) = Md4Standard(d, w)
         /\ Md4Compress(d, w) \in Registers(4, 4)
<1> DEFINE S == Registers(4, 4)
           F == [r \in 0..47 |-> [u \in S |-> Md4Step(u, w, r)]]
<1>1. F \in [0..(48 - 1) -> [S -> S]]
  <2>1. F \in [0..47 -> [S -> S]]
    BY Md4Rounds
  <2> HIDE DEF F, S
  <2>2. QED
    BY <2>1
<1>2. \A r \in 0..47, u \in S : F[r][u] = Md4Step(u, w, r)
  OBVIOUS
<1> HIDE DEF F, S
<1>3. PICK b : Trace(S, F, 48, d, b)
  <2>1. 48 \in Nat /\ d \in S
    BY DEF S
  <2>2. QED
    BY <1>1, <2>1, TraceThere
<1>4. b[0] = d /\ \A r \in 0..48 : b[r] \in S
  BY <1>3 DEF Trace
<1>5. Md4StepGoes(w, b)
  <2>1. ASSUME NEW r \in 0..(48 - 1) PROVE b[r + 1] = Md4Step(b[r], w, r)
    <3>1. b[r + 1] = F[r][b[r]]
      BY <1>3 DEF Trace
    <3>2. r \in 0..47 /\ b[r] \in S
      BY <1>4
    <3>3. QED
      BY <1>2, <3>1, <3>2
  <2>2. QED
    BY <2>1 DEF Md4StepGoes
<1> DEFINE a == [r \in 0..48 |-> Turned(4, r, b[r])]
<1>6. Md4Goes(w, a)
  <2>1. ASSUME NEW r \in 0..47 PROVE a[r + 1] = Md4Round(a[r], w, r)
    <3>1. r \in 0..48 /\ r + 1 \in 0..48 /\ b[r] \in S /\ b[r + 1] = Md4Step(b[r], w, r)
      BY <1>4, <1>5 DEF Md4StepGoes
    <3>2. QED
      BY <3>1, Md4Rounds DEF S
  <2>2. QED
    BY <2>1 DEF Md4Goes
<1>7. a[0] = d /\ a[48] = b[48]
  <2>1. a[0] = Turned(4, 0, d) /\ a[48] = Turned(4, 48, b[48])
    BY <1>4
  <2>2. d \in Registers(4, 4) /\ b[48] \in Registers(4, 4)
    BY <1>4 DEF S
  <2>3. Turned(4, 0, d) = d /\ Turned(4, 48, b[48]) = b[48]
    BY <2>2, TurnedBack
  <2> HIDE DEF a
  <2>4. QED
    BY <2>1, <2>3
<1> HIDE DEF a
<1>8. Md4Run(w, d) = b[48] /\ Md4StepRun(w, d) = b[48]
  BY <1>4, <1>5, <1>6, <1>7, Md4Trace, Md4StepTrace
<1>9. Md4Compress(d, w) = Plus(d, Md4Run(w, d)) /\ Md4Standard(d, w) = Plus(d, Md4StepRun(w, d))
  BY Zenon DEF Md4Compress, Md4Run, Md4Standard, Md4StepRun
<1>10. b[48] \in Registers(4, 4)
  BY <1>4 DEF S
<1>11. QED
  BY <1>8, <1>9, <1>10, PlusIs DEF Width

-----------------------------------------------------------------------------
\* MD5.

LEMMA Md5Indices ==
  \A r \in 0..63 : Md5Word(r) = Md5Index(r) + 1 /\ Md5Word(r) \in 1..16
BY DEF Md5Word, Md5Index, Phase

LEMMA Md5Amounts ==
  \A r \in 0..63 : Phase(Md5Shifts, r, 16)[(r % 4) + 1] \in 0..31
BY DEF Md5Shifts, Phase

LEMMA Md5Mixes ==
  ASSUME NEW r \in 0..63, NEW x \in Bytes(4), NEW y \in Bytes(4), NEW z \in Bytes(4)
  PROVE  /\ Md5Mix(r, x, y, z) = Md5F(r \div 16, x, y, z)
         /\ Md5Mix(r, x, y, z) \in Bytes(4)
<1>0. 4 \in Nat /\ 4 \in Width
  BY DEF Width
<1>1. CASE r < 16
  <2>1. Md5Mix(r, x, y, z) = z (+) (x & (y (+) z))
    BY <1>1 DEF Md5Mix, Choose3
  <2>2. Md5F(r \div 16, x, y, z) = (x & y) | (Not(x) & z)
    BY <1>1 DEF Md5F, If3
  <2>3. QED
    BY <1>0, <2>1, <2>2, Choice, WordRules
<1>2. CASE r \in 16..31
  <2>1. Md5Mix(r, x, y, z) = (z & x) | (Not(z) & y)
    BY <1>2 DEF Md5Mix
  <2>2. Md5F(r \div 16, x, y, z) = (z & x) | (Not(z) & y)
    BY <1>2 DEF Md5F, If3
  <2>3. QED
    BY <1>0, <2>1, <2>2, WordRules
<1>3. CASE r \in 32..47
  <2>1. Md5Mix(r, x, y, z) = Parity3(x, y, z)
    BY <1>3 DEF Md5Mix
  <2>2. Md5F(r \div 16, x, y, z) = Parity3(x, y, z)
    BY <1>3 DEF Md5F
  <2>3. QED
    BY <1>0, <2>1, <2>2, WordRules DEF Parity3
<1>4. CASE r >= 48
  <2>1. Md5Mix(r, x, y, z) = y (+) (x | Not(z))
    BY <1>4 DEF Md5Mix
  <2>2. Md5F(r \div 16, x, y, z) = y (+) (x | Not(z))
    BY <1>4 DEF Md5F
  <2>3. QED
    BY <1>0, <2>1, <2>2, WordRules
<1>5. QED
  BY <1>1, <1>2, <1>3, <1>4

LEMMA Md5Rounds ==
  ASSUME NEW w \in Registers(16, 4), NEW r \in 0..63, NEW u \in Registers(4, 4)
  PROVE  /\ Md5Step(u, w, r) \in Registers(4, 4)
         /\ Md5Round(Turned(4, r, u), w, r) = Turned(4, r + 1, Md5Step(u, w, r))
<1> DEFINE v == Turned(4, r, u)
           t == Turned(4, r + 1, Md5Step(u, w, r))
           word == w[Md5Word(r)]
           key == Md5K[r + 1]
           turn == Phase(Md5Shifts, r, 16)[(r % 4) + 1]
           sum == u[1] ++ Md5F(r \div 16, u[2], u[3], u[4]) ++ word ++ key
           new == RotL(sum, turn) ++ u[2]
<1>1. u[1] \in Bytes(4) /\ u[2] \in Bytes(4) /\ u[3] \in Bytes(4) /\ u[4] \in Bytes(4)
  BY DEF Registers
<1>2. word \in Bytes(4) /\ word = w[Md5Index(r) + 1]
  BY Md5Indices DEF Registers
<1>3. key \in Bytes(4)
  BY Md5Constants
<1>4. turn \in 0..31
  BY Md5Amounts
<1>5. /\ v \in Registers(4, 4)
      /\ v[Role(4, r, 0)] = u[1] /\ v[Role(4, r, 1)] = u[2]
      /\ v[Role(4, r, 2)] = u[3] /\ v[Role(4, r, 3)] = u[4]
  <2>1. r \in Nat
    OBVIOUS
  <2>2. QED
    BY <2>1, TurnedFour
<1> HIDE DEF v
<1>6. Md5Mix(r, u[2], u[3], u[4]) = Md5F(r \div 16, u[2], u[3], u[4])
  BY <1>1, Md5Mixes
<1>7. Md5Round(v, w, r) = [v EXCEPT ![Role(4, r, 0)] = new]
  BY <1>5, <1>6 DEF Md5Round
<1>8. Md5Step(u, w, r) = <<u[4], u[2] ++ RotL(sum, turn), u[2], u[3]>>
  BY <1>2 DEF Md5Step, Shift4
<1> HIDE DEF word, key, turn
<1>9. new \in Bytes(4) /\ new = u[2] ++ RotL(sum, turn)
  <2>1. 4 \in Width /\ 4 \in Nat /\ Md5F(r \div 16, u[2], u[3], u[4]) \in Bytes(4)
    BY <1>1, <1>6, Md5Mixes DEF Width
  <2>2. sum \in Bytes(4)
    BY <2>1, <1>1, <1>2, <1>3, WordRules
  <2> HIDE DEF sum
  <2>3. RotL(sum, turn) \in Bytes(4)
    BY <2>1, <2>2, <1>4, WordRules
  <2>4. QED
    BY <2>1, <2>3, <1>1, WordRules, SumTurns
<1> HIDE DEF new, sum
<1>10. Md5Round(v, w, r) \in Registers(4, 4)
  BY <1>5, <1>7, <1>9 DEF Registers
<1>11. Md5Step(u, w, r) \in Registers(4, 4)
  BY <1>1, <1>8, <1>9 DEF Registers
<1>12. /\ t \in Registers(4, 4)
       /\ t[Role(4, r + 1, 0)] = u[4] /\ t[Role(4, r + 1, 1)] = new
       /\ t[Role(4, r + 1, 2)] = u[2] /\ t[Role(4, r + 1, 3)] = u[3]
  <2>1. r + 1 \in Nat
    OBVIOUS
  <2>2. /\ t \in Registers(4, 4)
        /\ t[Role(4, r + 1, 0)] = Md5Step(u, w, r)[1] /\ t[Role(4, r + 1, 1)] = Md5Step(u, w, r)[2]
        /\ t[Role(4, r + 1, 2)] = Md5Step(u, w, r)[3] /\ t[Role(4, r + 1, 3)] = Md5Step(u, w, r)[4]
    BY <1>11, <2>1, TurnedFour
  <2> HIDE DEF t
  <2>3. QED
    BY <1>8, <1>9, <2>2
<1> HIDE DEF t
<1>13. \A k \in 0..3 : Md5Round(v, w, r)[Role(4, r + 1, k)] = t[Role(4, r + 1, k)]
  <2>1. DOMAIN v = 1..4
    BY <1>5 DEF Registers
  <2>2. /\ Role(4, r + 1, 0) = Role(4, r, 3) /\ Role(4, r + 1, 1) = Role(4, r, 0)
        /\ Role(4, r + 1, 2) = Role(4, r, 1) /\ Role(4, r + 1, 3) = Role(4, r, 2)
    BY Roles
  <2>3. /\ Role(4, r, 1) # Role(4, r, 0) /\ Role(4, r, 2) # Role(4, r, 0)
        /\ Role(4, r, 3) # Role(4, r, 0)
    BY Roles
  <2>4. \A k \in 0..3 : Role(4, r, k) \in DOMAIN v
    BY <2>1, Roles
  <2>5. ASSUME NEW k \in 0..3 PROVE Md5Round(v, w, r)[Role(4, r + 1, k)] = t[Role(4, r + 1, k)]
    <3>1. k = 0 \/ k = 1 \/ k = 2 \/ k = 3
      OBVIOUS
    <3>2. QED
      BY <1>5, <1>7, <1>12, <2>2, <2>3, <2>4, <3>1
  <2>6. QED
    BY <2>5
<1>14. Md5Round(v, w, r) = t
  BY <1>10, <1>12, <1>13, SameRoles
<1>15. QED
  BY <1>11, <1>14 DEF v, t

LEMMA Md5CompressIs ==
  ASSUME NEW d \in Registers(4, 4), NEW w \in Registers(16, 4)
  PROVE  /\ Md5Compress(d, w) = Md5Standard(d, w)
         /\ Md5Compress(d, w) \in Registers(4, 4)
<1> DEFINE S == Registers(4, 4)
           F == [r \in 0..63 |-> [u \in S |-> Md5Step(u, w, r)]]
<1>1. F \in [0..(64 - 1) -> [S -> S]]
  <2>1. F \in [0..63 -> [S -> S]]
    BY Md5Rounds
  <2> HIDE DEF F, S
  <2>2. QED
    BY <2>1
<1>2. \A r \in 0..63, u \in S : F[r][u] = Md5Step(u, w, r)
  OBVIOUS
<1> HIDE DEF F, S
<1>3. PICK b : Trace(S, F, 64, d, b)
  <2>1. 64 \in Nat /\ d \in S
    BY DEF S
  <2>2. QED
    BY <1>1, <2>1, TraceThere
<1>4. b[0] = d /\ \A r \in 0..64 : b[r] \in S
  BY <1>3 DEF Trace
<1>5. Md5StepGoes(w, b)
  <2>1. ASSUME NEW r \in 0..(64 - 1) PROVE b[r + 1] = Md5Step(b[r], w, r)
    <3>1. b[r + 1] = F[r][b[r]]
      BY <1>3 DEF Trace
    <3>2. r \in 0..63 /\ b[r] \in S
      BY <1>4
    <3>3. QED
      BY <1>2, <3>1, <3>2
  <2>2. QED
    BY <2>1 DEF Md5StepGoes
<1> DEFINE a == [r \in 0..64 |-> Turned(4, r, b[r])]
<1>6. Md5Goes(w, a)
  <2>1. ASSUME NEW r \in 0..63 PROVE a[r + 1] = Md5Round(a[r], w, r)
    <3>1. r \in 0..64 /\ r + 1 \in 0..64 /\ b[r] \in S /\ b[r + 1] = Md5Step(b[r], w, r)
      BY <1>4, <1>5 DEF Md5StepGoes
    <3>2. QED
      BY <3>1, Md5Rounds DEF S
  <2>2. QED
    BY <2>1 DEF Md5Goes
<1>7. a[0] = d /\ a[64] = b[64]
  <2>1. a[0] = Turned(4, 0, d) /\ a[64] = Turned(4, 64, b[64])
    BY <1>4
  <2>2. d \in Registers(4, 4) /\ b[64] \in Registers(4, 4)
    BY <1>4 DEF S
  <2>3. Turned(4, 0, d) = d /\ Turned(4, 64, b[64]) = b[64]
    BY <2>2, TurnedBack
  <2> HIDE DEF a
  <2>4. QED
    BY <2>1, <2>3
<1> HIDE DEF a
<1>8. Md5Run(w, d) = b[64] /\ Md5StepRun(w, d) = b[64]
  BY <1>4, <1>5, <1>6, <1>7, Md5Trace, Md5StepTrace
<1>9. Md5Compress(d, w) = Plus(d, Md5Run(w, d)) /\ Md5Standard(d, w) = Plus(d, Md5StepRun(w, d))
  BY Zenon DEF Md5Compress, Md5Run, Md5Standard, Md5StepRun
<1>10. b[64] \in Registers(4, 4)
  BY <1>4 DEF S
<1>11. QED
  BY <1>8, <1>9, <1>10, PlusIs DEF Width

-----------------------------------------------------------------------------
\* RIPEMD-160.

LEMMA RmdIndices ==
  ASSUME NEW line \in {"left", "right"}, NEW r \in 0..79
  PROVE  /\ RmdWords[line][r + 1] = RmdIndex(line, (r \div 16) + 1, r % 16)
         /\ RmdWords[line][r + 1] \in 0..15
<1>1. CASE line = "left"
  BY <1>1 DEF RmdWords, RmdIndex, RmdRho
<1>2. CASE line = "right"
  <2>1. ASSUME NEW m \in 0..4, r \div 16 = m
        PROVE  RmdWords.right[r + 1] = RmdIndex("right", m + 1, r % 16) /\ RmdWords.right[r + 1] \in 0..15
    <3>1. CASE m = 0
      BY <2>1, <3>1 DEF RmdWords, RmdIndex, RmdPi
    <3>2. CASE m = 1
      BY <2>1, <3>2 DEF RmdWords, RmdIndex, RmdRho, RmdPi
    <3>3. CASE m = 2
      BY <2>1, <3>3 DEF RmdWords, RmdIndex, RmdRho, RmdPi
    <3>4. CASE m = 3
      BY <2>1, <3>4 DEF RmdWords, RmdIndex, RmdRho, RmdPi
    <3>5. CASE m = 4
      BY <2>1, <3>5 DEF RmdWords, RmdIndex, RmdRho, RmdPi
    <3>6. QED
      BY <3>1, <3>2, <3>3, <3>4, <3>5
  <2>2. r \div 16 \in 0..4
    OBVIOUS
  <2>3. QED
    BY <1>2, <2>1, <2>2
<1>3. QED
  BY <1>1, <1>2

LEMMA RmdAmounts ==
  ASSUME NEW line \in {"left", "right"}, NEW r \in 0..79
  PROVE  /\ RmdShifts[line][r + 1] = RmdRotate[(r \div 16) + 1][RmdWords[line][r + 1] + 1]
         /\ RmdShifts[line][r + 1] \in 0..31
<1>1. CASE line = "left"
  BY <1>1 DEF RmdWords, RmdShifts, RmdRotate
<1>2. CASE line = "right"
  BY <1>2 DEF RmdWords, RmdShifts, RmdRotate
<1>3. QED
  BY <1>1, <1>2

LEMMA RmdMixes ==
  ASSUME NEW n \in 1..5, NEW x \in Bytes(4), NEW y \in Bytes(4), NEW z \in Bytes(4)
  PROVE  RmdMix(n, x, y, z) = RmdF(n, x, y, z) /\ RmdMix(n, x, y, z) \in Bytes(4)
<1>0. 4 \in Nat /\ 4 \in Width /\ Not(z) \in Bytes(4) /\ (y | Not(z)) \in Bytes(4)
  <2>1. 4 \in Width
    BY DEF Width
  <2>2. QED
    BY <2>1, WordRules
<1>1. CASE n = 1
  <2>1. RmdMix(n, x, y, z) = Parity3(x, y, z) /\ RmdF(n, x, y, z) = Parity3(x, y, z)
    BY <1>1 DEF RmdMix, RmdF
  <2>2. QED
    BY <1>0, <2>1, WordRules DEF Parity3
<1>2. CASE n = 2
  <2>1. /\ RmdMix(n, x, y, z) = ((y (+) z) & x) (+) z
        /\ RmdF(n, x, y, z) = (x & y) | (Not(x) & z)
    BY <1>2 DEF RmdMix, RmdF, If3
  <2>2. QED
    BY <1>0, <2>1, Choice, WordRules
<1>3. CASE n = 3
  <2>1. /\ RmdMix(n, x, y, z) = (x | Not(y)) (+) z /\ RmdF(n, x, y, z) = (x | Not(y)) (+) z
    BY <1>3 DEF RmdMix, RmdF
  <2>2. QED
    BY <1>0, <2>1, WordRules
<1>4. CASE n = 4
  <2>1. /\ RmdMix(n, x, y, z) = ((x (+) y) & z) (+) y
        /\ RmdF(n, x, y, z) = (z & x) | (Not(z) & y)
    BY <1>4 DEF RmdMix, RmdF, If3
  <2>2. QED
    BY <1>0, <2>1, Choice, WordRules
<1>5. CASE n = 5
  <2>1. /\ RmdMix(n, x, y, z) = (y | Not(z)) (+) x /\ RmdF(n, x, y, z) = x (+) (y | Not(z))
    BY <1>5 DEF RmdMix, RmdF
  <2>2. QED
    BY <1>0, <2>1, Exchange, WordRules
<1>6. QED
  BY <1>1, <1>2, <1>3, <1>4, <1>5

LEMMA RmdRounds ==
  ASSUME NEW line \in {"left", "right"}, NEW w \in Registers(16, 4),
         NEW r \in 0..79, NEW u \in Registers(5, 4)
  PROVE  /\ RmdStep(line, u, w, r) \in Registers(5, 4)
         /\ RmdRound(line, Turned(5, r, u), w, r) = Turned(5, r + 1, RmdStep(line, u, w, r))
<1> DEFINE v == Turned(5, r, u)
           t == Turned(5, r + 1, RmdStep(line, u, w, r))
           n == (r \div 16) + 1
           which == IF line = "left" THEN n ELSE 6 - n
           word == w[RmdWords[line][r + 1] + 1]
           key == RmdK[line][n]
           turn == RmdShifts[line][r + 1]
           new == RotL(u[1] ++ RmdF(which, u[2], u[3], u[4]) ++ word ++ key, turn) ++ u[5]
           mid == RotL(u[3], 10)
<1>1. /\ u[1] \in Bytes(4) /\ u[2] \in Bytes(4) /\ u[3] \in Bytes(4) /\ u[4] \in Bytes(4)
      /\ u[5] \in Bytes(4)
  BY DEF Registers
<1>2. word \in Bytes(4) /\ word = w[RmdIndex(line, n, r % 16) + 1]
  <2>1. RmdWords[line][r + 1] = RmdIndex(line, n, r % 16) /\ RmdWords[line][r + 1] \in 0..15
    BY RmdIndices
  <2> HIDE DEF n
  <2>2. QED
    BY <2>1 DEF Registers
<1>3. n \in 1..5 /\ which \in 1..5 /\ key \in Bytes(4)
  <2>1. n \in 1..5
    OBVIOUS
  <2> HIDE DEF n
  <2>2. QED
    BY <2>1, RmdConstants
<1>4. turn \in 0..31 /\ turn = RmdRotate[n][RmdIndex(line, n, r % 16) + 1]
  <2>1. RmdWords[line][r + 1] = RmdIndex(line, n, r % 16)
    BY RmdIndices
  <2>2. turn \in 0..31 /\ turn = RmdRotate[n][RmdWords[line][r + 1] + 1]
    BY RmdAmounts
  <2> HIDE DEF n, turn
  <2>3. QED
    BY <2>1, <2>2
<1>5. /\ v \in Registers(5, 4)
      /\ v[Role(5, r, 0)] = u[1] /\ v[Role(5, r, 1)] = u[2]
      /\ v[Role(5, r, 2)] = u[3] /\ v[Role(5, r, 3)] = u[4] /\ v[Role(5, r, 4)] = u[5]
  <2>1. r \in Nat
    OBVIOUS
  <2>2. QED
    BY <2>1, TurnedFive
<1> HIDE DEF v
<1>6. RmdMix(which, u[2], u[3], u[4]) = RmdF(which, u[2], u[3], u[4])
  <2> HIDE DEF which
  <2>1. QED
    BY <1>1, <1>3, RmdMixes
<1>7. RmdRound(line, v, w, r) = [v EXCEPT ![Role(5, r, 0)] = new, ![Role(5, r, 2)] = RotL(@, 10)]
  BY <1>5, <1>6 DEF RmdRound
<1>8. RmdStep(line, u, w, r) = <<u[5], new, u[2], mid, u[4]>>
  BY <1>2, <1>4 DEF RmdStep
<1>9. new \in Bytes(4) /\ mid \in Bytes(4)
  <2> HIDE DEF word, key, turn, which
  <2>1. 4 \in Width /\ RmdF(which, u[2], u[3], u[4]) \in Bytes(4) /\ 10 \in 0..31
    BY <1>1, <1>3, <1>6, RmdMixes DEF Width
  <2>2. QED
    BY <2>1, <1>1, <1>2, <1>3, <1>4, WordRules
<1> HIDE DEF word, key, turn, which, n
<1>10. DOMAIN v = 1..5
  BY <1>5 DEF Registers
<1>11. /\ Role(5, r + 1, 0) = Role(5, r, 4) /\ Role(5, r + 1, 1) = Role(5, r, 0)
       /\ Role(5, r + 1, 2) = Role(5, r, 1) /\ Role(5, r + 1, 3) = Role(5, r, 2)
       /\ Role(5, r + 1, 4) = Role(5, r, 3)
  BY Roles
<1>12. /\ Role(5, r, 1) # Role(5, r, 0) /\ Role(5, r, 2) # Role(5, r, 0)
       /\ Role(5, r, 3) # Role(5, r, 0) /\ Role(5, r, 4) # Role(5, r, 0)
       /\ Role(5, r, 1) # Role(5, r, 2) /\ Role(5, r, 3) # Role(5, r, 2)
       /\ Role(5, r, 4) # Role(5, r, 2)
  BY Roles
<1>13. \A k \in 0..4 : Role(5, r, k) \in DOMAIN v
  BY <1>10, Roles
<1> HIDE DEF new
<1>14. RmdRound(line, v, w, r) = [v EXCEPT ![Role(5, r, 0)] = new, ![Role(5, r, 2)] = mid]
  <2>1. Role(5, r, 2) \in DOMAIN v
    BY <1>13
  <2>2. QED
    BY <1>5, <1>7, <1>12, <2>1
<1> HIDE DEF mid
<1>15. RmdRound(line, v, w, r) \in Registers(5, 4)
  BY <1>5, <1>9, <1>14 DEF Registers
<1>16. RmdStep(line, u, w, r) \in Registers(5, 4)
  BY <1>1, <1>8, <1>9 DEF Registers
<1>17. /\ t \in Registers(5, 4)
       /\ t[Role(5, r + 1, 0)] = u[5] /\ t[Role(5, r + 1, 1)] = new
       /\ t[Role(5, r + 1, 2)] = u[2] /\ t[Role(5, r + 1, 3)] = mid
       /\ t[Role(5, r + 1, 4)] = u[4]
  <2> DEFINE s == RmdStep(line, u, w, r)
  <2>1. r + 1 \in Nat
    OBVIOUS
  <2>2. /\ t \in Registers(5, 4)
        /\ t[Role(5, r + 1, 0)] = s[1] /\ t[Role(5, r + 1, 1)] = s[2]
        /\ t[Role(5, r + 1, 2)] = s[3] /\ t[Role(5, r + 1, 3)] = s[4]
        /\ t[Role(5, r + 1, 4)] = s[5]
    BY <1>16, <2>1, TurnedFive
  <2> HIDE DEF t
  <2>3. QED
    BY <1>8, <2>2
<1> HIDE DEF t
<1>18. ASSUME NEW k \in 0..4
       PROVE  RmdRound(line, v, w, r)[Role(5, r + 1, k)] = t[Role(5, r + 1, k)]
  <2>1. k = 0 \/ k = 1 \/ k = 2 \/ k = 3 \/ k = 4
    OBVIOUS
  <2>2. QED
    BY <2>1, <1>5, <1>11, <1>12, <1>13, <1>14, <1>17
<1>19. RmdRound(line, v, w, r) = t
  BY <1>15, <1>17, <1>18, SameRoles
<1>20. QED
  BY <1>16, <1>19 DEF v, t

LEMMA RmdLineIs ==
  ASSUME NEW line \in {"left", "right"}, NEW d \in Registers(5, 4), NEW w \in Registers(16, 4)
  PROVE  /\ RmdRun(line, w, d) = RmdStepRun(line, w, d)
         /\ RmdRun(line, w, d) \in Registers(5, 4)
<1> DEFINE S == Registers(5, 4)
           F == [r \in 0..79 |-> [u \in S |-> RmdStep(line, u, w, r)]]
<1>1. F \in [0..(80 - 1) -> [S -> S]]
  <2>1. F \in [0..79 -> [S -> S]]
    BY RmdRounds
  <2> HIDE DEF F, S
  <2>2. QED
    BY <2>1
<1>2. \A r \in 0..79, u \in S : F[r][u] = RmdStep(line, u, w, r)
  OBVIOUS
<1> HIDE DEF F, S
<1>3. PICK b : Trace(S, F, 80, d, b)
  <2>1. 80 \in Nat /\ d \in S
    BY DEF S
  <2>2. QED
    BY <1>1, <2>1, TraceThere
<1>4. b[0] = d /\ \A r \in 0..80 : b[r] \in S
  BY <1>3 DEF Trace
<1>5. RmdStepGoes(line, w, b)
  <2>1. ASSUME NEW r \in 0..(80 - 1) PROVE b[r + 1] = RmdStep(line, b[r], w, r)
    <3>1. b[r + 1] = F[r][b[r]]
      BY <1>3 DEF Trace
    <3>2. r \in 0..79 /\ b[r] \in S
      BY <1>4
    <3>3. QED
      BY <1>2, <3>1, <3>2
  <2>2. QED
    BY <2>1 DEF RmdStepGoes
<1> DEFINE a == [r \in 0..80 |-> Turned(5, r, b[r])]
<1>6. RmdGoes(line, w, a)
  <2>1. ASSUME NEW r \in 0..79 PROVE a[r + 1] = RmdRound(line, a[r], w, r)
    <3>1. r \in 0..80 /\ r + 1 \in 0..80 /\ b[r] \in S /\ b[r + 1] = RmdStep(line, b[r], w, r)
      BY <1>4, <1>5 DEF RmdStepGoes
    <3>2. QED
      BY <3>1, RmdRounds DEF S
  <2>2. QED
    BY <2>1 DEF RmdGoes
<1>7. a[0] = d /\ a[80] = b[80]
  <2>1. a[0] = Turned(5, 0, d) /\ a[80] = Turned(5, 80, b[80])
    BY <1>4
  <2>2. d \in Registers(5, 4) /\ b[80] \in Registers(5, 4)
    BY <1>4 DEF S
  <2>3. Turned(5, 0, d) = d /\ Turned(5, 80, b[80]) = b[80]
    BY <2>2, TurnedBack
  <2> HIDE DEF a
  <2>4. QED
    BY <2>1, <2>3
<1> HIDE DEF a
<1>8. RmdRun(line, w, d) = b[80] /\ RmdStepRun(line, w, d) = b[80]
  BY <1>4, <1>5, <1>6, <1>7, RmdTrace, RmdStepTrace
<1>9. QED
  BY <1>4, <1>8 DEF S

LEMMA RmdCompressIs ==
  ASSUME NEW d \in Registers(5, 4), NEW w \in Registers(16, 4)
  PROVE  /\ RmdCompress(d, w) = RmdStandard(d, w)
         /\ RmdCompress(d, w) \in Registers(5, 4)
<1> DEFINE left == RmdRun("left", w, d)
           right == RmdRun("right", w, d)
           next(i, n) == ((i + n - 1) % 5) + 1
<1>1. left \in Registers(5, 4) /\ right \in Registers(5, 4)
  BY RmdLineIs
<1>2. left = RmdStepRun("left", w, d) /\ right = RmdStepRun("right", w, d)
  BY RmdLineIs
<1>3. RmdCompress(d, w) = [i \in 1..5 |-> d[next(i, 1)] ++ left[next(i, 2)] ++ right[next(i, 3)]]
  BY Zenon DEF RmdCompress, RmdRun, RmdLine
<1>4. RmdStandard(d, w) = <<d[2] ++ left[3] ++ right[4], d[3] ++ left[4] ++ right[5], d[4] ++ left[5] ++ right[1],
       d[5] ++ left[1] ++ right[2], d[1] ++ left[2] ++ right[3]>>
  <2>1. QED
    BY <1>2, Zenon DEF RmdStandard, RmdStepRun
<1> HIDE DEF left, right
<1>5. ASSUME NEW i \in 1..5
      PROVE  d[next(i, 1)] ++ left[next(i, 2)] ++ right[next(i, 3)] \in Bytes(4)
  <2>1. next(i, 1) \in 1..5 /\ next(i, 2) \in 1..5 /\ next(i, 3) \in 1..5
    OBVIOUS
  <2>2. /\ d[next(i, 1)] \in Bytes(4) /\ left[next(i, 2)] \in Bytes(4)
        /\ right[next(i, 3)] \in Bytes(4)
    BY <1>1, <2>1 DEF Registers
  <2>3. 4 \in Width
    BY DEF Width
  <2> HIDE DEF next
  <2>4. QED
    BY <2>2, <2>3, WordRules
<1>6. RmdCompress(d, w) \in Registers(5, 4)
  BY <1>3, <1>5 DEF Registers
<1>7. RmdCompress(d, w) = RmdStandard(d, w)
  BY <1>3, <1>4
<1>8. QED
  BY <1>6, <1>7

-----------------------------------------------------------------------------
\* The message schedule, and the ring of sixteen words a kernel keeps of it.

\* n words after sixteen, each from those before it: f[r] looks at no later one.
Backward(n, S, f) ==
  /\ f \in [0..(n - 1) -> [[1..(16 + n) -> S] -> S]]
  /\ \A r \in 0..(n - 1) : \A p, q \in [1..(16 + n) -> S] :
       (\A i \in 1..(16 + r) : p[i] = q[i]) => f[r][p] = f[r][q]

Laid(n, S, f, w, W) ==
  /\ W \in [1..(16 + n) -> S]
  /\ \A i \in 1..16 : W[i] = w[i]
  /\ \A r \in 0..(n - 1) : W[r + 17] = f[r][W]

LEMMA ScheduleThere ==
  ASSUME NEW n \in Nat, NEW S, NEW w \in [1..16 -> S], NEW f, Backward(n, S, f)
  PROVE  \E W : Laid(n, S, f, w, W)
<1> DEFINE T == [1..(16 + n) -> S]
           F == [r \in 0..(n - 1) |-> [p \in T |-> [p EXCEPT ![r + 17] = f[r][p]]]]
           start == [i \in 1..(16 + n) |-> IF i <= 16 THEN w[i] ELSE w[1]]
           Done(p, k) == /\ \A i \in 1..16 : p[i] = w[i]
                         /\ \A r \in 0..(k - 1) : p[r + 17] = f[r][p]
<1>0. /\ f \in [0..(n - 1) -> [T -> S]]
      /\ \A r \in 0..(n - 1) : \A p, q \in T :
           (\A i \in 1..(16 + r) : p[i] = q[i]) => f[r][p] = f[r][q]
  BY DEF Backward
<1>1. F \in [0..(n - 1) -> [T -> T]]
  <2>1. ASSUME NEW r \in 0..(n - 1), NEW p \in T PROVE [p EXCEPT ![r + 17] = f[r][p]] \in T
    <3>1. f[r][p] \in S
      BY <1>0
    <3>2. QED
      BY <3>1
  <2> HIDE DEF T
  <2>2. QED
    BY <2>1
<1>2. start \in T /\ Done(start, 0)
  <2>1. \A i \in 1..(16 + n) : (IF i <= 16 THEN w[i] ELSE w[1]) \in S
    OBVIOUS
  <2>2. start \in T
    BY <2>1
  <2>3. \A i \in 1..16 : start[i] = w[i]
    OBVIOUS
  <2>4. QED
    BY <2>2, <2>3
<1>3. \A r \in 0..(n - 1), p \in T : F[r][p] = [p EXCEPT ![r + 17] = f[r][p]]
  OBVIOUS
<1> HIDE DEF F, start
<1>4. PICK q : Trace(T, F, n, start, q)
  <2> HIDE DEF T
  <2>1. QED
    BY <1>1, <1>2, TraceThere
<1>5. q[0] = start /\ \A r \in 0..n : q[r] \in T
  BY <1>4 DEF Trace
<1>6. ASSUME NEW k \in 0..(n - 1), Done(q[k], k) PROVE Done(q[k + 1], k + 1)
  <2>0. k \in 0..n /\ k + 1 \in 0..n /\ k + 17 \in 1..(16 + n)
    OBVIOUS
  <2>1. q[k] \in T /\ q[k + 1] \in T
    <3> HIDE DEF T
    <3>1. QED
      BY <1>5, <2>0
  <2>2. q[k + 1] = [q[k] EXCEPT ![k + 17] = f[k][q[k]]]
    <3> HIDE DEF T
    <3>1. q[k + 1] = F[k][q[k]]
      BY <1>4 DEF Trace
    <3>2. QED
      BY <1>3, <2>1, <3>1
  <2>3. \A i \in 1..(16 + k) : q[k + 1][i] = q[k][i]
    <3>1. \A i \in 1..(16 + k) : i \in 1..(16 + n) /\ i # k + 17
      OBVIOUS
    <3>2. DOMAIN q[k] = 1..(16 + n)
      BY <2>1
    <3> HIDE DEF T
    <3>3. QED
      BY <2>2, <3>1, <3>2
  <2>4. \A i \in 1..16 : q[k + 1][i] = w[i]
    <3>1. \A i \in 1..16 : i \in 1..(16 + k)
      OBVIOUS
    <3>2. \A i \in 1..16 : q[k][i] = w[i]
      BY <1>6
    <3> HIDE DEF T, Done
    <3>3. QED
      BY <2>3, <3>1, <3>2
  <2>5. ASSUME NEW r \in 0..k PROVE f[r][q[k + 1]] = f[r][q[k]]
    <3>1. r \in 0..(n - 1) /\ \A i \in 1..(16 + r) : q[k + 1][i] = q[k][i]
      BY <2>3
    <3> HIDE DEF T
    <3>2. QED
      BY <1>0, <2>1, <3>1
  <2>6. ASSUME NEW r \in 0..k PROVE q[k + 1][r + 17] = f[r][q[k + 1]]
    <3>1. CASE r = k
      <4>1. k + 17 \in 1..(16 + n)
        OBVIOUS
      <4>2. q[k + 1][k + 17] = f[k][q[k]]
        BY <2>1, <2>2, <4>1
      <4>3. QED
        BY <2>5, <3>1, <4>2
    <3>2. CASE r # k
      <4>1. r \in 0..(k - 1) /\ r + 17 \in 1..(16 + k)
        BY <3>2
      <4>2. q[k][r + 17] = f[r][q[k]]
        BY <1>6, <4>1
      <4>3. QED
        BY <2>3, <2>5, <4>1, <4>2
    <3>3. QED
      BY <3>1, <3>2
  <2>7. QED
    BY <2>4, <2>6
<1> HIDE DEF Done
<1>7. Done(q[n], n)
  <2> DEFINE G == {k \in Nat : k <= n => Done(q[k], k)}
  <2>1. 0 \in G
    BY <1>2, <1>5
  <2>2. ASSUME NEW k \in Nat, k \in G PROVE k + 1 \in G
    <3>1. k + 1 <= n => k \in 0..(n - 1) /\ Done(q[k], k)
      BY <2>2
    <3>2. QED
      BY <1>6, <3>1
  <2> HIDE DEF G
  <2>3. n \in G
    BY <2>1, <2>2, AllNumbers
  <2>4. QED
    BY <2>3 DEF G
<1>8. q[n] \in T
  BY <1>5
<1>9. Laid(n, S, f, w, q[n])
  BY <1>7, <1>8 DEF Done, Laid
<1>10. QED
  BY <1>9

\* Where in the schedule slot i of the ring is from, before round r.
Place(r, i) == IF r < 16 THEN i ELSE (r - 16) + ((i - 1 - r) % 16) + 1
Ring(W, r) == [i \in 1..16 |-> W[Place(r, i)]]

LEMMA Places ==
  ASSUME NEW r \in Nat
  PROVE  /\ \A i \in 1..16 : Place(r, i) \in 1..16 \/ Place(r, i) \in 1..r
         /\ r < 16 => \A i \in 1..16 : Place(r + 1, i) = Place(r, i)
         /\ r >= 16 => \A k \in 0..15 : Place(r, ((r + k) % 16) + 1) = (r - 16) + k + 1
         /\ Place(r + 1, (r % 16) + 1) = r + 1
         /\ r >= 16 => \A i \in 1..16 : i # (r % 16) + 1 => Place(r + 1, i) = Place(r, i)
         /\ \A k \in 0..15 : ((r + k) % 16) + 1 \in 1..16
<1>1. \A i \in 1..16 : Place(r, i) \in 1..16 \/ Place(r, i) \in 1..r
  BY DEF Place
<1>2. ASSUME r < 16, NEW i \in 1..16 PROVE Place(r + 1, i) = Place(r, i)
  BY <1>2 DEF Place
<1>3. ASSUME r >= 16, NEW k \in 0..15 PROVE Place(r, ((r + k) % 16) + 1) = (r - 16) + k + 1
  BY <1>3 DEF Place
<1>4. Place(r + 1, (r % 16) + 1) = r + 1
  BY DEF Place
<1>5. ASSUME r >= 16, NEW i \in 1..16, i # (r % 16) + 1 PROVE Place(r + 1, i) = Place(r, i)
  BY <1>5 DEF Place
<1>6. \A k \in 0..15 : ((r + k) % 16) + 1 \in 1..16
  OBVIOUS
<1>7. QED
  BY <1>1, <1>2, <1>3, <1>4, <1>5, <1>6

\* A schedule, and what its ring is from round to round.
Schedules(n, m, W) == n \in Nat /\ m \in Nat /\ m >= 16 /\ W \in [1..m -> Bytes(n)]

RingIs(n, W, r) ==
         /\ Ring(W, r) \in Registers(16, n)
         /\ r < 16 => Ring(W, r + 1) = Ring(W, r) /\ Ring(W, r)[(r % 16) + 1] = W[r + 1]
         /\ r >= 16 => /\ \A k \in 0..15 : Ring(W, r)[((r + k) % 16) + 1] = W[(r - 16) + k + 1]
                       /\ Ring(W, r + 1) = [Ring(W, r) EXCEPT ![(r % 16) + 1] = W[r + 1]]
         /\ Ring(W, r + 1)[(r % 16) + 1] = W[r + 1]

LEMMA Rings ==
  ASSUME NEW n, NEW m, NEW W, Schedules(n, m, W), NEW r \in 0..m
  PROVE  RingIs(n, W, r)
<1> n \in Nat /\ m \in Nat /\ m >= 16 /\ W \in [1..m -> Bytes(n)]
  BY DEF Schedules
<1>0. r \in Nat /\ r + 1 \in Nat
  OBVIOUS
<1>1. Ring(W, r) \in Registers(16, n)
  <2>1. ASSUME NEW i \in 1..16 PROVE Place(r, i) \in 1..m
    <3>1. Place(r, i) \in 1..16 \/ Place(r, i) \in 1..r
      BY <1>0, Places
    <3>2. QED
      BY <3>1
  <2>2. \A i \in 1..16 : W[Place(r, i)] \in Bytes(n)
    BY <2>1
  <2>3. QED
    BY <2>2 DEF Ring, Registers
<1>2. (r % 16) + 1 \in 1..16
  OBVIOUS
<1>3. Ring(W, r + 1)[(r % 16) + 1] = W[r + 1]
  <2>1. Place(r + 1, (r % 16) + 1) = r + 1
    BY <1>0, Places
  <2>2. Ring(W, r + 1)[(r % 16) + 1] = W[Place(r + 1, (r % 16) + 1)]
    BY <1>2 DEF Ring
  <2>3. QED
    BY <2>1, <2>2
<1>4. ASSUME r < 16
      PROVE  Ring(W, r + 1) = Ring(W, r) /\ Ring(W, r)[(r % 16) + 1] = W[r + 1]
  <2>1. \A i \in 1..16 : Place(r + 1, i) = Place(r, i)
    BY <1>0, <1>4, Places
  <2>2. Ring(W, r + 1) = Ring(W, r)
    BY <2>1 DEF Ring
  <2>3. QED
    BY <1>3, <2>2
<1>5. ASSUME r >= 16, NEW k \in 0..15
      PROVE  Ring(W, r)[((r + k) % 16) + 1] = W[(r - 16) + k + 1]
  <2>1. Place(r, ((r + k) % 16) + 1) = (r - 16) + k + 1
    BY <1>0, <1>5, Places
  <2>2. ((r + k) % 16) + 1 \in 1..16
    BY <1>0, Places
  <2>3. Ring(W, r)[((r + k) % 16) + 1] = W[Place(r, ((r + k) % 16) + 1)]
    BY <2>2 DEF Ring
  <2>4. QED
    BY <2>1, <2>3
<1>6. ASSUME r >= 16
      PROVE  Ring(W, r + 1) = [Ring(W, r) EXCEPT ![(r % 16) + 1] = W[r + 1]]
  <2>1. ASSUME NEW i \in 1..16
        PROVE  W[Place(r + 1, i)] = IF i = (r % 16) + 1 THEN W[r + 1] ELSE W[Place(r, i)]
    <3>1. CASE i = (r % 16) + 1
      <4>1. Place(r + 1, (r % 16) + 1) = r + 1
        BY <1>0, Places
      <4>2. QED
        BY <3>1, <4>1
    <3>2. CASE i # (r % 16) + 1
      <4>1. Place(r + 1, i) = Place(r, i)
        BY <1>0, <1>6, <3>2, Places
      <4>2. QED
        BY <3>2, <4>1
    <3>3. QED
      BY <3>1, <3>2
  <2>2. Ring(W, r + 1) = [i \in 1..16 |-> IF i = (r % 16) + 1 THEN W[r + 1] ELSE Ring(W, r)[i]]
    BY <2>1 DEF Ring
  <2>3. DOMAIN Ring(W, r) = 1..16
    BY DEF Ring
  <2>4. QED
    BY <2>2, <2>3
<1>7. QED
  BY <1>1, <1>3, <1>4, <1>5, <1>6 DEF RingIs

-----------------------------------------------------------------------------
\* SHA-1.

\* The schedule of SHA-1, laid out.
Sha1Word(W, r) == RotL(W[r + 14] (+) W[r + 9] (+) W[r + 3] (+) W[r + 1], 1)

Sha1Spread(w, W) ==
  /\ W \in [1..80 -> Bytes(4)]
  /\ \A i \in 1..16 : W[i] = w[i]
  /\ \A r \in 0..63 : W[r + 17] = Sha1Word(W, r)

LEMMA Sha1SpreadThere ==
  ASSUME NEW w \in Registers(16, 4)
  PROVE  \E W : Sha1Spread(w, W)
<1> DEFINE T == [1..(16 + 64) -> Bytes(4)]
           f == [r \in 0..(64 - 1) |-> [p \in T |-> Sha1Word(p, r)]]
<1>1. ASSUME NEW r \in 0..(64 - 1), NEW p \in T PROVE Sha1Word(p, r) \in Bytes(4)
  <2>1. r + 14 \in 1..80 /\ r + 9 \in 1..80 /\ r + 3 \in 1..80 /\ r + 1 \in 1..80
    OBVIOUS
  <2>2. p[r + 14] \in Bytes(4) /\ p[r + 9] \in Bytes(4) /\ p[r + 3] \in Bytes(4) /\ p[r + 1] \in Bytes(4)
    BY <2>1
  <2>3. 4 \in Width /\ 1 \in 0..31
    BY DEF Width
  <2>4. QED
    BY <2>2, <2>3, WordRules DEF Sha1Word
<1>2. f \in [0..(64 - 1) -> [T -> Bytes(4)]]
  <2> HIDE DEF T
  <2>1. QED
    BY <1>1
<1>3. ASSUME NEW r \in 0..(64 - 1), NEW p \in T, NEW q \in T,
             \A i \in 1..(16 + r) : p[i] = q[i]
      PROVE  f[r][p] = f[r][q]
  <2>1. r + 14 \in 1..(16 + r) /\ r + 9 \in 1..(16 + r) /\ r + 3 \in 1..(16 + r) /\ r + 1 \in 1..(16 + r)
    OBVIOUS
  <2>2. Sha1Word(p, r) = Sha1Word(q, r)
    BY <1>3, <2>1 DEF Sha1Word
  <2> HIDE DEF T
  <2>3. QED
    BY <2>2
<1>4. \A r \in 0..(64 - 1), p \in T : f[r][p] = Sha1Word(p, r)
  OBVIOUS
<1>5. w \in [1..16 -> Bytes(4)] /\ 64 \in Nat
  BY DEF Registers
<1> HIDE DEF f
<1>6. PICK W : Laid(64, Bytes(4), f, w, W)
  <2>1. Backward(64, Bytes(4), f)
    BY <1>2, <1>3 DEF Backward
  <2>2. QED
    BY <1>5, <2>1, ScheduleThere
<1>7. W \in T /\ (\A i \in 1..16 : W[i] = w[i]) /\ \A r \in 0..(64 - 1) : W[r + 17] = f[r][W]
  BY <1>6 DEF Laid
<1>8. \A r \in 0..63 : W[r + 17] = Sha1Word(W, r)
  <2> HIDE DEF T
  <2>1. ASSUME NEW r \in 0..63 PROVE W[r + 17] = Sha1Word(W, r)
    <3>1. r \in 0..(64 - 1)
      OBVIOUS
    <3>2. W[r + 17] = f[r][W]
      BY <1>7, <3>1
    <3>3. QED
      BY <1>4, <1>7, <3>1, <3>2
  <2>2. QED
    BY <2>1
<1>9. W \in [1..80 -> Bytes(4)]
  BY <1>7
<1>10. Sha1Spread(w, W)
  BY <1>7, <1>8, <1>9 DEF Sha1Spread
<1>11. QED
  BY <1>10

\* What the standard appends, word by word, is that schedule.
LEMMA Sha1NextIs ==
  ASSUME NEW w \in Registers(16, 4), NEW W, Sha1Spread(w, W)
  PROVE  Sha1NextRun(w) = W
<1> DEFINE a == [r \in 0..64 |-> [i \in 1..(16 + r) |-> W[i]]]
<1>1. a[0] = w
  <2>1. a[0] = [i \in 1..16 |-> w[i]]
    BY DEF Sha1Spread
  <2>2. QED
    BY <2>1 DEF Registers
<1>2. a[64] = W
  BY DEF Sha1Spread
<1>3. ASSUME NEW r \in 0..(64 - 1) PROVE a[r + 1] = Sha1Next(a[r], r)
  <2> DEFINE p == [i \in 1..(16 + r) |-> W[i]]
  <2>1. a[r] = p /\ a[r + 1] = [i \in 1..(17 + r) |-> W[i]]
    <3>1. r \in 0..64 /\ r + 1 \in 0..64 /\ 16 + (r + 1) = 17 + r
      OBVIOUS
    <3>2. a[r] = p /\ a[r + 1] = [i \in 1..(16 + (r + 1)) |-> W[i]]
      BY <3>1
    <3>3. QED
      BY <3>1, <3>2
  <2>2. r + 14 \in 1..(16 + r) /\ r + 9 \in 1..(16 + r) /\ r + 3 \in 1..(16 + r) /\ r + 1 \in 1..(16 + r)
    OBVIOUS
  <2>3. Sha1Next(p, r) = Append(p, Sha1Word(W, r))
    BY <2>2 DEF Sha1Next, Sha1Word
  <2>4. W[r + 17] = Sha1Word(W, r)
    BY DEF Sha1Spread
  <2>5. p \in Seq(Bytes(4)) /\ Len(p) = 16 + r
    <3>1. \A i \in 1..(16 + r) : W[i] \in Bytes(4)
      BY DEF Sha1Spread
    <3>2. QED
      BY <3>1
  <2>6. Append(p, W[r + 17]) = [i \in 1..(17 + r) |-> W[i]]
    <3>1. Append(p, W[r + 17]) = [i \in 1..((16 + r) + 1) |-> IF i = 16 + r + 1 THEN W[r + 17] ELSE p[i]]
      BY <2>5
    <3>2. QED
      BY <3>1
  <2> HIDE DEF a
  <2>7. QED
    BY <2>1, <2>3, <2>4, <2>6
<1> HIDE DEF a
<1>4. Sha1NextGoes(a)
  BY <1>3 DEF Sha1NextGoes
<1>5. QED
  BY <1>1, <1>2, <1>4, Sha1NextTrace

\* The ring of the kernel holds the part of the schedule in use.
LEMMA Sha1Rings ==
  ASSUME NEW w, NEW W, Sha1Spread(w, W), NEW r \in 0..79
  PROVE  /\ Sha1Ring(Ring(W, r), r) = Ring(W, r + 1)
         /\ Ring(W, r + 1)[(r % 16) + 1] = W[r + 1]
<1>1. RingIs(4, W, r)
  <2>1. Schedules(4, 80, W) /\ r \in 0..80
    BY DEF Sha1Spread, Schedules
  <2>2. QED
    BY <2>1, Rings
<1>2. Ring(W, r + 1)[(r % 16) + 1] = W[r + 1]
  BY <1>1 DEF RingIs
<1>3. CASE r < 16
  <2>1. Ring(W, r + 1) = Ring(W, r)
    BY <1>1, <1>3 DEF RingIs
  <2>2. QED
    BY <1>2, <1>3, <2>1 DEF Sha1Ring
<1>4. CASE r >= 16
  <2> DEFINE x == Ring(W, r)
             s == r - 16
  <2>1. s \in 0..63 /\ s + 16 = r
    BY <1>4
  <2>2. \A k \in 0..15 : x[((r + k) % 16) + 1] = W[(r - 16) + k + 1]
    BY <1>1, <1>4 DEF RingIs
  <2>3. Ring(W, r + 1) = [x EXCEPT ![(r % 16) + 1] = W[r + 1]]
    BY <1>1, <1>4 DEF RingIs
  <2> HIDE DEF x
  <2>4. /\ x[((r + 13) % 16) + 1] = W[s + 14] /\ x[((r + 8) % 16) + 1] = W[s + 9]
        /\ x[((r + 2) % 16) + 1] = W[s + 3] /\ x[((r + 0) % 16) + 1] = W[s + 1]
    BY <2>2
  <2>5. W[s + 17] = Sha1Word(W, s)
    BY <2>1 DEF Sha1Spread
  <2>6. s + 17 = r + 1
    BY <2>1
  <2> HIDE DEF s
  <2>7. Sha1Ring(x, r) = [x EXCEPT ![(r % 16) + 1] = Sha1Word(W, s)]
    BY <1>4, <2>4 DEF Sha1Ring, Sha1Word
  <2>8. Sha1Ring(x, r) = Ring(W, r + 1)
    BY <2>3, <2>5, <2>6, <2>7
  <2>9. QED
    BY <1>2, <2>8 DEF x
<1>5. QED
  BY <1>3, <1>4

LEMMA Sha1Mixes ==
  ASSUME NEW r \in 0..79, NEW x \in Bytes(4), NEW y \in Bytes(4), NEW z \in Bytes(4)
  PROVE  /\ Sha1Mix(r, x, y, z) = Sha1F(r \div 20, x, y, z)
         /\ Sha1Mix(r, x, y, z) \in Bytes(4)
<1>0. 4 \in Nat /\ 4 \in Width
  BY DEF Width
<1>1. CASE r < 20
  <2>1. Sha1Mix(r, x, y, z) = z (+) (x & (y (+) z))
    BY <1>1 DEF Sha1Mix, Choose3
  <2>2. Sha1F(r \div 20, x, y, z) = (x & y) | (Not(x) & z)
    BY <1>1 DEF Sha1F, If3
  <2>3. QED
    BY <1>0, <2>1, <2>2, Choice, WordRules
<1>2. CASE r \in 40..59
  <2>1. Sha1Mix(r, x, y, z) = (x & y) | (z & (x | y))
    BY <1>2 DEF Sha1Mix, Major3
  <2>2. Sha1F(r \div 20, x, y, z) = (x & y) (+) (x & z) (+) (y & z)
    <3>1. r \div 20 = 2
      BY <1>2
    <3>2. QED
      BY <3>1 DEF Sha1F, Most3
  <2>3. QED
    BY <1>0, <2>1, <2>2, Majority, WordRules
<1>3. CASE r >= 20 /\ r \notin 40..59
  <2>1. Sha1Mix(r, x, y, z) = Parity3(x, y, z)
    BY <1>3 DEF Sha1Mix
  <2>2. Sha1F(r \div 20, x, y, z) = Parity3(x, y, z)
    <3>1. r \div 20 \in {1, 3}
      BY <1>3
    <3>2. QED
      BY <3>1 DEF Sha1F
  <2>3. QED
    BY <1>0, <2>1, <2>2, WordRules DEF Parity3
<1>4. QED
  BY <1>1, <1>2, <1>3

\* The five terms of a round, as the kernel and as the standard adds them.
LEMMA Sha1Sum ==
  ASSUME NEW a \in Bytes(4), NEW f \in Bytes(4), NEW e \in Bytes(4), NEW w \in Bytes(4),
         NEW k \in Bytes(4)
  PROVE  /\ e ++ f ++ w ++ k ++ a = a ++ f ++ e ++ w ++ k
         /\ e ++ f ++ w ++ k ++ a \in Bytes(4)
<1>1. \A x, y \in Bytes(4) : x ++ y \in Bytes(4)
  BY WordRules DEF Width
<1>2. 4 \in Nat
  OBVIOUS
<1> DEFINE ef == e ++ f
           efw == ef ++ w
           efwk == efw ++ k
           wk == w ++ k
<1>3. ef \in Bytes(4) /\ efw \in Bytes(4) /\ efwk \in Bytes(4) /\ wk \in Bytes(4)
  BY <1>1
<1>4. e ++ f = f ++ e
  BY <1>2, SumTurns
<1>5. efwk ++ a = a ++ efwk
  BY <1>2, <1>3, SumTurns
<1>6. efwk = ef ++ wk
  BY <1>2, <1>3, SumShifts
<1>7. a ++ efwk = (a ++ ef) ++ wk
  BY <1>2, <1>3, <1>6, SumShifts
<1>8. a ++ ef = (a ++ f) ++ e
  BY <1>2, <1>4, SumShifts
<1>9. (a ++ f) ++ e \in Bytes(4)
  BY <1>1
<1>10. (((a ++ f) ++ e) ++ w) ++ k = ((a ++ f) ++ e) ++ wk
  BY <1>2, <1>9, SumShifts
<1>11. efwk ++ a \in Bytes(4)
  BY <1>1, <1>3
<1>12. QED
  BY <1>5, <1>7, <1>8, <1>10, <1>11

LEMMA Sha1Amounts ==
  \A r \in 0..79 : Phase(Sha1K, r, 20) \in Bytes(4)
<1>1. \A r \in 0..79 : (r \div 20) + 1 \in 1..4
  OBVIOUS
<1>2. QED
  BY <1>1, Sha1Constants DEF Phase

LEMMA Sha1Rounds ==
  ASSUME NEW w, NEW W, Sha1Spread(w, W), NEW r \in 0..79, NEW u \in Registers(5, 4)
  PROVE  /\ Sha1Step(u, W, r) \in Registers(5, 4)
         /\ Sha1Round([v |-> Turned(5, r, u), w |-> Ring(W, r)], r)
              = [v |-> Turned(5, r + 1, Sha1Step(u, W, r)), w |-> Ring(W, r + 1)]
<1>0. Sha1Ring(Ring(W, r), r) = Ring(W, r + 1) /\ Ring(W, r + 1)[(r % 16) + 1] = W[r + 1]
  <2>1. Sha1Ring(Ring(W, r), r) = Ring(W, r + 1)
    BY Sha1Rings
  <2>2. Ring(W, r + 1)[(r % 16) + 1] = W[r + 1]
    <3>1. Schedules(4, 80, W) /\ r \in 0..80
      BY DEF Sha1Spread, Schedules
    <3>2. RingIs(4, W, r)
      BY <3>1, Rings
    <3>3. QED
      BY <3>2 DEF RingIs
  <2>3. QED
    BY <2>1, <2>2
<1> DEFINE v == Turned(5, r, u)
           ring == Ring(W, r)
           next == Ring(W, r + 1)
           s == [v |-> v, w |-> ring]
           t == Turned(5, r + 1, Sha1Step(u, W, r))
           word == W[r + 1]
           key == Phase(Sha1K, r, 20)
           mix == Sha1Mix(r, u[2], u[3], u[4])
           new == u[5] ++ mix ++ word ++ key ++ RotL(u[1], 5)
           turned == RotL(u[2], 30)
           kernel == [v EXCEPT ![Role(5, r, 4)] = new, ![Role(5, r, 1)] = RotL(@, 30)]
<1>1. u[1] \in Bytes(4) /\ u[2] \in Bytes(4) /\ u[3] \in Bytes(4) /\ u[4] \in Bytes(4) /\ u[5] \in Bytes(4)
  BY DEF Registers
<1>2. word \in Bytes(4)
  BY DEF Sha1Spread
<1>3. key \in Bytes(4)
  BY Sha1Amounts
<1>4. RotL(u[1], 5) \in Bytes(4) /\ turned \in Bytes(4)
  BY <1>1, WordRules DEF Width
<1>5. /\ v \in Registers(5, 4)
      /\ v[Role(5, r, 0)] = u[1] /\ v[Role(5, r, 1)] = u[2] /\ v[Role(5, r, 2)] = u[3]
      /\ v[Role(5, r, 3)] = u[4] /\ v[Role(5, r, 4)] = u[5]
  <2>1. r \in Nat
    OBVIOUS
  <2>2. QED
    BY <2>1, TurnedFive
<1>6. mix = Sha1F(r \div 20, u[2], u[3], u[4]) /\ mix \in Bytes(4)
  BY <1>1, Sha1Mixes
<1>7. Sha1Ring(ring, r) = next /\ next[(r % 16) + 1] = word
  BY <1>0
<1> HIDE DEF v, ring, next, word, key, mix
<1>8. Sha1Round(s, r) = [v |-> kernel, w |-> next]
  <2>1. s.v = v /\ s.w = ring
    OBVIOUS
  <2>2. Sha1Mix(r, v[Role(5, r, 1)], v[Role(5, r, 2)], v[Role(5, r, 3)]) = mix
    BY <1>5 DEF mix
  <2> HIDE DEF s
  <2>3. Sha1Round(s, r) = [v |-> [v EXCEPT ![Role(5, r, 4)] =
               v[Role(5, r, 4)] ++ mix ++ next[(r % 16) + 1] ++ key ++ RotL(v[Role(5, r, 0)], 5),
             ![Role(5, r, 1)] = RotL(@, 30)], w |-> next]
    BY <1>7, <2>1, <2>2 DEF Sha1Round, key
  <2>4. QED
    BY <1>5, <1>7, <2>3
<1>9. /\ new \in Bytes(4)
      /\ new = RotL(u[1], 5) ++ mix ++ u[5] ++ word ++ key
  BY <1>1, <1>2, <1>3, <1>4, <1>6, Sha1Sum
<1>10. Sha1Step(u, W, r) = <<new, u[1], turned, u[3], u[4]>>
  BY <1>6, <1>9 DEF Sha1Step, word, key
<1> HIDE DEF new, turned, s
<1>11. Sha1Step(u, W, r) \in Registers(5, 4)
  BY <1>1, <1>4, <1>9, <1>10 DEF Registers
<1>12. /\ t \in Registers(5, 4)
       /\ t[Role(5, r + 1, 0)] = new /\ t[Role(5, r + 1, 1)] = u[1] /\ t[Role(5, r + 1, 2)] = turned
       /\ t[Role(5, r + 1, 3)] = u[3] /\ t[Role(5, r + 1, 4)] = u[4]
  <2>1. r + 1 \in Nat
    OBVIOUS
  <2>2. /\ t \in Registers(5, 4)
        /\ t[Role(5, r + 1, 0)] = Sha1Step(u, W, r)[1] /\ t[Role(5, r + 1, 1)] = Sha1Step(u, W, r)[2]
        /\ t[Role(5, r + 1, 2)] = Sha1Step(u, W, r)[3] /\ t[Role(5, r + 1, 3)] = Sha1Step(u, W, r)[4]
        /\ t[Role(5, r + 1, 4)] = Sha1Step(u, W, r)[5]
    BY <1>11, <2>1, TurnedFive
  <2> HIDE DEF t
  <2>3. QED
    BY <1>10, <2>2
<1> HIDE DEF t
<1>13. /\ DOMAIN v = 1..5
       /\ \A k \in 0..4 : Role(5, r, k) \in 1..5
       /\ Role(5, r, 0) # Role(5, r, 4) /\ Role(5, r, 1) # Role(5, r, 4) /\ Role(5, r, 2) # Role(5, r, 4)
       /\ Role(5, r, 3) # Role(5, r, 4) /\ Role(5, r, 0) # Role(5, r, 1) /\ Role(5, r, 2) # Role(5, r, 1)
       /\ Role(5, r, 3) # Role(5, r, 1)
  BY <1>5, Roles DEF Registers
<1>14. /\ Role(5, r + 1, 0) = Role(5, r, 4) /\ Role(5, r + 1, 1) = Role(5, r, 0)
       /\ Role(5, r + 1, 2) = Role(5, r, 1) /\ Role(5, r + 1, 3) = Role(5, r, 2)
       /\ Role(5, r + 1, 4) = Role(5, r, 3)
  BY Roles
<1>15. /\ Role(5, r, 0) \in DOMAIN v /\ Role(5, r, 1) \in DOMAIN v /\ Role(5, r, 2) \in DOMAIN v
       /\ Role(5, r, 3) \in DOMAIN v /\ Role(5, r, 4) \in DOMAIN v
  BY <1>13
<1>16. /\ kernel[Role(5, r, 0)] = u[1] /\ kernel[Role(5, r, 1)] = turned /\ kernel[Role(5, r, 2)] = u[3]
       /\ kernel[Role(5, r, 3)] = u[4] /\ kernel[Role(5, r, 4)] = new
  BY <1>5, <1>13, <1>15 DEF turned
<1>17. kernel \in Registers(5, 4)
  <2>1. kernel = [i \in 1..5 |-> IF i = Role(5, r, 1) THEN turned
                                 ELSE IF i = Role(5, r, 4) THEN new ELSE v[i]]
    BY <1>5, <1>13 DEF turned
  <2>2. \A i \in 1..5 : v[i] \in Bytes(4)
    BY <1>5 DEF Registers
  <2>3. QED
    BY <1>4, <1>9, <2>1, <2>2 DEF Registers
<1> HIDE DEF kernel
<1>18. \A k \in 0..4 : kernel[Role(5, r + 1, k)] = t[Role(5, r + 1, k)]
  <2>1. ASSUME NEW k \in 0..4 PROVE kernel[Role(5, r + 1, k)] = t[Role(5, r + 1, k)]
    <3>1. k = 0 \/ k = 1 \/ k = 2 \/ k = 3 \/ k = 4
      OBVIOUS
    <3>2. QED
      BY <1>12, <1>14, <1>16, <3>1
  <2>2. QED
    BY <2>1
<1>19. kernel = t
  <2>1. r + 1 \in Nat
    OBVIOUS
  <2>2. QED
    BY <1>12, <1>17, <1>18, <2>1, SameRoles
<1>20. Sha1Round(s, r) = [v |-> t, w |-> next]
  BY <1>8, <1>19
<1>21. QED
  BY <1>11, <1>20 DEF s, v, t, ring, next

LEMMA Sha1CompressIs ==
  ASSUME NEW d \in Registers(5, 4), NEW w \in Registers(16, 4)
  PROVE  /\ Sha1Compress(d, w) = Sha1Standard(d, w)
         /\ Sha1Compress(d, w) \in Registers(5, 4)
<1>0. PICK W : Sha1Spread(w, W)
  BY Sha1SpreadThere
<1> DEFINE S == Registers(5, 4)
           F == [r \in 0..79 |-> [u \in S |-> Sha1Step(u, W, r)]]
<1>1. F \in [0..(80 - 1) -> [S -> S]]
  <2>1. F \in [0..79 -> [S -> S]]
    BY <1>0, Sha1Rounds
  <2> HIDE DEF F, S
  <2>2. QED
    BY <2>1
<1>2. \A r \in 0..79, u \in S : F[r][u] = Sha1Step(u, W, r)
  OBVIOUS
<1> HIDE DEF F, S
<1>3. PICK b : Trace(S, F, 80, d, b)
  <2>1. 80 \in Nat /\ d \in S
    BY DEF S
  <2>2. QED
    BY <1>1, <2>1, TraceThere
<1>4. b[0] = d /\ \A r \in 0..80 : b[r] \in S
  BY <1>3 DEF Trace
<1>5. Sha1StepGoes(W, b)
  <2>1. ASSUME NEW r \in 0..(80 - 1) PROVE b[r + 1] = Sha1Step(b[r], W, r)
    <3>1. b[r + 1] = F[r][b[r]]
      BY <1>3 DEF Trace
    <3>2. r \in 0..79 /\ b[r] \in S
      BY <1>4
    <3>3. QED
      BY <1>2, <3>1, <3>2
  <2>2. QED
    BY <2>1 DEF Sha1StepGoes
<1> DEFINE a == [r \in 0..80 |-> [v |-> Turned(5, r, b[r]), w |-> Ring(W, r)]]
<1>6. Sha1Goes(a)
  <2>1. ASSUME NEW r \in 0..79 PROVE a[r + 1] = Sha1Round(a[r], r)
    <3>1. r \in 0..80 /\ r + 1 \in 0..80 /\ b[r] \in Registers(5, 4) /\ b[r + 1] = Sha1Step(b[r], W, r)
      BY <1>4, <1>5 DEF Sha1StepGoes, S
    <3>2. /\ a[r] = [v |-> Turned(5, r, b[r]), w |-> Ring(W, r)]
          /\ a[r + 1] = [v |-> Turned(5, r + 1, b[r + 1]), w |-> Ring(W, r + 1)]
      BY <3>1
    <3> HIDE DEF a
    <3>3. Sha1Round([v |-> Turned(5, r, b[r]), w |-> Ring(W, r)], r)
            = [v |-> Turned(5, r + 1, Sha1Step(b[r], W, r)), w |-> Ring(W, r + 1)]
      BY <1>0, <3>1, Sha1Rounds
    <3>4. QED
      BY <3>1, <3>2, <3>3
  <2> HIDE DEF a
  <2>2. QED
    BY <2>1 DEF Sha1Goes
<1>7. a[0] = [v |-> d, w |-> w] /\ a[80].v = b[80]
  <2>1. a[0] = [v |-> Turned(5, 0, d), w |-> Ring(W, 0)] /\ a[80].v = Turned(5, 80, b[80])
    BY <1>4
  <2>2. d \in Registers(5, 4) /\ b[80] \in Registers(5, 4)
    BY <1>4 DEF S
  <2>3. Turned(5, 0, d) = d /\ Turned(5, 80, b[80]) = b[80]
    BY <2>2, TurnedBack
  <2>4. Ring(W, 0) = w
    <3>1. \A i \in 1..16 : Place(0, i) = i /\ W[i] = w[i]
      BY <1>0 DEF Place, Sha1Spread
    <3>2. Ring(W, 0) = [i \in 1..16 |-> w[i]]
      BY <3>1 DEF Ring
    <3>3. QED
      BY <3>2 DEF Registers
  <2> HIDE DEF a
  <2>5. QED
    BY <2>1, <2>3, <2>4
<1> HIDE DEF a
<1>8. Sha1Run([v |-> d, w |-> w]).v = b[80] /\ Sha1StepRun(W, d) = b[80] /\ Sha1NextRun(w) = W
  <2>1. Sha1Run(a[0]) = a[80]
    BY <1>6, Sha1Trace
  <2>2. Sha1StepRun(W, b[0]) = b[80]
    BY <1>5, Sha1StepTrace
  <2>3. QED
    BY <1>0, <1>4, <1>7, <2>1, <2>2, Sha1NextIs
<1>9. /\ Sha1Compress(d, w) = Plus(d, Sha1Run([v |-> d, w |-> w]).v)
      /\ Sha1Standard(d, w) = Plus(d, Sha1StepRun(Sha1NextRun(w), d))
  BY Zenon DEF Sha1Compress, Sha1Run, Sha1Standard, Sha1StepRun, Sha1NextRun
<1>10. b[80] \in Registers(5, 4)
  BY <1>4 DEF S
<1>11. QED
  BY <1>8, <1>9, <1>10, PlusIs DEF Width

-----------------------------------------------------------------------------
\* SHA-2, and sha2t.c's.

\* The parameters of a SHA-2 on words of n bytes.
Sha2Is(h, n) ==
  /\ n \in Width
  /\ h.rounds \in {64, 80}
  /\ h.k \in [1..h.rounds -> Bytes(n)]
  /\ \A i \in 1..3 : h.s0[i] \in 0..63 /\ h.s1[i] \in 0..63 /\ h.s2[i] \in 0..63 /\ h.s3[i] \in 0..63

LEMMA Sha2Family == Sha2Is(sha2_256, 4) /\ Sha2Is(sha2_512, 8)
<1>1. Sha2Is(sha2_256, 4)
  <2>1. Sha256K \in [1..64 -> Bytes(4)]
    BY Sha2Constants
  <2>2. /\ sha2_256.rounds = 64 /\ sha2_256.k = Sha256K
        /\ sha2_256.s0 = <<7, 18, 3>> /\ sha2_256.s1 = <<17, 19, 10>>
        /\ sha2_256.s2 = <<2, 13, 22>> /\ sha2_256.s3 = <<6, 11, 25>>
    BY DEF sha2_256
  <2>3. QED
    BY <2>1, <2>2 DEF Sha2Is, Width
<1>2. Sha2Is(sha2_512, 8)
  <2>1. Sha512K \in [1..80 -> Bytes(8)]
    BY Sha2Constants
  <2>2. /\ sha2_512.rounds = 80 /\ sha2_512.k = Sha512K
        /\ sha2_512.s0 = <<1, 8, 7>> /\ sha2_512.s1 = <<19, 61, 6>>
        /\ sha2_512.s2 = <<28, 34, 39>> /\ sha2_512.s3 = <<14, 18, 41>>
    BY DEF sha2_512
  <2>3. QED
    BY <2>1, <2>2 DEF Sha2Is, Width
<1>3. QED
  BY <1>1, <1>2

LEMMA Sigmas ==
  ASSUME NEW h, NEW n, Sha2Is(h, n), NEW x \in Bytes(n)
  PROVE  /\ SmallSigma(h.s0, x) \in Bytes(n) /\ SmallSigma(h.s1, x) \in Bytes(n)
         /\ BigSigma(h.s2, x) \in Bytes(n) /\ BigSigma(h.s3, x) \in Bytes(n)
<1>1. ASSUME NEW s, s[1] \in 0..63, s[2] \in 0..63, s[3] \in 0..63
      PROVE  SmallSigma(s, x) \in Bytes(n) /\ BigSigma(s, x) \in Bytes(n)
  <2>1. n \in Width
    BY DEF Sha2Is
  <2>2. /\ RotR(x, s[1]) \in Bytes(n) /\ RotR(x, s[2]) \in Bytes(n)
        /\ RotR(x, s[3]) \in Bytes(n) /\ ShiftR(x, s[3]) \in Bytes(n)
    BY <1>1, <2>1, WordRules
  <2>3. QED
    BY <2>1, <2>2, WordRules DEF SmallSigma, BigSigma
<1>2. /\ h.s0[1] \in 0..63 /\ h.s0[2] \in 0..63 /\ h.s0[3] \in 0..63
      /\ h.s1[1] \in 0..63 /\ h.s1[2] \in 0..63 /\ h.s1[3] \in 0..63
      /\ h.s2[1] \in 0..63 /\ h.s2[2] \in 0..63 /\ h.s2[3] \in 0..63
      /\ h.s3[1] \in 0..63 /\ h.s3[2] \in 0..63 /\ h.s3[3] \in 0..63
  BY DEF Sha2Is
<1>3. QED
  BY <1>1, <1>2

\* The schedule of SHA-2, laid out.
Sha2Word(h, W, r) == SmallSigma(h.s1, W[r + 15]) ++ W[r + 10] ++ SmallSigma(h.s0, W[r + 2]) ++ W[r + 1]

Sha2Spread(h, n, w, W) ==
  /\ Sha2Is(h, n)
  /\ W \in [1..h.rounds -> Bytes(n)]
  /\ \A i \in 1..16 : W[i] = w[i]
  /\ \A r \in 0..(h.rounds - 16 - 1) : W[r + 17] = Sha2Word(h, W, r)

LEMMA Sha2SpreadThere ==
  ASSUME NEW h, NEW n, Sha2Is(h, n), NEW w \in Registers(16, n)
  PROVE  \E W : Sha2Spread(h, n, w, W)
<1>0. PICK m \in Nat : h.rounds = 16 + m /\ h.rounds - 16 = m
  BY DEF Sha2Is
<1> DEFINE T == [1..(16 + m) -> Bytes(n)]
           f == [r \in 0..(m - 1) |-> [p \in T |-> Sha2Word(h, p, r)]]
<1>1. ASSUME NEW r \in 0..(m - 1), NEW p \in T PROVE Sha2Word(h, p, r) \in Bytes(n)
  <2>1. r + 15 \in 1..(16 + m) /\ r + 10 \in 1..(16 + m) /\ r + 2 \in 1..(16 + m) /\ r + 1 \in 1..(16 + m)
    OBVIOUS
  <2>2. p[r + 15] \in Bytes(n) /\ p[r + 10] \in Bytes(n) /\ p[r + 2] \in Bytes(n) /\ p[r + 1] \in Bytes(n)
    BY <2>1
  <2>3. SmallSigma(h.s1, p[r + 15]) \in Bytes(n) /\ SmallSigma(h.s0, p[r + 2]) \in Bytes(n)
    BY <2>2, Sigmas
  <2>4. n \in Width
    BY DEF Sha2Is
  <2>5. QED
    BY <2>2, <2>3, <2>4, WordRules DEF Sha2Word
<1>2. f \in [0..(m - 1) -> [T -> Bytes(n)]]
  <2> HIDE DEF T
  <2>1. QED
    BY <1>1
<1>3. ASSUME NEW r \in 0..(m - 1), NEW p \in T, NEW q \in T,
             \A i \in 1..(16 + r) : p[i] = q[i]
      PROVE  f[r][p] = f[r][q]
  <2>1. r + 15 \in 1..(16 + r) /\ r + 10 \in 1..(16 + r) /\ r + 2 \in 1..(16 + r) /\ r + 1 \in 1..(16 + r)
    OBVIOUS
  <2>2. Sha2Word(h, p, r) = Sha2Word(h, q, r)
    BY <1>3, <2>1 DEF Sha2Word
  <2> HIDE DEF T
  <2>3. QED
    BY <2>2
<1>4. \A r \in 0..(m - 1), p \in T : f[r][p] = Sha2Word(h, p, r)
  OBVIOUS
<1>5. w \in [1..16 -> Bytes(n)]
  BY DEF Registers
<1> HIDE DEF f
<1>6. PICK W : Laid(m, Bytes(n), f, w, W)
  <2>1. Backward(m, Bytes(n), f)
    BY <1>2, <1>3 DEF Backward
  <2>2. QED
    BY <1>5, <2>1, ScheduleThere
<1>7. W \in T /\ (\A i \in 1..16 : W[i] = w[i]) /\ \A r \in 0..(m - 1) : W[r + 17] = f[r][W]
  BY <1>6 DEF Laid
<1>8. \A r \in 0..(m - 1) : W[r + 17] = Sha2Word(h, W, r)
  <2> HIDE DEF T
  <2>1. QED
    BY <1>4, <1>7
<1>9. Sha2Spread(h, n, w, W)
  <2>1. W \in [1..h.rounds -> Bytes(n)]
    BY <1>0, <1>7
  <2>2. \A r \in 0..(h.rounds - 16 - 1) : W[r + 17] = Sha2Word(h, W, r)
    BY <1>0, <1>8
  <2> HIDE DEF T
  <2>3. QED
    BY <1>7, <2>1, <2>2 DEF Sha2Spread
<1>10. QED
  BY <1>9

\* What sha2t.c appends, word by word, is that schedule.
LEMMA ScheduleIs ==
  ASSUME NEW h, NEW n, NEW w \in Registers(16, n), NEW W, Sha2Spread(h, n, w, W)
  PROVE  ExtendedRun(h, w) = W
<1>0. PICK m \in Nat : h.rounds = 16 + m /\ h.rounds - 16 = m
  BY DEF Sha2Spread, Sha2Is
<1>00. /\ h.rounds \in {64, 80}
       /\ \A i \in 1..(16 + m) : W[i] \in Bytes(n)
       /\ \A i \in 1..16 : W[i] = w[i]
       /\ \A r \in 0..(m - 1) : W[r + 17] = Sha2Word(h, W, r)
       /\ W = [i \in 1..(16 + m) |-> W[i]]
  BY <1>0 DEF Sha2Spread, Sha2Is
<1> DEFINE a == [r \in 0..m |-> [i \in 1..(16 + r) |-> W[i]]]
<1>1. a[0] = w
  <2>1. a[0] = [i \in 1..16 |-> w[i]]
    BY <1>00
  <2>2. QED
    BY <2>1 DEF Registers
<1>2. a[m] = W
  <2>1. a[m] = [i \in 1..(16 + m) |-> W[i]]
    OBVIOUS
  <2> HIDE DEF a
  <2>2. QED
    BY <1>00, <2>1
<1>3. ASSUME NEW r \in 0..(m - 1) PROVE a[r + 1] = Extended(h, a[r], r)
  <2> DEFINE p == [i \in 1..(16 + r) |-> W[i]]
  <2>1. a[r] = p /\ a[r + 1] = [i \in 1..(17 + r) |-> W[i]]
    <3>1. r \in 0..m /\ r + 1 \in 0..m /\ 16 + (r + 1) = 17 + r
      OBVIOUS
    <3>2. a[r] = p /\ a[r + 1] = [i \in 1..(16 + (r + 1)) |-> W[i]]
      BY <3>1
    <3>3. QED
      BY <3>1, <3>2
  <2>2. r + 15 \in 1..(16 + r) /\ r + 10 \in 1..(16 + r) /\ r + 2 \in 1..(16 + r) /\ r + 1 \in 1..(16 + r)
    OBVIOUS
  <2>3. Extended(h, p, r) = Append(p, Sha2Word(h, W, r))
    BY <2>2 DEF Extended, Sha2Word
  <2>4. W[r + 17] = Sha2Word(h, W, r)
    BY <1>00
  <2>5. p \in Seq(Bytes(n)) /\ Len(p) = 16 + r
    <3>1. \A i \in 1..(16 + r) : W[i] \in Bytes(n)
      BY <1>00
    <3>2. QED
      BY <3>1
  <2>6. Append(p, W[r + 17]) = [i \in 1..(17 + r) |-> W[i]]
    <3>1. Append(p, W[r + 17]) = [i \in 1..((16 + r) + 1) |-> IF i = 16 + r + 1 THEN W[r + 17] ELSE p[i]]
      BY <2>5
    <3>2. QED
      BY <3>1
  <2> HIDE DEF a
  <2>7. QED
    BY <2>1, <2>3, <2>4, <2>6
<1> HIDE DEF a
<1>4. ExtendedGoes(h, a)
  BY <1>0, <1>3 DEF ExtendedGoes
<1>5. ExtendedRun(h, a[0]) = a[h.rounds - 16]
  BY <1>00, <1>4, ExtendedTrace
<1>6. QED
  BY <1>0, <1>1, <1>2, <1>5

\* The ring of the kernel holds the part of the schedule in use.
LEMMA Sha2Rings ==
  ASSUME NEW h, NEW n, NEW w, NEW W, Sha2Spread(h, n, w, W), NEW r \in 0..(h.rounds - 1)
  PROVE  Sha2Ring(h, Ring(W, r), r) = Ring(W, r + 1)
<1>0. /\ h.rounds \in Nat /\ h.rounds >= 16 /\ r \in Nat /\ r < h.rounds
      /\ \A i \in 0..(h.rounds - 16 - 1) : W[i + 17] = Sha2Word(h, W, i)
  BY DEF Sha2Spread, Sha2Is
<1>1. RingIs(n, W, r)
  <2>1. Schedules(n, h.rounds, W) /\ r \in 0..h.rounds
    BY <1>0 DEF Sha2Spread, Schedules, Sha2Is, Width
  <2>2. QED
    BY <2>1, Rings
<1>3. CASE r < 16
  <2>1. Ring(W, r + 1) = Ring(W, r)
    BY <1>1, <1>3 DEF RingIs
  <2>2. QED
    BY <1>3, <2>1 DEF Sha2Ring
<1>4. CASE r >= 16
  <2> DEFINE x == Ring(W, r)
             s == r - 16
  <2>1. s \in 0..(h.rounds - 16 - 1) /\ s + 16 = r
    BY <1>0, <1>4
  <2>2. \A k \in 0..15 : x[((r + k) % 16) + 1] = W[(r - 16) + k + 1]
    BY <1>1, <1>4 DEF RingIs
  <2>3. Ring(W, r + 1) = [x EXCEPT ![(r % 16) + 1] = W[r + 1]]
    BY <1>1, <1>4 DEF RingIs
  <2> HIDE DEF x
  <2>4. /\ x[((r + 14) % 16) + 1] = W[s + 15] /\ x[((r + 9) % 16) + 1] = W[s + 10]
        /\ x[((r + 1) % 16) + 1] = W[s + 2] /\ x[((r + 0) % 16) + 1] = W[s + 1]
    BY <1>0, <2>2
  <2>5. W[s + 17] = Sha2Word(h, W, s)
    BY <1>0, <2>1
  <2>6. s + 17 = r + 1
    BY <1>0, <2>1
  <2> HIDE DEF s
  <2>7. Sha2Ring(h, x, r) = [x EXCEPT ![(r % 16) + 1] = Sha2Word(h, W, s)]
    BY <1>0, <1>4, <2>4 DEF Sha2Ring, Sha2Word
  <2>8. Sha2Ring(h, x, r) = Ring(W, r + 1)
    BY <2>3, <2>5, <2>6, <2>7
  <2>9. QED
    BY <2>8 DEF x
<1>5. QED
  BY <1>0, <1>3, <1>4

LEMMA Sha2Mixes ==
  ASSUME NEW n \in Width
  PROVE  \A x, y, z \in Bytes(n) :
           /\ \A h : CH(h, x, y, z) = Choose3(x, y, z) /\ MAJ(h, x, y, z) = Major3(x, y, z)
           /\ Choose3(x, y, z) \in Bytes(n) /\ Major3(x, y, z) \in Bytes(n)
<1>0. n \in Nat
  BY DEF Width
<1> TAKE x, y, z \in Bytes(n)
<1>1. ASSUME NEW h PROVE CH(h, x, y, z) = Choose3(x, y, z)
  <2>1. CH(h, x, y, z) = z (+) (x & (y (+) z))
    BY <1>0, Choice DEF CH, Choose3
  <2>2. QED
    BY <2>1 DEF Choose3
<1>2. ASSUME NEW h PROVE MAJ(h, x, y, z) = Major3(x, y, z)
  <2>1. MAJ(h, x, y, z) = (x & y) | (z & (x | y))
    BY <1>0, Majority DEF MAJ, Major3
  <2>2. QED
    BY <2>1 DEF Major3
<1>3. z (+) (x & (y (+) z)) \in Bytes(n) /\ (x & y) | (z & (x | y)) \in Bytes(n)
  BY WordRules
<1>4. QED
  BY <1>1, <1>2, <1>3 DEF Choose3, Major3

LEMMA Sha2Rounds ==
  ASSUME NEW h, NEW n, NEW w, NEW W, Sha2Spread(h, n, w, W), NEW r \in 0..(h.rounds - 1),
         NEW u \in Registers(8, n)
  PROVE  /\ Sha2tRound(h, u, h.k[r + 1], W[r + 1]) \in Registers(8, n)
         /\ Sha2Round(h, [v |-> Turned(8, r, u), w |-> Ring(W, r)], r)
              = [v |-> Turned(8, r + 1, Sha2tRound(h, u, h.k[r + 1], W[r + 1])), w |-> Ring(W, r + 1)]
<1>0. Sha2Ring(h, Ring(W, r), r) = Ring(W, r + 1) /\ Ring(W, r + 1)[(r % 16) + 1] = W[r + 1]
  <2>1. Sha2Ring(h, Ring(W, r), r) = Ring(W, r + 1)
    BY Sha2Rings
  <2>2. Ring(W, r + 1)[(r % 16) + 1] = W[r + 1]
    <3>1. h.rounds \in {64, 80} /\ n \in {4, 8} /\ W \in [1..h.rounds -> Bytes(n)]
      BY DEF Sha2Spread, Sha2Is, Width
    <3>2. h.rounds \in Nat /\ h.rounds >= 16 /\ n \in Nat
      BY <3>1
    <3>3. Schedules(n, h.rounds, W)
      BY <3>1, <3>2 DEF Schedules
    <3>4. r \in 0..h.rounds
      BY <3>2
    <3>5. RingIs(n, W, r)
      BY <3>3, <3>4, Rings
    <3>6. QED
      BY <3>5 DEF RingIs
  <2>3. QED
    BY <2>1, <2>2
<1>00. /\ Sha2Is(h, n) /\ n \in Width /\ n \in Nat /\ r \in Nat /\ r + 1 \in Nat
       /\ h.k[r + 1] \in Bytes(n) /\ W[r + 1] \in Bytes(n)
  <2>1. Sha2Is(h, n) /\ n \in Width /\ h.rounds \in Nat
    BY DEF Sha2Spread, Sha2Is
  <2>2. r \in Nat /\ r + 1 \in Nat /\ r + 1 \in 1..h.rounds
    BY <2>1
  <2>3. h.k[r + 1] \in Bytes(n) /\ W[r + 1] \in Bytes(n)
    BY <2>2 DEF Sha2Spread, Sha2Is
  <2>4. QED
    BY <2>1, <2>2, <2>3, WordRules
<1> DEFINE v == Turned(8, r, u)
           ring == Ring(W, r)
           next == Ring(W, r + 1)
           s == [v |-> v, w |-> ring]
           word == W[r + 1]
           key == h.k[r + 1]
           step == Sha2tRound(h, u, key, word)
           t == Turned(8, r + 1, step)
           ch == Choose3(u[5], u[6], u[7])
           maj == Major3(u[1], u[2], u[3])
           sig2 == BigSigma(h.s2, u[1])
           sig3 == BigSigma(h.s3, u[5])
           temp == u[8] ++ sig3 ++ ch ++ key ++ word
           low == u[4] ++ temp
           new == temp ++ sig2 ++ maj
           kernel == [v EXCEPT ![Role(8, r, 3)] = @ ++ temp, ![Role(8, r, 7)] = new]
<1>1. /\ u[1] \in Bytes(n) /\ u[2] \in Bytes(n) /\ u[3] \in Bytes(n) /\ u[4] \in Bytes(n)
      /\ u[5] \in Bytes(n) /\ u[6] \in Bytes(n) /\ u[7] \in Bytes(n) /\ u[8] \in Bytes(n)
  BY DEF Registers
<1>2. word \in Bytes(n) /\ key \in Bytes(n)
  BY <1>00
<1>3. sig2 \in Bytes(n) /\ sig3 \in Bytes(n)
  BY <1>00, <1>1, Sigmas
<1>4. /\ CH(h, u[5], u[6], u[7]) = ch /\ MAJ(h, u[1], u[2], u[3]) = maj
      /\ ch \in Bytes(n) /\ maj \in Bytes(n)
  <2> HIDE DEF v, ring, next, s, word, key, step, t, sig2, sig3, temp, low, new, kernel
  <2>0. \A x, y, z \in Bytes(n) :
          /\ \A g : CH(g, x, y, z) = Choose3(x, y, z) /\ MAJ(g, x, y, z) = Major3(x, y, z)
          /\ Choose3(x, y, z) \in Bytes(n) /\ Major3(x, y, z) \in Bytes(n)
    BY <1>00, Sha2Mixes
  <2>1. CH(h, u[5], u[6], u[7]) = Choose3(u[5], u[6], u[7]) /\ Choose3(u[5], u[6], u[7]) \in Bytes(n)
    BY <1>1, <2>0
  <2>2. MAJ(h, u[1], u[2], u[3]) = Major3(u[1], u[2], u[3]) /\ Major3(u[1], u[2], u[3]) \in Bytes(n)
    BY <1>1, <2>0
  <2>3. QED
    BY <2>1, <2>2
<1>5. /\ v \in Registers(8, n)
      /\ v[Role(8, r, 0)] = u[1] /\ v[Role(8, r, 1)] = u[2] /\ v[Role(8, r, 2)] = u[3]
      /\ v[Role(8, r, 3)] = u[4] /\ v[Role(8, r, 4)] = u[5] /\ v[Role(8, r, 5)] = u[6]
      /\ v[Role(8, r, 6)] = u[7] /\ v[Role(8, r, 7)] = u[8]
  BY <1>00, TurnedEight
<1>7. Sha2Ring(h, ring, r) = next /\ next[(r % 16) + 1] = word
  BY <1>0
<1> HIDE DEF v, ring, next, word, key
<1>8. Sha2Round(h, s, r) = [v |-> kernel, w |-> next]
  <2>1. s.v = v /\ s.w = ring
    OBVIOUS
  <2> HIDE DEF s
  <2>2. Sha2Round(h, s, r) = [v |-> [v EXCEPT ![Role(8, r, 3)] = @ ++
               (v[Role(8, r, 7)] ++ BigSigma(h.s3, v[Role(8, r, 4)])
                 ++ Choose3(v[Role(8, r, 4)], v[Role(8, r, 5)], v[Role(8, r, 6)]) ++ key ++ word),
             ![Role(8, r, 7)] =
               (v[Role(8, r, 7)] ++ BigSigma(h.s3, v[Role(8, r, 4)])
                 ++ Choose3(v[Role(8, r, 4)], v[Role(8, r, 5)], v[Role(8, r, 6)]) ++ key ++ word)
               ++ BigSigma(h.s2, v[Role(8, r, 0)])
               ++ Major3(v[Role(8, r, 0)], v[Role(8, r, 1)], v[Role(8, r, 2)])], w |-> next]
    BY <1>7, <2>1 DEF Sha2Round, key
  <2>3. QED
    BY <1>5, <2>2
<1>9. /\ temp \in Bytes(n) /\ low \in Bytes(n) /\ new \in Bytes(n)
      /\ new = temp ++ (sig2 ++ maj)
  <2> HIDE DEF sig2, sig3, ch, maj
  <2>1. \A x, y \in Bytes(n) : x ++ y \in Bytes(n)
    BY <1>00, WordRules
  <2>2. temp \in Bytes(n)
    BY <1>1, <1>2, <1>3, <1>4, <2>1
  <2> HIDE DEF temp
  <2>3. QED
    <3>1. temp ++ sig2 \in Bytes(n) /\ low \in Bytes(n)
      BY <1>1, <1>3, <2>1, <2>2
    <3>2. new \in Bytes(n)
      BY <1>4, <2>1, <3>1
    <3>3. new = temp ++ (sig2 ++ maj)
      BY <1>00, <1>3, <1>4, <2>2, SumShifts
    <3>4. QED
      BY <2>2, <3>1, <3>2, <3>3
<1>10. step = <<new, u[1], u[2], u[3], low, u[5], u[6], u[7]>>
  BY <1>4, <1>9 DEF Sha2tRound
<1>10a. v[Role(8, r, 3)] ++ temp = low
  BY <1>5
<1> HIDE DEF new, low, temp, s, step
<1>11. step \in Registers(8, n)
  BY <1>1, <1>9, <1>10 DEF Registers
<1>12. /\ t \in Registers(8, n)
       /\ t[Role(8, r + 1, 0)] = new /\ t[Role(8, r + 1, 1)] = u[1] /\ t[Role(8, r + 1, 2)] = u[2]
       /\ t[Role(8, r + 1, 3)] = u[3] /\ t[Role(8, r + 1, 4)] = low /\ t[Role(8, r + 1, 5)] = u[5]
       /\ t[Role(8, r + 1, 6)] = u[6] /\ t[Role(8, r + 1, 7)] = u[7]
  <2>2. /\ t \in Registers(8, n)
        /\ t[Role(8, r + 1, 0)] = step[1] /\ t[Role(8, r + 1, 1)] = step[2]
        /\ t[Role(8, r + 1, 2)] = step[3] /\ t[Role(8, r + 1, 3)] = step[4]
        /\ t[Role(8, r + 1, 4)] = step[5] /\ t[Role(8, r + 1, 5)] = step[6]
        /\ t[Role(8, r + 1, 6)] = step[7] /\ t[Role(8, r + 1, 7)] = step[8]
    BY <1>00, <1>11, TurnedEight
  <2> HIDE DEF t
  <2>3. QED
    BY <1>10, <2>2
<1> HIDE DEF t
<1>13. /\ DOMAIN v = 1..8
       /\ \A k \in 0..7 : Role(8, r, k) \in 1..8
       /\ \A j, k \in 0..7 : Role(8, r, j) = Role(8, r, k) => j = k
  BY <1>5, <1>00, Roles DEF Registers
<1>14. /\ Role(8, r + 1, 0) = Role(8, r, 7) /\ \A k \in 0..6 : Role(8, r + 1, k + 1) = Role(8, r, k)
  BY <1>00, Roles
<1>16. /\ kernel[Role(8, r, 0)] = u[1] /\ kernel[Role(8, r, 1)] = u[2] /\ kernel[Role(8, r, 2)] = u[3]
       /\ kernel[Role(8, r, 3)] = low /\ kernel[Role(8, r, 4)] = u[5] /\ kernel[Role(8, r, 5)] = u[6]
       /\ kernel[Role(8, r, 6)] = u[7] /\ kernel[Role(8, r, 7)] = new
  <2>1. \A k \in 0..7 : Role(8, r, k) \in DOMAIN v
    BY <1>13
  <2>2. kernel = [v EXCEPT ![Role(8, r, 3)] = low, ![Role(8, r, 7)] = new]
    BY <1>10a
  <2> HIDE DEF kernel
  <2>3. \A k \in 0..7 : kernel[Role(8, r, k)] =
          IF k = 7 THEN new ELSE IF k = 3 THEN low ELSE v[Role(8, r, k)]
    BY <1>13, <2>1, <2>2
  <2>4. QED
    BY <1>5, <2>3
<1>17. kernel \in Registers(8, n)
  <2>1. kernel = [i \in 1..8 |-> IF i = Role(8, r, 7) THEN new
                                 ELSE IF i = Role(8, r, 3) THEN low ELSE v[i]]
    BY <1>10a, <1>13
  <2>2. \A i \in 1..8 : v[i] \in Bytes(n)
    BY <1>5 DEF Registers
  <2>3. QED
    BY <1>9, <2>1, <2>2 DEF Registers
<1> HIDE DEF kernel
<1>18. \A k \in 0..7 : kernel[Role(8, r + 1, k)] = t[Role(8, r + 1, k)]
  <2>0. /\ Role(8, r + 1, 1) = Role(8, r, 0) /\ Role(8, r + 1, 2) = Role(8, r, 1)
        /\ Role(8, r + 1, 3) = Role(8, r, 2) /\ Role(8, r + 1, 4) = Role(8, r, 3)
        /\ Role(8, r + 1, 5) = Role(8, r, 4) /\ Role(8, r + 1, 6) = Role(8, r, 5)
        /\ Role(8, r + 1, 7) = Role(8, r, 6)
    BY <1>14
  <2>1. ASSUME NEW k \in 0..7 PROVE kernel[Role(8, r + 1, k)] = t[Role(8, r + 1, k)]
    <3>1. k = 0 \/ k = 1 \/ k = 2 \/ k = 3 \/ k = 4 \/ k = 5 \/ k = 6 \/ k = 7
      OBVIOUS
    <3>2. QED
      BY <1>12, <1>14, <1>16, <2>0, <3>1
  <2>2. QED
    BY <2>1
<1>19. kernel = t
  BY <1>00, <1>12, <1>17, <1>18, SameRoles
<1>20. Sha2Round(h, s, r) = [v |-> t, w |-> next]
  BY <1>8, <1>19
<1>21. QED
  BY <1>11, <1>20 DEF s, v, t, ring, next, step, key, word

LEMMA Sha2CompressIs ==
  ASSUME NEW h, NEW n, Sha2Is(h, n), NEW d \in Registers(8, n), NEW w \in Registers(16, n)
  PROVE  /\ Sha2Compress(h, d, w) = Sha2tTransform(h, d, w)
         /\ Sha2Compress(h, d, w) \in Registers(8, n)
<1>0. PICK W : Sha2Spread(h, n, w, W)
  BY Sha2SpreadThere
<1>00. PICK m \in Nat : h.rounds = m /\ m \in {64, 80} /\ n \in Width
  BY DEF Sha2Is
<1> DEFINE S == Registers(8, n)
           Step(u, r) == Sha2tRound(h, u, h.k[r + 1], W[r + 1])
           F == [r \in 0..(m - 1) |-> [u \in S |-> Step(u, r)]]
<1>1. F \in [0..(m - 1) -> [S -> S]]
  <2>1. ASSUME NEW r \in 0..(m - 1), NEW u \in S PROVE Step(u, r) \in S
    <3>1. r \in 0..(h.rounds - 1) /\ u \in Registers(8, n)
      BY <1>00
    <3>2. QED
      BY <1>0, <3>1, Sha2Rounds
  <2> HIDE DEF S, Step
  <2>2. QED
    BY <2>1
<1>2. \A r \in 0..(m - 1), u \in S : F[r][u] = Step(u, r)
  OBVIOUS
<1> HIDE DEF F, S
<1>3. PICK b : Trace(S, F, m, d, b)
  <2>1. m \in Nat /\ d \in S
    BY DEF S
  <2>2. QED
    BY <1>1, <2>1, TraceThere
<1>4. b[0] = d /\ \A r \in 0..m : b[r] \in S
  BY <1>3 DEF Trace
<1>5. \A r \in 0..(m - 1) : b[r + 1] = Step(b[r], r)
  <2>1. ASSUME NEW r \in 0..(m - 1) PROVE b[r + 1] = Step(b[r], r)
    <3>1. b[r + 1] = F[r][b[r]]
      BY <1>3 DEF Trace
    <3>2. b[r] \in S
      BY <1>4
    <3> HIDE DEF Step
    <3>3. QED
      BY <1>2, <3>1, <3>2
  <2>2. QED
    BY <2>1
<1>5a. Sha2tGoes(h, W, b)
  BY <1>00, <1>5 DEF Sha2tGoes
<1> DEFINE a == [r \in 0..m |-> [v |-> Turned(8, r, b[r]), w |-> Ring(W, r)]]
<1>6. Sha2Goes(h, a)
  <2>1. ASSUME NEW r \in 0..(m - 1) PROVE a[r + 1] = Sha2Round(h, a[r], r)
    <3>1. /\ r \in 0..m /\ r + 1 \in 0..m /\ r \in 0..(h.rounds - 1) /\ b[r] \in Registers(8, n)
          /\ b[r + 1] = Step(b[r], r)
      BY <1>00, <1>4, <1>5 DEF S
    <3>2. /\ a[r] = [v |-> Turned(8, r, b[r]), w |-> Ring(W, r)]
          /\ a[r + 1] = [v |-> Turned(8, r + 1, b[r + 1]), w |-> Ring(W, r + 1)]
      BY <3>1
    <3> HIDE DEF a
    <3>3. Sha2Round(h, [v |-> Turned(8, r, b[r]), w |-> Ring(W, r)], r)
            = [v |-> Turned(8, r + 1, Step(b[r], r)), w |-> Ring(W, r + 1)]
      BY <1>0, <3>1, Sha2Rounds
    <3> HIDE DEF Step
    <3>4. QED
      BY <3>1, <3>2, <3>3
  <2> HIDE DEF a
  <2>2. QED
    BY <1>00, <2>1 DEF Sha2Goes
<1> HIDE DEF Step
<1>7. a[0] = [v |-> d, w |-> w] /\ a[m].v = b[m]
  <2>1. a[0] = [v |-> Turned(8, 0, d), w |-> Ring(W, 0)] /\ a[m].v = Turned(8, m, b[m])
    BY <1>4
  <2>2. d \in Registers(8, n) /\ b[m] \in Registers(8, n)
    BY <1>4 DEF S
  <2>3. Turned(8, 0, d) = d /\ Turned(8, m, b[m]) = b[m]
    BY <1>00, <2>2, TurnedBack
  <2>4. Ring(W, 0) = w
    <3>1. \A i \in 1..16 : Place(0, i) = i /\ W[i] = w[i]
      BY <1>0 DEF Place, Sha2Spread
    <3>2. Ring(W, 0) = [i \in 1..16 |-> w[i]]
      BY <3>1 DEF Ring
    <3>3. QED
      BY <3>2 DEF Registers
  <2> HIDE DEF a
  <2>5. QED
    BY <2>1, <2>3, <2>4
<1> HIDE DEF a
<1>8. Sha2Run(h, [v |-> d, w |-> w]).v = b[m] /\ Sha2tRun(h, W, d) = b[m] /\ ExtendedRun(h, w) = W
  <2>1. Sha2Run(h, a[0]) = a[h.rounds]
    BY <1>00, <1>6, Sha2Trace
  <2>2. Sha2tRun(h, W, b[0]) = b[h.rounds]
    BY <1>00, <1>5a, Sha2tTrace
  <2>3. ExtendedRun(h, w) = W
    BY <1>0, ScheduleIs
  <2>4. QED
    BY <1>00, <1>4, <1>7, <2>1, <2>2, <2>3
<1>9. /\ Sha2Compress(h, d, w) = Plus(d, Sha2Run(h, [v |-> d, w |-> w]).v)
      /\ Sha2tTransform(h, d, w) = Plus(d, Sha2tRun(h, ExtendedRun(h, w), d))
  BY Zenon DEF Sha2Compress, Sha2Run, Sha2tTransform, Sha2tRun, ExtendedRun, Schedule
<1>10. b[m] \in Registers(8, n)
  BY <1>4 DEF S
<1>11. QED
  BY <1>00, <1>8, <1>9, <1>10, PlusIs

-----------------------------------------------------------------------------
\* Block after block.

Md4Chain(s, input, n) == Chain(Md4Compress, s, input, n)

Md4ChainGoes(input, n, a) ==
  \A i \in 0..(n - 1) : a[i + 1] = Md4Compress(a[i], SubSeq(input, 16 * i + 1, 16 * i + 16))

LEMMA Md4ChainTrace ==
  ASSUME NEW input, NEW n \in Nat, NEW a, Md4ChainGoes(input, n, a)
  PROVE  Md4Chain(a[0], input, n) = a[n]
<1> DEFINE Row(t, i) == Md4Compress(t, SubSeq(input, 16 * i + 1, 16 * i + 16))
           Is(f) == f = [k \in 0..n |->
              IF k = 0 THEN a[0] ELSE [t \in {f[k - 1]} |-> Row(t, 0 + k - 1)][f[k - 1]]]
           g == CHOOSE f : Is(f)
           b == [k \in 0..n |-> a[k]]
<1>1. \A k \in 0..(n - 1) : Row(a[k], k) = a[k + 1]
  BY DEF Md4ChainGoes
<1>2. Is(b)
  <2> HIDE DEF Row
  <2>1. b[0] = a[0] /\ b = [k \in 0..n |-> b[k]]
    OBVIOUS
  <2>2. ASSUME NEW k \in 1..n PROVE b[k] = Row(b[k - 1], k - 1)
    <3>1. k - 1 \in 0..(n - 1) /\ (k - 1) + 1 = k /\ k \in 0..n /\ k - 1 \in 0..n
      OBVIOUS
    <3>2. QED
      BY <1>1, <3>1
  <2> HIDE DEF b
  <2>3. ASSUME NEW k \in 0..n
        PROVE  b[k] = IF k = 0 THEN a[0] ELSE [t \in {b[k - 1]} |-> Row(t, 0 + k - 1)][b[k - 1]]
    <3>1. CASE k = 0
      BY <2>1, <3>1
    <3>2. CASE k # 0
      <4>1. k \in 1..n /\ 0 + k - 1 = k - 1
        BY <3>2
      <4>2. QED
        BY <2>2, <3>2, <4>1
    <3>3. QED
      BY <3>1, <3>2
  <2>4. QED
    BY <2>1, <2>3
<1>3. Is(g)
  <2> HIDE DEF Row
  <2>1. QED
    BY <1>2
<1>4. Md4Chain(a[0], input, n) = g[n]
  BY DEF Md4Chain, Chain, Steps, After
<1> HIDE DEF g, Row
<1>5. g[0] = b[0] /\ \A k \in 0..(n - 1) : g[k] = b[k] => g[k + 1] = b[k + 1]
  <2>1. g[0] = a[0] /\ b[0] = a[0]
    BY <1>3
  <2>2. \A i \in 1..n : g[i] = Row(g[i - 1], 0 + i - 1)
    BY <1>3
  <2>3. ASSUME NEW k \in 0..(n - 1) PROVE g[k + 1] = Row(g[k], k) /\ b[k + 1] = Row(b[k], k)
    <3>1. k \in 0..n /\ k + 1 \in 0..n /\ k + 1 \in 1..n /\ k + 1 # 0 /\ (k + 1) - 1 = k /\ 0 + (k + 1) - 1 = k
      OBVIOUS
    <3>2. g[k + 1] = Row(g[k], k)
      BY <2>2, <3>1
    <3>3. b[k + 1] = a[k + 1] /\ b[k] = a[k]
      BY <3>1
    <3>4. QED
      BY <1>1, <3>2, <3>3
  <2> HIDE DEF b, Is
  <2>4. QED
    BY <2>1, <2>3
<1>6. b[n] = a[n]
  OBVIOUS
<1> HIDE DEF b, Is
<1>7. g[n] = b[n]
  BY <1>5, SameTrace
<1>8. QED
  BY <1>4, <1>6, <1>7

Md5Chain(s, input, n) == Chain(Md5Compress, s, input, n)

Md5ChainGoes(input, n, a) ==
  \A i \in 0..(n - 1) : a[i + 1] = Md5Compress(a[i], SubSeq(input, 16 * i + 1, 16 * i + 16))

LEMMA Md5ChainTrace ==
  ASSUME NEW input, NEW n \in Nat, NEW a, Md5ChainGoes(input, n, a)
  PROVE  Md5Chain(a[0], input, n) = a[n]
<1> DEFINE Row(t, i) == Md5Compress(t, SubSeq(input, 16 * i + 1, 16 * i + 16))
           Is(f) == f = [k \in 0..n |->
              IF k = 0 THEN a[0] ELSE [t \in {f[k - 1]} |-> Row(t, 0 + k - 1)][f[k - 1]]]
           g == CHOOSE f : Is(f)
           b == [k \in 0..n |-> a[k]]
<1>1. \A k \in 0..(n - 1) : Row(a[k], k) = a[k + 1]
  BY DEF Md5ChainGoes
<1>2. Is(b)
  <2> HIDE DEF Row
  <2>1. b[0] = a[0] /\ b = [k \in 0..n |-> b[k]]
    OBVIOUS
  <2>2. ASSUME NEW k \in 1..n PROVE b[k] = Row(b[k - 1], k - 1)
    <3>1. k - 1 \in 0..(n - 1) /\ (k - 1) + 1 = k /\ k \in 0..n /\ k - 1 \in 0..n
      OBVIOUS
    <3>2. QED
      BY <1>1, <3>1
  <2> HIDE DEF b
  <2>3. ASSUME NEW k \in 0..n
        PROVE  b[k] = IF k = 0 THEN a[0] ELSE [t \in {b[k - 1]} |-> Row(t, 0 + k - 1)][b[k - 1]]
    <3>1. CASE k = 0
      BY <2>1, <3>1
    <3>2. CASE k # 0
      <4>1. k \in 1..n /\ 0 + k - 1 = k - 1
        BY <3>2
      <4>2. QED
        BY <2>2, <3>2, <4>1
    <3>3. QED
      BY <3>1, <3>2
  <2>4. QED
    BY <2>1, <2>3
<1>3. Is(g)
  <2> HIDE DEF Row
  <2>1. QED
    BY <1>2
<1>4. Md5Chain(a[0], input, n) = g[n]
  BY DEF Md5Chain, Chain, Steps, After
<1> HIDE DEF g, Row
<1>5. g[0] = b[0] /\ \A k \in 0..(n - 1) : g[k] = b[k] => g[k + 1] = b[k + 1]
  <2>1. g[0] = a[0] /\ b[0] = a[0]
    BY <1>3
  <2>2. \A i \in 1..n : g[i] = Row(g[i - 1], 0 + i - 1)
    BY <1>3
  <2>3. ASSUME NEW k \in 0..(n - 1) PROVE g[k + 1] = Row(g[k], k) /\ b[k + 1] = Row(b[k], k)
    <3>1. k \in 0..n /\ k + 1 \in 0..n /\ k + 1 \in 1..n /\ k + 1 # 0 /\ (k + 1) - 1 = k /\ 0 + (k + 1) - 1 = k
      OBVIOUS
    <3>2. g[k + 1] = Row(g[k], k)
      BY <2>2, <3>1
    <3>3. b[k + 1] = a[k + 1] /\ b[k] = a[k]
      BY <3>1
    <3>4. QED
      BY <1>1, <3>2, <3>3
  <2> HIDE DEF b, Is
  <2>4. QED
    BY <2>1, <2>3
<1>6. b[n] = a[n]
  OBVIOUS
<1> HIDE DEF b, Is
<1>7. g[n] = b[n]
  BY <1>5, SameTrace
<1>8. QED
  BY <1>4, <1>6, <1>7

Sha1Chain(s, input, n) == Chain(Sha1Compress, s, input, n)

Sha1ChainGoes(input, n, a) ==
  \A i \in 0..(n - 1) : a[i + 1] = Sha1Compress(a[i], SubSeq(input, 16 * i + 1, 16 * i + 16))

LEMMA Sha1ChainTrace ==
  ASSUME NEW input, NEW n \in Nat, NEW a, Sha1ChainGoes(input, n, a)
  PROVE  Sha1Chain(a[0], input, n) = a[n]
<1> DEFINE Row(t, i) == Sha1Compress(t, SubSeq(input, 16 * i + 1, 16 * i + 16))
           Is(f) == f = [k \in 0..n |->
              IF k = 0 THEN a[0] ELSE [t \in {f[k - 1]} |-> Row(t, 0 + k - 1)][f[k - 1]]]
           g == CHOOSE f : Is(f)
           b == [k \in 0..n |-> a[k]]
<1>1. \A k \in 0..(n - 1) : Row(a[k], k) = a[k + 1]
  BY DEF Sha1ChainGoes
<1>2. Is(b)
  <2> HIDE DEF Row
  <2>1. b[0] = a[0] /\ b = [k \in 0..n |-> b[k]]
    OBVIOUS
  <2>2. ASSUME NEW k \in 1..n PROVE b[k] = Row(b[k - 1], k - 1)
    <3>1. k - 1 \in 0..(n - 1) /\ (k - 1) + 1 = k /\ k \in 0..n /\ k - 1 \in 0..n
      OBVIOUS
    <3>2. QED
      BY <1>1, <3>1
  <2> HIDE DEF b
  <2>3. ASSUME NEW k \in 0..n
        PROVE  b[k] = IF k = 0 THEN a[0] ELSE [t \in {b[k - 1]} |-> Row(t, 0 + k - 1)][b[k - 1]]
    <3>1. CASE k = 0
      BY <2>1, <3>1
    <3>2. CASE k # 0
      <4>1. k \in 1..n /\ 0 + k - 1 = k - 1
        BY <3>2
      <4>2. QED
        BY <2>2, <3>2, <4>1
    <3>3. QED
      BY <3>1, <3>2
  <2>4. QED
    BY <2>1, <2>3
<1>3. Is(g)
  <2> HIDE DEF Row
  <2>1. QED
    BY <1>2
<1>4. Sha1Chain(a[0], input, n) = g[n]
  BY DEF Sha1Chain, Chain, Steps, After
<1> HIDE DEF g, Row
<1>5. g[0] = b[0] /\ \A k \in 0..(n - 1) : g[k] = b[k] => g[k + 1] = b[k + 1]
  <2>1. g[0] = a[0] /\ b[0] = a[0]
    BY <1>3
  <2>2. \A i \in 1..n : g[i] = Row(g[i - 1], 0 + i - 1)
    BY <1>3
  <2>3. ASSUME NEW k \in 0..(n - 1) PROVE g[k + 1] = Row(g[k], k) /\ b[k + 1] = Row(b[k], k)
    <3>1. k \in 0..n /\ k + 1 \in 0..n /\ k + 1 \in 1..n /\ k + 1 # 0 /\ (k + 1) - 1 = k /\ 0 + (k + 1) - 1 = k
      OBVIOUS
    <3>2. g[k + 1] = Row(g[k], k)
      BY <2>2, <3>1
    <3>3. b[k + 1] = a[k + 1] /\ b[k] = a[k]
      BY <3>1
    <3>4. QED
      BY <1>1, <3>2, <3>3
  <2> HIDE DEF b, Is
  <2>4. QED
    BY <2>1, <2>3
<1>6. b[n] = a[n]
  OBVIOUS
<1> HIDE DEF b, Is
<1>7. g[n] = b[n]
  BY <1>5, SameTrace
<1>8. QED
  BY <1>4, <1>6, <1>7

RmdChain(s, input, n) == Chain(RmdCompress, s, input, n)

RmdChainGoes(input, n, a) ==
  \A i \in 0..(n - 1) : a[i + 1] = RmdCompress(a[i], SubSeq(input, 16 * i + 1, 16 * i + 16))

LEMMA RmdChainTrace ==
  ASSUME NEW input, NEW n \in Nat, NEW a, RmdChainGoes(input, n, a)
  PROVE  RmdChain(a[0], input, n) = a[n]
<1> DEFINE Row(t, i) == RmdCompress(t, SubSeq(input, 16 * i + 1, 16 * i + 16))
           Is(f) == f = [k \in 0..n |->
              IF k = 0 THEN a[0] ELSE [t \in {f[k - 1]} |-> Row(t, 0 + k - 1)][f[k - 1]]]
           g == CHOOSE f : Is(f)
           b == [k \in 0..n |-> a[k]]
<1>1. \A k \in 0..(n - 1) : Row(a[k], k) = a[k + 1]
  BY DEF RmdChainGoes
<1>2. Is(b)
  <2> HIDE DEF Row
  <2>1. b[0] = a[0] /\ b = [k \in 0..n |-> b[k]]
    OBVIOUS
  <2>2. ASSUME NEW k \in 1..n PROVE b[k] = Row(b[k - 1], k - 1)
    <3>1. k - 1 \in 0..(n - 1) /\ (k - 1) + 1 = k /\ k \in 0..n /\ k - 1 \in 0..n
      OBVIOUS
    <3>2. QED
      BY <1>1, <3>1
  <2> HIDE DEF b
  <2>3. ASSUME NEW k \in 0..n
        PROVE  b[k] = IF k = 0 THEN a[0] ELSE [t \in {b[k - 1]} |-> Row(t, 0 + k - 1)][b[k - 1]]
    <3>1. CASE k = 0
      BY <2>1, <3>1
    <3>2. CASE k # 0
      <4>1. k \in 1..n /\ 0 + k - 1 = k - 1
        BY <3>2
      <4>2. QED
        BY <2>2, <3>2, <4>1
    <3>3. QED
      BY <3>1, <3>2
  <2>4. QED
    BY <2>1, <2>3
<1>3. Is(g)
  <2> HIDE DEF Row
  <2>1. QED
    BY <1>2
<1>4. RmdChain(a[0], input, n) = g[n]
  BY DEF RmdChain, Chain, Steps, After
<1> HIDE DEF g, Row
<1>5. g[0] = b[0] /\ \A k \in 0..(n - 1) : g[k] = b[k] => g[k + 1] = b[k + 1]
  <2>1. g[0] = a[0] /\ b[0] = a[0]
    BY <1>3
  <2>2. \A i \in 1..n : g[i] = Row(g[i - 1], 0 + i - 1)
    BY <1>3
  <2>3. ASSUME NEW k \in 0..(n - 1) PROVE g[k + 1] = Row(g[k], k) /\ b[k + 1] = Row(b[k], k)
    <3>1. k \in 0..n /\ k + 1 \in 0..n /\ k + 1 \in 1..n /\ k + 1 # 0 /\ (k + 1) - 1 = k /\ 0 + (k + 1) - 1 = k
      OBVIOUS
    <3>2. g[k + 1] = Row(g[k], k)
      BY <2>2, <3>1
    <3>3. b[k + 1] = a[k + 1] /\ b[k] = a[k]
      BY <3>1
    <3>4. QED
      BY <1>1, <3>2, <3>3
  <2> HIDE DEF b, Is
  <2>4. QED
    BY <2>1, <2>3
<1>6. b[n] = a[n]
  OBVIOUS
<1> HIDE DEF b, Is
<1>7. g[n] = b[n]
  BY <1>5, SameTrace
<1>8. QED
  BY <1>4, <1>6, <1>7

Sha2Chain(h, s, input, n) == Chain(LAMBDA d, w : Sha2Compress(h, d, w), s, input, n)

Sha2ChainGoes(h, input, n, a) ==
  \A i \in 0..(n - 1) : a[i + 1] = Sha2Compress(h, a[i], SubSeq(input, 16 * i + 1, 16 * i + 16))

LEMMA Sha2ChainTrace ==
  ASSUME NEW h, NEW input, NEW n \in Nat, NEW a, Sha2ChainGoes(h, input, n, a)
  PROVE  Sha2Chain(h, a[0], input, n) = a[n]
<1> DEFINE Row(t, i) == Sha2Compress(h, t, SubSeq(input, 16 * i + 1, 16 * i + 16))
           Is(f) == f = [k \in 0..n |->
              IF k = 0 THEN a[0] ELSE [t \in {f[k - 1]} |-> Row(t, 0 + k - 1)][f[k - 1]]]
           g == CHOOSE f : Is(f)
           b == [k \in 0..n |-> a[k]]
<1>1. \A k \in 0..(n - 1) : Row(a[k], k) = a[k + 1]
  BY DEF Sha2ChainGoes
<1>2. Is(b)
  <2> HIDE DEF Row
  <2>1. b[0] = a[0] /\ b = [k \in 0..n |-> b[k]]
    OBVIOUS
  <2>2. ASSUME NEW k \in 1..n PROVE b[k] = Row(b[k - 1], k - 1)
    <3>1. k - 1 \in 0..(n - 1) /\ (k - 1) + 1 = k /\ k \in 0..n /\ k - 1 \in 0..n
      OBVIOUS
    <3>2. QED
      BY <1>1, <3>1
  <2> HIDE DEF b
  <2>3. ASSUME NEW k \in 0..n
        PROVE  b[k] = IF k = 0 THEN a[0] ELSE [t \in {b[k - 1]} |-> Row(t, 0 + k - 1)][b[k - 1]]
    <3>1. CASE k = 0
      BY <2>1, <3>1
    <3>2. CASE k # 0
      <4>1. k \in 1..n /\ 0 + k - 1 = k - 1
        BY <3>2
      <4>2. QED
        BY <2>2, <3>2, <4>1
    <3>3. QED
      BY <3>1, <3>2
  <2>4. QED
    BY <2>1, <2>3
<1>3. Is(g)
  <2> HIDE DEF Row
  <2>1. QED
    BY <1>2
<1>4. Sha2Chain(h, a[0], input, n) = g[n]
  BY DEF Sha2Chain, Chain, Steps, After
<1> HIDE DEF g, Row
<1>5. g[0] = b[0] /\ \A k \in 0..(n - 1) : g[k] = b[k] => g[k + 1] = b[k + 1]
  <2>1. g[0] = a[0] /\ b[0] = a[0]
    BY <1>3
  <2>2. \A i \in 1..n : g[i] = Row(g[i - 1], 0 + i - 1)
    BY <1>3
  <2>3. ASSUME NEW k \in 0..(n - 1) PROVE g[k + 1] = Row(g[k], k) /\ b[k + 1] = Row(b[k], k)
    <3>1. k \in 0..n /\ k + 1 \in 0..n /\ k + 1 \in 1..n /\ k + 1 # 0 /\ (k + 1) - 1 = k /\ 0 + (k + 1) - 1 = k
      OBVIOUS
    <3>2. g[k + 1] = Row(g[k], k)
      BY <2>2, <3>1
    <3>3. b[k + 1] = a[k + 1] /\ b[k] = a[k]
      BY <3>1
    <3>4. QED
      BY <1>1, <3>2, <3>3
  <2> HIDE DEF b, Is
  <2>4. QED
    BY <2>1, <2>3
<1>6. b[n] = a[n]
  OBVIOUS
<1> HIDE DEF b, Is
<1>7. g[n] = b[n]
  BY <1>5, SameTrace
<1>8. QED
  BY <1>4, <1>6, <1>7

Sha2tChain(h, s, input, n) == Chain(LAMBDA d, w : Sha2tTransform(h, d, w), s, input, n)

Sha2tChainGoes(h, input, n, a) ==
  \A i \in 0..(n - 1) : a[i + 1] = Sha2tTransform(h, a[i], SubSeq(input, 16 * i + 1, 16 * i + 16))

LEMMA Sha2tChainTrace ==
  ASSUME NEW h, NEW input, NEW n \in Nat, NEW a, Sha2tChainGoes(h, input, n, a)
  PROVE  Sha2tChain(h, a[0], input, n) = a[n]
<1> DEFINE Row(t, i) == Sha2tTransform(h, t, SubSeq(input, 16 * i + 1, 16 * i + 16))
           Is(f) == f = [k \in 0..n |->
              IF k = 0 THEN a[0] ELSE [t \in {f[k - 1]} |-> Row(t, 0 + k - 1)][f[k - 1]]]
           g == CHOOSE f : Is(f)
           b == [k \in 0..n |-> a[k]]
<1>1. \A k \in 0..(n - 1) : Row(a[k], k) = a[k + 1]
  BY DEF Sha2tChainGoes
<1>2. Is(b)
  <2> HIDE DEF Row
  <2>1. b[0] = a[0] /\ b = [k \in 0..n |-> b[k]]
    OBVIOUS
  <2>2. ASSUME NEW k \in 1..n PROVE b[k] = Row(b[k - 1], k - 1)
    <3>1. k - 1 \in 0..(n - 1) /\ (k - 1) + 1 = k /\ k \in 0..n /\ k - 1 \in 0..n
      OBVIOUS
    <3>2. QED
      BY <1>1, <3>1
  <2> HIDE DEF b
  <2>3. ASSUME NEW k \in 0..n
        PROVE  b[k] = IF k = 0 THEN a[0] ELSE [t \in {b[k - 1]} |-> Row(t, 0 + k - 1)][b[k - 1]]
    <3>1. CASE k = 0
      BY <2>1, <3>1
    <3>2. CASE k # 0
      <4>1. k \in 1..n /\ 0 + k - 1 = k - 1
        BY <3>2
      <4>2. QED
        BY <2>2, <3>2, <4>1
    <3>3. QED
      BY <3>1, <3>2
  <2>4. QED
    BY <2>1, <2>3
<1>3. Is(g)
  <2> HIDE DEF Row
  <2>1. QED
    BY <1>2
<1>4. Sha2tChain(h, a[0], input, n) = g[n]
  BY DEF Sha2tChain, Chain, Steps, After
<1> HIDE DEF g, Row
<1>5. g[0] = b[0] /\ \A k \in 0..(n - 1) : g[k] = b[k] => g[k + 1] = b[k + 1]
  <2>1. g[0] = a[0] /\ b[0] = a[0]
    BY <1>3
  <2>2. \A i \in 1..n : g[i] = Row(g[i - 1], 0 + i - 1)
    BY <1>3
  <2>3. ASSUME NEW k \in 0..(n - 1) PROVE g[k + 1] = Row(g[k], k) /\ b[k + 1] = Row(b[k], k)
    <3>1. k \in 0..n /\ k + 1 \in 0..n /\ k + 1 \in 1..n /\ k + 1 # 0 /\ (k + 1) - 1 = k /\ 0 + (k + 1) - 1 = k
      OBVIOUS
    <3>2. g[k + 1] = Row(g[k], k)
      BY <2>2, <3>1
    <3>3. b[k + 1] = a[k + 1] /\ b[k] = a[k]
      BY <3>1
    <3>4. QED
      BY <1>1, <3>2, <3>3
  <2> HIDE DEF b, Is
  <2>4. QED
    BY <2>1, <2>3
<1>6. b[n] = a[n]
  OBVIOUS
<1> HIDE DEF b, Is
<1>7. g[n] = b[n]
  BY <1>5, SameTrace
<1>8. QED
  BY <1>4, <1>6, <1>7

FixedChain(h, s, input, n) == Chain(LAMBDA e, x : Standard(h, e, x), s, input, n)

FixedChainGoes(h, input, n, a) ==
  \A i \in 0..(n - 1) : a[i + 1] = Standard(h, a[i], SubSeq(input, 16 * i + 1, 16 * i + 16))

LEMMA FixedChainTrace ==
  ASSUME NEW h, NEW input, NEW n \in Nat, NEW a, FixedChainGoes(h, input, n, a)
  PROVE  FixedChain(h, a[0], input, n) = a[n]
<1> DEFINE Row(t, i) == Standard(h, t, SubSeq(input, 16 * i + 1, 16 * i + 16))
           Is(f) == f = [k \in 0..n |->
              IF k = 0 THEN a[0] ELSE [t \in {f[k - 1]} |-> Row(t, 0 + k - 1)][f[k - 1]]]
           g == CHOOSE f : Is(f)
           b == [k \in 0..n |-> a[k]]
<1>1. \A k \in 0..(n - 1) : Row(a[k], k) = a[k + 1]
  BY DEF FixedChainGoes
<1>2. Is(b)
  <2> HIDE DEF Row
  <2>1. b[0] = a[0] /\ b = [k \in 0..n |-> b[k]]
    OBVIOUS
  <2>2. ASSUME NEW k \in 1..n PROVE b[k] = Row(b[k - 1], k - 1)
    <3>1. k - 1 \in 0..(n - 1) /\ (k - 1) + 1 = k /\ k \in 0..n /\ k - 1 \in 0..n
      OBVIOUS
    <3>2. QED
      BY <1>1, <3>1
  <2> HIDE DEF b
  <2>3. ASSUME NEW k \in 0..n
        PROVE  b[k] = IF k = 0 THEN a[0] ELSE [t \in {b[k - 1]} |-> Row(t, 0 + k - 1)][b[k - 1]]
    <3>1. CASE k = 0
      BY <2>1, <3>1
    <3>2. CASE k # 0
      <4>1. k \in 1..n /\ 0 + k - 1 = k - 1
        BY <3>2
      <4>2. QED
        BY <2>2, <3>2, <4>1
    <3>3. QED
      BY <3>1, <3>2
  <2>4. QED
    BY <2>1, <2>3
<1>3. Is(g)
  <2> HIDE DEF Row
  <2>1. QED
    BY <1>2
<1>4. FixedChain(h, a[0], input, n) = g[n]
  BY DEF FixedChain, Chain, Steps, After
<1> HIDE DEF g, Row
<1>5. g[0] = b[0] /\ \A k \in 0..(n - 1) : g[k] = b[k] => g[k + 1] = b[k + 1]
  <2>1. g[0] = a[0] /\ b[0] = a[0]
    BY <1>3
  <2>2. \A i \in 1..n : g[i] = Row(g[i - 1], 0 + i - 1)
    BY <1>3
  <2>3. ASSUME NEW k \in 0..(n - 1) PROVE g[k + 1] = Row(g[k], k) /\ b[k + 1] = Row(b[k], k)
    <3>1. k \in 0..n /\ k + 1 \in 0..n /\ k + 1 \in 1..n /\ k + 1 # 0 /\ (k + 1) - 1 = k /\ 0 + (k + 1) - 1 = k
      OBVIOUS
    <3>2. g[k + 1] = Row(g[k], k)
      BY <2>2, <3>1
    <3>3. b[k + 1] = a[k + 1] /\ b[k] = a[k]
      BY <3>1
    <3>4. QED
      BY <1>1, <3>2, <3>3
  <2> HIDE DEF b, Is
  <2>4. QED
    BY <2>1, <2>3
<1>6. b[n] = a[n]
  OBVIOUS
<1> HIDE DEF b, Is
<1>7. g[n] = b[n]
  BY <1>5, SameTrace
<1>8. QED
  BY <1>4, <1>6, <1>7

-----------------------------------------------------------------------------
\* The words of a block, in either byte order.

\* Sixteen words of n bytes from the i-th block of a message.
Spot(big, n, i, k, j) == 16 * n * i + n * (k - 1) + (IF big THEN j ELSE n + 1 - j)
Block(big, n, m, i) == [k \in 1..16 |-> [j \in 1..n |-> m[Spot(big, n, i, k, j)]]]

\* A message of l bytes has an i-th block.
Has(n, l, i) == 16 * n * (i + 1) <= l

LEMMA BlockPlaces ==
  ASSUME NEW n \in Width, NEW l \in Nat, NEW i \in Nat, Has(n, l, i), NEW k \in 1..16
  PROVE  /\ 16 * i + k \in 1..(l \div n)
         /\ n * ((16 * i + k) - 1) + 1 = 16 * n * i + n * (k - 1) + 1
         /\ n * (16 * i + k) = 16 * n * i + n * (k - 1) + n
         /\ 16 * n * i + n * (k - 1) + 1 \in 1..l
         /\ 16 * n * i + n * (k - 1) + n \in 1..l
<1>1. CASE n = 4
  BY <1>1 DEF Has
<1>2. CASE n = 8
  BY <1>2 DEF Has
<1>3. QED
  BY <1>1, <1>2 DEF Width

LEMMA BlockIs ==
  ASSUME NEW n \in Width, NEW m \in Seq(Byte), NEW i \in Nat, Has(n, Len(m), i),
         NEW big \in BOOLEAN
  PROVE  Block(big, n, m, i) \in Registers(16, n)
<1> DEFINE at(k, j) == Spot(big, n, i, k, j)
<1>1. ASSUME NEW k \in 1..16, NEW j \in 1..n PROVE m[at(k, j)] \in Byte
  <2>1. at(k, j) \in 1..Len(m)
    <3>1. Len(m) \in Nat
      OBVIOUS
    <3>2. CASE n = 4
      BY <3>1, <3>2 DEF Spot, Has
    <3>3. CASE n = 8
      BY <3>1, <3>3 DEF Spot, Has
    <3>4. QED
      BY <3>2, <3>3 DEF Width
  <2> HIDE DEF at
  <2>2. QED
    BY <2>1
<1>2. ASSUME NEW k \in 1..16 PROVE [j \in 1..n |-> m[at(k, j)]] \in Bytes(n)
  <2> HIDE DEF at
  <2>1. QED
    BY <1>1 DEF Bytes
<1>3. Block(big, n, m, i) = [k \in 1..16 |-> [j \in 1..n |-> m[at(k, j)]]]
  BY DEF Block
<1> HIDE DEF at
<1>4. QED
  BY <1>2, <1>3 DEF Registers

\* What a kernel reads for its i-th block, in either order.
LEMMA BigBlock ==
  ASSUME NEW n \in Width, NEW m \in Seq(Byte), NEW i \in Nat, Has(n, Len(m), i)
  PROVE  SubSeq(BigEndian(m, n), 16 * i + 1, 16 * i + 16) = Block(TRUE, n, m, i)
<1> DEFINE b == BigEndian(m, n)
           l == Len(m) \div n
           word(k) == SubSeq(m, n * (k - 1) + 1, n * k)
<1>0. Len(m) \in Nat /\ n \in Nat /\ l \in Nat
  <2>1. Len(m) \in Nat
    OBVIOUS
  <2>2. QED
    BY <2>1 DEF Width
<1>1. b = [k \in 1..l |-> word(k)]
  BY DEF BigEndian
<1>2. ASSUME NEW k \in 1..16
      PROVE  16 * i + k \in 1..l /\ b[16 * i + k] = [j \in 1..n |-> m[Spot(TRUE, n, i, k, j)]]
  <2> DEFINE c == 16 * n * i + n * (k - 1) + 1
             d == 16 * n * i + n * (k - 1) + n
  <2>1. /\ 16 * i + k \in 1..l /\ c \in 1..Len(m) /\ d \in 1..Len(m)
        /\ n * ((16 * i + k) - 1) + 1 = c /\ n * (16 * i + k) = d
    <3> DEFINE L == Len(m)
    <3>1. L \in Nat /\ Has(n, L, i)
      BY <1>0
    <3> HIDE DEF L
    <3>2. /\ 16 * i + k \in 1..(L \div n)
          /\ n * ((16 * i + k) - 1) + 1 = 16 * n * i + n * (k - 1) + 1
          /\ n * (16 * i + k) = 16 * n * i + n * (k - 1) + n
          /\ 16 * n * i + n * (k - 1) + 1 \in 1..L
          /\ 16 * n * i + n * (k - 1) + n \in 1..L
      BY <3>1, BlockPlaces
    <3>3. QED
      BY <3>2 DEF L
  <2>2. b[16 * i + k] = SubSeq(m, c, d)
    <3>1. b[16 * i + k] = word(16 * i + k)
      <4> HIDE DEF word, b, l
      <4>1. QED
        BY <1>1, <2>1
    <3> HIDE DEF b, l, c, d
    <3>2. QED
      BY <2>1, <3>1
  <2>3. d - c + 1 = n /\ \A j \in 1..n : c + j - 1 = Spot(TRUE, n, i, k, j)
    <3>1. CASE n = 4
      BY <3>1 DEF Spot
    <3>2. CASE n = 8
      BY <3>2 DEF Spot
    <3>3. QED
      BY <3>1, <3>2 DEF Width
  <2> HIDE DEF c, d
  <2>4. SubSeq(m, c, d) = [j \in 1..(d - c + 1) |-> m[c + j - 1]]
    BY <2>1
  <2>5. QED
    BY <2>1, <2>2, <2>3, <2>4
<1>3. Len(b) = l /\ b \in Seq({word(k) : k \in 1..l})
  <2> HIDE DEF word
  <2>1. b = [k \in 1..l |-> word(k)] /\ l \in Nat
    BY <1>0, <1>1
  <2> HIDE DEF b, l
  <2>2. QED
    BY <2>1
<1> HIDE DEF b, l, word
<1>4. SubSeq(b, 16 * i + 1, 16 * i + 16) = [k \in 1..16 |-> b[16 * i + k]]
  <2>1. 16 * i + 1 \in 1..l /\ 16 * i + 16 \in 1..l
    BY <1>2
  <2>2. SubSeq(b, 16 * i + 1, 16 * i + 16) =
          [k \in 1..((16 * i + 16) - (16 * i + 1) + 1) |-> b[(16 * i + 1) + k - 1]]
    BY <1>3, <2>1
  <2>3. (16 * i + 16) - (16 * i + 1) + 1 = 16 /\ \A k \in 1..16 : (16 * i + 1) + k - 1 = 16 * i + k
    OBVIOUS
  <2>4. QED
    BY <2>2, <2>3
<1>5. SubSeq(b, 16 * i + 1, 16 * i + 16) = Block(TRUE, n, m, i)
  BY <1>2, <1>4 DEF Block
<1>6. QED
  BY <1>5 DEF b

LEMMA LittleBlock ==
  ASSUME NEW n \in Width, NEW m \in Seq(Byte), NEW i \in Nat, Has(n, Len(m), i)
  PROVE  SubSeq(LittleEndian(m, n), 16 * i + 1, 16 * i + 16) = Block(FALSE, n, m, i)
<1> DEFINE b == LittleEndian(m, n)
           l == Len(m) \div n
           word(k) == [j \in 1..n |-> m[n * k + 1 - j]]
<1>0. Len(m) \in Nat /\ n \in Nat /\ l \in Nat
  <2>1. Len(m) \in Nat
    OBVIOUS
  <2>2. QED
    BY <2>1 DEF Width
<1>1. b = [k \in 1..l |-> word(k)]
  BY DEF LittleEndian
<1>2. ASSUME NEW k \in 1..16
      PROVE  /\ 16 * i + k \in 1..l
             /\ b[16 * i + k] = [j \in 1..n |-> m[Spot(FALSE, n, i, k, j)]]
  <2>1. 16 * i + k \in 1..l
    BY <1>0, BlockPlaces
  <2>2. b[16 * i + k] = word(16 * i + k)
    <3> HIDE DEF word
    <3>1. QED
      BY <1>1, <2>1
  <2>3. \A j \in 1..n : n * (16 * i + k) + 1 - j = Spot(FALSE, n, i, k, j)
    <3>1. CASE n = 4
      BY <3>1 DEF Spot
    <3>2. CASE n = 8
      BY <3>2 DEF Spot
    <3>3. QED
      BY <3>1, <3>2 DEF Width
  <2>4. QED
    BY <2>1, <2>2, <2>3
<1>3. Len(b) = l /\ b \in Seq({word(k) : k \in 1..l})
  <2> HIDE DEF word
  <2>1. b = [k \in 1..l |-> word(k)] /\ l \in Nat
    BY <1>0, <1>1
  <2> HIDE DEF b, l
  <2>2. QED
    BY <2>1
<1> HIDE DEF b, l, word
<1>4. SubSeq(b, 16 * i + 1, 16 * i + 16) = [k \in 1..16 |-> b[16 * i + k]]
  <2>1. 16 * i + 1 \in 1..l /\ 16 * i + 16 \in 1..l
    BY <1>2
  <2>2. SubSeq(b, 16 * i + 1, 16 * i + 16) =
          [k \in 1..((16 * i + 16) - (16 * i + 1) + 1) |-> b[(16 * i + 1) + k - 1]]
    BY <1>3, <2>1
  <2>3. (16 * i + 16) - (16 * i + 1) + 1 = 16 /\ \A k \in 1..16 : (16 * i + 1) + k - 1 = 16 * i + k
    OBVIOUS
  <2>4. QED
    BY <2>2, <2>3
<1>5. SubSeq(b, 16 * i + 1, 16 * i + 16) = Block(FALSE, n, m, i)
  BY <1>2, <1>4 DEF Block
<1>6. QED
  BY <1>5 DEF b

-----------------------------------------------------------------------------
\* The hashes, and the states a message goes through.

Names == {"md4", "md5", "ripemd160", "sha1", "sha2_224", "sha2_256", "sha2_384", "sha2_512"}

LEMMA NamesAre == DOMAIN Hashes = Names
BY DEF Hashes, Names

\* What is common to the parameters of all hashes.
ParamsFit(p) ==
  /\ p.WORD_BYTES \in Width /\ p.WORD_BYTES \in Nat
  /\ p.BLOCK_LENGTH \in Nat /\ p.BLOCK_LENGTH = 16 * p.WORD_BYTES
  /\ p.STATE_WORDS \in {4, 5, 8}
  /\ p.DIGEST_LENGTH \in Nat /\ p.DIGEST_LENGTH # 0 /\ p.DIGEST_LENGTH % p.WORD_BYTES = 0
  /\ p.DIGEST_LENGTH <= p.STATE_WORDS * p.WORD_BYTES
  /\ p.BIG_ENDIAN \in BOOLEAN

\* The parameters a name decides.
Shape(h, big, n, m) ==
  /\ Hashes[h].BIG_ENDIAN = big /\ Hashes[h].WORD_BYTES = n /\ Hashes[h].STATE_WORDS = m

LEMMA Shapes ==
  /\ Shape("md4", FALSE, 4, 4) /\ Shape("md5", FALSE, 4, 4) /\ Shape("ripemd160", FALSE, 4, 5)
  /\ Shape("sha1", TRUE, 4, 5) /\ Shape("sha2_224", TRUE, 4, 8) /\ Shape("sha2_256", TRUE, 4, 8)
  /\ Shape("sha2_384", TRUE, 8, 8) /\ Shape("sha2_512", TRUE, 8, 8)
<1>1. Shape("md4", FALSE, 4, 4)
  <2>1. MD4.BIG_ENDIAN = FALSE /\ MD4.WORD_BYTES = 4 /\ MD4.STATE_WORDS = 4
    BY DEF MD4, MD4_BIG_ENDIAN
  <2>2. QED
    BY <2>1 DEF Hashes, Shape
<1>2. Shape("md5", FALSE, 4, 4)
  <2>1. MD5.BIG_ENDIAN = FALSE /\ MD5.WORD_BYTES = 4 /\ MD5.STATE_WORDS = 4
    BY DEF MD5, MD5_BIG_ENDIAN
  <2>2. QED
    BY <2>1 DEF Hashes, Shape
<1>3. Shape("ripemd160", FALSE, 4, 5)
  <2>1. RIPEMD160.BIG_ENDIAN = FALSE /\ RIPEMD160.WORD_BYTES = 4 /\ RIPEMD160.STATE_WORDS = 5
    BY DEF RIPEMD160, RIPEMD160_BIG_ENDIAN
  <2>2. QED
    BY <2>1 DEF Hashes, Shape
<1>4. Shape("sha1", TRUE, 4, 5)
  <2>1. SHA1.BIG_ENDIAN = TRUE /\ SHA1.WORD_BYTES = 4 /\ SHA1.STATE_WORDS = 5
    BY DEF SHA1, SHA1_BIG_ENDIAN
  <2>2. QED
    BY <2>1 DEF Hashes, Shape
<1>5. Shape("sha2_224", TRUE, 4, 8)
  <2>1. SHA2_224.BIG_ENDIAN = TRUE /\ SHA2_224.WORD_BYTES = 4 /\ SHA2_224.STATE_WORDS = 8
    BY DEF SHA2_224, SHA2_224_BIG_ENDIAN
  <2>2. QED
    BY <2>1 DEF Hashes, Shape
<1>6. Shape("sha2_256", TRUE, 4, 8)
  <2>1. SHA2_256.BIG_ENDIAN = TRUE /\ SHA2_256.WORD_BYTES = 4 /\ SHA2_256.STATE_WORDS = 8
    BY DEF SHA2_256, SHA2_256_BIG_ENDIAN
  <2>2. QED
    BY <2>1 DEF Hashes, Shape
<1>7. Shape("sha2_384", TRUE, 8, 8)
  <2>1. SHA2_384.BIG_ENDIAN = TRUE /\ SHA2_384.WORD_BYTES = 8 /\ SHA2_384.STATE_WORDS = 8
    BY DEF SHA2_384, SHA2_384_BIG_ENDIAN
  <2>2. QED
    BY <2>1 DEF Hashes, Shape
<1>8. Shape("sha2_512", TRUE, 8, 8)
  <2>1. SHA2_512.BIG_ENDIAN = TRUE /\ SHA2_512.WORD_BYTES = 8 /\ SHA2_512.STATE_WORDS = 8
    BY DEF SHA2_512, SHA2_512_BIG_ENDIAN
  <2>2. QED
    BY <2>1 DEF Hashes, Shape
<1>9. QED
  BY <1>1, <1>2, <1>3, <1>4, <1>5, <1>6, <1>7, <1>8

LEMMA AllFit == ASSUME NEW h \in DOMAIN Hashes PROVE ParamsFit(Hashes[h])
<1>1. ParamsFit(MD4)
  <2>1. /\ MD4.BIG_ENDIAN = FALSE /\ MD4.WORD_BYTES = 4 /\ MD4.STATE_WORDS = 4
        /\ MD4.BLOCK_LENGTH = 64 /\ MD4.DIGEST_LENGTH = 16
    BY DEF MD4, MD4_BIG_ENDIAN
  <2>2. 16 % 4 = 0 /\ 16 <= 4 * 4 /\ 64 = 16 * 4 /\ 16 \in Nat /\ 64 \in Nat /\ 4 \in Nat
    OBVIOUS
  <2>3. MD4.DIGEST_LENGTH % MD4.WORD_BYTES = 0
    BY <2>1, <2>2
  <2>4. MD4.DIGEST_LENGTH <= MD4.STATE_WORDS * MD4.WORD_BYTES
    BY <2>1, <2>2
  <2>5. MD4.BLOCK_LENGTH = 16 * MD4.WORD_BYTES /\ MD4.DIGEST_LENGTH # 0
    BY <2>1, <2>2
  <2>6. QED
    BY <2>1, <2>2, <2>3, <2>4, <2>5, Zenon DEF ParamsFit, Width
<1>2. ParamsFit(MD5)
  <2>1. /\ MD5.BIG_ENDIAN = FALSE /\ MD5.WORD_BYTES = 4 /\ MD5.STATE_WORDS = 4
        /\ MD5.BLOCK_LENGTH = 64 /\ MD5.DIGEST_LENGTH = 16
    BY DEF MD5, MD5_BIG_ENDIAN
  <2>2. 16 % 4 = 0 /\ 16 <= 4 * 4 /\ 64 = 16 * 4 /\ 16 \in Nat /\ 64 \in Nat /\ 4 \in Nat
    OBVIOUS
  <2>3. MD5.DIGEST_LENGTH % MD5.WORD_BYTES = 0
    BY <2>1, <2>2
  <2>4. MD5.DIGEST_LENGTH <= MD5.STATE_WORDS * MD5.WORD_BYTES
    BY <2>1, <2>2
  <2>5. MD5.BLOCK_LENGTH = 16 * MD5.WORD_BYTES /\ MD5.DIGEST_LENGTH # 0
    BY <2>1, <2>2
  <2>6. QED
    BY <2>1, <2>2, <2>3, <2>4, <2>5, Zenon DEF ParamsFit, Width
<1>3. ParamsFit(RIPEMD160)
  <2>1. /\ RIPEMD160.BIG_ENDIAN = FALSE /\ RIPEMD160.WORD_BYTES = 4 /\ RIPEMD160.STATE_WORDS = 5
        /\ RIPEMD160.BLOCK_LENGTH = 64 /\ RIPEMD160.DIGEST_LENGTH = 20
    BY DEF RIPEMD160, RIPEMD160_BIG_ENDIAN
  <2>2. 20 % 4 = 0 /\ 20 <= 5 * 4 /\ 64 = 16 * 4 /\ 20 \in Nat /\ 64 \in Nat /\ 4 \in Nat
    OBVIOUS
  <2>3. RIPEMD160.DIGEST_LENGTH % RIPEMD160.WORD_BYTES = 0
    BY <2>1, <2>2
  <2>4. RIPEMD160.DIGEST_LENGTH <= RIPEMD160.STATE_WORDS * RIPEMD160.WORD_BYTES
    BY <2>1, <2>2
  <2>5. RIPEMD160.BLOCK_LENGTH = 16 * RIPEMD160.WORD_BYTES /\ RIPEMD160.DIGEST_LENGTH # 0
    BY <2>1, <2>2
  <2>6. QED
    BY <2>1, <2>2, <2>3, <2>4, <2>5, Zenon DEF ParamsFit, Width
<1>4. ParamsFit(SHA1)
  <2>1. /\ SHA1.BIG_ENDIAN = TRUE /\ SHA1.WORD_BYTES = 4 /\ SHA1.STATE_WORDS = 5
        /\ SHA1.BLOCK_LENGTH = 64 /\ SHA1.DIGEST_LENGTH = 20
    BY DEF SHA1, SHA1_BIG_ENDIAN
  <2>2. 20 % 4 = 0 /\ 20 <= 5 * 4 /\ 64 = 16 * 4 /\ 20 \in Nat /\ 64 \in Nat /\ 4 \in Nat
    OBVIOUS
  <2>3. SHA1.DIGEST_LENGTH % SHA1.WORD_BYTES = 0
    BY <2>1, <2>2
  <2>4. SHA1.DIGEST_LENGTH <= SHA1.STATE_WORDS * SHA1.WORD_BYTES
    BY <2>1, <2>2
  <2>5. SHA1.BLOCK_LENGTH = 16 * SHA1.WORD_BYTES /\ SHA1.DIGEST_LENGTH # 0
    BY <2>1, <2>2
  <2>6. QED
    BY <2>1, <2>2, <2>3, <2>4, <2>5, Zenon DEF ParamsFit, Width
<1>5. ParamsFit(SHA2_224)
  <2>1. /\ SHA2_224.BIG_ENDIAN = TRUE /\ SHA2_224.WORD_BYTES = 4 /\ SHA2_224.STATE_WORDS = 8
        /\ SHA2_224.BLOCK_LENGTH = 64 /\ SHA2_224.DIGEST_LENGTH = 28
    BY DEF SHA2_224, SHA2_224_BIG_ENDIAN
  <2>2. 28 % 4 = 0 /\ 28 <= 8 * 4 /\ 64 = 16 * 4 /\ 28 \in Nat /\ 64 \in Nat /\ 4 \in Nat
    OBVIOUS
  <2>3. SHA2_224.DIGEST_LENGTH % SHA2_224.WORD_BYTES = 0
    BY <2>1, <2>2
  <2>4. SHA2_224.DIGEST_LENGTH <= SHA2_224.STATE_WORDS * SHA2_224.WORD_BYTES
    BY <2>1, <2>2
  <2>5. SHA2_224.BLOCK_LENGTH = 16 * SHA2_224.WORD_BYTES /\ SHA2_224.DIGEST_LENGTH # 0
    BY <2>1, <2>2
  <2>6. QED
    BY <2>1, <2>2, <2>3, <2>4, <2>5, Zenon DEF ParamsFit, Width
<1>6. ParamsFit(SHA2_256)
  <2>1. /\ SHA2_256.BIG_ENDIAN = TRUE /\ SHA2_256.WORD_BYTES = 4 /\ SHA2_256.STATE_WORDS = 8
        /\ SHA2_256.BLOCK_LENGTH = 64 /\ SHA2_256.DIGEST_LENGTH = 32
    BY DEF SHA2_256, SHA2_256_BIG_ENDIAN
  <2>2. 32 % 4 = 0 /\ 32 <= 8 * 4 /\ 64 = 16 * 4 /\ 32 \in Nat /\ 64 \in Nat /\ 4 \in Nat
    OBVIOUS
  <2>3. SHA2_256.DIGEST_LENGTH % SHA2_256.WORD_BYTES = 0
    BY <2>1, <2>2
  <2>4. SHA2_256.DIGEST_LENGTH <= SHA2_256.STATE_WORDS * SHA2_256.WORD_BYTES
    BY <2>1, <2>2
  <2>5. SHA2_256.BLOCK_LENGTH = 16 * SHA2_256.WORD_BYTES /\ SHA2_256.DIGEST_LENGTH # 0
    BY <2>1, <2>2
  <2>6. QED
    BY <2>1, <2>2, <2>3, <2>4, <2>5, Zenon DEF ParamsFit, Width
<1>7. ParamsFit(SHA2_384)
  <2>1. /\ SHA2_384.BIG_ENDIAN = TRUE /\ SHA2_384.WORD_BYTES = 8 /\ SHA2_384.STATE_WORDS = 8
        /\ SHA2_384.BLOCK_LENGTH = 128 /\ SHA2_384.DIGEST_LENGTH = 48
    BY DEF SHA2_384, SHA2_384_BIG_ENDIAN
  <2>2. 48 % 8 = 0 /\ 48 <= 8 * 8 /\ 128 = 16 * 8 /\ 48 \in Nat /\ 128 \in Nat /\ 8 \in Nat
    OBVIOUS
  <2>3. SHA2_384.DIGEST_LENGTH % SHA2_384.WORD_BYTES = 0
    BY <2>1, <2>2
  <2>4. SHA2_384.DIGEST_LENGTH <= SHA2_384.STATE_WORDS * SHA2_384.WORD_BYTES
    BY <2>1, <2>2
  <2>5. SHA2_384.BLOCK_LENGTH = 16 * SHA2_384.WORD_BYTES /\ SHA2_384.DIGEST_LENGTH # 0
    BY <2>1, <2>2
  <2>6. QED
    BY <2>1, <2>2, <2>3, <2>4, <2>5, Zenon DEF ParamsFit, Width
<1>8. ParamsFit(SHA2_512)
  <2>1. /\ SHA2_512.BIG_ENDIAN = TRUE /\ SHA2_512.WORD_BYTES = 8 /\ SHA2_512.STATE_WORDS = 8
        /\ SHA2_512.BLOCK_LENGTH = 128 /\ SHA2_512.DIGEST_LENGTH = 64
    BY DEF SHA2_512, SHA2_512_BIG_ENDIAN
  <2>2. 64 % 8 = 0 /\ 64 <= 8 * 8 /\ 128 = 16 * 8 /\ 64 \in Nat /\ 128 \in Nat /\ 8 \in Nat
    OBVIOUS
  <2>3. SHA2_512.DIGEST_LENGTH % SHA2_512.WORD_BYTES = 0
    BY <2>1, <2>2
  <2>4. SHA2_512.DIGEST_LENGTH <= SHA2_512.STATE_WORDS * SHA2_512.WORD_BYTES
    BY <2>1, <2>2
  <2>5. SHA2_512.BLOCK_LENGTH = 16 * SHA2_512.WORD_BYTES /\ SHA2_512.DIGEST_LENGTH # 0
    BY <2>1, <2>2
  <2>6. QED
    BY <2>1, <2>2, <2>3, <2>4, <2>5, Zenon DEF ParamsFit, Width
<1>9. /\ Hashes["md4"] = MD4 /\ Hashes["md5"] = MD5 /\ Hashes["ripemd160"] = RIPEMD160
      /\ Hashes["sha1"] = SHA1 /\ Hashes["sha2_224"] = SHA2_224 /\ Hashes["sha2_256"] = SHA2_256
      /\ Hashes["sha2_384"] = SHA2_384 /\ Hashes["sha2_512"] = SHA2_512
  BY DEF Hashes
<1>10. \/ h = "md4" \/ h = "md5" \/ h = "ripemd160" \/ h = "sha1"
       \/ h = "sha2_224" \/ h = "sha2_256" \/ h = "sha2_384" \/ h = "sha2_512"
  BY NamesAre DEF Names
<1>11. QED
  BY <1>1, <1>2, <1>3, <1>4, <1>5, <1>6, <1>7, <1>8, <1>9, <1>10

\* The chaining states of a hash, and the i-th block of a message as it reads it.
State(h) == Registers(Hashes[h].STATE_WORDS, Hashes[h].WORD_BYTES)
BlockFor(h, m, i) == Block(Hashes[h].BIG_ENDIAN, Hashes[h].WORD_BYTES, m, i)
HasFor(h, m, i) == Has(Hashes[h].WORD_BYTES, Len(m), i)

\* A kernel computes its standard's compression function.
KernelIs(h, d, w) ==
  /\ Standard(h, d, w) \in State(h)
  /\ h = "md4" => Standard(h, d, w) = Md4Compress(d, w)
  /\ h = "md5" => Standard(h, d, w) = Md5Compress(d, w)
  /\ h = "ripemd160" => Standard(h, d, w) = RmdCompress(d, w)
  /\ h = "sha1" => Standard(h, d, w) = Sha1Compress(d, w)
  /\ h \in {"sha2_224", "sha2_256"} =>
       /\ Standard(h, d, w) = Sha2Compress(sha2_256, d, w)
       /\ Standard(h, d, w) = Sha2tTransform(sha2_256, d, w)
  /\ h \in {"sha2_384", "sha2_512"} =>
       /\ Standard(h, d, w) = Sha2Compress(sha2_512, d, w)
       /\ Standard(h, d, w) = Sha2tTransform(sha2_512, d, w)

\* Each kernel in C, and the one in sha2t.c, computes the compression function of its
\* standard, whatever the chaining state and the block: the rounds with registers that
\* change roles, the ring of words and the other forms of choice and majority come to
\* the same.
THEOREM KernelsAre ==
  ASSUME NEW h \in DOMAIN Hashes, NEW d \in State(h),
         NEW w \in Registers(16, Hashes[h].WORD_BYTES)
  PROVE  KernelIs(h, d, w)
<1>1. CASE h = "md4"
  <2>1. State(h) = Registers(4, 4) /\ Hashes[h].WORD_BYTES = 4
    BY <1>1, Shapes DEF State, Shape
  <2>2. Standard(h, d, w) = Md4Standard(d, w)
    BY <1>1 DEF Standard
  <2>3. QED
    BY <1>1, <2>1, <2>2, Md4CompressIs DEF KernelIs
<1>2. CASE h = "md5"
  <2>1. State(h) = Registers(4, 4) /\ Hashes[h].WORD_BYTES = 4
    BY <1>2, Shapes DEF State, Shape
  <2>2. Standard(h, d, w) = Md5Standard(d, w)
    BY <1>2 DEF Standard
  <2>3. QED
    BY <1>2, <2>1, <2>2, Md5CompressIs DEF KernelIs
<1>3. CASE h = "ripemd160"
  <2>1. State(h) = Registers(5, 4) /\ Hashes[h].WORD_BYTES = 4
    BY <1>3, Shapes DEF State, Shape
  <2>2. Standard(h, d, w) = RmdStandard(d, w)
    BY <1>3 DEF Standard
  <2>3. QED
    BY <1>3, <2>1, <2>2, RmdCompressIs DEF KernelIs
<1>4. CASE h = "sha1"
  <2>1. State(h) = Registers(5, 4) /\ Hashes[h].WORD_BYTES = 4
    BY <1>4, Shapes DEF State, Shape
  <2>2. Standard(h, d, w) = Sha1Standard(d, w)
    BY <1>4 DEF Standard
  <2>3. QED
    BY <1>4, <2>1, <2>2, Sha1CompressIs DEF KernelIs
<1>5. CASE h \in {"sha2_224", "sha2_256"}
  <2>1. State(h) = Registers(8, 4) /\ Hashes[h].WORD_BYTES = 4
    BY <1>5, Shapes DEF State, Shape
  <2>2. Standard(h, d, w) = Sha2tTransform(sha2_256, d, w)
    BY <1>5 DEF Standard
  <2>3. QED
    BY <1>5, <2>1, <2>2, Sha2CompressIs, Sha2Family DEF KernelIs
<1>6. CASE h \in {"sha2_384", "sha2_512"}
  <2>1. State(h) = Registers(8, 8) /\ Hashes[h].WORD_BYTES = 8
    BY <1>6, Shapes DEF State, Shape
  <2>2. Standard(h, d, w) = Sha2tTransform(sha2_512, d, w)
    BY <1>6 DEF Standard
  <2>3. QED
    BY <1>6, <2>1, <2>2, Sha2CompressIs, Sha2Family DEF KernelIs
<1>7. QED
  BY <1>1, <1>2, <1>3, <1>4, <1>5, <1>6, NamesAre DEF Names

\* The states a message goes through, block by block.
Path(h, s, m, n, b) ==
  /\ b \in [0..n -> State(h)]
  /\ b[0] = s
  /\ \A i \in 0..(n - 1) : b[i + 1] = Standard(h, b[i], BlockFor(h, m, i))

LEMMA HasAll ==
  ASSUME NEW h \in DOMAIN Hashes, NEW m \in Seq(Byte), NEW n \in Nat,
         Hashes[h].BLOCK_LENGTH * n <= Len(m), NEW i \in 0..(n - 1)
  PROVE  /\ HasFor(h, m, i)
         /\ BlockFor(h, m, i) \in Registers(16, Hashes[h].WORD_BYTES)
<1> DEFINE w == Hashes[h].WORD_BYTES
<1>1. w \in Width /\ Hashes[h].BLOCK_LENGTH = 16 * w /\ Hashes[h].BIG_ENDIAN \in BOOLEAN
  BY AllFit DEF ParamsFit
<1> HIDE DEF w
<1>2. Has(w, Len(m), i)
  <2>0. Len(m) \in Nat /\ 16 * w * n <= Len(m)
    BY <1>1
  <2>1. CASE w = 4
    BY <2>0, <2>1 DEF Has
  <2>2. CASE w = 8
    BY <2>0, <2>2 DEF Has
  <2>3. QED
    BY <1>1, <2>1, <2>2 DEF Width
<1>3. i \in Nat
  OBVIOUS
<1>4. Block(Hashes[h].BIG_ENDIAN, w, m, i) \in Registers(16, w)
  BY <1>1, <1>2, <1>3, BlockIs
<1>5. QED
  BY <1>2, <1>4 DEF w, HasFor, BlockFor

LEMMA PathThere ==
  ASSUME NEW h \in DOMAIN Hashes, NEW s \in State(h), NEW m \in Seq(Byte), NEW n \in Nat,
         Hashes[h].BLOCK_LENGTH * n <= Len(m)
  PROVE  \E b : Path(h, s, m, n, b)
<1> DEFINE S == State(h)
           Step(d, i) == Standard(h, d, BlockFor(h, m, i))
           F == [i \in 0..(n - 1) |-> [d \in S |-> Step(d, i)]]
<1>1. ASSUME NEW i \in 0..(n - 1), NEW d \in S PROVE Step(d, i) \in S
  BY HasAll, KernelsAre DEF KernelIs
<1> HIDE DEF S, Step
<1>2. F \in [0..(n - 1) -> [S -> S]]
  BY <1>1
<1>3. \A i \in 0..(n - 1), d \in S : F[i][d] = Step(d, i)
  OBVIOUS
<1> HIDE DEF F
<1>4. PICK b : Trace(S, F, n, s, b)
  <2>1. s \in S
    BY DEF S
  <2>2. QED
    BY <1>2, <2>1, TraceThere
<1>5. ASSUME NEW i \in 0..(n - 1) PROVE b[i + 1] = Step(b[i], i)
  <2>1. b[i] \in S /\ b[i + 1] = F[i][b[i]]
    BY <1>4 DEF Trace
  <2>2. QED
    BY <1>3, <2>1
<1>6. Path(h, s, m, n, b)
  BY <1>4, <1>5 DEF Path, Trace, Step, S
<1>7. QED
  BY <1>6

-----------------------------------------------------------------------------
\* Transform, Native and the chain of the standard go through these states.

LEMMA WordsRead ==
  ASSUME NEW h \in DOMAIN Hashes, NEW m \in Seq(Byte), NEW i \in Nat, HasFor(h, m, i)
  PROVE  /\ Hashes[h].BIG_ENDIAN = TRUE =>
              SubSeq(BigEndian(m, Hashes[h].WORD_BYTES), 16 * i + 1, 16 * i + 16) = BlockFor(h, m, i)
         /\ Hashes[h].BIG_ENDIAN = FALSE =>
              SubSeq(LittleEndian(m, Hashes[h].WORD_BYTES), 16 * i + 1, 16 * i + 16) = BlockFor(h, m, i)
<1> DEFINE w == Hashes[h].WORD_BYTES
<1>1. w \in Width
  BY AllFit DEF ParamsFit
<1>2. Has(w, Len(m), i)
  BY DEF HasFor
<1> HIDE DEF w
<1>3. SubSeq(BigEndian(m, w), 16 * i + 1, 16 * i + 16) = Block(TRUE, w, m, i)
  BY <1>1, <1>2, BigBlock
<1>4. SubSeq(LittleEndian(m, w), 16 * i + 1, 16 * i + 16) = Block(FALSE, w, m, i)
  BY <1>1, <1>2, LittleBlock
<1>5. QED
  BY <1>3, <1>4 DEF w, BlockFor

\* The words a path reads are those of the message, and it stays within the states.
LEMMA PathReads ==
  ASSUME NEW h \in DOMAIN Hashes, NEW s \in State(h), NEW m \in Seq(Byte), NEW n \in Nat,
         Hashes[h].BLOCK_LENGTH * n <= Len(m), NEW b, Path(h, s, m, n, b), NEW i \in 0..(n - 1)
  PROVE  /\ b[i + 1] = Standard(h, b[i], BlockFor(h, m, i))
         /\ KernelIs(h, b[i], BlockFor(h, m, i))
         /\ Hashes[h].BIG_ENDIAN = TRUE =>
              SubSeq(BigEndian(m, Hashes[h].WORD_BYTES), 16 * i + 1, 16 * i + 16) = BlockFor(h, m, i)
         /\ Hashes[h].BIG_ENDIAN = FALSE =>
              SubSeq(LittleEndian(m, Hashes[h].WORD_BYTES), 16 * i + 1, 16 * i + 16) = BlockFor(h, m, i)
<1>1. b[i] \in State(h) /\ b[i + 1] = Standard(h, b[i], BlockFor(h, m, i))
  BY DEF Path
<1>2. HasFor(h, m, i) /\ BlockFor(h, m, i) \in Registers(16, Hashes[h].WORD_BYTES)
  BY HasAll
<1>3. KernelIs(h, b[i], BlockFor(h, m, i))
  BY <1>1, <1>2, KernelsAre
<1>4. i \in Nat
  OBVIOUS
<1>5. QED
  BY <1>1, <1>2, <1>3, <1>4, WordsRead

\* Transform goes a path of its standard.
LEMMA TransformIs ==
  ASSUME NEW h \in DOMAIN Hashes, NEW s \in State(h), NEW m \in Seq(Byte), NEW n \in Nat,
         Hashes[h].BLOCK_LENGTH * n <= Len(m), NEW b, Path(h, s, m, n, b)
  PROVE  Transform(h, s, m, n) = b[n]
<1>0. b[0] = s
  BY DEF Path
<1>1. CASE h = "md4"
  <2>1. Hashes[h].BIG_ENDIAN = FALSE /\ Hashes[h].WORD_BYTES = 4
    BY <1>1, Shapes DEF Shape
  <2>2. ASSUME NEW i \in 0..(n - 1)
        PROVE  b[i + 1] = Md4Compress(b[i], SubSeq(LittleEndian(m, 4), 16 * i + 1, 16 * i + 16))
    <3>1. /\ b[i + 1] = Standard(h, b[i], BlockFor(h, m, i))
          /\ KernelIs(h, b[i], BlockFor(h, m, i))
          /\ SubSeq(LittleEndian(m, 4), 16 * i + 1, 16 * i + 16) = BlockFor(h, m, i)
      BY <2>1, PathReads
    <3>2. QED
      BY <1>1, <3>1 DEF KernelIs
  <2>3. Md4ChainGoes(LittleEndian(m, 4), n, b)
    BY <2>2 DEF Md4ChainGoes
  <2>4. Md4Chain(b[0], LittleEndian(m, 4), n) = b[n]
    BY <2>3, Md4ChainTrace
  <2>5. Transform(h, s, m, n) = md4_xform(s, m, n)
    BY <1>1 DEF Transform
  <2>6. md4_xform(s, m, n) = Md4Chain(s, LittleEndian(m, 4), n)
    BY Zenon DEF md4_xform, Md4Chain
  <2>7. QED
    BY <1>0, <2>4, <2>5, <2>6
<1>2. CASE h = "md5"
  <2>1. Hashes[h].BIG_ENDIAN = FALSE /\ Hashes[h].WORD_BYTES = 4
    BY <1>2, Shapes DEF Shape
  <2>2. ASSUME NEW i \in 0..(n - 1)
        PROVE  b[i + 1] = Md5Compress(b[i], SubSeq(LittleEndian(m, 4), 16 * i + 1, 16 * i + 16))
    <3>1. /\ b[i + 1] = Standard(h, b[i], BlockFor(h, m, i))
          /\ KernelIs(h, b[i], BlockFor(h, m, i))
          /\ SubSeq(LittleEndian(m, 4), 16 * i + 1, 16 * i + 16) = BlockFor(h, m, i)
      BY <2>1, PathReads
    <3>2. QED
      BY <1>2, <3>1 DEF KernelIs
  <2>3. Md5ChainGoes(LittleEndian(m, 4), n, b)
    BY <2>2 DEF Md5ChainGoes
  <2>4. Md5Chain(b[0], LittleEndian(m, 4), n) = b[n]
    BY <2>3, Md5ChainTrace
  <2>5. Transform(h, s, m, n) = md5_xform(s, m, n)
    BY <1>2 DEF Transform
  <2>6. md5_xform(s, m, n) = Md5Chain(s, LittleEndian(m, 4), n)
    BY Zenon DEF md5_xform, Md5Chain
  <2>7. QED
    BY <1>0, <2>4, <2>5, <2>6
<1>3. CASE h = "ripemd160"
  <2>1. Hashes[h].BIG_ENDIAN = FALSE /\ Hashes[h].WORD_BYTES = 4
    BY <1>3, Shapes DEF Shape
  <2>2. ASSUME NEW i \in 0..(n - 1)
        PROVE  b[i + 1] = RmdCompress(b[i], SubSeq(LittleEndian(m, 4), 16 * i + 1, 16 * i + 16))
    <3>1. /\ b[i + 1] = Standard(h, b[i], BlockFor(h, m, i))
          /\ KernelIs(h, b[i], BlockFor(h, m, i))
          /\ SubSeq(LittleEndian(m, 4), 16 * i + 1, 16 * i + 16) = BlockFor(h, m, i)
      BY <2>1, PathReads
    <3>2. QED
      BY <1>3, <3>1 DEF KernelIs
  <2>3. RmdChainGoes(LittleEndian(m, 4), n, b)
    BY <2>2 DEF RmdChainGoes
  <2>4. RmdChain(b[0], LittleEndian(m, 4), n) = b[n]
    BY <2>3, RmdChainTrace
  <2>5. Transform(h, s, m, n) = ripemd160_xform(s, m, n)
    BY <1>3 DEF Transform
  <2>6. ripemd160_xform(s, m, n) = RmdChain(s, LittleEndian(m, 4), n)
    BY Zenon DEF ripemd160_xform, RmdChain
  <2>7. QED
    BY <1>0, <2>4, <2>5, <2>6
<1>4. CASE h = "sha1"
  <2>1. Hashes[h].BIG_ENDIAN = TRUE /\ Hashes[h].WORD_BYTES = 4
    BY <1>4, Shapes DEF Shape
  <2>2. ASSUME NEW i \in 0..(n - 1)
        PROVE  b[i + 1] = Sha1Compress(b[i], SubSeq(BigEndian(m, 4), 16 * i + 1, 16 * i + 16))
    <3>1. /\ b[i + 1] = Standard(h, b[i], BlockFor(h, m, i))
          /\ KernelIs(h, b[i], BlockFor(h, m, i))
          /\ SubSeq(BigEndian(m, 4), 16 * i + 1, 16 * i + 16) = BlockFor(h, m, i)
      BY <2>1, PathReads
    <3>2. QED
      BY <1>4, <3>1 DEF KernelIs
  <2>3. Sha1ChainGoes(BigEndian(m, 4), n, b)
    BY <2>2 DEF Sha1ChainGoes
  <2>4. Sha1Chain(b[0], BigEndian(m, 4), n) = b[n]
    BY <2>3, Sha1ChainTrace
  <2>5. Transform(h, s, m, n) = sha1_xform(s, m, n)
    BY <1>4 DEF Transform
  <2>6. sha1_xform(s, m, n) = Sha1Chain(s, BigEndian(m, 4), n)
    BY Zenon DEF sha1_xform, Sha1Chain
  <2>7. QED
    BY <1>0, <2>4, <2>5, <2>6
<1>5. CASE h \in {"sha2_224", "sha2_256"}
  <2>1. Hashes[h].BIG_ENDIAN = TRUE /\ Hashes[h].WORD_BYTES = 4
    BY <1>5, Shapes DEF Shape
  <2>2. ASSUME NEW i \in 0..(n - 1)
        PROVE  b[i + 1] = Sha2Compress(sha2_256, b[i], SubSeq(BigEndian(m, 4), 16 * i + 1, 16 * i + 16))
    <3>1. /\ b[i + 1] = Standard(h, b[i], BlockFor(h, m, i))
          /\ KernelIs(h, b[i], BlockFor(h, m, i))
          /\ SubSeq(BigEndian(m, 4), 16 * i + 1, 16 * i + 16) = BlockFor(h, m, i)
      BY <2>1, PathReads
    <3>2. QED
      BY <1>5, <3>1 DEF KernelIs
  <2>3. Sha2ChainGoes(sha2_256, BigEndian(m, 4), n, b)
    BY <2>2 DEF Sha2ChainGoes
  <2>4. Sha2Chain(sha2_256, b[0], BigEndian(m, 4), n) = b[n]
    BY <2>3, Sha2ChainTrace
  <2>5. Transform(h, s, m, n) = sha2_256_xform(s, m, n)
    BY <1>5 DEF Transform
  <2>6. sha2_256_xform(s, m, n) = Sha2Chain(sha2_256, s, BigEndian(m, 4), n)
    BY Zenon DEF sha2_256_xform, Sha2Chain
  <2>7. QED
    BY <1>0, <2>4, <2>5, <2>6
<1>6. CASE h \in {"sha2_384", "sha2_512"}
  <2>1. Hashes[h].BIG_ENDIAN = TRUE /\ Hashes[h].WORD_BYTES = 8
    BY <1>6, Shapes DEF Shape
  <2>2. ASSUME NEW i \in 0..(n - 1)
        PROVE  b[i + 1] = Sha2Compress(sha2_512, b[i], SubSeq(BigEndian(m, 8), 16 * i + 1, 16 * i + 16))
    <3>1. /\ b[i + 1] = Standard(h, b[i], BlockFor(h, m, i))
          /\ KernelIs(h, b[i], BlockFor(h, m, i))
          /\ SubSeq(BigEndian(m, 8), 16 * i + 1, 16 * i + 16) = BlockFor(h, m, i)
      BY <2>1, PathReads
    <3>2. QED
      BY <1>6, <3>1 DEF KernelIs
  <2>3. Sha2ChainGoes(sha2_512, BigEndian(m, 8), n, b)
    BY <2>2 DEF Sha2ChainGoes
  <2>4. Sha2Chain(sha2_512, b[0], BigEndian(m, 8), n) = b[n]
    BY <2>3, Sha2ChainTrace
  <2>5. Transform(h, s, m, n) = sha2_512_xform(s, m, n)
    BY <1>6 DEF Transform
  <2>6. sha2_512_xform(s, m, n) = Sha2Chain(sha2_512, s, BigEndian(m, 8), n)
    BY Zenon DEF sha2_512_xform, Sha2Chain
  <2>7. QED
    BY <1>0, <2>4, <2>5, <2>6
<1>7. QED
  BY <1>1, <1>2, <1>3, <1>4, <1>5, <1>6, NamesAre DEF Names

\* So does the chain of the standard, over the words of whole blocks.
LEMMA FixedIs ==
  ASSUME NEW h \in DOMAIN Hashes, NEW s \in State(h), NEW m \in Seq(Byte), NEW n \in Nat,
         Len(m) = Hashes[h].BLOCK_LENGTH * n, NEW b, Path(h, s, m, n, b)
  PROVE  StandardChain(h, s, m) = b[n]
<1>0. b[0] = s
  BY DEF Path
<1>1. ParamsFit(Hashes[h])
  BY AllFit
<1> DEFINE w == WordsOf(Hashes[h], m)
<1>2. Len(w) \div 16 = n
  <2> DEFINE wb == Hashes[h].WORD_BYTES
  <2>1. wb \in Width /\ Len(m) = (16 * wb) * n
    BY <1>1 DEF ParamsFit
  <2>2. w = BigEndian(m, wb) \/ w = LittleEndian(m, wb)
    BY DEF WordsOf
  <2> HIDE DEF wb, w
  <2>3. Len(m) \div wb \in Nat /\ (Len(m) \div wb) \div 16 = n
    <3>1. CASE wb = 4
      BY <2>1, <3>1
    <3>2. CASE wb = 8
      BY <2>1, <3>2
    <3>3. QED
      BY <2>1, <3>1, <3>2 DEF Width
  <2>4. Len(w) = Len(m) \div wb
    <3> DEFINE l == Len(m) \div wb
    <3>1. l \in Nat
      BY <2>3
    <3> HIDE DEF l
    <3>2. DOMAIN w = 1..l
      BY <2>2 DEF BigEndian, LittleEndian, l
    <3>3. \E f : w = [i \in 1..l |-> f[i]]
      <4>1. w = [i \in 1..l |-> w[i]]
        BY <2>2 DEF BigEndian, LittleEndian, l
      <4>2. QED
        BY <4>1
    <3>4. Len(w) = l
      <4>1. PICK f : w = [i \in 1..l |-> f[i]]
        BY <3>3
      <4>2. w \in Seq({f[i] : i \in 1..l})
        BY <3>1, <4>1
      <4>3. QED
        BY <3>1, <3>2, <4>2
    <3>5. QED
      BY <3>4 DEF l
  <2>5. QED
    BY <2>3, <2>4
<1>3. ASSUME NEW i \in 0..(n - 1)
      PROVE  b[i + 1] = Standard(h, b[i], SubSeq(w, 16 * i + 1, 16 * i + 16))
  <2>0. Hashes[h].BLOCK_LENGTH * n <= Len(m) /\ Hashes[h].BIG_ENDIAN \in BOOLEAN
    BY <1>1 DEF ParamsFit
  <2>1. /\ b[i + 1] = Standard(h, b[i], BlockFor(h, m, i))
        /\ Hashes[h].BIG_ENDIAN = TRUE =>
              SubSeq(BigEndian(m, Hashes[h].WORD_BYTES), 16 * i + 1, 16 * i + 16) = BlockFor(h, m, i)
        /\ Hashes[h].BIG_ENDIAN = FALSE =>
              SubSeq(LittleEndian(m, Hashes[h].WORD_BYTES), 16 * i + 1, 16 * i + 16) = BlockFor(h, m, i)
    BY <2>0, PathReads
  <2>2. CASE Hashes[h].BIG_ENDIAN = TRUE
    <3>1. w = BigEndian(m, Hashes[h].WORD_BYTES)
      BY <2>2 DEF WordsOf
    <3>2. QED
      BY <2>1, <2>2, <3>1
  <2>3. CASE Hashes[h].BIG_ENDIAN = FALSE
    <3>1. w = LittleEndian(m, Hashes[h].WORD_BYTES)
      BY <2>3 DEF WordsOf
    <3>2. QED
      BY <2>1, <2>3, <3>1
  <2>4. QED
    BY <2>0, <2>2, <2>3
<1>4. FixedChainGoes(h, w, n, b)
  <2> HIDE DEF w
  <2>1. QED
    BY <1>3 DEF FixedChainGoes
<1>5. FixedChain(h, b[0], w, n) = b[n]
  <2> HIDE DEF w
  <2>1. QED
    BY <1>4, FixedChainTrace
<1>6. StandardChain(h, s, m) = FixedChain(h, s, w, Len(w) \div 16)
  BY Zenon DEF StandardChain, FixedChain
<1>7. QED
  BY <1>0, <1>2, <1>5, <1>6

\* Blocks do not depend on what lies behind them.
LEMMA BlockSame ==
  ASSUME NEW h \in DOMAIN Hashes, NEW n \in Nat, NEW m, NEW q, NEW i \in 0..(n - 1), NEW j \in Nat,
         \A k \in 1..(Hashes[h].BLOCK_LENGTH * n) : m[k] = q[Hashes[h].BLOCK_LENGTH * j + k]
  PROVE  BlockFor(h, m, i) = BlockFor(h, q, j + i)
<1> DEFINE w == Hashes[h].WORD_BYTES
           big == Hashes[h].BIG_ENDIAN
<1>1. w \in Width /\ Hashes[h].BLOCK_LENGTH = 16 * w
  BY AllFit DEF ParamsFit
<1> HIDE DEF w, big
<1>2. ASSUME NEW k \in 1..16, NEW c \in 1..w
      PROVE  m[Spot(big, w, i, k, c)] = q[Spot(big, w, j + i, k, c)]
  <2>1. /\ Spot(big, w, i, k, c) \in 1..(16 * w * n)
        /\ Spot(big, w, j + i, k, c) = 16 * w * j + Spot(big, w, i, k, c)
    <3>1. CASE w = 4
      BY <3>1 DEF Spot
    <3>2. CASE w = 8
      BY <3>2 DEF Spot
    <3>3. QED
      BY <1>1, <3>1, <3>2 DEF Width
  <2>2. QED
    BY <1>1, <2>1
<1>3. Block(big, w, m, i) = Block(big, w, q, j + i)
  BY <1>2 DEF Block
<1>4. QED
  BY <1>3 DEF BlockFor, w, big

LEMMA Swapped ==
  ASSUME NEW p, ParamsFit(p), p.BIG_ENDIAN = TRUE, NEW m \in Seq(Byte), NEW n \in Nat,
         Len(m) = p.BLOCK_LENGTH * n
  PROVE  /\ Bswap(p, m) \in Seq(Byte)
         /\ Len(Bswap(p, m)) = Len(m)
         /\ \A i \in 0..(n - 1) :
              Block(FALSE, p.WORD_BYTES, Bswap(p, m), i) = Block(TRUE, p.WORD_BYTES, m, i)
<1> DEFINE w == p.WORD_BYTES
           L == Len(m)
           from(i) == ((i - 1) \div w) * w + w - ((i - 1) % w)
           q == [i \in 1..L |-> m[from(i)]]
<1>1. w \in Width /\ L \in Nat /\ L = (16 * w) * n
  BY DEF ParamsFit
<1>2. ASSUME NEW i \in 1..L PROVE m[from(i)] \in Byte
  <2>1. from(i) \in 1..L
    <3> HIDE DEF w, L
    <3>1. CASE w = 4
      <4>1. L = 64 * n
        BY <1>1, <3>1
      <4>2. from(i) = ((i - 1) \div 4) * 4 + 4 - ((i - 1) % 4)
        BY <3>1
      <4>3. QED
        BY <1>1, <4>1, <4>2
    <3>2. CASE w = 8
      <4>1. L = 128 * n
        BY <1>1, <3>2
      <4>2. from(i) = ((i - 1) \div 8) * 8 + 8 - ((i - 1) % 8)
        BY <3>2
      <4>3. QED
        BY <1>1, <4>1, <4>2
    <3>3. QED
      BY <1>1, <3>1, <3>2 DEF Width
  <2> HIDE DEF from
  <2>2. QED
    BY <2>1
<1>3. q \in Bytes(L)
  <2> HIDE DEF from, L
  <2>1. QED
    BY <1>2 DEF Bytes
<1>4. Bswap(p, m) = q /\ Len(q) = L /\ q \in Seq(Byte)
  <2>1. Bswap(p, m) = Word(q)
    BY DEF Bswap
  <2> HIDE DEF q
  <2>2. Word(q) = q /\ Len(q) = L
    BY <1>1, <1>3, WordIs
  <2>3. q \in Seq(Byte)
    BY <1>1, <1>3 DEF Bytes
  <2>4. QED
    BY <2>1, <2>2, <2>3
<1>5. ASSUME NEW i \in 0..(n - 1), NEW k \in 1..16, NEW j \in 1..w
      PROVE  q[Spot(FALSE, w, i, k, j)] = m[Spot(TRUE, w, i, k, j)]
  <2> DEFINE s == Spot(FALSE, w, i, k, j)
             t == Spot(TRUE, w, i, k, j)
  <2>1. s \in 1..L /\ from(s) = t
    <3> HIDE DEF w, L
    <3>1. CASE w = 4
      <4>1. L = 64 * n /\ s = 64 * i + 4 * (k - 1) + 5 - j /\ t = 64 * i + 4 * (k - 1) + j
        BY <1>1, <3>1 DEF Spot
      <4>2. from(s) = ((s - 1) \div 4) * 4 + 4 - ((s - 1) % 4)
        BY <3>1
      <4> HIDE DEF s, t, from
      <4>3. j \in 1..4
        BY <1>5, <3>1
      <4>4. (s - 1) \div 4 = 16 * i + (k - 1) /\ (s - 1) % 4 = 4 - j
        BY <4>1, <4>3
      <4>5. QED
        BY <4>1, <4>2, <4>3, <4>4
    <3>2. CASE w = 8
      <4>1. L = 128 * n /\ s = 128 * i + 8 * (k - 1) + 9 - j /\ t = 128 * i + 8 * (k - 1) + j
        BY <1>1, <3>2 DEF Spot
      <4>2. from(s) = ((s - 1) \div 8) * 8 + 8 - ((s - 1) % 8)
        BY <3>2
      <4> HIDE DEF s, t, from
      <4>3. j \in 1..8
        BY <1>5, <3>2
      <4>4. (s - 1) \div 8 = 16 * i + (k - 1) /\ (s - 1) % 8 = 8 - j
        BY <4>1, <4>3
      <4>5. QED
        BY <4>1, <4>2, <4>3, <4>4
    <3>3. QED
      BY <1>1, <3>1, <3>2 DEF Width
  <2> HIDE DEF s, t, from, L
  <2>2. q[s] = m[t]
    BY <2>1
  <2>3. QED
    BY <2>2 DEF s, t
<1>6. ASSUME NEW i \in 0..(n - 1) PROVE Block(FALSE, w, q, i) = Block(TRUE, w, m, i)
  <2> HIDE DEF q, w
  <2>1. QED
    BY <1>5 DEF Block
<1>7. QED
  BY <1>4, <1>6

\* The kernels that swap nothing go the same path over swapped words.
LEMMA NativeIs ==
  ASSUME NEW h \in DOMAIN Hashes, NEW s \in State(h), NEW m \in Seq(Byte), NEW n \in Nat,
         Len(m) = Hashes[h].BLOCK_LENGTH * n, NEW b, Path(h, s, m, n, b)
  PROVE  Native(h, s, Bswap(Hashes[h], m), n) = b[n]
<1> DEFINE p == Hashes[h]
           q == Bswap(p, m)
<1>0. /\ b[0] = s /\ ParamsFit(p) /\ p.BLOCK_LENGTH * n <= Len(m) /\ Len(m) = p.BLOCK_LENGTH * n
  BY AllFit DEF Path, ParamsFit
<1>1. CASE p.BIG_ENDIAN = FALSE
  <2>1. q = m
    BY <1>1 DEF Bswap
  <2>2. h \in {"md4", "md5", "ripemd160"}
    BY <1>1, NamesAre, Shapes DEF Names, Shape
  <2>3. Native(h, s, q, n) = Transform(h, s, q, n)
    BY <2>2 DEF Native
  <2>4. Transform(h, s, m, n) = b[n]
    BY <1>0, TransformIs
  <2>5. QED
    BY <2>1, <2>3, <2>4
<1>2. CASE p.BIG_ENDIAN = TRUE
  <2>1. /\ q \in Seq(Byte) /\ Len(q) = Len(m)
        /\ \A i \in 0..(n - 1) :
             Block(FALSE, p.WORD_BYTES, q, i) = Block(TRUE, p.WORD_BYTES, m, i)
    <3> HIDE DEF p
    <3>1. ParamsFit(p) /\ p.BIG_ENDIAN = TRUE /\ Len(m) = p.BLOCK_LENGTH * n
      BY <1>0, <1>2
    <3>2. q \in Seq(Byte)
      BY <3>1, Swapped
    <3>3. Len(q) = Len(m)
      BY <3>1, Swapped
    <3>4. \A i \in 0..(n - 1) :
             Block(FALSE, p.WORD_BYTES, q, i) = Block(TRUE, p.WORD_BYTES, m, i)
      BY <3>1, Swapped
    <3>5. QED
      BY <3>2, <3>3, <3>4
  <2>2. ASSUME NEW i \in 0..(n - 1)
        PROVE  /\ b[i + 1] = Standard(h, b[i], BlockFor(h, m, i))
               /\ KernelIs(h, b[i], BlockFor(h, m, i))
               /\ SubSeq(LittleEndian(q, p.WORD_BYTES), 16 * i + 1, 16 * i + 16) = BlockFor(h, m, i)
    <3>1. /\ b[i + 1] = Standard(h, b[i], BlockFor(h, m, i))
          /\ KernelIs(h, b[i], BlockFor(h, m, i))
      BY <1>0, PathReads
    <3>2. HasFor(h, m, i)
      BY <1>0, HasAll
    <3>3. BlockFor(h, m, i) = Block(TRUE, p.WORD_BYTES, m, i)
      BY <1>2 DEF BlockFor
    <3>4. Block(FALSE, p.WORD_BYTES, q, i) = Block(TRUE, p.WORD_BYTES, m, i)
      BY <2>1
    <3> DEFINE w == p.WORD_BYTES
    <3>5. w \in Width /\ Has(w, Len(q), i) /\ i \in Nat
      BY <1>0, <2>1, <3>2 DEF ParamsFit, HasFor
    <3> HIDE DEF w, q, p
    <3>6. SubSeq(LittleEndian(q, w), 16 * i + 1, 16 * i + 16) = Block(FALSE, w, q, i)
      BY <2>1, <3>5, LittleBlock
    <3>7. QED
      BY <3>1, <3>3, <3>4, <3>6 DEF w
  <2>3. CASE h = "sha1"
    <3>1. p.WORD_BYTES = 4
      BY <2>3, Shapes DEF Shape
    <3>2. ASSUME NEW i \in 0..(n - 1)
          PROVE  b[i + 1] = Sha1Compress(b[i], SubSeq(LittleEndian(q, 4), 16 * i + 1, 16 * i + 16))
      BY <2>2, <2>3, <3>1 DEF KernelIs
    <3>3. Sha1ChainGoes(LittleEndian(q, 4), n, b)
      BY <3>2 DEF Sha1ChainGoes
    <3>4. Sha1Chain(b[0], LittleEndian(q, 4), n) = b[n]
      BY <3>3, Sha1ChainTrace
    <3>5. Native(h, s, q, n) = sha1_xform_le(s, q, n)
      BY <2>3 DEF Native
    <3>6. sha1_xform_le(s, q, n) = Sha1Chain(s, LittleEndian(q, 4), n)
      BY Zenon DEF sha1_xform_le, Sha1Chain
    <3>7. QED
      BY <1>0, <3>4, <3>5, <3>6
  <2>4. CASE h \in {"sha2_224", "sha2_256"}
    <3>1. p.WORD_BYTES = 4
      BY <2>4, Shapes DEF Shape
    <3>2. ASSUME NEW i \in 0..(n - 1)
          PROVE  b[i + 1] = Sha2Compress(sha2_256, b[i], SubSeq(LittleEndian(q, 4), 16 * i + 1, 16 * i + 16))
      BY <2>2, <2>4, <3>1 DEF KernelIs
    <3>3. Sha2ChainGoes(sha2_256, LittleEndian(q, 4), n, b)
      BY <3>2 DEF Sha2ChainGoes
    <3>4. Sha2Chain(sha2_256, b[0], LittleEndian(q, 4), n) = b[n]
      BY <3>3, Sha2ChainTrace
    <3>5. Native(h, s, q, n) = sha2_256_xform_le(s, q, n)
      BY <2>4 DEF Native
    <3>6. sha2_256_xform_le(s, q, n) = Sha2Chain(sha2_256, s, LittleEndian(q, 4), n)
      BY Zenon DEF sha2_256_xform_le, Sha2Chain
    <3>7. QED
      BY <1>0, <3>4, <3>5, <3>6
  <2>5. CASE h \in {"sha2_384", "sha2_512"}
    <3>1. p.WORD_BYTES = 8
      BY <2>5, Shapes DEF Shape
    <3>2. ASSUME NEW i \in 0..(n - 1)
          PROVE  b[i + 1] = Sha2Compress(sha2_512, b[i], SubSeq(LittleEndian(q, 8), 16 * i + 1, 16 * i + 16))
      BY <2>2, <2>5, <3>1 DEF KernelIs
    <3>3. Sha2ChainGoes(sha2_512, LittleEndian(q, 8), n, b)
      BY <3>2 DEF Sha2ChainGoes
    <3>4. Sha2Chain(sha2_512, b[0], LittleEndian(q, 8), n) = b[n]
      BY <3>3, Sha2ChainTrace
    <3>5. Native(h, s, q, n) = sha2_512_xform_le(s, q, n)
      BY <2>5 DEF Native
    <3>6. sha2_512_xform_le(s, q, n) = Sha2Chain(sha2_512, s, LittleEndian(q, 8), n)
      BY Zenon DEF sha2_512_xform_le, Sha2Chain
    <3>7. QED
      BY <1>0, <3>4, <3>5, <3>6
  <2>6. h \in {"sha1", "sha2_224", "sha2_256", "sha2_384", "sha2_512"}
    BY <1>2, NamesAre, Shapes DEF Names, Shape
  <2>7. QED
    BY <2>3, <2>4, <2>5, <2>6
<1>3. QED
  BY <1>0, <1>1, <1>2 DEF ParamsFit

\* A path is one of any longer message.
LEMMA PathSame ==
  ASSUME NEW h \in DOMAIN Hashes, NEW s, NEW m, NEW q, NEW n \in Nat, NEW b,
         Path(h, s, m, n, b), \A k \in 1..(Hashes[h].BLOCK_LENGTH * n) : m[k] = q[k]
  PROVE  Path(h, s, q, n, b)
<1>1. ASSUME NEW i \in 0..(n - 1) PROVE BlockFor(h, m, i) = BlockFor(h, q, i)
  <2>1. Hashes[h].BLOCK_LENGTH \in Nat
    BY AllFit DEF ParamsFit
  <2> DEFINE L == Hashes[h].BLOCK_LENGTH * n
             l == Hashes[h].BLOCK_LENGTH
  <2>2. \A k \in 1..L : l * 0 + k = k
    BY <2>1
  <2>3. \A k \in 1..L : m[k] = q[l * 0 + k]
    BY <2>2
  <2>4. BlockFor(h, m, i) = BlockFor(h, q, 0 + i)
    BY <2>3, BlockSame
  <2>5. 0 + i = i
    OBVIOUS
  <2>6. QED
    BY <2>4, <2>5
<1>2. QED
  BY <1>1 DEF Path

\* j blocks of m and n of q are those of r.
Behind(h, m, j, q, n, r) ==
  /\ \A k \in 1..(Hashes[h].BLOCK_LENGTH * j) : m[k] = r[k]
  /\ \A k \in 1..(Hashes[h].BLOCK_LENGTH * n) : q[k] = r[Hashes[h].BLOCK_LENGTH * j + k]

Continued(b, j, c, n) == [i \in 0..(j + n) |-> IF i <= j THEN b[i] ELSE c[i - j]]
PathOfBoth(h, s, r, j, n, b, c) == Path(h, s, r, j + n, Continued(b, j, c, n))

\* One path behind another is the path of both messages.
LEMMA PathsJoin ==
  ASSUME NEW h \in DOMAIN Hashes, NEW s, NEW m, NEW q, NEW r, NEW n \in Nat, NEW j \in Nat,
         NEW b, NEW c, Path(h, s, m, j, b), Path(h, b[j], q, n, c), Behind(h, m, j, q, n, r)
  PROVE  PathOfBoth(h, s, r, j, n, b, c)
<1> DEFINE e == [i \in 0..(j + n) |-> IF i <= j THEN b[i] ELSE c[i - j]]
<1>0. /\ \A k \in 1..(Hashes[h].BLOCK_LENGTH * j) : m[k] = r[k]
      /\ \A k \in 1..(Hashes[h].BLOCK_LENGTH * n) : q[k] = r[Hashes[h].BLOCK_LENGTH * j + k]
  BY DEF Behind
<1>1. Path(h, s, r, j, b)
  BY <1>0, PathSame
<1>2. ASSUME NEW i \in 0..(n - 1) PROVE BlockFor(h, q, i) = BlockFor(h, r, j + i)
  BY <1>0, BlockSame
<1>3. e \in [0..(j + n) -> State(h)]
  <2>1. ASSUME NEW i \in 0..(j + n) PROVE e[i] \in State(h)
    <3>1. CASE i <= j
      <4>1. i \in 0..j /\ e[i] = b[i]
        BY <3>1
      <4>2. QED
        BY <4>1 DEF Path
    <3>2. CASE ~(i <= j)
      <4>1. i - j \in 0..n /\ e[i] = c[i - j]
        BY <3>2
      <4>2. QED
        BY <4>1 DEF Path
    <3>3. QED
      BY <3>1, <3>2
  <2>2. QED
    BY <2>1
<1>4. e[0] = s
  BY DEF Path
<1>5. ASSUME NEW i \in 0..((j + n) - 1)
      PROVE  e[i + 1] = Standard(h, e[i], BlockFor(h, r, i))
  <2>1. CASE i < j
    <3>1. i \in 0..(j - 1) /\ e[i] = b[i] /\ e[i + 1] = b[i + 1]
      BY <2>1
    <3>2. QED
      BY <1>1, <3>1 DEF Path
  <2>2. CASE ~(i < j)
    <3> DEFINE k == i - j
    <3>1. k \in 0..(n - 1) /\ j + k = i
      BY <2>2
    <3>2. e[i + 1] = c[k + 1]
      BY <2>2
    <3>3. e[i] = c[k]
      <4>1. CASE i = j
        <5>1. k = 0 /\ e[i] = b[j] /\ c[0] = b[j]
          BY <4>1 DEF Path
        <5>2. QED
          BY <5>1
      <4>2. CASE i # j
        BY <2>2, <4>2
      <4>3. QED
        BY <4>1, <4>2
    <3> HIDE DEF k, e
    <3>4. c[k + 1] = Standard(h, c[k], BlockFor(h, q, k))
      BY <3>1 DEF Path
    <3>5. BlockFor(h, q, k) = BlockFor(h, r, i)
      BY <1>2, <3>1
    <3>6. QED
      BY <3>2, <3>3, <3>4, <3>5
  <2>3. QED
    BY <2>1, <2>2
<1> HIDE DEF e
<1>6. Path(h, s, r, j + n, e)
  BY <1>3, <1>4, <1>5 DEF Path
<1>7. QED
  BY <1>6 DEF e, PathOfBoth, Continued

-----------------------------------------------------------------------------
\* Padding: the bytes Put, Fill and BitLength leave.

\* What Put leaves at each place.
PutAt(d, off, b, i) == IF off < i /\ i <= off + Len(b) THEN b[i - off] ELSE d[i]

LEMMA Joined ==
  ASSUME NEW x \in Seq(Byte), NEW y \in Seq(Byte)
  PROVE  /\ (x \o y) \in Seq(Byte) /\ Len(x \o y) = Len(x) + Len(y)
         /\ \A i \in 1..(Len(x) + Len(y)) :
              (x \o y)[i] = IF i <= Len(x) THEN x[i] ELSE y[i - Len(x)]
OBVIOUS

LEMMA PutIs ==
  ASSUME NEW d \in Seq(Byte), NEW off \in Nat, NEW b \in Seq(Byte), off + Len(b) <= Len(d)
  PROVE  /\ Put(d, off, b) \in Seq(Byte)
         /\ Len(Put(d, off, b)) = Len(d)
         /\ \A i \in 1..Len(d) : Put(d, off, b)[i] = PutAt(d, off, b, i)
<1> DEFINE n == Len(d)
           l == Len(b)
           x == SubSeq(d, 1, off)
           z == SubSeq(d, off + l + 1, n)
<1>1. n \in Nat /\ l \in Nat /\ off + l <= n
  OBVIOUS
<1>2. x \in Seq(Byte) /\ Len(x) = off /\ \A i \in 1..off : x[i] = d[i]
  OBVIOUS
<1>3. z \in Seq(Byte) /\ Len(z) = n - (off + l) /\ \A i \in 1..(n - (off + l)) : z[i] = d[i + off + l]
  OBVIOUS
<1>4. Put(d, off, b) = x \o b \o z
  BY DEF Put
<1> HIDE DEF n, l, x, z
<1>5. (x \o b) \in Seq(Byte) /\ Len(x \o b) = off + l
  BY <1>1, <1>2 DEF l
<1>6. \A i \in 1..(off + l) : (x \o b)[i] = IF i <= off THEN x[i] ELSE b[i - off]
  BY <1>1, <1>2 DEF l
<1>7. (x \o b \o z) \in Seq(Byte) /\ Len(x \o b \o z) = n
  <2> DEFINE y == x \o b
  <2>1. y \in Seq(Byte) /\ Len(y) = off + l
    BY <1>5
  <2> HIDE DEF y
  <2>2. (y \o z) \in Seq(Byte)
    BY <1>3, <2>1
  <2>3. Len(y \o z) = Len(y) + Len(z)
    BY <1>3, <2>1, Joined
  <2>4. Len(y) + Len(z) = n
    BY <1>1, <1>3, <2>1
  <2>5. QED
    BY <2>2, <2>3, <2>4 DEF y
<1>8. ASSUME NEW i \in 1..n
      PROVE  (x \o b \o z)[i] = PutAt(d, off, b, i)
  <2>1. CASE i <= off + l
    <3>1. i \in 1..(off + l)
      BY <1>1, <2>1
    <3>2. (x \o b \o z)[i] = (x \o b)[i]
      BY <1>3, <1>5, <3>1
    <3>3. CASE i <= off
      BY <1>2, <1>6, <3>1, <3>2, <3>3 DEF PutAt, l
    <3>4. CASE ~(i <= off)
      BY <1>2, <1>6, <3>1, <3>2, <3>4 DEF PutAt, l
    <3>5. QED
      BY <3>3, <3>4
  <2>2. CASE ~(i <= off + l)
    <3>1. i - (off + l) \in 1..(n - (off + l)) /\ (i - (off + l)) + off + l = i
      BY <1>1, <2>2
    <3>2. (x \o b \o z)[i] = z[i - (off + l)]
      BY <1>1, <1>3, <1>5, <2>2
    <3>3. z[i - (off + l)] = d[i]
      BY <1>3, <3>1
    <3>4. QED
      BY <1>1, <2>2, <3>2, <3>3 DEF PutAt, l
  <2>3. QED
    BY <2>1, <2>2
<1>9. QED
  BY <1>4, <1>7, <1>8 DEF n

LEMMA BytesAre ==
  ASSUME NEW n \in Nat, NEW f \in Bytes(n)
  PROVE  f \in Seq(Byte) /\ Len(f) = n
BY DEF Bytes

LEMMA FillIs ==
  ASSUME NEW n \in Nat, NEW b \in Byte
  PROVE  /\ Fill(n, b) \in Seq(Byte) /\ Len(Fill(n, b)) = n
         /\ \A i \in 1..n : Fill(n, b)[i] = b
<1> DEFINE f == [i \in 1..n |-> b]
<1>1. f \in Bytes(n)
  BY DEF Bytes
<1>2. \A i \in 1..n : f[i] = b
  OBVIOUS
<1>3. Fill(n, b) = Word(f)
  BY DEF Fill
<1> HIDE DEF f
<1>4. Word(f) = f /\ Len(f) = n
  BY <1>1, WordIs
<1>5. f \in Seq(Byte)
  BY <1>1 DEF Bytes
<1>6. QED
  BY <1>2, <1>3, <1>4, <1>5

LEMMA Powers256 == /\ 256 ^ 0 = 1 /\ 256 ^ 1 = 256 /\ 256 ^ 2 = 65536 /\ 256 ^ 3 = 16777216
OBVIOUS

LEMMA BitLengthIs ==
  ASSUME NEW p, p.BIG_ENDIAN \in BOOLEAN, NEW n \in Nat
  PROVE  /\ BitLength(p, n) \in Seq(Byte) /\ Len(BitLength(p, n)) = 8
<1> DEFINE half(i) == IF i > 4 THEN ((8 * n) \div 256 ^ 3) \div 256 ELSE 8 * n
           byte(i) == (half(i) \div 256 ^ ((i - 1) % 4)) % 256
<1>1. ASSUME NEW i \in 1..8 PROVE byte(i) \in Byte
  <2>1. half(i) \in Nat
    <3>1. ((8 * n) \div 256 ^ 3) \div 256 \in Nat
      <4>1. (8 * n) \div 16777216 \in Nat
        OBVIOUS
      <4> DEFINE x == (8 * n) \div 16777216
      <4> HIDE DEF x
      <4>2. x \div 256 \in Nat
        BY <4>1 DEF x
      <4>3. QED
        BY <4>2, Powers256 DEF x
    <3>2. QED
      BY <3>1
  <2> DEFINE e == (i - 1) % 4
             h == half(i)
  <2> HIDE DEF h, e
  <2>2. e \in 0..3
    BY DEF e
  <2>3. h \in Nat
    BY <2>1 DEF h
  <2>4. (h \div 256 ^ e) % 256 \in Byte
    <3>1. CASE e = 0
      BY <2>3, <3>1, Powers256 DEF Byte
    <3>2. CASE e = 1
      BY <2>3, <3>2, Powers256 DEF Byte
    <3>3. CASE e = 2
      BY <2>3, <3>3, Powers256 DEF Byte
    <3>4. CASE e = 3
      BY <2>3, <3>4, Powers256 DEF Byte
    <3>5. QED
      BY <2>2, <3>1, <3>2, <3>3, <3>4
  <2>5. QED
    BY <2>4 DEF h, e
<1> DEFINE at(i) == IF p.BIG_ENDIAN THEN 9 - i ELSE i
           f == [i \in 1..8 |-> byte(at(i))]
<1>2. BitLength(p, n) = f
  BY DEF BitLength
<1>3. \A i \in 1..8 : at(i) \in 1..8
  OBVIOUS
<1>4. f \in Bytes(8)
  <2> HIDE DEF byte, half, at
  <2>1. \A i \in 1..8 : byte(at(i)) \in Byte
    BY <1>1, <1>3
  <2>2. QED
    BY <2>1 DEF Bytes
<1> HIDE DEF f
<1>5. f \in Seq(Byte) /\ Len(f) = 8
  <2>1. 8 \in Nat
    OBVIOUS
  <2>2. QED
    BY <1>4, <2>1, BytesAre
<1>6. QED
  BY <1>2, <1>5

\* Where the padding of n bytes ends, and the tail of what is left of them.
PadBlocks(p, n) == (n \div p.BLOCK_LENGTH) + TailBlocks(p, n % p.BLOCK_LENGTH)

PadFacts(p, n, z, k, r, y) ==
  /\ z \in Nat /\ k \in 1..2 /\ r \in Nat /\ y \in Nat
  /\ n + 1 <= z - 8
  /\ r < p.BLOCK_LENGTH /\ r + 1 <= y - 8 /\ y <= 2 * p.BLOCK_LENGTH
  /\ z - y = n - r
  /\ z = p.BLOCK_LENGTH * PadBlocks(p, n) /\ PadBlocks(p, n) \in Nat
  /\ z - y = p.BLOCK_LENGTH * (n \div p.BLOCK_LENGTH) /\ n \div p.BLOCK_LENGTH \in Nat
  /\ z = PadBlocks(p, n) * p.BLOCK_LENGTH
  /\ y = k * p.BLOCK_LENGTH
  /\ y = p.BLOCK_LENGTH * k

LEMMA PadEnds ==
  ASSUME NEW p, ParamsFit(p), NEW n \in Nat
  PROVE  PadFacts(p, n, PadBlocks(p, n) * p.BLOCK_LENGTH, TailBlocks(p, n % p.BLOCK_LENGTH),
                  n % p.BLOCK_LENGTH, TailBlocks(p, n % p.BLOCK_LENGTH) * p.BLOCK_LENGTH)
<1>1. CASE p.WORD_BYTES = 4
  <2>1. p.BLOCK_LENGTH = 64
    BY <1>1 DEF ParamsFit
  <2> DEFINE j == n \div 64
             r == n % 64
             k == TailBlocks(p, r)
  <2>2. j \in Nat /\ r \in 0..63 /\ n = 64 * j + r
    OBVIOUS
  <2>3. k = IF r < 56 THEN 1 ELSE 2
    BY <1>1, <2>1 DEF TailBlocks, Reserve
  <2>4. PadBlocks(p, n) = j + k
    BY <2>1 DEF PadBlocks
  <2> HIDE DEF j, r, k
  <2>5. PadFacts(p, n, (j + k) * 64, k, r, k * 64)
    BY <2>1, <2>2, <2>3, <2>4 DEF PadFacts, j
  <2>6. QED
    BY <2>1, <2>4, <2>5 DEF k, r
<1>2. CASE p.WORD_BYTES = 8
  <2>1. p.BLOCK_LENGTH = 128
    BY <1>2 DEF ParamsFit
  <2> DEFINE j == n \div 128
             r == n % 128
             k == TailBlocks(p, r)
  <2>2. j \in Nat /\ r \in 0..127 /\ n = 128 * j + r
    OBVIOUS
  <2>3. k = IF r < 112 THEN 1 ELSE 2
    BY <1>2, <2>1 DEF TailBlocks, Reserve
  <2>4. PadBlocks(p, n) = j + k
    BY <2>1 DEF PadBlocks
  <2> HIDE DEF j, r, k
  <2>5. PadFacts(p, n, (j + k) * 128, k, r, k * 128)
    BY <2>1, <2>2, <2>3, <2>4 DEF PadFacts, j
  <2>6. QED
    BY <2>1, <2>4, <2>5 DEF k, r
<1>3. QED
  BY <1>1, <1>2 DEF ParamsFit, Width

\* The byte at place i of a region of y bytes: r bytes of m, and the padding of a
\* message of n bytes.
PaddingAt(p, m, r, y, n, i) ==
  IF i <= r THEN m[i]
  ELSE IF i = r + 1 THEN 128
  ELSE IF i <= y - 8 THEN 0
  ELSE BitLength(p, n)[i - (y - 8)]

PaddedBy(p, m, r, y, n, x) ==
  /\ x \in Seq(Byte)
  /\ \A i \in 1..y : x[i] = PaddingAt(p, m, r, y, n, i)

\* The three writes that pad a region in its place, and the room they need.
Writes(p, d, r, y, n) ==
  Put(Put(Put(d, r, <<128>>), r + 1, Fill(y - 8 - (r + 1), 0)), y - 8, BitLength(p, n))
Room(d, r, y) == r + 1 <= y - 8 /\ y <= Len(d)

\* 0x80
LEMMA Mark == <<128>> \in Seq(Byte) /\ Len(<<128>>) = 1 /\ <<128>>[1] = 128
BY DEF Byte

LEMMA Written ==
  ASSUME NEW p, p.BIG_ENDIAN \in BOOLEAN, NEW d \in Seq(Byte), NEW r \in Nat, NEW y \in Nat,
         NEW n \in Nat, Room(d, r, y)
  PROVE  PaddedBy(p, d, r, y, n, Writes(p, d, r, y, n)) /\ Len(Writes(p, d, r, y, n)) = Len(d)
<1> DEFINE one == <<128>>
           zeros == Fill(y - 8 - (r + 1), 0)
           bits == BitLength(p, n)
           L == Len(d)
           a == Put(d, r, one)
           b == Put(a, r + 1, zeros)
           c == Put(b, y - 8, bits)
<1>0. L \in Nat /\ y <= L /\ y - 8 \in Nat /\ y - 8 - (r + 1) \in Nat /\ r + 1 \in Nat
  BY DEF Room
<1>1. one \in Seq(Byte) /\ Len(one) = 1 /\ one[1] = 128
  BY Mark
<1>2. zeros \in Seq(Byte) /\ Len(zeros) = y - 8 - (r + 1) /\ \A i \in 1..(y - 8 - (r + 1)) : zeros[i] = 0
  <2> DEFINE k == y - 8 - (r + 1)
  <2>1. k \in Nat /\ 0 \in Byte
    BY <1>0 DEF Byte
  <2> HIDE DEF k
  <2>2. Fill(k, 0) \in Seq(Byte) /\ Len(Fill(k, 0)) = k /\ \A i \in 1..k : Fill(k, 0)[i] = 0
    BY <2>1, FillIs
  <2>3. QED
    BY <2>2 DEF k
<1>3. bits \in Seq(Byte) /\ Len(bits) = 8
  BY BitLengthIs
<1> HIDE DEF one, zeros, bits
<1>4. a \in Seq(Byte) /\ Len(a) = L /\ \A i \in 1..L : a[i] = PutAt(d, r, one, i)
  <2>1. r + Len(one) <= Len(d)
    BY <1>0, <1>1
  <2>2. Put(d, r, one) \in Seq(Byte) /\ Len(Put(d, r, one)) = Len(d)
    BY <1>1, <2>1, PutIs
  <2>3. \A i \in 1..Len(d) : Put(d, r, one)[i] = PutAt(d, r, one, i)
    <3> HIDE DEF L, a, b, c
    <3>1. one \in Seq(Byte)
      BY <1>1
    <3>2. QED
      BY <2>1, <3>1, PutIs
  <2>4. QED
    BY <2>2, <2>3
<1> HIDE DEF a
<1>5. b \in Seq(Byte) /\ Len(b) = L /\ \A i \in 1..L : b[i] = PutAt(a, r + 1, zeros, i)
  <2> DEFINE r1 == r + 1
  <2>1. r1 \in Nat /\ r1 + Len(zeros) <= Len(a)
    BY <1>0, <1>2, <1>4
  <2> HIDE DEF r1
  <2>2. Put(a, r1, zeros) \in Seq(Byte) /\ Len(Put(a, r1, zeros)) = Len(a)
    BY <1>2, <1>4, <2>1, PutIs
  <2>3. \A i \in 1..Len(a) : Put(a, r1, zeros)[i] = PutAt(a, r1, zeros, i)
    BY <1>2, <1>4, <2>1, PutIs
  <2>4. QED
    BY <1>4, <2>2, <2>3 DEF r1
<1> HIDE DEF b
<1>6. c \in Seq(Byte) /\ Len(c) = L /\ \A i \in 1..L : c[i] = PutAt(b, y - 8, bits, i)
  <2> DEFINE r1 == y - 8
  <2>1. r1 \in Nat /\ r1 + Len(bits) <= Len(b)
    BY <1>0, <1>3, <1>5
  <2> HIDE DEF r1
  <2>2. Put(b, r1, bits) \in Seq(Byte) /\ Len(Put(b, r1, bits)) = Len(b)
    BY <1>3, <1>5, <2>1, PutIs
  <2>3. \A i \in 1..Len(b) : Put(b, r1, bits)[i] = PutAt(b, r1, bits, i)
    BY <1>3, <1>5, <2>1, PutIs
  <2>4. QED
    BY <1>5, <2>2, <2>3 DEF r1
<1> HIDE DEF c
<1>7. ASSUME NEW i \in 1..y PROVE c[i] = PaddingAt(p, d, r, y, n, i)
  <2>0. i \in 1..L
    BY <1>0
  <2>1. c[i] = IF y - 8 < i THEN bits[i - (y - 8)] ELSE b[i]
    <3>1. c[i] = IF y - 8 < i /\ i <= (y - 8) + 8 THEN bits[i - (y - 8)] ELSE b[i]
      BY <1>3, <1>6, <2>0 DEF PutAt
    <3>2. i <= (y - 8) + 8
      BY <1>0
    <3>3. QED
      BY <3>1, <3>2
  <2>2. b[i] = IF r + 1 < i /\ i <= y - 8 THEN 0 ELSE a[i]
    <3>1. b[i] = IF r + 1 < i /\ i <= (r + 1) + (y - 8 - (r + 1)) THEN zeros[i - (r + 1)] ELSE a[i]
      BY <1>2, <1>5, <2>0 DEF PutAt
    <3>2. (r + 1) + (y - 8 - (r + 1)) = y - 8
      BY <1>0
    <3>3. CASE r + 1 < i /\ i <= y - 8
      <4>1. i - (r + 1) \in 1..(y - 8 - (r + 1))
        BY <1>0, <3>3
      <4>2. QED
        BY <1>2, <3>1, <3>2, <3>3, <4>1
    <3>4. QED
      BY <3>1, <3>2, <3>3
  <2>3. a[i] = IF i = r + 1 THEN 128 ELSE d[i]
    <3>1. a[i] = IF r < i /\ i <= r + 1 THEN one[i - r] ELSE d[i]
      BY <1>1, <1>4, <2>0 DEF PutAt
    <3>2. (r < i /\ i <= r + 1) <=> i = r + 1
      OBVIOUS
    <3>3. i = r + 1 => i - r = 1
      OBVIOUS
    <3>4. QED
      BY <1>1, <3>1, <3>2, <3>3
  <2>4. PaddingAt(p, d, r, y, n, i) =
          IF i <= r THEN d[i]
          ELSE IF i = r + 1 THEN 128
          ELSE IF i <= y - 8 THEN 0
          ELSE bits[i - (y - 8)]
    BY DEF PaddingAt, bits
  <2>5. CASE i <= r
    BY <1>0, <2>1, <2>2, <2>3, <2>4, <2>5
  <2>6. CASE i = r + 1
    BY <1>0, <2>1, <2>2, <2>3, <2>4, <2>6
  <2>7. CASE r + 1 < i
    BY <1>0, <2>1, <2>2, <2>3, <2>4, <2>7
  <2>8. QED
    BY <1>0, <2>5, <2>6, <2>7
<1>8. PaddedBy(p, d, r, y, n, c)
  BY <1>6, <1>7 DEF PaddedBy
<1>9. QED
  BY <1>6, <1>8 DEF Writes, a, b, c, one, zeros, bits, L

\* So does what is put together from its parts.
LEMMA Appended ==
  ASSUME NEW p, p.BIG_ENDIAN \in BOOLEAN, NEW m \in Seq(Byte), NEW y \in Nat, Len(m) + 1 <= y - 8,
         NEW f \in Seq(Byte), Len(f) = y - 8 - (Len(m) + 1), \A i \in 1..Len(f) : f[i] = 0,
         NEW g \in Seq(Byte), g = BitLength(p, Len(m))
  PROVE  /\ PaddedBy(p, m, Len(m), y, Len(m), m \o <<128>> \o f \o g)
         /\ Len(m \o <<128>> \o f \o g) = y
<1> DEFINE n == Len(m)
           a == m \o <<128>>
           b == a \o f
           c == b \o g
<1>0. n \in Nat /\ n + 1 <= y - 8 /\ Len(f) = y - 8 - (n + 1) /\ Len(g) = 8
  <2>1. Len(g) = 8
    <3> HIDE DEF n
    <3>1. Len(m) \in Nat
      OBVIOUS
    <3>2. QED
      BY <3>1, BitLengthIs
  <2>2. QED
    BY <2>1
<1> DEFINE one == <<128>>
<1>1. one \in Seq(Byte) /\ Len(one) = 1 /\ one[1] = 128
  BY Mark
<1> HIDE DEF one
<1>2. /\ a \in Seq(Byte) /\ Len(a) = n + 1
      /\ \A i \in 1..(n + 1) : a[i] = IF i <= n THEN m[i] ELSE one[i - n]
  <2>0. (m \o one) \in Seq(Byte) /\ Len(m \o one) = Len(m) + Len(one)
    BY <1>1, Joined
  <2>1. (m \o one) \in Seq(Byte) /\ Len(m \o one) = n + 1
    BY <1>1, <2>0
  <2>2. \A i \in 1..(Len(m) + Len(one)) : (m \o one)[i] = IF i <= Len(m) THEN m[i] ELSE one[i - Len(m)]
    BY <1>1, Joined
  <2>3. QED
    BY <1>1, <2>1, <2>2 DEF one
<1> HIDE DEF a
<1>3. /\ b \in Seq(Byte) /\ Len(b) = y - 8
      /\ \A i \in 1..(y - 8) : b[i] = IF i <= n + 1 THEN a[i] ELSE 0
  <2>0. (a \o f) \in Seq(Byte) /\ Len(a \o f) = Len(a) + Len(f)
    BY <1>2, Joined
  <2>1. (a \o f) \in Seq(Byte) /\ Len(a \o f) = (n + 1) + Len(f)
    BY <1>2, <2>0
  <2>2. \A i \in 1..(Len(a) + Len(f)) : (a \o f)[i] = IF i <= Len(a) THEN a[i] ELSE f[i - Len(a)]
    BY <1>2, Joined
  <2>3. (n + 1) + Len(f) = y - 8
    BY <1>0
  <2>4. ASSUME NEW i \in 1..(y - 8), ~(i <= n + 1) PROVE f[i - (n + 1)] = 0
    <3>1. i - (n + 1) \in 1..Len(f)
      BY <1>0, <2>4
    <3>2. QED
      BY <3>1
  <2>5. QED
    BY <1>2, <2>1, <2>2, <2>3, <2>4
<1> HIDE DEF b
<1>4. /\ c \in Seq(Byte) /\ Len(c) = y
      /\ \A i \in 1..y : c[i] = IF i <= y - 8 THEN b[i] ELSE g[i - (y - 8)]
  <2>0. (b \o g) \in Seq(Byte) /\ Len(b \o g) = Len(b) + Len(g)
    BY <1>3, Joined
  <2>1. (b \o g) \in Seq(Byte) /\ Len(b \o g) = (y - 8) + Len(g)
    BY <1>3, <2>0
  <2>2. \A i \in 1..(Len(b) + Len(g)) : (b \o g)[i] = IF i <= Len(b) THEN b[i] ELSE g[i - Len(b)]
    BY <1>3, Joined
  <2>3. (y - 8) + Len(g) = y
    BY <1>0
  <2>4. QED
    BY <1>3, <2>1, <2>2, <2>3
<1> HIDE DEF c
<1>5. ASSUME NEW i \in 1..y PROVE c[i] = PaddingAt(p, m, n, y, n, i)
  <2> HIDE DEF n
  <2>1. PaddingAt(p, m, n, y, n, i) =
          IF i <= n THEN m[i]
          ELSE IF i = n + 1 THEN 128
          ELSE IF i <= y - 8 THEN 0
          ELSE g[i - (y - 8)]
    BY DEF PaddingAt, n
  <2>2. c[i] = IF i <= y - 8 THEN b[i] ELSE g[i - (y - 8)]
    BY <1>4
  <2>3. CASE i <= n + 1
    <3>1. i \in 1..(y - 8) /\ i \in 1..(n + 1)
      BY <1>0, <2>3
    <3>2. c[i] = a[i] /\ a[i] = IF i <= n THEN m[i] ELSE one[i - n]
      BY <1>2, <1>3, <2>2, <2>3, <3>1
    <3>3. CASE i <= n
      BY <2>1, <3>2, <3>3
    <3>4. CASE ~(i <= n)
      <4>1. i = n + 1 /\ i - n = 1
        BY <1>0, <2>3, <3>4
      <4>2. QED
        BY <1>1, <2>1, <3>2, <3>4, <4>1
    <3>5. QED
      BY <3>3, <3>4
  <2>4. CASE ~(i <= n + 1)
    <3>1. ~(i <= n) /\ i # n + 1
      BY <1>0, <2>4
    <3>2. CASE i <= y - 8
      <4>1. i \in 1..(y - 8)
        BY <1>0, <3>2
      <4>2. QED
        BY <1>3, <2>1, <2>2, <2>4, <3>1, <3>2, <4>1
    <3>3. CASE ~(i <= y - 8)
      BY <2>1, <2>2, <3>1, <3>3
    <3>4. QED
      BY <3>2, <3>3
  <2>5. QED
    BY <2>3, <2>4
<1>6. PaddedBy(p, m, n, y, n, c)
  BY <1>4, <1>5 DEF PaddedBy
<1>7. QED
  BY <1>4, <1>6 DEF a, b, c, n

\* The standard's padding of a message, byte by byte.
LEMMA StandardPaddingIs ==
  ASSUME NEW p, ParamsFit(p), NEW m \in Seq(Byte)
  PROVE  /\ PaddedBy(p, m, Len(m), PadBlocks(p, Len(m)) * p.BLOCK_LENGTH, Len(m), StandardPadding(p, m))
         /\ Len(StandardPadding(p, m)) = PadBlocks(p, Len(m)) * p.BLOCK_LENGTH
<1> DEFINE n == Len(m)
           z == PadBlocks(p, n) * p.BLOCK_LENGTH
           used == n + 1 + Reserve(p)
           end == used + ((p.BLOCK_LENGTH - (used % p.BLOCK_LENGTH)) % p.BLOCK_LENGTH)
           f == Fill(end - 8 - (n + 1), 0)
           g == BitLength(p, n)
<1>1. n \in Nat /\ z \in Nat /\ n + 1 <= z - 8
  <2>1. n \in Nat
    OBVIOUS
  <2> HIDE DEF n
  <2>2. QED
    BY <2>1, PadEnds DEF PadFacts
<1>2. end = z
  <2> HIDE DEF n
  <2>1. CASE p.WORD_BYTES = 4
    <3>1. p.BLOCK_LENGTH = 64 /\ used = n + 9 /\ z = ((n \div 64) + (IF n % 64 < 56 THEN 1 ELSE 2)) * 64
      BY <1>1, <2>1 DEF ParamsFit, Reserve, PadBlocks, TailBlocks
    <3>2. end = (n + 9) + ((64 - ((n + 9) % 64)) % 64)
      BY <3>1
    <3> DEFINE j == n \div 64
               r == n % 64
    <3>3. n = 64 * j + r /\ r \in 0..63 /\ j \in Nat
      BY <1>1
    <3> HIDE DEF j, r, end, used
    <3>4. CASE r < 56
      <4>1. (n + 9) % 64 = r + 9 \/ (r + 9 = 64 /\ (n + 9) % 64 = 0)
        BY <1>1, <3>3, <3>4
      <4>2. end = 64 * j + 64
        BY <1>1, <3>2, <3>3, <3>4, <4>1
      <4>3. z = (j + 1) * 64
        BY <3>1, <3>4 DEF j, r
      <4>4. QED
        BY <3>3, <4>2, <4>3
    <3>5. CASE ~(r < 56)
      <4>1. (n + 9) % 64 = r + 9 - 64
        BY <1>1, <3>3, <3>5
      <4>2. end = 64 * j + 2 * 64
        BY <1>1, <3>2, <3>3, <3>5, <4>1
      <4>3. z = (j + 2) * 64
        BY <3>1, <3>5 DEF j, r
      <4>4. QED
        BY <3>3, <4>2, <4>3
    <3>6. QED
      BY <3>4, <3>5
  <2>2. CASE p.WORD_BYTES = 8
    <3>1. p.BLOCK_LENGTH = 128 /\ used = n + 17 /\ z = ((n \div 128) + (IF n % 128 < 112 THEN 1 ELSE 2)) * 128
      BY <1>1, <2>2 DEF ParamsFit, Reserve, PadBlocks, TailBlocks
    <3>2. end = (n + 17) + ((128 - ((n + 17) % 128)) % 128)
      BY <3>1
    <3> DEFINE j == n \div 128
               r == n % 128
    <3>3. n = 128 * j + r /\ r \in 0..127 /\ j \in Nat
      BY <1>1
    <3> HIDE DEF j, r, end, used
    <3>4. CASE r < 112
      <4>1. (n + 17) % 128 = r + 17 \/ (r + 17 = 128 /\ (n + 17) % 128 = 0)
        BY <1>1, <3>3, <3>4
      <4>2. end = 128 * j + 128
        BY <1>1, <3>2, <3>3, <3>4, <4>1
      <4>3. z = (j + 1) * 128
        BY <3>1, <3>4 DEF j, r
      <4>4. QED
        BY <3>3, <4>2, <4>3
    <3>5. CASE ~(r < 112)
      <4>1. (n + 17) % 128 = r + 17 - 128
        BY <1>1, <3>3, <3>5
      <4>2. end = 128 * j + 2 * 128
        BY <1>1, <3>2, <3>3, <3>5, <4>1
      <4>3. z = (j + 2) * 128
        BY <3>1, <3>5 DEF j, r
      <4>4. QED
        BY <3>3, <4>2, <4>3
    <3>6. QED
      BY <3>4, <3>5
  <2>3. QED
    BY <2>1, <2>2 DEF ParamsFit, Width
<1>3. StandardPadding(p, m) = m \o <<128>> \o f \o g
  BY DEF StandardPadding
<1> HIDE DEF n, z, used, end
<1>4. f \in Seq(Byte) /\ Len(f) = z - 8 - (n + 1) /\ \A i \in 1..Len(f) : f[i] = 0
  <2> DEFINE k == end - 8 - (n + 1)
  <2>1. k \in Nat /\ 0 \in Byte /\ k = z - 8 - (n + 1)
    BY <1>1, <1>2 DEF Byte
  <2> HIDE DEF k
  <2>2. Fill(k, 0) \in Seq(Byte) /\ Len(Fill(k, 0)) = k /\ \A i \in 1..k : Fill(k, 0)[i] = 0
    BY <2>1, FillIs
  <2>3. QED
    BY <2>1, <2>2 DEF k
<1>5. g \in Seq(Byte) /\ p.BIG_ENDIAN \in BOOLEAN
  BY <1>1, BitLengthIs DEF ParamsFit
<1> HIDE DEF f
<1>6. Len(m) + 1 <= z - 8 /\ Len(f) = z - 8 - (Len(m) + 1) /\ g = BitLength(p, Len(m))
  BY <1>1, <1>4 DEF n
<1> HIDE DEF g
<1>7. PaddedBy(p, m, Len(m), z, Len(m), m \o <<128>> \o f \o g)
  BY <1>1, <1>4, <1>5, <1>6, Appended
<1>8. Len(m \o <<128>> \o f \o g) = z
  BY <1>1, <1>4, <1>5, <1>6, Appended
<1>9. QED
  BY <1>3, <1>7, <1>8 DEF z, n

-----------------------------------------------------------------------------
\* Pad and Tail.

\* r is a, j blocks, and the first n blocks of x.
Follows(h, a, j, x, n, r) ==
  /\ Len(a) = Hashes[h].BLOCK_LENGTH * j
  /\ Hashes[h].BLOCK_LENGTH * n <= Len(x)
  /\ Len(r) = Hashes[h].BLOCK_LENGTH * (j + n)
  /\ Behind(h, a, j, x, n, r)

\* The chain of the standard stays within the states.
LEMMA ChainStays ==
  ASSUME NEW h \in DOMAIN Hashes, NEW s \in State(h), NEW a \in Seq(Byte), NEW j \in Nat,
         Len(a) = Hashes[h].BLOCK_LENGTH * j
  PROVE  /\ StandardChain(h, s, a) \in State(h)
         /\ \E b : Path(h, s, a, j, b) /\ b[j] = StandardChain(h, s, a)
<1>1. Hashes[h].BLOCK_LENGTH * j <= Len(a)
  BY AllFit DEF ParamsFit
<1>2. PICK b : Path(h, s, a, j, b)
  BY <1>1, PathThere
<1>3. StandardChain(h, s, a) = b[j]
  BY <1>2, FixedIs
<1>4. b[j] \in State(h)
  BY <1>2 DEF Path
<1>5. QED
  BY <1>2, <1>3, <1>4

\* A call goes on where the chain of the standard is.
LEMMA CallGoesOn ==
  ASSUME NEW h \in DOMAIN Hashes, NEW s \in State(h), NEW a \in Seq(Byte), NEW j \in Nat,
         NEW x \in Seq(Byte), NEW n \in Nat, NEW r \in Seq(Byte), Follows(h, a, j, x, n, r)
  PROVE  /\ Transform(h, StandardChain(h, s, a), x, n) = StandardChain(h, s, r)
         /\ Len(x) = Hashes[h].BLOCK_LENGTH * n =>
              Native(h, StandardChain(h, s, a), Bswap(Hashes[h], x), n) = StandardChain(h, s, r)
<1>1. /\ Len(a) = Hashes[h].BLOCK_LENGTH * j /\ Hashes[h].BLOCK_LENGTH * n <= Len(x)
      /\ Len(r) = Hashes[h].BLOCK_LENGTH * (j + n)
      /\ Behind(h, a, j, x, n, r)
  BY DEF Follows
<1>2. PICK b : Path(h, s, a, j, b) /\ b[j] = StandardChain(h, s, a)
  BY <1>1, ChainStays
<1>3. b[j] \in State(h)
  BY <1>2 DEF Path
<1>4. PICK c : Path(h, b[j], x, n, c)
  BY <1>1, <1>3, PathThere
<1> DEFINE e == [i \in 0..(j + n) |-> IF i <= j THEN b[i] ELSE c[i - j]]
<1>5. Path(h, s, r, j + n, e)
  <2>1. PathOfBoth(h, s, r, j, n, b, c)
    BY <1>1, <1>2, <1>4, PathsJoin
  <2>2. QED
    BY <2>1 DEF PathOfBoth, Continued
<1>6. e[j + n] = c[n]
  <2>1. CASE n = 0
    <3>1. e[j + n] = b[j] /\ c[0] = b[j]
      BY <1>4, <2>1 DEF Path
    <3>2. QED
      BY <2>1, <3>1
  <2>2. CASE n # 0
    <3>1. ~(j + n <= j) /\ (j + n) - j = n /\ j + n \in 0..(j + n)
      BY <2>2
    <3>2. QED
      BY <3>1
  <2>3. QED
    BY <2>1, <2>2
<1> HIDE DEF e
<1>7. StandardChain(h, s, r) = c[n]
  <2> DEFINE t == j + n
  <2>1. t \in Nat /\ Len(r) = Hashes[h].BLOCK_LENGTH * t /\ Path(h, s, r, t, e) /\ e[t] = c[n]
    BY <1>1, <1>5, <1>6
  <2> HIDE DEF t
  <2>2. QED
    BY <2>1, FixedIs
<1>8. Transform(h, b[j], x, n) = c[n]
  BY <1>1, <1>3, <1>4, TransformIs
<1>9. Len(x) = Hashes[h].BLOCK_LENGTH * n => Native(h, b[j], Bswap(Hashes[h], x), n) = c[n]
  BY <1>3, <1>4, NativeIs
<1>10. QED
  BY <1>2, <1>7, <1>8, <1>9

\* The lengths of a call and of a chain.
LEMMA PadLength ==
  ASSUME NEW p, ParamsFit(p), NEW n \in Nat
  PROVE  /\ PadBlocks(p, n) \in Nat /\ PadBlocks(p, n) * p.BLOCK_LENGTH \in Nat
         /\ PadBlocks(p, n) * p.BLOCK_LENGTH = p.BLOCK_LENGTH * PadBlocks(p, n)
BY PadEnds DEF PadFacts

\* What Pad leaves in the blocks it counts is the padding of the standard, whatever
\* lay behind the message.
PadsTo(p, data, n) ==
  LET x == Pad(p, data, n)
      z == p.BLOCK_LENGTH * PadBlocks(p, n)
  IN /\ x[2] = PadBlocks(p, n)
     /\ x[1] \in Seq(Byte) /\ Len(x[1]) = Len(data)
     /\ \A i \in 1..z : x[1][i] = StandardPadding(p, SubSeq(data, 1, n))[i]
     /\ Len(StandardPadding(p, SubSeq(data, 1, n))) = z

LEMMA PadIs ==
  ASSUME NEW p, ParamsFit(p), NEW data \in Seq(Byte), NEW n \in Nat,
         p.BLOCK_LENGTH * PadBlocks(p, n) <= Len(data)
  PROVE  PadsTo(p, data, n)
<1> DEFINE b == PadBlocks(p, n)
           z == b * p.BLOCK_LENGTH
           m == SubSeq(data, 1, n)
           x == Writes(p, data, n, z, n)
           q == StandardPadding(p, m)
<1>1. b \in Nat /\ z \in Nat /\ n + 1 <= z - 8 /\ z = p.BLOCK_LENGTH * b
  BY PadEnds DEF PadFacts
<1>2. Pad(p, data, n) = <<x, b>>
  BY DEF Pad, PadBlocks, Writes
<1> HIDE DEF z
<1>3. z <= Len(data) /\ Len(data) \in Nat
  BY <1>1
<1>4. p.BIG_ENDIAN \in BOOLEAN
  BY DEF ParamsFit
<1>5. PaddedBy(p, data, n, z, n, x) /\ Len(x) = Len(data)
  <2>1. Room(data, n, z)
    BY <1>1, <1>3 DEF Room
  <2>2. QED
    BY <1>1, <1>4, <2>1, Written
<1>6. m \in Seq(Byte) /\ Len(m) = n /\ \A i \in 1..n : m[i] = data[i]
  BY <1>1, <1>3
<1> HIDE DEF x, m, b
<1>7. PaddedBy(p, m, n, z, n, q) /\ Len(q) = z
  <2>1. /\ PaddedBy(p, m, Len(m), PadBlocks(p, Len(m)) * p.BLOCK_LENGTH, Len(m), StandardPadding(p, m))
        /\ Len(StandardPadding(p, m)) = PadBlocks(p, Len(m)) * p.BLOCK_LENGTH
    BY <1>6, StandardPaddingIs
  <2>2. QED
    BY <1>6, <2>1 DEF z, b
<1>8. ASSUME NEW i \in 1..z PROVE x[i] = q[i]
  <2>1. x[i] = PaddingAt(p, data, n, z, n, i) /\ q[i] = PaddingAt(p, m, n, z, n, i)
    BY <1>5, <1>7 DEF PaddedBy
  <2>2. i <= n => m[i] = data[i]
    BY <1>1, <1>6
  <2>3. QED
    BY <2>1, <2>2 DEF PaddingAt
<1> HIDE DEF q
<1>9. x \in Seq(Byte)
  BY <1>5 DEF PaddedBy
<1>10. QED
  BY <1>1, <1>2, <1>5, <1>7, <1>8, <1>9 DEF PadsTo, q, m, b

\* What HashTail leaves in a buffer that holds the end of a message is the end of
\* its padding.
TailsTo(p, last, m) ==
  LET x == HashTail(p, last, Len(m))
      j == Len(m) \div p.BLOCK_LENGTH
  IN /\ j \in Nat /\ x[2] \in Nat
     /\ x[1] \in Seq(Byte) /\ Len(x[1]) = Len(last) /\ p.BLOCK_LENGTH * x[2] <= Len(last)
     /\ \A i \in 1..(p.BLOCK_LENGTH * x[2]) : x[1][i] = StandardPadding(p, m)[p.BLOCK_LENGTH * j + i]
     /\ \A i \in 1..(p.BLOCK_LENGTH * j) : m[i] = StandardPadding(p, m)[i]
     /\ Len(StandardPadding(p, m)) = p.BLOCK_LENGTH * (j + x[2])

LEMMA TailIs ==
  ASSUME NEW p, ParamsFit(p), NEW last \in Seq(Byte), Len(last) = 2 * p.BLOCK_LENGTH,
         NEW m \in Seq(Byte),
         \A i \in 1..(Len(m) % p.BLOCK_LENGTH) : last[i] = m[p.BLOCK_LENGTH * (Len(m) \div p.BLOCK_LENGTH) + i]
  PROVE  TailsTo(p, last, m)
<1> DEFINE n == Len(m)
           b == PadBlocks(p, n)
           z == b * p.BLOCK_LENGTH
           r == n % p.BLOCK_LENGTH
           k == TailBlocks(p, r)
           y == k * p.BLOCK_LENGTH
           j == n \div p.BLOCK_LENGTH
           x == Writes(p, last, r, y, n)
           q == StandardPadding(p, m)
<1>0. n \in Nat
  OBVIOUS
<1> HIDE DEF n
<1>1. PadFacts(p, n, z, k, r, y)
  BY <1>0, PadEnds
<1>2. HashTail(p, last, n) = <<x, k>>
  BY DEF HashTail, Writes
<1>3. p.BLOCK_LENGTH \in Nat /\ p.BIG_ENDIAN \in BOOLEAN /\ Len(last) = 2 * p.BLOCK_LENGTH
  BY DEF ParamsFit
<1> DEFINE B == p.BLOCK_LENGTH
<1>4. \A i \in 1..r : last[i] = m[(z - y) + i]
  <2>1. z - y = B * j
    BY <1>1 DEF PadFacts
  <2>2. \A i \in 1..r : last[i] = m[B * j + i]
    BY DEF n
  <2>3. QED
    BY <2>1, <2>2
<1>5. /\ z \in Nat /\ k \in Nat /\ r \in Nat /\ y \in Nat /\ n + 1 <= z - 8 /\ r + 1 <= y - 8
      /\ y <= Len(last) /\ z - y = n - r
      /\ B * j = n - r /\ j \in Nat /\ B * k = y /\ B * (j + k) = z /\ n - r \in Nat
  <2>1. B * j = n - r /\ j \in Nat /\ B * k = y /\ b \in Nat /\ z = B * b /\ b = j + k
    BY <1>1 DEF PadFacts, PadBlocks
  <2>2. /\ z \in Nat /\ k \in Nat /\ r \in Nat /\ y \in Nat /\ n + 1 <= z - 8 /\ r + 1 <= y - 8
        /\ y <= 2 * B /\ z - y = n - r
    BY <1>1 DEF PadFacts
  <2>3. B \in Nat /\ Len(last) = 2 * B
    BY <1>3
  <2> HIDE DEF B, z, y, r, k, b, j
  <2>4. B * (j + k) = z
    BY <2>1
  <2>5. n - r \in Nat
    <3>1. B * j \in Nat
      BY <2>1, <2>3
    <3>2. QED
      BY <2>1, <3>1
  <2>6. QED
    BY <2>1, <2>2, <2>3, <2>4, <2>5
<1>6. PaddedBy(p, last, r, y, n, x) /\ Len(x) = Len(last)
  <2> HIDE DEF r, y, z, k, j, B, b, q
  <2>1. Room(last, r, y)
    BY <1>5 DEF Room
  <2>2. r \in Nat /\ y \in Nat /\ p.BIG_ENDIAN \in BOOLEAN
    BY <1>3, <1>5
  <2>3. QED
    BY <1>0, <2>1, <2>2, Written
<1>7. PaddedBy(p, m, n, z, n, q) /\ Len(q) = z
  <2>1. /\ PaddedBy(p, m, Len(m), PadBlocks(p, Len(m)) * p.BLOCK_LENGTH, Len(m), StandardPadding(p, m))
        /\ Len(StandardPadding(p, m)) = PadBlocks(p, Len(m)) * p.BLOCK_LENGTH
    BY StandardPaddingIs
  <2>2. QED
    BY <2>1 DEF n
<1> HIDE DEF z, y, r, j, k, x, q, B, b
<1>8. ASSUME NEW i \in 1..y PROVE x[i] = q[(n - r) + i]
  <2>1. x[i] = PaddingAt(p, last, r, y, n, i)
    BY <1>6 DEF PaddedBy
  <2>2. (n - r) + i \in 1..z
    BY <1>0, <1>5
  <2> DEFINE l == (n - r) + i
  <2>3. q[l] = PaddingAt(p, m, n, z, n, l)
    <3> HIDE DEF l
    <3>1. l \in 1..z
      BY <2>2 DEF l
    <3>2. QED
      BY <1>7, <3>1 DEF PaddedBy
  <2>4. /\ (i <= r) <=> (l <= n)
        /\ (i = r + 1) <=> (l = n + 1)
        /\ (i <= y - 8) <=> (l <= z - 8)
        /\ i - (y - 8) = l - (z - 8)
    BY <1>0, <1>5
  <2>5. i <= r => last[i] = m[l]
    BY <1>4, <1>5
  <2> HIDE DEF l
  <2>6. x[i] = q[l]
    BY <2>1, <2>3, <2>4, <2>5 DEF PaddingAt
  <2>7. QED
    BY <2>6 DEF l
<1>9. ASSUME NEW i \in 1..(n - r) PROVE m[i] = q[i]
  <2>1. i \in 1..z /\ i <= n
    BY <1>0, <1>5
  <2>2. q[i] = PaddingAt(p, m, n, z, n, i)
    BY <1>7, <2>1 DEF PaddedBy
  <2>3. QED
    BY <2>1, <2>2 DEF PaddingAt
<1>10. x \in Seq(Byte)
  BY <1>6 DEF PaddedBy
<1>11. /\ \A i \in 1..(B * k) : x[i] = q[B * j + i]
       /\ \A i \in 1..(B * j) : m[i] = q[i]
       /\ B * k <= Len(last) /\ Len(q) = B * (j + k)
  BY <1>5, <1>7, <1>8, <1>9
<1>12. TailsTo(p, last, m) =
         LET t == HashTail(p, last, n)
         IN /\ j \in Nat /\ t[2] \in Nat
            /\ t[1] \in Seq(Byte) /\ Len(t[1]) = Len(last) /\ B * t[2] <= Len(last)
            /\ \A i \in 1..(B * t[2]) : t[1][i] = q[B * j + i]
            /\ \A i \in 1..(B * j) : m[i] = q[i]
            /\ Len(q) = B * (j + t[2])
  BY DEF TailsTo, n, j, B, q
<1> DEFINE t == HashTail(p, last, n)
<1>13. t[1] = x /\ t[2] = k
  BY <1>2
<1> HIDE DEF t
<1>14. /\ j \in Nat /\ t[2] \in Nat
       /\ t[1] \in Seq(Byte) /\ Len(t[1]) = Len(last) /\ B * t[2] <= Len(last)
       /\ \A i \in 1..(B * t[2]) : t[1][i] = q[B * j + i]
       /\ \A i \in 1..(B * j) : m[i] = q[i]
       /\ Len(q) = B * (j + t[2])
  BY <1>5, <1>6, <1>10, <1>11, <1>13
<1>15. QED
  BY <1>12, <1>14 DEF t

-----------------------------------------------------------------------------
\* Serialize, and the digests of the standards.

LEMMA SameBytes ==
  ASSUME NEW x \in Seq(Byte), NEW y \in Seq(Byte), Len(x) = Len(y), \A i \in 1..Len(x) : x[i] = y[i]
  PROVE  x = y
OBVIOUS

\* The byte at place i of a state.
DigestByte(p, state, i) == NthByte(p, state[((i - 1) \div p.WORD_BYTES) + 1], (i - 1) % p.WORD_BYTES)

LEMMA DigestPlaces ==
  ASSUME NEW p, ParamsFit(p), NEW i \in 1..p.DIGEST_LENGTH
  PROVE  /\ ((i - 1) \div p.WORD_BYTES) + 1 \in 1..p.STATE_WORDS
         /\ ((i - 1) % p.WORD_BYTES) + 1 \in 1..p.WORD_BYTES
         /\ p.WORD_BYTES - ((i - 1) % p.WORD_BYTES) \in 1..p.WORD_BYTES
<1> DEFINE D == p.DIGEST_LENGTH
           w == p.WORD_BYTES
           m == p.STATE_WORDS
<1>1. w \in Width /\ D \in Nat /\ D <= m * w /\ m \in {4, 5, 8} /\ i \in 1..D
  BY DEF ParamsFit
<1> HIDE DEF D, w, m
<1>2. ((i - 1) \div w) + 1 \in 1..m /\ ((i - 1) % w) + 1 \in 1..w /\ w - ((i - 1) % w) \in 1..w
  <2>1. CASE w = 4
    <3>1. D <= 4 * m
      BY <1>1, <2>1
    <3>2. QED
      BY <1>1, <2>1, <3>1
  <2>2. CASE w = 8
    <3>1. D <= 8 * m
      BY <1>1, <2>2
    <3>2. QED
      BY <1>1, <2>2, <3>1
  <2>3. QED
    BY <1>1, <2>1, <2>2 DEF Width
<1>3. QED
  BY <1>2 DEF D, w, m

LEMMA SerializeIs ==
  ASSUME NEW p, ParamsFit(p), NEW s \in Registers(p.STATE_WORDS, p.WORD_BYTES)
  PROVE  /\ Serialize(p, s) \in Seq(Byte) /\ Len(Serialize(p, s)) = p.DIGEST_LENGTH
         /\ \A i \in 1..p.DIGEST_LENGTH : Serialize(p, s)[i] = DigestByte(p, s, i)
<1> DEFINE D == p.DIGEST_LENGTH
           f == [i \in 1..D |-> DigestByte(p, s, i)]
<1>1. ASSUME NEW i \in 1..D PROVE DigestByte(p, s, i) \in Byte
  <2> DEFINE j == ((i - 1) \div p.WORD_BYTES) + 1
             k == (i - 1) % p.WORD_BYTES
  <2>1. j \in 1..p.STATE_WORDS /\ k + 1 \in 1..p.WORD_BYTES /\ p.WORD_BYTES - k \in 1..p.WORD_BYTES
    BY DigestPlaces
  <2>2. DigestByte(p, s, i) = NthByte(p, s[j], k)
    BY DEF DigestByte
  <2> HIDE DEF j, k
  <2>3. s[j] \in Bytes(p.WORD_BYTES)
    BY <2>1 DEF Registers
  <2>4. s[j][k + 1] \in Byte /\ s[j][p.WORD_BYTES - k] \in Byte
    BY <2>1, <2>3 DEF Bytes
  <2>5. QED
    BY <2>2, <2>4 DEF NthByte
<1>2. D \in Nat
  BY DEF ParamsFit
<1>3. Serialize(p, s) = Word(f)
  BY DEF Serialize, DigestByte
<1>4. f \in Bytes(D)
  <2> HIDE DEF D
  <2>1. QED
    BY <1>1 DEF Bytes
<1>5. \A i \in 1..D : f[i] = DigestByte(p, s, i)
  OBVIOUS
<1> HIDE DEF f, D
<1>6. Word(f) = f
  BY <1>2, <1>4, WordIs
<1>7. f \in Seq(Byte) /\ Len(f) = D
  BY <1>2, <1>4, BytesAre
<1>8. QED
  BY <1>3, <1>5, <1>6, <1>7 DEF D

\* The padding of sha2t.c is the standard's.
LEMMA Sha2tInputIs ==
  ASSUME NEW p, ParamsFit(p), p.BIG_ENDIAN = TRUE, NEW m \in Seq(Byte)
  PROVE  Sha2tInput(m, p.WORD_BYTES) = StandardPadding(p, m)
<1> DEFINE n == Len(m)
           w == p.WORD_BYTES
           z == PadBlocks(p, n) * p.BLOCK_LENGTH
           at == (n % (16 * w)) + 1
           end == IF at <= 16 * w - 2 * w THEN 16 * w - 8 ELSE 2 * (16 * w) - 8
           f == [i \in 1..(end - at) |-> 0]
           g == LengthBytes(n)
           x == m \o <<128>> \o f \o g
<1>0. n \in Nat
  OBVIOUS
<1> HIDE DEF n
<1>1. z \in Nat /\ n + 1 <= z - 8
  BY <1>0, PadEnds DEF PadFacts
<1>2. Sha2tInput(m, w) = x
  BY DEF Sha2tInput, n
<1>3. end - at = z - 8 - (n + 1)
  <2>1. CASE w = 4
    <3>1. z = ((n \div 64) + (IF n % 64 < 56 THEN 1 ELSE 2)) * 64
      BY <2>1 DEF ParamsFit, Reserve, PadBlocks, TailBlocks
    <3>2. at = (n % 64) + 1 /\ end = IF at <= 56 THEN 56 ELSE 120
      BY <2>1
    <3> HIDE DEF z, at, end
    <3>3. QED
      BY <1>0, <3>1, <3>2
  <2>2. CASE w = 8
    <3>1. z = ((n \div 128) + (IF n % 128 < 112 THEN 1 ELSE 2)) * 128
      BY <2>2 DEF ParamsFit, Reserve, PadBlocks, TailBlocks
    <3>2. at = (n % 128) + 1 /\ end = IF at <= 112 THEN 120 ELSE 248
      BY <2>2
    <3> HIDE DEF z, at, end
    <3>3. QED
      BY <1>0, <3>1, <3>2
  <2>3. QED
    BY <2>1, <2>2 DEF ParamsFit, Width
<1> HIDE DEF at, end, z
<1>4. f \in Seq(Byte) /\ Len(f) = z - 8 - (n + 1) /\ \A i \in 1..Len(f) : f[i] = 0
  <2> DEFINE k == end - at
  <2>1. k \in Nat /\ 0 \in Byte /\ k = z - 8 - (n + 1)
    BY <1>0, <1>1, <1>3 DEF Byte
  <2>2. f = [i \in 1..k |-> 0]
    OBVIOUS
  <2> HIDE DEF k, f
  <2>3. f \in Bytes(k)
    BY <2>1, <2>2 DEF Bytes
  <2>4. f \in Seq(Byte) /\ Len(f) = k
    BY <2>1, <2>3, BytesAre
  <2>5. QED
    BY <2>1, <2>2, <2>4
<1>5. g = BitLength(p, n)
  <2> DEFINE high == ((8 * n) \div 256 ^ 3) \div 256
             half(i) == IF i > 4 THEN high ELSE 8 * n
             byte(i) == (half(i) \div 256 ^ ((i - 1) % 4)) % 256
             rest(i) == ((IF i <= 4 THEN high ELSE 8 * n) \div 256 ^ ((8 - i) % 4)) % 256
  <2>1. BitLength(p, n) = [i \in 1..8 |-> byte(9 - i)]
    BY DEF BitLength
  <2>2. LengthBytes(n) = [i \in 1..8 |-> rest(i)]
    BY DEF LengthBytes
  <2> HIDE DEF high
  <2>3. ASSUME NEW i \in 1..8 PROVE byte(9 - i) = rest(i)
    <3>1. (9 - i > 4) <=> (i <= 4)
      OBVIOUS
    <3>2. (9 - i) - 1 = 8 - i
      OBVIOUS
    <3>3. QED
      BY <3>1, <3>2
  <2> HIDE DEF byte, rest
  <2>4. QED
    BY <2>1, <2>2, <2>3
<1>6. p.BIG_ENDIAN \in BOOLEAN /\ g \in Seq(Byte)
  BY <1>0, <1>5, BitLengthIs DEF ParamsFit
<1> HIDE DEF f, g
<1>7. Len(m) + 1 <= z - 8 /\ Len(f) = z - 8 - (Len(m) + 1) /\ g = BitLength(p, Len(m))
  BY <1>1, <1>4, <1>5 DEF n
<1>8. PaddedBy(p, m, Len(m), z, Len(m), x) /\ Len(x) = z
  <2>1. PaddedBy(p, m, Len(m), z, Len(m), m \o <<128>> \o f \o g)
    BY <1>1, <1>4, <1>6, <1>7, Appended
  <2>2. Len(m \o <<128>> \o f \o g) = z
    BY <1>1, <1>4, <1>6, <1>7, Appended
  <2>3. QED
    BY <2>1, <2>2
<1> HIDE DEF x
<1> DEFINE q == StandardPadding(p, m)
<1>9. PaddedBy(p, m, Len(m), z, Len(m), q) /\ Len(q) = z
  BY StandardPaddingIs DEF z, n
<1> HIDE DEF q
<1>10. x \in Seq(Byte) /\ q \in Seq(Byte) /\ \A i \in 1..z : x[i] = q[i]
  BY <1>8, <1>9 DEF PaddedBy
<1>11. x = q
  BY <1>8, <1>9, <1>10, SameBytes
<1>12. QED
  BY <1>2, <1>11 DEF q

\* The digest of sha2t.c, cut to the length of the hash, is the serialized state.
Sha2tName(h, f) ==
  \/ h \in {"sha2_224", "sha2_256"} /\ f = sha2_256
  \/ h \in {"sha2_384", "sha2_512"} /\ f = sha2_512

LEMMA Sha2tHashIs ==
  ASSUME NEW h \in DOMAIN Hashes, NEW f, Sha2tName(h, f), NEW m \in Seq(Byte)
  PROVE  SubSeq(Sha2tHash(f, Hashes[h].WORD_BYTES, Hashes[h].IV, m), 1, Hashes[h].DIGEST_LENGTH)
           = Serialize(Hashes[h], StandardChain(h, Hashes[h].IV, StandardPadding(Hashes[h], m)))
<1> DEFINE p == Hashes[h]
           w == p.WORD_BYTES
           D == p.DIGEST_LENGTH
           s == p.IV
           q == StandardPadding(p, m)
           n == PadBlocks(p, Len(m))
           d == StandardChain(h, s, q)
<1>1. ParamsFit(p) /\ p.BIG_ENDIAN = TRUE /\ p.STATE_WORDS = 8
  <2>1. ParamsFit(p)
    BY AllFit
  <2>2. h \in {"sha2_224", "sha2_256", "sha2_384", "sha2_512"}
    BY DEF Sha2tName
  <2>3. QED
    BY <2>1, <2>2, Shapes DEF Shape
<1>2. s \in State(h)
  BY InitialValues DEF State
<1>3. q \in Seq(Byte) /\ n \in Nat /\ Len(q) = p.BLOCK_LENGTH * n
  <2> HIDE DEF p
  <2>1. Len(m) \in Nat
    OBVIOUS
  <2>2. n \in Nat /\ n * p.BLOCK_LENGTH = p.BLOCK_LENGTH * n
    BY <1>1, <2>1, PadLength
  <2>3. q \in Seq(Byte)
    BY <1>1, StandardPaddingIs DEF PaddedBy
  <2>4. Len(q) = n * p.BLOCK_LENGTH
    BY <1>1, StandardPaddingIs
  <2>5. QED
    BY <2>2, <2>3, <2>4
<1>4. Sha2tInput(m, w) = q
  <2> HIDE DEF p
  <2>1. QED
    BY <1>1, Sha2tInputIs
<1> HIDE DEF q, n
<1>5. Len(q) \div (16 * w) = n
  <2> DEFINE l == Len(q)
  <2>1. l = (16 * w) * n /\ w \in Width
    BY <1>1, <1>3 DEF ParamsFit
  <2> HIDE DEF w, l
  <2>2. l \div (16 * w) = n
    <3>1. CASE w = 4
      <4>1. l = 64 * n
        BY <2>1, <3>1
      <4>2. l \div 64 = n
        BY <1>3, <4>1
      <4>3. 16 * w = 64
        BY <3>1
      <4>4. QED
        BY <4>2, <4>3
    <3>2. CASE w = 8
      <4>1. l = 128 * n
        BY <2>1, <3>2
      <4>2. l \div 128 = n
        BY <1>3, <4>1
      <4>3. 16 * w = 128
        BY <3>2
      <4>4. QED
        BY <4>2, <4>3
    <3>3. QED
      BY <2>1, <3>1, <3>2 DEF Width
  <2>3. QED
    BY <2>2 DEF l
<1>6. PICK b : Path(h, s, q, n, b) /\ b[n] = d
  BY <1>2, <1>3, ChainStays
<1>7. d \in State(h) /\ b[0] = s
  BY <1>6, <1>3 DEF Path
<1>8. ASSUME NEW i \in 0..(n - 1)
      PROVE  b[i + 1] = Sha2tTransform(f, b[i], SubSeq(BigEndian(q, w), 16 * i + 1, 16 * i + 16))
  <2>0. p.BLOCK_LENGTH * n <= Len(q)
    BY <1>1, <1>3 DEF ParamsFit
  <2> HIDE DEF d
  <2>1. /\ b[i + 1] = Standard(h, b[i], BlockFor(h, q, i))
        /\ KernelIs(h, b[i], BlockFor(h, q, i))
        /\ SubSeq(BigEndian(q, w), 16 * i + 1, 16 * i + 16) = BlockFor(h, q, i)
    BY <1>1, <1>2, <1>3, <1>6, <2>0, PathReads
  <2>2. QED
    BY <2>1 DEF KernelIs, Sha2tName
<1> DEFINE x == BigEndian(q, w)
           e == Sha2tChain(f, s, x, n)
<1>9. e = d
  <2> HIDE DEF x, d
  <2>1. Sha2tChainGoes(f, x, n, b)
    BY <1>8 DEF Sha2tChainGoes, x
  <2>2. Sha2tChain(f, b[0], x, n) = b[n]
    BY <1>3, <2>1, Sha2tChainTrace
  <2>3. QED
    BY <1>6, <1>7, <2>2
<1> DEFINE g == [i \in 1..(8 * w) |-> e[((i - 1) \div w) + 1][((i - 1) % w) + 1]]
<1>10. Sha2tHash(f, w, s, m) = g
  <2>1. Sha2tHash(f, w, s, m) =
          LET state == Sha2tChain(f, s, BigEndian(Sha2tInput(m, w), w), Len(Sha2tInput(m, w)) \div (16 * w))
          IN [i \in 1..(8 * w) |-> state[((i - 1) \div w) + 1][((i - 1) % w) + 1]]
    BY Zenon DEF Sha2tHash, Sha2tChain
  <2>2. QED
    BY <1>4, <1>5, <2>1
<1> HIDE DEF e, d
<1>11. w \in Nat /\ D \in Nat /\ D <= 8 * w
  BY <1>1 DEF ParamsFit
<1>12. ASSUME NEW i \in 1..(8 * w) PROVE g[i] \in Byte
  <2> DEFINE j == ((i - 1) \div w) + 1
             k == ((i - 1) % w) + 1
  <2>1. w \in Width
    BY <1>1 DEF ParamsFit
  <2> HIDE DEF w
  <2>2. j \in 1..8 /\ k \in 1..w
    <3>1. CASE w = 4
      BY <3>1
    <3>2. CASE w = 8
      BY <3>2
    <3>3. QED
      BY <2>1, <3>1, <3>2 DEF Width
  <2>3. g[i] = e[j][k]
    OBVIOUS
  <2> HIDE DEF j, k, g
  <2>4. e \in Registers(8, w)
    BY <1>1, <1>7, <1>9 DEF State, w
  <2>5. e[j] \in Bytes(w)
    BY <2>2, <2>4 DEF Registers
  <2>6. QED
    BY <2>2, <2>3, <2>5 DEF Bytes
<1>13. g \in Seq(Byte) /\ Len(g) = 8 * w
  <2> DEFINE l == 8 * w
  <2>1. l \in Nat /\ g = [i \in 1..l |-> e[((i - 1) \div w) + 1][((i - 1) % w) + 1]]
    BY <1>11
  <2>2. \A i \in 1..l : g[i] \in Byte
    BY <1>12
  <2> HIDE DEF l, g
  <2>3. g \in Bytes(l)
    <3>1. g = [i \in 1..l |-> g[i]]
      BY <2>1
    <3>2. QED
      BY <2>2, <3>1 DEF Bytes
  <2>4. QED
    BY <2>1, <2>3, BytesAre DEF l
<1> DEFINE c == SubSeq(g, 1, D)
           o == Serialize(p, d)
<1>14. c \in Seq(Byte) /\ Len(c) = D /\ \A i \in 1..D : c[i] = g[i]
  <2> HIDE DEF g, D, w
  <2>1. QED
    BY <1>11, <1>13
<1>15. o \in Seq(Byte) /\ Len(o) = D /\ \A i \in 1..D : o[i] = DigestByte(p, d, i)
  <2>1. d \in Registers(p.STATE_WORDS, p.WORD_BYTES)
    BY <1>7 DEF State
  <2> HIDE DEF p
  <2>2. QED
    BY <1>1, <2>1, SerializeIs
<1>16. ASSUME NEW i \in 1..D PROVE c[i] = o[i]
  <2>1. i \in 1..(8 * w)
    <3> HIDE DEF D, w
    <3>1. QED
      BY <1>11
  <2>2. g[i] = e[((i - 1) \div w) + 1][((i - 1) % w) + 1]
    BY <2>1
  <2>3. DigestByte(p, d, i) = d[((i - 1) \div w) + 1][((i - 1) % w) + 1]
    BY <1>1 DEF DigestByte, NthByte
  <2> HIDE DEF c, o, g, w, D
  <2>4. QED
    BY <1>9, <1>14, <1>15, <2>2, <2>3
<1>17. c = o
  <2> HIDE DEF c, o, D
  <2>1. QED
    BY <1>14, <1>15, <1>16, SameBytes
<1>18. QED
  BY <1>10, <1>17 DEF d, q

LEMMA StandardHashIs ==
  ASSUME NEW h \in DOMAIN Hashes, NEW m \in Seq(Byte)
  PROVE  StandardHash(h, m)
           = Serialize(Hashes[h], StandardChain(h, Hashes[h].IV, StandardPadding(Hashes[h], m)))
<1>1. CASE h \in {"sha2_224", "sha2_256"}
  <2>1. StandardHash(h, m) = SubSeq(sha256iv(Hashes[h].IV, m), 1, Hashes[h].DIGEST_LENGTH)
    BY <1>1 DEF StandardHash
  <2>2. Hashes[h].WORD_BYTES = 4
    BY <1>1, Shapes DEF Shape
  <2>3. Sha2tName(h, sha2_256)
    BY <1>1 DEF Sha2tName
  <2>4. QED
    BY <2>1, <2>2, <2>3, Sha2tHashIs DEF sha256iv
<1>2. CASE h \in {"sha2_384", "sha2_512"}
  <2>1. StandardHash(h, m) = SubSeq(sha512iv(Hashes[h].IV, m), 1, Hashes[h].DIGEST_LENGTH)
    BY <1>2 DEF StandardHash
  <2>2. Hashes[h].WORD_BYTES = 8
    BY <1>2, Shapes DEF Shape
  <2>3. Sha2tName(h, sha2_512)
    BY <1>2 DEF Sha2tName
  <2>4. QED
    BY <2>1, <2>2, <2>3, Sha2tHashIs DEF sha512iv
<1>3. CASE h \in {"md4", "md5", "ripemd160", "sha1"}
  BY <1>3 DEF StandardHash
<1>4. QED
  BY <1>1, <1>2, <1>3, NamesAre DEF Names

-----------------------------------------------------------------------------
\* Partial.

LEMMA Slices ==
  ASSUME NEW x \in Seq(Byte), NEW a \in Nat, NEW b \in Nat, NEW c \in Nat, a <= b, b <= c, c <= Len(x)
  PROVE  SubSeq(x, a + 1, b) \o SubSeq(x, b + 1, c) = SubSeq(x, a + 1, c)
<1> DEFINE u == SubSeq(x, a + 1, b)
           v == SubSeq(x, b + 1, c)
           w == SubSeq(x, a + 1, c)
<1>1. u \in Seq(Byte) /\ Len(u) = b - a /\ \A i \in 1..(b - a) : u[i] = x[a + i]
  OBVIOUS
<1>2. v \in Seq(Byte) /\ Len(v) = c - b /\ \A i \in 1..(c - b) : v[i] = x[b + i]
  OBVIOUS
<1>3. w \in Seq(Byte) /\ Len(w) = c - a /\ \A i \in 1..(c - a) : w[i] = x[a + i]
  OBVIOUS
<1> HIDE DEF u, v, w
<1>4. (u \o v) \in Seq(Byte) /\ Len(u \o v) = Len(u) + Len(v)
  BY <1>1, <1>2, Joined
<1>5. \A i \in 1..(Len(u) + Len(v)) : (u \o v)[i] = IF i <= Len(u) THEN u[i] ELSE v[i - Len(u)]
  BY <1>1, <1>2, Joined
<1>6. Len(u) + Len(v) = c - a
  BY <1>1, <1>2
<1>7. ASSUME NEW i \in 1..(c - a) PROVE (u \o v)[i] = w[i]
  <2>1. (u \o v)[i] = IF i <= b - a THEN u[i] ELSE v[i - (b - a)]
    BY <1>1, <1>5, <1>6
  <2>2. CASE i <= b - a
    <3>1. i \in 1..(b - a)
      BY <2>2
    <3>2. QED
      BY <1>1, <1>3, <2>1, <2>2, <3>1
  <2>3. CASE ~(i <= b - a)
    <3>1. i - (b - a) \in 1..(c - b) /\ b + (i - (b - a)) = a + i
      BY <2>3
    <3>2. QED
      BY <1>2, <1>3, <2>1, <2>3, <3>1
  <2>4. QED
    BY <2>2, <2>3
<1>8. u \o v = w
  <2> DEFINE t == u \o v
  <2>1. t \in Seq(Byte) /\ Len(t) = Len(w) /\ \A i \in 1..Len(t) : t[i] = w[i]
    BY <1>3, <1>4, <1>6, <1>7
  <2> HIDE DEF t
  <2>2. t = w
    BY <1>3, <2>1, SameBytes
  <2>3. QED
    BY <2>2 DEF t
<1>9. QED
  BY <1>8 DEF u, v, w

\* Where a word is read from bit i down: n bytes from byte c of word j.
Reads(p, j, c, n, i) ==
  /\ j \in Nat /\ c \in Nat /\ n \in Nat
  /\ c + n <= p.WORD_BYTES
  /\ j * p.WORD_BYTES + c + n <= p.DIGEST_LENGTH
  /\ p.WORD_BYTES - (i \div 8) = c + 1

PieceIs(p, s, j, c, n, i) ==
  Downwards(p, s[j + 1], i, n)
    = SubSeq(Serialize(p, s), (j * p.WORD_BYTES + c) + 1, j * p.WORD_BYTES + c + n)

LEMMA Piece ==
  ASSUME NEW p, ParamsFit(p), p.BIG_ENDIAN = TRUE, NEW s \in Registers(p.STATE_WORDS, p.WORD_BYTES),
         NEW j, NEW c, NEW n, NEW i, Reads(p, j, c, n, i)
  PROVE  PieceIs(p, s, j, c, n, i)
<1> DEFINE w == p.WORD_BYTES
           D == p.DIGEST_LENGTH
           S == Serialize(p, s)
           a == j * w + c
           f == [k \in 1..n |-> s[j + 1][w - (i \div 8) + k - 1]]
           g == [k \in 1..n |-> S[a + k]]
<1>1. /\ j \in Nat /\ c \in Nat /\ n \in Nat /\ w \in Width /\ w \in Nat /\ D \in Nat
      /\ c + n <= w /\ a + n <= D /\ a \in Nat /\ w - (i \div 8) = c + 1
  BY DEF Reads, ParamsFit
<1>2. S \in Seq(Byte) /\ Len(S) = D /\ \A k \in 1..D : S[k] = DigestByte(p, s, k)
  BY SerializeIs
<1> HIDE DEF S, D
<1>3. ASSUME NEW k \in 1..n PROVE f[k] = S[a + k] /\ S[a + k] \in Byte
  <2> DEFINE t == a + k
  <2>1. t \in 1..D
    <3> HIDE DEF a, w
    <3>1. QED
      BY <1>1
  <2>2. ((t - 1) \div w) + 1 = j + 1 /\ ((t - 1) % w) + 1 = c + k
    <3> HIDE DEF w
    <3>1. CASE w = 4
      <4>1. a = 4 * j + c /\ c + k - 1 \in 0..3
        BY <1>1, <3>1
      <4> HIDE DEF a
      <4>2. QED
        BY <1>1, <3>1, <4>1
    <3>2. CASE w = 8
      <4>1. a = 8 * j + c /\ c + k - 1 \in 0..7
        BY <1>1, <3>2
      <4> HIDE DEF a
      <4>2. QED
        BY <1>1, <3>2, <4>1
    <3>3. QED
      BY <1>1, <3>1, <3>2 DEF Width
  <2>3. w - (i \div 8) + k - 1 = c + k
    <3> DEFINE y == w - (i \div 8)
    <3>1. y = c + 1
      BY <1>1
    <3> HIDE DEF y
    <3>2. y + k - 1 = c + k
      BY <1>1, <3>1
    <3>3. QED
      BY <3>2 DEF y
  <2>4. f[k] = s[j + 1][c + k]
    BY <2>3
  <2> HIDE DEF t, f
  <2>5. DigestByte(p, s, t) = s[((t - 1) \div w) + 1][((t - 1) % w) + 1]
    <3> HIDE DEF a
    <3>1. QED
      BY DEF DigestByte, NthByte
  <2> HIDE DEF a, w
  <2>6. DigestByte(p, s, t) = s[j + 1][c + k]
    BY <2>2, <2>5
  <2>7. f[k] = S[t] /\ S[t] \in Byte
    BY <1>2, <2>1, <2>4, <2>6
  <2>8. QED
    BY <2>7 DEF t
<1>4. Downwards(p, s[j + 1], i, n) = Word(f)
  BY DEF Downwards
<1>5. f = g
  <2>1. \A k \in 1..n : s[j + 1][w - (i \div 8) + k - 1] = S[a + k]
    BY <1>3
  <2>2. QED
    BY <2>1
<1>6. g \in Bytes(n)
  <2> HIDE DEF a
  <2>1. QED
    BY <1>3 DEF Bytes
<1> HIDE DEF f
<1>7. Word(g) = g
  <2> HIDE DEF g
  <2>1. QED
    BY <1>1, <1>6, WordIs
<1>8. SubSeq(S, a + 1, a + n) = g
  <2> HIDE DEF a, g
  <2>1. SubSeq(S, a + 1, a + n) = [k \in 1..n |-> S[a + k]]
    <3>1. SubSeq(S, a + 1, a + n) = [k \in 1..((a + n) - (a + 1) + 1) |-> S[(a + 1) + k - 1]]
      BY <1>1, <1>2
    <3>2. (a + n) - (a + 1) + 1 = n /\ \A k \in 1..n : (a + 1) + k - 1 = a + k
      BY <1>1
    <3>3. QED
      BY <3>1, <3>2
  <2>2. QED
    BY <2>1 DEF g
<1> HIDE DEF g
<1>9. QED
  BY <1>4, <1>5, <1>7, <1>8 DEF PieceIs, S, a, w

\* How far the k-th word of the loop gets.
Gets(pos, end, w, k) == IF k * w <= end - pos THEN pos + k * w ELSE end

WordsNeeded(pos, end, w) == IF end - pos > w THEN (end - pos + w - 1) \div w ELSE 1

Goes(pos, end, w, k) ==
  /\ Gets(pos, end, w, 0) = pos
  /\ Gets(pos, end, w, WordsNeeded(pos, end, w)) = end
  /\ Gets(pos, end, w, k - 1) \in pos..end /\ Gets(pos, end, w, k) \in pos..end
  /\ Gets(pos, end, w, k - 1) <= Gets(pos, end, w, k)
  /\ AtMost(w, end - (pos + (k - 1) * w)) \in 0..w
  /\ pos < end => /\ Gets(pos, end, w, k - 1) = pos + (k - 1) * w
                  /\ Gets(pos, end, w, k) = pos + (k - 1) * w + AtMost(w, end - (pos + (k - 1) * w))
  /\ pos = end => AtMost(w, end - (pos + (k - 1) * w)) = 0

LEMMA WordsGo ==
  ASSUME NEW w \in Width, NEW pos \in Nat, NEW end \in Nat, pos <= end,
         NEW k \in 1..WordsNeeded(pos, end, w)
  PROVE  WordsNeeded(pos, end, w) \in Nat /\ k \in Nat /\ Goes(pos, end, w, k)
<1>1. CASE w = 4
  <2> DEFINE n == WordsNeeded(pos, end, w)
             d == end - pos
             m == (d + 3) \div 4
  <2>0. d \in Nat /\ end = pos + d
    OBVIOUS
  <2>1. n = IF d > 4 THEN m ELSE 1
    <3>1. d + 4 - 1 = d + 3
      BY <2>0
    <3>2. QED
      BY <1>1, <3>1 DEF WordsNeeded
  <2>2. m \in Nat /\ 4 * m <= d + 3 /\ d <= 4 * m
    <3> HIDE DEF d
    <3>1. QED
      BY <2>0
  <2> HIDE DEF n, m, d
  <2>3. n \in Nat /\ k \in 1..n
    BY <2>1, <2>2 DEF n
  <2>4. 4 * (k - 1) <= d /\ (d = 0 => k = 1) /\ (d # 0 => 4 * (k - 1) < d)
    BY <2>0, <2>1, <2>2, <2>3
  <2>5. \A i \in Nat : Gets(pos, end, w, i) = IF 4 * i <= d THEN pos + 4 * i ELSE end
    BY <1>1, <2>0 DEF Gets, d
  <2>6. Gets(pos, end, w, 0) = pos /\ Gets(pos, end, w, n) = end
    BY <2>0, <2>1, <2>2, <2>3, <2>5
  <2>7. AtMost(w, end - (pos + (k - 1) * w)) = IF d - 4 * (k - 1) >= 4 THEN 4 ELSE d - 4 * (k - 1)
    <3>1. (k - 1) * w = 4 * (k - 1)
      BY <1>1, <2>3
    <3>2. end - (pos + 4 * (k - 1)) = d - 4 * (k - 1)
      BY <2>0, <2>3
    <3>3. QED
      BY <1>1, <3>1, <3>2 DEF AtMost
  <2>8. k - 1 \in Nat /\ k \in Nat
    BY <2>3
  <2>9. /\ Gets(pos, end, w, k - 1) = pos + 4 * (k - 1)
        /\ Gets(pos, end, w, k) = IF 4 * k <= d THEN pos + 4 * k ELSE end
    BY <2>4, <2>5, <2>8
  <2>10. (k - 1) * w = 4 * (k - 1)
    BY <1>1, <2>3
  <2>11. /\ Gets(pos, end, w, k - 1) \in pos..end /\ Gets(pos, end, w, k) \in pos..end
         /\ Gets(pos, end, w, k - 1) <= Gets(pos, end, w, k)
    BY <2>0, <2>4, <2>8, <2>9
  <2>12. AtMost(w, end - (pos + (k - 1) * w)) \in 0..w
    BY <1>1, <2>0, <2>4, <2>7, <2>8
  <2>13. /\ pos < end => Gets(pos, end, w, k) = pos + 4 * (k - 1) + AtMost(w, end - (pos + (k - 1) * w))
         /\ pos = end => AtMost(w, end - (pos + (k - 1) * w)) = 0
    BY <2>0, <2>4, <2>7, <2>8, <2>9
  <2>14. QED
    BY <2>3, <2>6, <2>8, <2>9, <2>10, <2>11, <2>12, <2>13 DEF Goes, n
<1>2. CASE w = 8
  <2> DEFINE n == WordsNeeded(pos, end, w)
             d == end - pos
             m == (d + 7) \div 8
  <2>0. d \in Nat /\ end = pos + d
    OBVIOUS
  <2>1. n = IF d > 8 THEN m ELSE 1
    <3>1. d + 8 - 1 = d + 7
      BY <2>0
    <3>2. QED
      BY <1>2, <3>1 DEF WordsNeeded
  <2>2. m \in Nat /\ 8 * m <= d + 7 /\ d <= 8 * m
    <3> HIDE DEF d
    <3>1. QED
      BY <2>0
  <2> HIDE DEF n, m, d
  <2>3. n \in Nat /\ k \in 1..n
    BY <2>1, <2>2 DEF n
  <2>4. 8 * (k - 1) <= d /\ (d = 0 => k = 1) /\ (d # 0 => 8 * (k - 1) < d)
    BY <2>0, <2>1, <2>2, <2>3
  <2>5. \A i \in Nat : Gets(pos, end, w, i) = IF 8 * i <= d THEN pos + 8 * i ELSE end
    BY <1>2, <2>0 DEF Gets, d
  <2>6. Gets(pos, end, w, 0) = pos /\ Gets(pos, end, w, n) = end
    BY <2>0, <2>1, <2>2, <2>3, <2>5
  <2>7. AtMost(w, end - (pos + (k - 1) * w)) = IF d - 8 * (k - 1) >= 8 THEN 8 ELSE d - 8 * (k - 1)
    <3>1. (k - 1) * w = 8 * (k - 1)
      BY <1>2, <2>3
    <3>2. end - (pos + 8 * (k - 1)) = d - 8 * (k - 1)
      BY <2>0, <2>3
    <3>3. QED
      BY <1>2, <3>1, <3>2 DEF AtMost
  <2>8. k - 1 \in Nat /\ k \in Nat
    BY <2>3
  <2>9. /\ Gets(pos, end, w, k - 1) = pos + 8 * (k - 1)
        /\ Gets(pos, end, w, k) = IF 8 * k <= d THEN pos + 8 * k ELSE end
    BY <2>4, <2>5, <2>8
  <2>10. (k - 1) * w = 8 * (k - 1)
    BY <1>2, <2>3
  <2>11. /\ Gets(pos, end, w, k - 1) \in pos..end /\ Gets(pos, end, w, k) \in pos..end
         /\ Gets(pos, end, w, k - 1) <= Gets(pos, end, w, k)
    BY <2>0, <2>4, <2>8, <2>9
  <2>12. AtMost(w, end - (pos + (k - 1) * w)) \in 0..w
    BY <1>2, <2>0, <2>4, <2>7, <2>8
  <2>13. /\ pos < end => Gets(pos, end, w, k) = pos + 8 * (k - 1) + AtMost(w, end - (pos + (k - 1) * w))
         /\ pos = end => AtMost(w, end - (pos + (k - 1) * w)) = 0
    BY <2>0, <2>4, <2>7, <2>8, <2>9
  <2>14. QED
    BY <2>3, <2>6, <2>8, <2>9, <2>10, <2>11, <2>12, <2>13 DEF Goes, n
<1>3. QED
  BY <1>1, <1>2 DEF Width

\* The parts of Partial, where the orders differ.
WordStart(p, start) == 8 * p.WORD_BYTES - 8 - 8 * (start % p.WORD_BYTES)

PartialHead(p, s, start, end) ==
  IF start % p.WORD_BYTES = 0 THEN <<>>
  ELSE Downwards(p, s[start \div p.WORD_BYTES + 1], WordStart(p, start),
                 AtMost(WordStart(p, start) \div 8 + 1, end - start))

FirstWord(p, start) ==
  IF start % p.WORD_BYTES = 0 THEN start \div p.WORD_BYTES ELSE start \div p.WORD_BYTES + 1

HeadIs(p, s, start, end, pos) ==
  /\ pos \in start..end
  /\ PartialHead(p, s, start, end) = SubSeq(Serialize(p, s), start + 1, pos)
  /\ start + Len(PartialHead(p, s, start, end)) = pos
  /\ pos < end => FirstWord(p, start) * p.WORD_BYTES = pos

\* What the start says of the word it lies in.
StartsAt(w, start, end, j, c, i, n) ==
  /\ j \in Nat /\ c \in Nat /\ c < w /\ j * w + c = start /\ (j + 1) * w = start + w - c
  /\ i = 8 * w - 8 - 8 * c /\ i \div 8 = w - c - 1
  /\ n \in Nat /\ c + n <= w /\ start + n <= end
  /\ start + n < end => n = w - c
  /\ n = AtMost(i \div 8 + 1, end - start)

LEMMA StartsThere ==
  ASSUME NEW w \in Width, NEW start \in Nat, NEW end \in Nat, start <= end
  PROVE  StartsAt(w, start, end, start \div w, start % w, 8 * w - 8 - 8 * (start % w),
                  AtMost((8 * w - 8 - 8 * (start % w)) \div 8 + 1, end - start))
<1>1. CASE w = 4
  <2> DEFINE j == start \div 4
             c == start % 4
             n == AtMost(4 - c, end - start)
  <2>1. j \in Nat /\ c \in 0..3 /\ 4 * j + c = start
    OBVIOUS
  <2>2. (8 * 4 - 8 - 8 * c) \div 8 = 4 - c - 1
    <3> HIDE DEF c
    <3>1. QED
      BY <2>1
  <2>3. (8 * 4 - 8 - 8 * c) \div 8 + 1 = 4 - c
    BY <2>1, <2>2
  <2>4. n \in Nat /\ c + n <= 4 /\ start + n <= end /\ (start + n < end => n = 4 - c)
    <3> HIDE DEF c
    <3>1. QED
      BY <2>1 DEF AtMost
  <2> HIDE DEF j, c, n
  <2>5. j * 4 + c = start /\ (j + 1) * 4 = start + 4 - c
    BY <2>1
  <2>6. StartsAt(4, start, end, j, c, 8 * 4 - 8 - 8 * c, n)
    BY <2>1, <2>2, <2>3, <2>4, <2>5 DEF StartsAt, n
  <2>7. QED
    BY <1>1, <2>3, <2>6 DEF j, c, n
<1>2. CASE w = 8
  <2> DEFINE j == start \div 8
             c == start % 8
             n == AtMost(8 - c, end - start)
  <2>1. j \in Nat /\ c \in 0..7 /\ 8 * j + c = start
    OBVIOUS
  <2>2. (8 * 8 - 8 - 8 * c) \div 8 = 8 - c - 1
    <3> HIDE DEF c
    <3>1. QED
      BY <2>1
  <2>3. (8 * 8 - 8 - 8 * c) \div 8 + 1 = 8 - c
    BY <2>1, <2>2
  <2>4. n \in Nat /\ c + n <= 8 /\ start + n <= end /\ (start + n < end => n = 8 - c)
    <3> HIDE DEF c
    <3>1. QED
      BY <2>1 DEF AtMost
  <2> HIDE DEF j, c, n
  <2>5. j * 8 + c = start /\ (j + 1) * 8 = start + 8 - c
    BY <2>1
  <2>6. StartsAt(8, start, end, j, c, 8 * 8 - 8 - 8 * c, n)
    BY <2>1, <2>2, <2>3, <2>4, <2>5 DEF StartsAt, n
  <2>7. QED
    BY <1>2, <2>3, <2>6 DEF j, c, n
<1>3. QED
  BY <1>1, <1>2 DEF Width

LEMMA HeadThere ==
  ASSUME NEW p, ParamsFit(p), p.BIG_ENDIAN = TRUE, NEW s \in Registers(p.STATE_WORDS, p.WORD_BYTES),
         NEW start \in Nat, NEW end \in Nat, start <= end, end <= p.DIGEST_LENGTH
  PROVE  \E pos : HeadIs(p, s, start, end, pos)
<1> DEFINE w == p.WORD_BYTES
           S == Serialize(p, s)
           j == start \div w
           c == start % w
           i == WordStart(p, start)
           n == AtMost(i \div 8 + 1, end - start)
           x == Downwards(p, s[j + 1], i, n)
           head == PartialHead(p, s, start, end)
<1>1. w \in Width /\ w \in Nat /\ p.DIGEST_LENGTH \in Nat
  BY DEF ParamsFit
<1>2. S \in Seq(Byte) /\ Len(S) = p.DIGEST_LENGTH
  BY SerializeIs
<1>3. StartsAt(w, start, end, j, c, i, n)
  BY <1>1, StartsThere DEF WordStart
<1>4. head = IF c = 0 THEN <<>> ELSE x
  BY DEF PartialHead
<1>5. FirstWord(p, start) = IF c = 0 THEN j ELSE j + 1
  BY DEF FirstWord
<1> HIDE DEF w, S, j, c, i, n, x, head
<1>6. CASE c = 0
  <2>1. SubSeq(S, start + 1, start) = <<>>
    BY <1>2
  <2>2. j * w = start
    <3>1. j * w \in Nat
      BY <1>1, <1>3 DEF StartsAt
    <3>2. QED
      BY <1>3, <1>6, <3>1 DEF StartsAt
  <2>3. HeadIs(p, s, start, end, start)
    BY <1>4, <1>5, <1>6, <2>1, <2>2 DEF HeadIs, S, head, w
  <2>4. QED
    BY <2>3
<1>7. CASE c # 0
  <2> DEFINE pos == start + n
  <2>1. Reads(p, j, c, n, i)
    BY <1>1, <1>3 DEF StartsAt, Reads, w
  <2>2. PieceIs(p, s, j, c, n, i)
    BY <2>1, Piece
  <2>3. x = SubSeq(S, (j * w + c) + 1, j * w + c + n)
    BY <2>2 DEF PieceIs, x, S, w
  <2>4. x = SubSeq(S, start + 1, pos)
    BY <1>3, <2>3 DEF StartsAt
  <2>5. pos \in start..end /\ n \in Nat
    BY <1>3 DEF StartsAt
  <2>6. Len(SubSeq(S, start + 1, pos)) = n
    BY <1>2, <2>5
  <2>7. pos < end => (j + 1) * w = pos
    BY <1>1, <1>3 DEF StartsAt
  <2>8. head = x
    BY <1>4, <1>7
  <2>9. start + Len(head) = pos
    BY <2>4, <2>6, <2>8
  <2>10. FirstWord(p, start) = j + 1
    BY <1>5, <1>7
  <2> HIDE DEF pos
  <2>11. HeadIs(p, s, start, end, pos)
    BY <2>4, <2>5, <2>7, <2>8, <2>9, <2>10 DEF HeadIs, S, head, w
  <2>12. QED
    BY <2>11
<1>8. QED
  BY <1>6, <1>7

\* The word the loop of Partial leaves as the k-th, and what it has left by then.
PartialWord(p, s, pos, first, end, k) ==
  Downwards(p, s[first + k], 8 * p.WORD_BYTES - 8,
            AtMost(p.WORD_BYTES, end - (pos + (k - 1) * p.WORD_BYTES)))

LeftBy(p, s, pos, end, k) == SubSeq(Serialize(p, s), pos + 1, Gets(pos, end, p.WORD_BYTES, k))

LEMMA WordLeft ==
  ASSUME NEW p, ParamsFit(p), p.BIG_ENDIAN = TRUE, NEW s \in Registers(p.STATE_WORDS, p.WORD_BYTES),
         NEW end \in Nat, end <= p.DIGEST_LENGTH, NEW pos \in 0..end, NEW first \in Nat,
         pos < end => first * p.WORD_BYTES = pos,
         NEW k \in 1..WordsNeeded(pos, end, p.WORD_BYTES)
  PROVE  LeftBy(p, s, pos, end, k - 1) \o PartialWord(p, s, pos, first, end, k) = LeftBy(p, s, pos, end, k)
<1> DEFINE w == p.WORD_BYTES
           S == Serialize(p, s)
           n == AtMost(w, end - (pos + (k - 1) * w))
           i == 8 * w - 8
           a == Gets(pos, end, w, k - 1)
           b == Gets(pos, end, w, k)
           x == PartialWord(p, s, pos, first, end, k)
<1>1. w \in Width /\ w \in Nat /\ p.DIGEST_LENGTH \in Nat /\ pos \in Nat /\ pos <= end
  BY DEF ParamsFit
<1>2. S \in Seq(Byte) /\ Len(S) = p.DIGEST_LENGTH
  BY SerializeIs
<1>3. k \in Nat /\ k >= 1 /\ Goes(pos, end, w, k)
  BY <1>1, WordsGo
<1>4. a \in pos..end /\ b \in pos..end /\ a <= b /\ n \in 0..w
  BY <1>3 DEF Goes
<1>5. x = Downwards(p, s[first + k], i, n)
  BY DEF PartialWord
<1>6. x = SubSeq(S, a + 1, b)
  <2>1. CASE pos = end
    <3>1. n = 0
      BY <1>3, <2>1 DEF Goes
    <3>2. a = b
      BY <1>4, <2>1
    <3>3. SubSeq(S, a + 1, b) = <<>>
      <4> HIDE DEF a, b, S
      <4>1. QED
        BY <1>1, <1>2, <1>4, <3>2
    <3>4. Downwards(p, s[first + k], i, 0) = <<>>
      BY DEF Downwards, Word
    <3> HIDE DEF a, b, S, n, x, i
    <3>5. QED
      BY <1>5, <3>1, <3>3, <3>4
  <2>2. CASE pos < end
    <3> DEFINE j == first + (k - 1)
    <3>1. a = pos + (k - 1) * w /\ b = pos + (k - 1) * w + n /\ first * w = pos
      BY <1>3, <2>2 DEF Goes
    <3>2. j \in Nat /\ j + 1 = first + k
      BY <1>3
    <3>3. j * w = pos + (k - 1) * w
      <4> HIDE DEF w, a, b, S, n, x, i
      <4>1. CASE w = 4
        BY <1>3, <3>1, <4>1
      <4>2. CASE w = 8
        BY <1>3, <3>1, <4>2
      <4>3. QED
        BY <1>1, <4>1, <4>2 DEF Width
    <3> HIDE DEF j, a, b, S, x, n
    <3>4. j * w + 0 + n <= p.DIGEST_LENGTH
      <4> HIDE DEF w
      <4>1. j * w = a /\ b = a + n
        BY <3>1, <3>3
      <4>2. QED
        BY <1>1, <1>4, <4>1
    <3>5. w - (i \div 8) = 0 + 1
      <4> HIDE DEF w
      <4>1. CASE w = 4
        BY <4>1
      <4>2. CASE w = 8
        BY <4>2
      <4>3. QED
        BY <1>1, <4>1, <4>2 DEF Width
    <3> DEFINE c == 0
    <3> HIDE DEF i
    <3>6. Reads(p, j, c, n, i)
      BY <1>1, <1>4, <3>2, <3>4, <3>5 DEF Reads
    <3>7. c \in Nat
      OBVIOUS
    <3> HIDE DEF c
    <3>8. PieceIs(p, s, j, c, n, i)
      BY <3>6, Piece
    <3>9. Downwards(p, s[j + 1], i, n) = SubSeq(S, (j * w + c) + 1, j * w + c + n)
      BY <3>8 DEF PieceIs, S
    <3>10. j * w + c = a /\ j * w + c + n = b
      <4> HIDE DEF w
      <4>1. j * w = a /\ a \in Nat /\ b = a + n
        BY <1>1, <1>4, <3>1, <3>3
      <4>2. QED
        BY <1>4, <4>1 DEF c
    <3> HIDE DEF w
    <3>11. QED
      BY <1>5, <3>2, <3>9, <3>10
  <2>3. QED
    BY <1>1, <2>1, <2>2
<1>7. SubSeq(S, pos + 1, a) \o SubSeq(S, a + 1, b) = SubSeq(S, pos + 1, b)
  <2> HIDE DEF a, b, S, w, n, i, x
  <2>1. a \in Nat /\ b \in Nat /\ pos <= a /\ a <= b /\ b <= Len(S)
    BY <1>1, <1>2, <1>4
  <2>2. QED
    BY <1>1, <1>2, <2>1, Slices
<1>8. LeftBy(p, s, pos, end, k - 1) = SubSeq(S, pos + 1, a) /\ LeftBy(p, s, pos, end, k) = SubSeq(S, pos + 1, b)
  BY DEF LeftBy
<1> HIDE DEF a, b, S, x
<1>9. QED
  BY <1>6, <1>7, <1>8 DEF x

\* The loop of Partial.
PartialBody(p, s, pos, first, end) ==
  LET words == WordsNeeded(pos, end, p.WORD_BYTES)
      body[k \in 0..words] ==
        IF k = 0 THEN <<>> ELSE body[k - 1] \o PartialWord(p, s, pos, first, end, k)
  IN body[words]

LEMMA BodyIs ==
  ASSUME NEW p, ParamsFit(p), p.BIG_ENDIAN = TRUE, NEW s \in Registers(p.STATE_WORDS, p.WORD_BYTES),
         NEW end \in Nat, end <= p.DIGEST_LENGTH, NEW pos \in 0..end, NEW first \in Nat,
         pos < end => first * p.WORD_BYTES = pos
  PROVE  PartialBody(p, s, pos, first, end) = SubSeq(Serialize(p, s), pos + 1, end)
<1> DEFINE w == p.WORD_BYTES
           n == WordsNeeded(pos, end, w)
           X(k) == PartialWord(p, s, pos, first, end, k)
           L(k) == LeftBy(p, s, pos, end, k)
           Is(f) == f = [k \in 0..n |-> IF k = 0 THEN <<>> ELSE f[k - 1] \o X(k)]
           g == CHOOSE f : Is(f)
           b == [k \in 0..n |-> L(k)]
<1>1. \A k \in 1..n : L(k - 1) \o X(k) = L(k)
  BY WordLeft
<1>2. w \in Width /\ pos \in Nat /\ pos <= end /\ w \in Nat /\ p.DIGEST_LENGTH \in Nat
  BY DEF ParamsFit
<1>3. n \in Nat
  <2>1. CASE w = 4
    <3> HIDE DEF w
    <3>1. QED
      BY <1>2, <2>1 DEF WordsNeeded
  <2>2. CASE w = 8
    <3> HIDE DEF w
    <3>1. QED
      BY <1>2, <2>2 DEF WordsNeeded
  <2>3. QED
    BY <1>2, <2>1, <2>2 DEF Width
<1>4. n >= 1
  <2>1. CASE w = 4
    <3> HIDE DEF w
    <3>1. QED
      BY <1>2, <2>1 DEF WordsNeeded
  <2>2. CASE w = 8
    <3> HIDE DEF w
    <3>1. QED
      BY <1>2, <2>2 DEF WordsNeeded
  <2>3. QED
    BY <1>2, <2>1, <2>2 DEF Width
<1>5. Gets(pos, end, w, 0) = pos /\ Gets(pos, end, w, n) = end
  <2> HIDE DEF w
  <2>1. PICK k \in 1..n : k = 1
    BY <1>3, <1>4
  <2>2. Goes(pos, end, w, k)
    BY <1>2, <2>1, WordsGo
  <2>3. QED
    BY <2>2 DEF Goes
<1>6. L(0) = <<>>
  <2>1. Serialize(p, s) \in Seq(Byte) /\ Len(Serialize(p, s)) = p.DIGEST_LENGTH
    BY SerializeIs
  <2>2. SubSeq(Serialize(p, s), pos + 1, pos) = <<>>
    BY <1>2, <2>1
  <2>3. QED
    BY <1>5, <2>2 DEF LeftBy
<1>7. L(n) = SubSeq(Serialize(p, s), pos + 1, end)
  BY <1>5 DEF LeftBy
<1>8. PartialBody(p, s, pos, first, end) = g[n]
  BY DEF PartialBody
<1> HIDE DEF L, X, n, w
<1>9. Is(b)
  <2>1. b = [k \in 0..n |-> b[k]] /\ b[0] = <<>>
    BY <1>3, <1>6
  <2>2. ASSUME NEW k \in 1..n PROVE b[k] = b[k - 1] \o X(k)
    <3>1. k \in 0..n /\ k - 1 \in 0..n
      BY <1>3
    <3>2. QED
      BY <1>1, <3>1
  <2> HIDE DEF b
  <2>3. ASSUME NEW k \in 0..n PROVE b[k] = IF k = 0 THEN <<>> ELSE b[k - 1] \o X(k)
    <3>1. CASE k = 0
      BY <2>1, <3>1
    <3>2. CASE k # 0
      <4>1. k \in 1..n
        BY <1>3, <3>2
      <4>2. QED
        BY <2>2, <3>2, <4>1
    <3>3. QED
      BY <3>1, <3>2
  <2>4. QED
    BY <2>1, <2>3
<1>10. Is(g)
  BY <1>9
<1> HIDE DEF g
<1>11. g[0] = b[0] /\ \A k \in 0..(n - 1) : g[k] = b[k] => g[k + 1] = b[k + 1]
  <2>1. ASSUME NEW f, Is(f) PROVE f[0] = <<>> /\ \A i \in 0..n : i # 0 => f[i] = f[i - 1] \o X(i)
    <3>1. \A i \in 0..n : f[i] = IF i = 0 THEN <<>> ELSE f[i - 1] \o X(i)
      BY <2>1, Zenon
    <3>2. 0 \in 0..n
      BY <1>3
    <3>3. QED
      BY <3>1, <3>2, Zenon
  <2>2. /\ g[0] = <<>> /\ \A i \in 0..n : i # 0 => g[i] = g[i - 1] \o X(i)
        /\ b[0] = <<>> /\ \A i \in 0..n : i # 0 => b[i] = b[i - 1] \o X(i)
    <3> HIDE DEF b, Is
    <3>1. QED
      BY <1>9, <1>10, <2>1, Zenon
  <2> HIDE DEF b, Is
  <2>3. \A k \in 0..(n - 1) : k + 1 \in 0..n /\ k + 1 # 0 /\ (k + 1) - 1 = k
    BY <1>3
  <2>4. ASSUME NEW k \in 0..(n - 1), g[k] = b[k] PROVE g[k + 1] = b[k + 1]
    <3>1. g[k + 1] = g[k] \o X(k + 1) /\ b[k + 1] = b[k] \o X(k + 1)
      BY <2>2, <2>3
    <3>2. QED
      BY <2>4, <3>1
  <2>5. QED
    BY <2>2, <2>4
<1>12. b[n] = L(n)
  BY <1>3
<1> HIDE DEF b, Is
<1>13. g[n] = b[n]
  BY <1>3, <1>11, SameTrace
<1>14. QED
  BY <1>7, <1>8, <1>12, <1>13

\* Partial leaves the bytes start up to end of the digest, whatever the words of the
\* state, in either byte order.
THEOREM PartialIs ==
  ASSUME NEW p, ParamsFit(p), NEW s \in Registers(p.STATE_WORDS, p.WORD_BYTES),
         NEW start \in Nat, NEW end \in Nat, start <= end, end <= p.DIGEST_LENGTH
  PROVE  Partial(p, s, start, end) = SubSeq(Serialize(p, s), start + 1, end)
<1>1. CASE p.BIG_ENDIAN = TRUE
  <2> DEFINE S == Serialize(p, s)
             head == PartialHead(p, s, start, end)
             first == FirstWord(p, start)
             rest == PartialBody(p, s, start + Len(head), first, end)
  <2>1. PICK pos : HeadIs(p, s, start, end, pos)
    BY <1>1, HeadThere
  <2>2. Partial(p, s, start, end) = head \o rest
    BY <1>1 DEF Partial, PartialHead, PartialBody, PartialWord, WordStart, FirstWord, WordsNeeded
  <2>3. pos \in start..end /\ head = SubSeq(S, start + 1, pos) /\ start + Len(head) = pos
    BY <2>1 DEF HeadIs
  <2>4. pos < end => first * p.WORD_BYTES = pos
    BY <2>1 DEF HeadIs
  <2>5. first \in Nat
    <3>1. p.WORD_BYTES = 4 \/ p.WORD_BYTES = 8
      BY DEF ParamsFit, Width
    <3>2. start \div 4 \in Nat /\ start \div 8 \in Nat
      OBVIOUS
    <3>3. start \div p.WORD_BYTES \in Nat
      BY <3>1, <3>2
    <3>4. start \div p.WORD_BYTES + 1 \in Nat
      BY <3>3
    <3>5. QED
      BY <3>3, <3>4 DEF FirstWord
  <2>6. pos \in 0..end
    BY <2>3
  <2> HIDE DEF head, first
  <2>7. PartialBody(p, s, pos, first, end) = SubSeq(S, pos + 1, end)
    BY <1>1, <2>4, <2>5, <2>6, BodyIs
  <2>8. S \in Seq(Byte) /\ Len(S) = p.DIGEST_LENGTH
    BY SerializeIs
  <2>9. SubSeq(S, start + 1, pos) \o SubSeq(S, pos + 1, end) = SubSeq(S, start + 1, end)
    <3>1. pos \in Nat /\ start <= pos /\ pos <= end /\ end <= Len(S)
      BY <2>3, <2>8
    <3> HIDE DEF S
    <3>2. QED
      BY <2>8, <3>1, Slices
  <2> HIDE DEF S
  <2>10. rest = SubSeq(S, pos + 1, end)
    BY <2>3, <2>7
  <2> HIDE DEF rest
  <2>11. QED
    BY <2>2, <2>3, <2>9, <2>10 DEF S
<1>2. CASE p.BIG_ENDIAN = FALSE
  BY <1>2 DEF Partial
<1>3. QED
  BY <1>1, <1>2 DEF ParamsFit

-----------------------------------------------------------------------------
\* llh_memset.

\* d with its first n bytes set to c, and llh_memset with n of them written.
Filled(d, c, n) == [i \in DOMAIN d |-> IF i <= n THEN c ELSE d[i]]
Wrote(d, c, n) == <<Filled(d, c, n), n>>

LEMMA LoopWrites ==
  ASSUME NEW d \in Seq(Int), NEW c, NEW a \in Nat, NEW b \in Nat
  PROVE  M!Loop(Wrote(d, c, a), c, b) = Wrote(d, c, a + b)
<1> DEFINE f == Filled(d, c, a)
           g == [i \in DOMAIN f |-> IF i \in (a + 1)..(a + b) THEN c ELSE f[i]]
<1>1. M!Loop(Wrote(d, c, a), c, b) = <<g, a + b>>
  BY DEF M!Loop, Wrote
<1>2. DOMAIN f = DOMAIN d /\ DOMAIN d \subseteq Int /\ \A i \in DOMAIN d : f[i] = IF i <= a THEN c ELSE d[i]
  BY DEF Filled
<1> HIDE DEF f
<1>3. ASSUME NEW i \in DOMAIN d PROVE g[i] = IF i <= a + b THEN c ELSE d[i]
  BY <1>2
<1>4. g = Filled(d, c, a + b)
  BY <1>2, <1>3 DEF Filled
<1> HIDE DEF g
<1>5. QED
  BY <1>1, <1>4 DEF Wrote

LEMMA RestWrites ==
  ASSUME NEW d \in Seq(Int), NEW c, NEW a \in Nat, NEW r \in 0..127
  PROVE  M!Rest(Wrote(d, c, a), c, r) = Wrote(d, c, a + r)
<1> DEFINE m == Wrote(d, c, a)
           lo == IF r < 64 THEN r ELSE 64
           low == IF r > 0 THEN M!Loop(m, c, lo) ELSE m
<1>1. M!Rest(m, c, r) = IF r > 64 THEN M!Loop(low, c, r - 64) ELSE low
  BY DEF M!Rest
<1>2. lo \in Nat /\ (r = 0 => lo = 0) /\ (r <= 64 => lo = r) /\ (r > 64 => lo = 64)
  OBVIOUS
<1> HIDE DEF lo
<1>3. low = Wrote(d, c, a + lo)
  <2>1. CASE r > 0
    <3>1. M!Loop(Wrote(d, c, a), c, lo) = Wrote(d, c, a + lo)
      BY <1>2, LoopWrites
    <3>2. QED
      BY <2>1, <3>1
  <2>2. CASE r = 0
    <3>1. a + lo = a
      BY <1>2, <2>2
    <3>2. QED
      BY <2>2, <3>1
  <2>3. QED
    BY <2>1, <2>2
<1> HIDE DEF low, m
<1>4. CASE r > 64
  <2> DEFINE e == a + lo
             x == r - 64
  <2>1. e \in Nat /\ x \in Nat /\ e + x = a + r
    BY <1>2, <1>4
  <2> HIDE DEF e, x
  <2>2. M!Loop(Wrote(d, c, e), c, x) = Wrote(d, c, e + x)
    BY <2>1, LoopWrites
  <2>3. M!Rest(m, c, r) = M!Loop(low, c, x) /\ low = Wrote(d, c, e)
    BY <1>1, <1>3, <1>4 DEF e, x
  <2>4. QED
    BY <2>1, <2>2, <2>3 DEF m
<1>5. CASE ~(r > 64)
  BY <1>1, <1>2, <1>3, <1>5 DEF m
<1>6. QED
  BY <1>4, <1>5

\* The loop of whole turns.
WholeTurns(d, n) ==
  LET turn[k \in 0..n] ==
        IF k = 0 THEN <<d, 0>> ELSE M!Loop(M!Loop(turn[k - 1], 0, 64), 0, 64)
  IN turn[n]

LEMMA TurnWrites ==
  ASSUME NEW d \in Seq(Int), NEW k \in Nat
  PROVE  M!Loop(M!Loop(Wrote(d, 0, 128 * k), 0, 64), 0, 64) = Wrote(d, 0, 128 * (k + 1))
<1> DEFINE a == 128 * k
           z == 0
           t == 64
           b == a + t
<1>1. a \in Nat /\ t \in Nat /\ b \in Nat /\ b + t = 128 * (k + 1)
  OBVIOUS
<1> HIDE DEF a, b, z, t
<1>2. M!Loop(Wrote(d, z, a), z, t) = Wrote(d, z, a + t)
  BY <1>1, LoopWrites
<1>3. M!Loop(Wrote(d, z, b), z, t) = Wrote(d, z, b + t)
  BY <1>1, LoopWrites
<1>4. M!Loop(M!Loop(Wrote(d, z, a), z, t), z, t) = Wrote(d, z, b + t)
  BY <1>2, <1>3 DEF b
<1>5. M!Loop(M!Loop(Wrote(d, z, a), z, t), z, t) = Wrote(d, z, 128 * (k + 1))
  BY <1>1, <1>4
<1>6. QED
  BY <1>5 DEF a, z, t

LEMMA Nothing ==
  ASSUME NEW d \in Seq(Int), NEW c
  PROVE  Wrote(d, c, 0) = <<d, 0>>
<1>1. \A i \in DOMAIN d : ~(i <= 0)
  OBVIOUS
<1>2. Filled(d, c, 0) = d
  BY <1>1 DEF Filled
<1>3. QED
  BY <1>2 DEF Wrote

LEMMA TurnsWrite ==
  ASSUME NEW d \in Seq(Int), NEW n \in Nat
  PROVE  WholeTurns(d, n) = Wrote(d, 0, 128 * n)
<1> DEFINE X(v) == M!Loop(M!Loop(v, 0, 64), 0, 64)
           L(k) == Wrote(d, 0, 128 * k)
           Is(f) == f = [k \in 0..n |-> IF k = 0 THEN <<d, 0>> ELSE X(f[k - 1])]
           g == CHOOSE f : Is(f)
           b == [k \in 0..n |-> L(k)]
<1>1. \A k \in Nat : X(L(k)) = L(k + 1)
  BY TurnWrites
<1>2. L(0) = <<d, 0>>
  BY Nothing
<1>3. WholeTurns(d, n) = g[n]
  BY DEF WholeTurns
<1> HIDE DEF L, X
<1>4. Is(b)
  <2>1. b = [k \in 0..n |-> b[k]] /\ b[0] = <<d, 0>>
    BY <1>2
  <2>2. ASSUME NEW k \in 1..n PROVE b[k] = X(b[k - 1])
    <3>1. k \in 0..n /\ k - 1 \in 0..n /\ k - 1 \in Nat /\ (k - 1) + 1 = k
      OBVIOUS
    <3>2. QED
      BY <1>1, <3>1
  <2> HIDE DEF b
  <2>3. ASSUME NEW k \in 0..n PROVE b[k] = IF k = 0 THEN <<d, 0>> ELSE X(b[k - 1])
    <3>1. CASE k = 0
      BY <2>1, <3>1
    <3>2. CASE k # 0
      <4>1. k \in 1..n
        BY <3>2
      <4>2. QED
        BY <2>2, <3>2, <4>1
    <3>3. QED
      BY <3>1, <3>2
  <2>4. QED
    BY <2>1, <2>3
<1>5. Is(g)
  BY <1>4
<1> HIDE DEF g
<1>6. g[0] = b[0] /\ \A k \in 0..(n - 1) : g[k] = b[k] => g[k + 1] = b[k + 1]
  <2>1. ASSUME NEW f, Is(f) PROVE f[0] = <<d, 0>> /\ \A i \in 0..n : i # 0 => f[i] = X(f[i - 1])
    <3>1. \A i \in 0..n : f[i] = IF i = 0 THEN <<d, 0>> ELSE X(f[i - 1])
      BY <2>1, Zenon
    <3>2. 0 \in 0..n
      OBVIOUS
    <3>3. QED
      BY <3>1, <3>2, Zenon
  <2>2. /\ g[0] = <<d, 0>> /\ \A i \in 0..n : i # 0 => g[i] = X(g[i - 1])
        /\ b[0] = <<d, 0>> /\ \A i \in 0..n : i # 0 => b[i] = X(b[i - 1])
    <3> HIDE DEF b, Is
    <3>1. QED
      BY <1>4, <1>5, <2>1, Zenon
  <2> HIDE DEF b, Is
  <2>3. \A k \in 0..(n - 1) : k + 1 \in 0..n /\ k + 1 # 0 /\ (k + 1) - 1 = k
    OBVIOUS
  <2>4. ASSUME NEW k \in 0..(n - 1), g[k] = b[k] PROVE g[k + 1] = b[k + 1]
    <3>1. g[k + 1] = X(g[k]) /\ b[k + 1] = X(b[k])
      BY <2>2, <2>3
    <3>2. QED
      BY <2>4, <3>1
  <2>5. QED
    BY <2>2, <2>4
<1>7. b[n] = L(n)
  OBVIOUS
<1> HIDE DEF b, Is
<1>8. g[n] = b[n]
  BY <1>6, SameTrace
<1>9. QED
  BY <1>3, <1>7, <1>8 DEF L

\* Zeros, or less than a turn, are filled alike.
LEMMA MemsetWrites ==
  ASSUME NEW d \in Seq(Int), NEW c, NEW n \in Nat, c = 0 \/ n < 128
  PROVE  M!MemsetAgrees(d, c, n)
<1> DEFINE q == n \div 128
           r == n % 128
           a == 128 * q
<1>1. q \in Nat /\ r \in 0..127 /\ a \in Nat /\ a + r = n /\ (n < 128 => a = 0 /\ q = 0)
  OBVIOUS
<1> HIDE DEF q, r, a
<1>2. WholeTurns(d, q) = Wrote(d, c, a)
  <2>1. WholeTurns(d, q) = Wrote(d, 0, a)
    BY <1>1, TurnsWrite DEF a
  <2>2. CASE c = 0
    BY <2>1, <2>2
  <2>3. CASE n < 128
    <3>1. a = 0
      BY <1>1, <2>3
    <3>2. Wrote(d, 0, 0) = <<d, 0>> /\ Wrote(d, c, 0) = <<d, 0>>
      BY Nothing
    <3>3. QED
      BY <2>1, <3>1, <3>2
  <2>4. QED
    BY <2>2, <2>3
<1>3. M!llh_memset(d, c, n) = M!Rest(WholeTurns(d, q), c, r)[1]
  BY DEF M!llh_memset, WholeTurns, q, r
<1>4. M!Rest(Wrote(d, c, a), c, r) = Wrote(d, c, a + r)
  BY <1>1, RestWrites
<1>5. M!llh_memset(d, c, n) = Filled(d, c, n)
  BY <1>1, <1>2, <1>3, <1>4 DEF Wrote
<1>6. QED
  BY <1>5 DEF Filled, M!memset_impl, M!MemsetAgrees

\* A loop that begins behind the first byte, which is 0, leaves it.
KeepsZero(m) ==
  \E f, a : m = <<f, a>> /\ a \in Nat /\ a >= 1 /\ 1 \in DOMAIN f /\ f[1] = 0

LEMMA LoopKeepsZero ==
  ASSUME NEW m, KeepsZero(m), NEW c, NEW b \in Nat
  PROVE  KeepsZero(M!Loop(m, c, b))
<1>1. PICK f, a : m = <<f, a>> /\ a \in Nat /\ a >= 1 /\ 1 \in DOMAIN f /\ f[1] = 0
  BY DEF KeepsZero
<1> DEFINE g == [i \in DOMAIN f |-> IF i \in (a + 1)..(a + b) THEN c ELSE f[i]]
<1>2. M!Loop(m, c, b) = <<g, a + b>>
  BY <1>1 DEF M!Loop
<1>3. 1 \notin (a + 1)..(a + b) /\ a + b \in Nat /\ a + b >= 1
  BY <1>1
<1>4. 1 \in DOMAIN g /\ g[1] = 0
  BY <1>1, <1>3
<1> HIDE DEF g
<1>5. QED
  BY <1>2, <1>3, <1>4 DEF KeepsZero

\* Behind one turn or more, llh_memset leaves the 0 the first turn has stored.
LEMMA FirstIsZero ==
  ASSUME NEW d \in Seq(Int), NEW c, NEW n \in Nat, n >= 128, n <= Len(d)
  PROVE  M!llh_memset(d, c, n)[1] = 0
<1> DEFINE q == n \div 128
           r == n % 128
           a == 128 * q
           lo == IF r < 64 THEN r ELSE 64
           m == WholeTurns(d, q)
           low == IF r > 0 THEN M!Loop(m, c, lo) ELSE m
<1>1. q \in Nat /\ r \in Nat /\ a \in Nat /\ a >= 1 /\ lo \in Nat
  OBVIOUS
<1>2. m = <<Filled(d, 0, a), a>>
  BY <1>1, TurnsWrite DEF Wrote
<1>3. M!llh_memset(d, c, n) = M!Rest(m, c, r)[1]
  BY DEF M!llh_memset, WholeTurns
<1>4. M!Rest(m, c, r) = IF r > 64 THEN M!Loop(low, c, r - 64) ELSE low
  BY DEF M!Rest
<1> HIDE DEF q, r, a, lo
<1>5. KeepsZero(m)
  <2>1. 1 \in DOMAIN d
    OBVIOUS
  <2>2. 1 \in DOMAIN Filled(d, 0, a) /\ Filled(d, 0, a)[1] = 0
    BY <1>1, <2>1 DEF Filled
  <2>3. QED
    BY <1>1, <1>2, <2>2 DEF KeepsZero
<1> HIDE DEF m
<1>6. KeepsZero(low)
  BY <1>1, <1>5, LoopKeepsZero
<1> HIDE DEF low
<1>7. KeepsZero(M!Rest(m, c, r))
  <2>1. CASE r > 64
    <3>1. r - 64 \in Nat
      BY <1>1, <2>1
    <3>2. QED
      BY <1>4, <1>6, <2>1, <3>1, LoopKeepsZero
  <2>2. CASE ~(r > 64)
    BY <1>4, <1>6, <2>2
  <2>3. QED
    BY <2>1, <2>2
<1>8. M!Rest(m, c, r)[1][1] = 0
  BY <1>7 DEF KeepsZero
<1>9. QED
  BY <1>3, <1>8

\* The two forms of llh_memset fill alike for zeros and for less than a turn, and for
\* nothing else: string.h:41 stores zeros whatever the value.
THEOREM MemsetIs ==
  ASSUME NEW d \in Seq(Int), NEW c, NEW n \in 0..Len(d)
  PROVE  M!MemsetAgrees(d, c, n) <=> c = 0 \/ n < 128
<1>1. n \in Nat /\ n <= Len(d)
  OBVIOUS
<1>2. c = 0 \/ n < 128 => M!MemsetAgrees(d, c, n)
  BY <1>1, MemsetWrites
<1>3. ASSUME M!MemsetAgrees(d, c, n), n >= 128 PROVE c = 0
  <2>1. M!llh_memset(d, c, n)[1] = 0
    BY <1>1, <1>3, FirstIsZero
  <2>2. 1 \in DOMAIN d /\ 1 <= n
    BY <1>1, <1>3
  <2>3. M!memset_impl(d, c, n)[1] = c
    BY <2>2 DEF M!memset_impl
  <2>4. QED
    BY <1>3, <2>1, <2>3 DEF M!MemsetAgrees
<1>4. QED
  BY <1>1, <1>2, <1>3

-----------------------------------------------------------------------------
\* The steps of Compression, in terms of the above.

\* The chain of no blocks is the state it starts from.
LEMMA ChainOfNothing ==
  ASSUME NEW h \in DOMAIN Hashes, NEW s \in State(h)
  PROVE  StandardChain(h, s, <<>>) = s
<1> DEFINE m == <<>>
           z == 0
<1>1. m \in Seq(Byte) /\ z \in Nat
  OBVIOUS
<1>2. Len(m) = Hashes[h].BLOCK_LENGTH * z
  BY AllFit DEF ParamsFit
<1> HIDE DEF m, z
<1>3. PICK b : Path(h, s, m, z, b) /\ b[z] = StandardChain(h, s, m)
  BY <1>1, <1>2, ChainStays
<1>4. b[0] = s
  BY <1>3 DEF Path
<1>5. QED
  BY <1>3, <1>4 DEF m, z

\* A message of j blocks, and the same with n blocks behind it.
LEMMA FollowsData ==
  ASSUME NEW h \in DOMAIN Hashes, NEW a \in Seq(Byte), NEW j \in Nat, NEW x \in Seq(Byte), NEW n \in Nat,
         Len(a) = Hashes[h].BLOCK_LENGTH * j, Len(x) = Hashes[h].BLOCK_LENGTH * n
  PROVE  (a \o x) \in Seq(Byte) /\ Follows(h, a, j, x, n, a \o x)
<1> DEFINE B == Hashes[h].BLOCK_LENGTH
           r == a \o x
<1>1. B \in Nat /\ B * j = Len(a) /\ B * n = Len(x) /\ B * (j + n) = B * j + B * n
  <2>1. Hashes[h].WORD_BYTES \in Width /\ Hashes[h].BLOCK_LENGTH = 16 * Hashes[h].WORD_BYTES
    BY AllFit DEF ParamsFit
  <2>2. B = 64 \/ B = 128
    BY <2>1 DEF Width
  <2> HIDE DEF B
  <2>3. B * (j + n) = B * j + B * n
    BY <2>2
  <2>4. QED
    BY <2>2, <2>3 DEF B
<1>2. /\ r \in Seq(Byte) /\ Len(r) = Len(a) + Len(x)
      /\ \A i \in 1..(Len(a) + Len(x)) : r[i] = IF i <= Len(a) THEN a[i] ELSE x[i - Len(a)]
  BY Joined
<1> DEFINE l == Len(a)
           k == Len(x)
<1>3. l \in Nat /\ k \in Nat
  OBVIOUS
<1> HIDE DEF B, r, l, k
<1>4. ASSUME NEW i \in 1..l PROVE a[i] = r[i]
  <2>1. i \in 1..(l + k) /\ i <= l
    BY <1>3
  <2>2. QED
    BY <1>2, <2>1 DEF l, k
<1>5. ASSUME NEW i \in 1..k PROVE x[i] = r[l + i]
  <2>1. l + i \in 1..(l + k) /\ ~(l + i <= l) /\ (l + i) - l = i
    BY <1>3
  <2>2. QED
    BY <1>2, <2>1 DEF l, k
<1>6. B * j = l /\ B * n = k /\ Len(r) = B * (j + n)
  BY <1>1, <1>2 DEF l, k
<1>7. Behind(h, a, j, x, n, r)
  <2>1. \A i \in 1..(B * j) : a[i] = r[i]
    BY <1>4, <1>6
  <2>2. \A i \in 1..(B * n) : x[i] = r[B * j + i]
    BY <1>5, <1>6
  <2>3. QED
    BY <2>1, <2>2 DEF Behind, B
<1>8. QED
  BY <1>2, <1>3, <1>6, <1>7 DEF Follows, B, r, k

\* What a buffer of two blocks of old bytes holds of the message in it.
LEMMA LeftoverIs ==
  ASSUME NEW n \in Nat, NEW rest \in Seq(Byte), Len(rest) <= n
  PROVE  LET d == Put(Fill(n, 255), 0, rest)
         IN d \in Seq(Byte) /\ Len(d) = n /\ \A i \in 1..Len(rest) : d[i] = rest[i]
<1> DEFINE f == Fill(n, 255)
           z == 0
           d == Put(f, z, rest)
<1>1. 255 \in Byte
  BY DEF Byte
<1>2. f \in Seq(Byte) /\ Len(f) = n
  BY <1>1, FillIs
<1>3. z \in Nat /\ z + Len(rest) <= Len(f)
  BY <1>2
<1> HIDE DEF f, z
<1>4. d \in Seq(Byte) /\ Len(d) = Len(f) /\ \A i \in 1..Len(f) : d[i] = PutAt(f, z, rest, i)
  BY <1>2, <1>3, PutIs
<1> HIDE DEF d
<1>5. ASSUME NEW i \in 1..Len(rest) PROVE d[i] = rest[i]
  <2>1. i \in 1..Len(f) /\ z < i /\ i <= z + Len(rest) /\ i - z = i
    BY <1>2, <1>3 DEF z
  <2>2. QED
    BY <1>4, <2>1 DEF PutAt
<1>6. QED
  BY <1>2, <1>4, <1>5 DEF d, f, z

\* A length of j blocks and n bytes.
DividesAs(j, n) ==
  /\ n < 64 => (64 * j + n) % 64 = n /\ (64 * j + n) \div 64 = j
  /\ n < 128 => (128 * j + n) % 128 = n /\ (128 * j + n) \div 128 = j

LEMMA Divided ==
  ASSUME NEW j \in Nat, NEW n \in Nat
  PROVE  DividesAs(j, n)
<1>1. n < 64 => (64 * j + n) % 64 = n
  OBVIOUS
<1>2. n < 64 => (64 * j + n) \div 64 = j
  OBVIOUS
<1>3. n < 128 => (128 * j + n) % 128 = n
  OBVIOUS
<1>4. n < 128 => (128 * j + n) \div 128 = j
  OBVIOUS
<1>5. QED
  BY <1>1, <1>2, <1>3, <1>4 DEF DividesAs

\* A message that HashTail finishes behind its blocks: a, then fewer bytes than a block.
FinishesTail(h, a, j, rest, last) ==
  LET p == Hashes[h]
      m == a \o rest
      x == HashTail(p, last, Len(a) + Len(rest))
  IN /\ m \in Seq(Byte) /\ x[1] \in Seq(Byte) /\ x[2] \in Nat
     /\ StandardPadding(p, m) \in Seq(Byte)
     /\ Follows(h, a, j, x[1], x[2], StandardPadding(p, m))

LEMMA TailFollows ==
  ASSUME NEW h \in DOMAIN Hashes, NEW a \in Seq(Byte), NEW j \in Nat, Len(a) = Hashes[h].BLOCK_LENGTH * j,
         NEW rest \in Seq(Byte), Len(rest) < Hashes[h].BLOCK_LENGTH,
         NEW last \in Seq(Byte), Len(last) = 2 * Hashes[h].BLOCK_LENGTH,
         \A i \in 1..Len(rest) : last[i] = rest[i]
  PROVE  FinishesTail(h, a, j, rest, last)
<1> DEFINE p == Hashes[h]
           B == p.BLOCK_LENGTH
           m == a \o rest
           l == Len(a)
           n == Len(rest)
           x == HashTail(p, last, Len(m))
           q == StandardPadding(p, m)
<1>0. ParamsFit(p)
  BY AllFit
<1>1. B \in Nat /\ (B = 64 \/ B = 128)
  <2>1. Hashes[h].WORD_BYTES \in Width /\ Hashes[h].BLOCK_LENGTH = 16 * Hashes[h].WORD_BYTES
    BY AllFit DEF ParamsFit
  <2>2. QED
    BY <2>1 DEF Width
<1>2. /\ m \in Seq(Byte) /\ Len(m) = l + n
      /\ \A i \in 1..(l + n) : m[i] = IF i <= l THEN a[i] ELSE rest[i - l]
  BY Joined
<1>3. l \in Nat /\ n \in Nat /\ l = B * j /\ n < B
  OBVIOUS
<1> HIDE DEF p, B, m, l, n, x, q
<1>4. (l + n) % B = n /\ (l + n) \div B = j
  <2>1. CASE B = 64
    <3>1. l = 64 * j /\ n < 64
      BY <1>3, <2>1
    <3>2. DividesAs(j, n)
      BY <1>3, Divided
    <3>3. (64 * j + n) % 64 = n /\ (64 * j + n) \div 64 = j
      BY <3>1, <3>2 DEF DividesAs
    <3>4. QED
      BY <2>1, <3>1, <3>3
  <2>2. CASE B = 128
    <3>1. l = 128 * j /\ n < 128
      BY <1>3, <2>2
    <3>2. DividesAs(j, n)
      BY <1>3, Divided
    <3>3. (128 * j + n) % 128 = n /\ (128 * j + n) \div 128 = j
      BY <3>1, <3>2 DEF DividesAs
    <3>4. QED
      BY <2>2, <3>1, <3>3
  <2>3. QED
    BY <1>1, <2>1, <2>2
<1>5. ASSUME NEW i \in 1..n PROVE last[i] = m[l + i]
  <2>1. l + i \in 1..(l + n) /\ ~(l + i <= l) /\ (l + i) - l = i
    BY <1>3
  <2>2. QED
    BY <1>2, <2>1 DEF n
<1>6. TailsTo(p, last, m)
  <2>1. Len(m) % B = n /\ B * (Len(m) \div B) = l
    BY <1>2, <1>3, <1>4
  <2>2. \A i \in 1..(Len(m) % B) : last[i] = m[B * (Len(m) \div B) + i]
    BY <1>5, <2>1
  <2>3. \A i \in 1..(Len(m) % p.BLOCK_LENGTH) : last[i] = m[p.BLOCK_LENGTH * (Len(m) \div p.BLOCK_LENGTH) + i]
    BY <2>2 DEF B
  <2>4. Len(last) = 2 * p.BLOCK_LENGTH
    BY DEF p
  <2>5. QED
    BY <1>0, <1>2, <2>3, <2>4, TailIs
<1>7. /\ x[2] \in Nat /\ x[1] \in Seq(Byte) /\ Len(x[1]) = Len(last) /\ B * x[2] <= Len(last)
      /\ \A i \in 1..(B * x[2]) : x[1][i] = q[B * j + i]
      /\ \A i \in 1..(B * j) : m[i] = q[i]
      /\ Len(q) = B * (j + x[2])
  BY <1>2, <1>4, <1>6 DEF TailsTo, B, x, q
<1>8. q \in Seq(Byte)
  BY <1>0, <1>2, StandardPaddingIs DEF PaddedBy, q
<1>9. ASSUME NEW i \in 1..(B * j) PROVE a[i] = q[i]
  <2>1. i \in 1..(l + n) /\ i <= l
    BY <1>3
  <2>2. m[i] = a[i]
    BY <1>2, <2>1
  <2>3. QED
    BY <1>7, <2>2
<1>10. Behind(h, a, j, x[1], x[2], q)
  BY <1>7, <1>9 DEF Behind, B, p
<1>11. Follows(h, a, j, x[1], x[2], q)
  BY <1>7, <1>10 DEF Follows, B, p
<1>12. x = HashTail(p, last, Len(a) + Len(rest))
  BY <1>2 DEF x, l, n
<1>13. QED
  BY <1>2, <1>7, <1>8, <1>11, <1>12 DEF FinishesTail, p, m, q

\* A message that Pad finishes: fewer bytes than a block, at the start of a buffer.
FinishesPad(h, rest, data) ==
  LET p == Hashes[h]
      x == Pad(p, data, Len(rest))
  IN /\ x[1] \in Seq(Byte) /\ x[2] \in Nat
     /\ StandardPadding(p, rest) \in Seq(Byte)
     /\ Follows(h, <<>>, 0, x[1], x[2], StandardPadding(p, rest))

LEMMA PadFollows ==
  ASSUME NEW h \in DOMAIN Hashes, NEW rest \in Seq(Byte), Len(rest) < Hashes[h].BLOCK_LENGTH,
         NEW data \in Seq(Byte), Len(data) = 2 * Hashes[h].BLOCK_LENGTH,
         \A i \in 1..Len(rest) : data[i] = rest[i]
  PROVE  FinishesPad(h, rest, data)
<1> DEFINE p == Hashes[h]
           B == p.BLOCK_LENGTH
           n == Len(rest)
           b == PadBlocks(p, n)
           x == Pad(p, data, n)
           q == StandardPadding(p, rest)
<1>0. ParamsFit(p)
  BY AllFit
<1>1. B \in Nat /\ (B = 64 \/ B = 128)
  <2>1. Hashes[h].WORD_BYTES \in Width /\ Hashes[h].BLOCK_LENGTH = 16 * Hashes[h].WORD_BYTES
    BY AllFit DEF ParamsFit
  <2>2. QED
    BY <2>1 DEF Width
<1>2. n \in Nat /\ n < B /\ Len(data) = 2 * B
  OBVIOUS
<1>3. SubSeq(data, 1, n) = rest
  <2> HIDE DEF p
  <2>1. SubSeq(data, 1, n) = [i \in 1..n |-> data[i]]
    BY <1>1, <1>2
  <2>2. [i \in 1..n |-> data[i]] = [i \in 1..n |-> rest[i]]
    OBVIOUS
  <2>3. rest = [i \in 1..n |-> rest[i]]
    OBVIOUS
  <2>4. QED
    BY <2>1, <2>2, <2>3
<1> HIDE DEF p, B, n, b, x, q
<1>4. B * b <= Len(data) /\ b \in Nat
  <2>1. PadFacts(p, n, b * B, TailBlocks(p, n % B), n % B, TailBlocks(p, n % B) * B)
    BY <1>0, <1>2, PadEnds DEF b, B
  <2> DEFINE y == TailBlocks(p, n % B) * B
             z == b * B
  <2>2. y \in Nat /\ z \in Nat /\ y <= 2 * B /\ z - y = B * (n \div B) /\ z = B * b /\ b \in Nat
    BY <2>1 DEF PadFacts, b, B
  <2> HIDE DEF y, z
  <2>3. B * (n \div B) = 0
    <3>1. CASE B = 64
      BY <1>2, <3>1
    <3>2. CASE B = 128
      BY <1>2, <3>2
    <3>3. QED
      BY <1>1, <3>1, <3>2
  <2>4. z <= 2 * B
    BY <1>1, <2>2, <2>3
  <2>5. QED
    BY <1>2, <2>2, <2>4
<1>5. PadsTo(p, data, n)
  <2>1. p.BLOCK_LENGTH * PadBlocks(p, n) <= Len(data)
    BY <1>4 DEF B, b
  <2>2. QED
    BY <1>0, <1>2, <2>1, PadIs
<1>6. /\ x[2] = b /\ x[1] \in Seq(Byte) /\ Len(x[1]) = Len(data)
      /\ \A i \in 1..(B * b) : x[1][i] = q[i]
      /\ Len(q) = B * b
  BY <1>3, <1>5 DEF PadsTo, x, b, B, q
<1>7. q \in Seq(Byte)
  BY <1>0, StandardPaddingIs DEF PaddedBy, q
<1>8. B * 0 = 0 /\ 0 + b = b /\ Len(<<>>) = 0 /\ \A i \in 1..(B * b) : 0 + i = i
  BY <1>1, <1>4
<1>9. Behind(h, <<>>, 0, x[1], b, q)
  <2>1. \A i \in 1..(B * 0) : <<>>[i] = q[i]
    BY <1>8
  <2>2. \A i \in 1..(B * b) : x[1][i] = q[B * 0 + i]
    BY <1>6, <1>8
  <2>3. QED
    BY <2>1, <2>2 DEF Behind, B, p
<1>10. Follows(h, <<>>, 0, x[1], b, q)
  BY <1>4, <1>6, <1>8, <1>9 DEF Follows, B, p
<1>11. QED
  BY <1>4, <1>6, <1>7, <1>10 DEF FinishesPad, p, x, q, n

-----------------------------------------------------------------------------
\* The invariant.

\* The blocks fed so far.
Fed == Len(message) \div P.BLOCK_LENGTH

Typed ==
  /\ hash \in Hash
  /\ message \in Seq(Byte)
  /\ digest \in State(hash)

\* A message that is not finished ends with a block.
AtBlocks == out = NoOutput => Fed \in Nat /\ Len(message) = P.BLOCK_LENGTH * Fed

\* A digest is what the chaining state was written out as.
WrittenOut == out # NoOutput => out = Serialize(P, digest)

\* The inductive invariant.
Consistent ==
  /\ Typed
  /\ AtBlocks
  /\ ChainsAsStandard
  /\ DigestsAsStandard
  /\ WrittenOut

LEMMA BlockSizes ==
  ASSUME NEW h \in DOMAIN Hashes
  PROVE  /\ ParamsFit(Hashes[h])
         /\ Hashes[h].BLOCK_LENGTH \in Nat
         /\ Hashes[h].BLOCK_LENGTH = 64 \/ Hashes[h].BLOCK_LENGTH = 128
<1>1. ParamsFit(Hashes[h])
  BY AllFit
<1>2. Hashes[h].WORD_BYTES \in Width /\ Hashes[h].BLOCK_LENGTH = 16 * Hashes[h].WORD_BYTES
  BY <1>1 DEF ParamsFit
<1>3. QED
  BY <1>1, <1>2 DEF Width

\* A whole number of blocks, counted.
Counts(b, j) == (b * j) \div b = j

LEMMA Counted ==
  ASSUME NEW h \in DOMAIN Hashes, NEW j \in Nat
  PROVE  Counts(Hashes[h].BLOCK_LENGTH, j)
<1>1. (64 * j) \div 64 = j
  OBVIOUS
<1>2. (128 * j) \div 128 = j
  OBVIOUS
<1>3. QED
  BY <1>1, <1>2, BlockSizes DEF Counts

LEMMA Started ==
  ASSUME Init PROVE Consistent
<1> DEFINE h == hash
           iv == Hashes[h].IV
<1>1. hash \in Hash /\ message = <<>> /\ digest = P.IV /\ out = NoOutput
  BY DEF Init
<1>2. h \in DOMAIN Hashes
  BY <1>1, CompressionAssumption
<1>3. iv \in State(h)
  BY <1>2, InitialValues DEF State
<1>4. digest = iv
  BY <1>1 DEF P
<1>5. Typed
  <2> HIDE DEF iv
  <2>1. digest \in State(hash)
    BY <1>3, <1>4 DEF h
  <2>2. QED
    BY <1>1, <2>1 DEF Typed
<1>6. AtBlocks
  <2>1. P.BLOCK_LENGTH \in Nat /\ (P.BLOCK_LENGTH = 64 \/ P.BLOCK_LENGTH = 128)
    BY <1>2, BlockSizes DEF P
  <2>2. Len(message) = 0
    BY <1>1
  <2>3. Fed = 0
    BY <2>1, <2>2 DEF Fed
  <2>4. QED
    BY <2>1, <2>2, <2>3 DEF AtBlocks
<1>7. ChainsAsStandard
  <2>1. StandardChain(h, iv, <<>>) = iv
    BY <1>2, <1>3, ChainOfNothing
  <2>2. StandardChain(hash, P.IV, message) = digest
    BY <1>1, <1>4, <2>1 DEF P
  <2>3. QED
    BY <2>2 DEF ChainsAsStandard
<1>8. DigestsAsStandard /\ WrittenOut
  BY <1>1 DEF DigestsAsStandard, WrittenOut
<1>9. QED
  BY <1>5, <1>6, <1>7, <1>8 DEF Consistent

LEMMA Firsts ==
  ASSUME NEW x \in Seq(Byte), NEW n \in Nat, n <= Len(x)
  PROVE  SubSeq(x, 1, n) \in Seq(Byte) /\ Len(SubSeq(x, 1, n)) = n
OBVIOUS

\* A pattern is a sequence of bytes.
LEMMA PatternIsBytes ==
  ASSUME NEW b \in Pattern
  PROVE  b \in Seq(Byte) /\ Len(b) = 128
<1> DEFINE l == 128
<1>1. b \in [1..l -> Byte] /\ l \in Nat
  BY CompressionAssumption
<1> HIDE DEF l
<1>2. b \in Seq(Byte) /\ Len(b) = l
  BY <1>1, BytesAre DEF Bytes
<1>3. QED
  BY <1>2 DEF l

\* What is fed are whole blocks.
LEMMA BlockIsBytes ==
  ASSUME hash \in Hash, NEW b \in Pattern
  PROVE  BlockOf(b) \in Seq(Byte) /\ Len(BlockOf(b)) = P.BLOCK_LENGTH
<1>1. hash \in DOMAIN Hashes
  BY CompressionAssumption
<1> DEFINE B == P.BLOCK_LENGTH
<1>2. B \in Nat /\ (B = 64 \/ B = 128)
  BY <1>1, BlockSizes DEF P
<1> HIDE DEF B
<1>3. b \in Seq(Byte) /\ B <= Len(b)
  <2>1. b \in Seq(Byte) /\ Len(b) = 128
    BY PatternIsBytes
  <2>2. QED
    BY <1>2, <2>1
<1>4. SubSeq(b, 1, B) \in Seq(Byte) /\ Len(SubSeq(b, 1, B)) = B
  BY <1>2, <1>3, Firsts
<1>5. QED
  BY <1>4 DEF BlockOf, B

LEMMA DataIsBlocks ==
  ASSUME hash \in Hash, NEW bs \in Input
  PROVE  Len(bs) \in Nat /\ Data(bs) \in Seq(Byte) /\ Len(Data(bs)) = P.BLOCK_LENGTH * Len(bs)
<1>1. P.BLOCK_LENGTH \in Nat
  BY CompressionAssumption, BlockSizes DEF P
<1>2. CASE \E b \in Pattern : bs = <<b>>
  <2>1. PICK b \in Pattern : bs = <<b>>
    BY <1>2
  <2>2. Len(bs) = 1 /\ bs[1] = b
    BY <2>1
  <2>3. Data(bs) = BlockOf(b)
    BY <2>2 DEF Data
  <2>4. QED
    BY <1>1, <2>2, <2>3, BlockIsBytes
<1>3. CASE bs \in Pattern \X Pattern
  <2>1. Len(bs) = 2 /\ bs[1] \in Pattern /\ bs[2] \in Pattern
    BY <1>3
  <2> DEFINE x == BlockOf(bs[1])
             y == BlockOf(bs[2])
  <2>2. x \in Seq(Byte) /\ y \in Seq(Byte) /\ Len(x) = P.BLOCK_LENGTH /\ Len(y) = P.BLOCK_LENGTH
    BY <2>1, BlockIsBytes
  <2>3. Data(bs) = x \o y
    BY <2>1 DEF Data
  <2> HIDE DEF x, y
  <2>4. (x \o y) \in Seq(Byte) /\ Len(x \o y) = Len(x) + Len(y)
    BY <2>2, Joined
  <2>5. QED
    BY <1>1, <2>1, <2>2, <2>3, <2>4
<1>4. QED
  BY <1>2, <1>3 DEF Input

\* A call with whole blocks, whichever kernel compresses them.
LEMMA Feeding ==
  ASSUME Consistent, NEW bs \in Input, Feed(bs),
         \/ digest' = Transform(hash, digest, Data(bs), Len(bs))
         \/ digest' = Native(hash, digest, Bswap(P, Data(bs)), Len(bs))
  PROVE  Consistent'
<1> DEFINE h == hash
           p == Hashes[h]
           x == Data(bs)
           n == Len(bs)
           j == Fed
           r == message \o x
<1>1. h \in Hash /\ message \in Seq(Byte) /\ h \in DOMAIN Hashes
  BY CompressionAssumption DEF Consistent, Typed
<1>2. out = NoOutput /\ message' = r /\ hash' = hash /\ out' = NoOutput
  BY DEF Feed, NoOutput
<1>3. j \in Nat /\ Len(message) = p.BLOCK_LENGTH * j /\ digest = StandardChain(h, p.IV, message)
  BY <1>2 DEF Consistent, AtBlocks, ChainsAsStandard, P
<1>4. n \in Nat /\ x \in Seq(Byte) /\ Len(x) = p.BLOCK_LENGTH * n
  BY <1>1, DataIsBlocks DEF P
<1>5. p.IV \in State(h)
  BY <1>1, InitialValues DEF State
<1> DEFINE iv == p.IV
           t == j + n
<1>6. t \in Nat
  BY <1>3, <1>4
<1> HIDE DEF x, n, j, iv
<1>7. r \in Seq(Byte) /\ Follows(h, message, j, x, n, r)
  BY <1>1, <1>3, <1>4, FollowsData
<1> HIDE DEF r
<1>8. Len(r) = p.BLOCK_LENGTH * t
  BY <1>7 DEF Follows
<1> HIDE DEF t
<1>9. /\ Transform(h, StandardChain(h, iv, message), x, n) = StandardChain(h, iv, r)
      /\ Native(h, StandardChain(h, iv, message), Bswap(p, x), n) = StandardChain(h, iv, r)
  <2>1. iv \in State(h)
    BY <1>5 DEF iv
  <2>2. Len(x) = Hashes[h].BLOCK_LENGTH * n
    BY <1>4
  <2>3. QED
    BY <1>1, <1>3, <1>4, <1>7, <2>1, <2>2, CallGoesOn
<1>10. StandardChain(h, iv, r) \in State(h)
  <2>1. iv \in State(h)
    BY <1>5 DEF iv
  <2>2. QED
    BY <1>1, <1>6, <1>7, <1>8, <2>1, ChainStays
<1>11. digest' = StandardChain(h, iv, r)
  <2>1. digest = StandardChain(h, iv, message)
    BY <1>3 DEF iv
  <2>2. \/ digest' = Transform(h, digest, x, n)
        \/ digest' = Native(h, digest, Bswap(p, x), n)
    BY DEF x, n, P
  <2>3. QED
    BY <1>9, <2>1, <2>2
<1>12. P' = p
  BY <1>2 DEF P
<1>13. Typed'
  BY <1>1, <1>2, <1>7, <1>10, <1>11 DEF Typed
<1>14. AtBlocks'
  <2>1. Counts(p.BLOCK_LENGTH, t)
    BY <1>1, <1>6, Counted
  <2>2. Fed' = Len(r) \div p.BLOCK_LENGTH
    BY <1>2, <1>12 DEF Fed
  <2>3. Fed' = t
    BY <1>8, <2>1, <2>2 DEF Counts
  <2>4. QED
    BY <1>2, <1>6, <1>8, <1>12, <2>3 DEF AtBlocks
<1>15. ChainsAsStandard'
  BY <1>2, <1>11, <1>12 DEF ChainsAsStandard, iv
<1>16. DigestsAsStandard' /\ WrittenOut'
  BY <1>2 DEF DigestsAsStandard, WrittenOut
<1>17. QED
  BY <1>13, <1>14, <1>15, <1>16 DEF Consistent

\* A digest that is written out of the chain of a padded message.
LEMMA Finishing ==
  ASSUME hash \in Hash, NEW m \in Seq(Byte), NEW q \in Seq(Byte), q = StandardPadding(P, m),
         NEW k \in Nat, Len(q) = P.BLOCK_LENGTH * k,
         hash' = hash, message' = m, digest' = StandardChain(hash, P.IV, q),
         out' = Serialize(P, digest')
  PROVE  Consistent'
<1> DEFINE h == hash
           p == Hashes[h]
           iv == p.IV
           c == StandardChain(h, iv, q)
<1>1. h \in DOMAIN Hashes
  BY CompressionAssumption
<1>2. iv \in State(h)
  BY <1>1, InitialValues DEF State
<1>3. c \in State(h)
  <2>1. Len(q) = Hashes[h].BLOCK_LENGTH * k
    BY DEF P
  <2> HIDE DEF iv
  <2>2. QED
    BY <1>1, <1>2, <2>1, ChainStays
<1>4. P' = p /\ P = p
  BY DEF P
<1>5. digest' = c
  BY <1>4
<1>6. Typed'
  BY <1>3, <1>5 DEF Typed
<1>7. StandardHash(h, m) = Serialize(p, c)
  <2>1. c = StandardChain(h, p.IV, StandardPadding(p, m))
    BY <1>4
  <2> HIDE DEF c, h
  <2>2. QED
    BY <1>1, <2>1, StandardHashIs
<1> HIDE DEF c
<1>8. out' = Serialize(p, c) /\ out' # NoOutput
  <2>1. out' = Serialize(p, c)
    BY <1>4, <1>5
  <2>2. ParamsFit(p) /\ c \in Registers(p.STATE_WORDS, p.WORD_BYTES)
    BY <1>1, <1>3, AllFit DEF State
  <2>3. p.DIGEST_LENGTH # 0
    BY <2>2 DEF ParamsFit
  <2> HIDE DEF p
  <2>4. Serialize(p, c) \in Seq(Byte) /\ Len(Serialize(p, c)) = p.DIGEST_LENGTH
    BY <2>2, SerializeIs
  <2>5. QED
    BY <2>1, <2>3, <2>4 DEF NoOutput
<1>9. DigestsAsStandard'
  BY <1>7, <1>8 DEF DigestsAsStandard
<1>10. WrittenOut'
  BY <1>4, <1>5, <1>8 DEF WrittenOut
<1>11. AtBlocks' /\ ChainsAsStandard'
  BY <1>8 DEF AtBlocks, ChainsAsStandard, NoOutput
<1>12. QED
  BY <1>6, <1>9, <1>10, <1>11 DEF Consistent

\* The last bytes of a message, in the buffer they are left in.
LEMMA RestIsBytes ==
  ASSUME hash \in Hash, NEW b \in Pattern, NEW n \in Slack(P)
  PROVE  /\ n \in Nat /\ n < P.BLOCK_LENGTH
         /\ SubSeq(b, 1, n) \in Seq(Byte) /\ Len(SubSeq(b, 1, n)) = n
         /\ Leftover(SubSeq(b, 1, n)) \in Seq(Byte)
         /\ Len(Leftover(SubSeq(b, 1, n))) = 2 * P.BLOCK_LENGTH
         /\ \A i \in 1..n : Leftover(SubSeq(b, 1, n))[i] = SubSeq(b, 1, n)[i]
<1> DEFINE B == P.BLOCK_LENGTH
           rest == SubSeq(b, 1, n)
           l == 2 * B
<1>1. B \in Nat /\ (B = 64 \/ B = 128)
  BY CompressionAssumption, BlockSizes DEF P
<1>2. n \in 0..(B - 1)
  BY CompressionAssumption DEF P
<1>3. b \in Seq(Byte) /\ Len(b) = 128
  BY PatternIsBytes
<1> HIDE DEF B
<1>4. n \in Nat /\ n < B /\ n <= Len(b) /\ l \in Nat /\ n <= l
  BY <1>1, <1>2, <1>3
<1>5. rest \in Seq(Byte) /\ Len(rest) = n
  BY <1>3, <1>4, Firsts
<1> HIDE DEF rest, l
<1> DEFINE d == Put(Fill(l, 255), 0, rest)
<1>6. d \in Seq(Byte) /\ Len(d) = l /\ \A i \in 1..Len(rest) : d[i] = rest[i]
  BY <1>4, <1>5, LeftoverIs
<1>7. Leftover(rest) = d
  BY DEF Leftover, l, B
<1> HIDE DEF d
<1>8. QED
  BY <1>4, <1>5, <1>6, <1>7 DEF rest, l, B

LEMMA FinishingTail ==
  ASSUME Consistent, NEW b \in Pattern, NEW n \in Slack(P), FinishTail(b, n)
  PROVE  Consistent'
<1> DEFINE h == hash
           p == Hashes[h]
           iv == p.IV
           rest == SubSeq(b, 1, n)
           last == Leftover(rest)
           j == Fed
           m == message \o rest
           x == HashTail(P, last, Len(message) + n)
           q == StandardPadding(P, m)
<1>1. h \in Hash /\ message \in Seq(Byte) /\ h \in DOMAIN Hashes
  BY CompressionAssumption DEF Consistent, Typed
<1>2. /\ out = NoOutput /\ hash' = hash /\ message' = m
      /\ digest' = Transform(hash, digest, x[1], x[2])
      /\ out' = Serialize(P, digest')
  BY DEF FinishTail
<1>3. j \in Nat /\ Len(message) = p.BLOCK_LENGTH * j /\ digest = StandardChain(h, p.IV, message)
  BY <1>2 DEF Consistent, AtBlocks, ChainsAsStandard, P
<1>4. /\ n \in Nat /\ n < P.BLOCK_LENGTH
      /\ rest \in Seq(Byte) /\ Len(rest) = n
      /\ last \in Seq(Byte) /\ Len(last) = 2 * P.BLOCK_LENGTH
      /\ \A i \in 1..n : last[i] = rest[i]
  BY <1>1, RestIsBytes
<1>5. iv \in State(h)
  BY <1>1, InitialValues DEF State
<1> HIDE DEF j, rest, last, iv
<1>6. FinishesTail(h, message, j, rest, last)
  <2>1. /\ Len(message) = Hashes[h].BLOCK_LENGTH * j /\ Len(rest) < Hashes[h].BLOCK_LENGTH
        /\ Len(last) = 2 * Hashes[h].BLOCK_LENGTH
        /\ \A i \in 1..Len(rest) : last[i] = rest[i]
    BY <1>3, <1>4 DEF P
  <2>2. QED
    BY <1>1, <1>3, <1>4, <2>1, TailFollows
<1>7. /\ m \in Seq(Byte) /\ x[1] \in Seq(Byte) /\ x[2] \in Nat
      /\ q \in Seq(Byte)
      /\ Follows(h, message, j, x[1], x[2], q)
  BY <1>4, <1>6 DEF FinishesTail, P
<1> DEFINE data == x[1]
           nblk == x[2]
           k == j + nblk
<1>8. k \in Nat /\ Len(q) = P.BLOCK_LENGTH * k
  BY <1>3, <1>7 DEF Follows, P
<1>9. digest = StandardChain(h, iv, message)
  BY <1>3 DEF iv
<1>10. digest' = Transform(h, digest, data, nblk) /\ data \in Seq(Byte) /\ nblk \in Nat
       /\ Follows(h, message, j, data, nblk, q)
  BY <1>2, <1>7
<1>11. q = StandardPadding(P, m) /\ q \in Seq(Byte) /\ m \in Seq(Byte)
  BY <1>7
<1> HIDE DEF data, nblk, k, x, q, m
<1>12. Transform(h, StandardChain(h, iv, message), data, nblk) = StandardChain(h, iv, q)
  BY <1>1, <1>3, <1>5, <1>10, <1>11, CallGoesOn
<1>13. digest' = StandardChain(hash, P.IV, q)
  <2>1. digest' = StandardChain(h, iv, q)
    BY <1>9, <1>10, <1>12
  <2>2. QED
    BY <2>1 DEF iv, P
<1>14. QED
  BY <1>1, <1>2, <1>8, <1>11, <1>13, Finishing

LEMMA FinishingRaw ==
  ASSUME Consistent, NEW b \in Pattern, NEW n \in Slack(P), FinishRaw(b, n)
  PROVE  Consistent'
<1> DEFINE h == hash
           p == Hashes[h]
           iv == p.IV
           m == SubSeq(b, 1, n)
           last == Leftover(m)
           x == Pad(P, message \o last, Len(message) + n)
           q == StandardPadding(P, m)
           none == <<>>
           z == 0
<1>1. h \in Hash /\ h \in DOMAIN Hashes
  BY CompressionAssumption DEF Consistent, Typed
<1>2. /\ message = none /\ hash' = hash /\ message' = m
      /\ digest' = Transform(hash, P.IV, x[1], x[2])
      /\ out' = Raw(hash, x[1], x[2])
  BY DEF FinishRaw
<1>3. /\ n \in Nat /\ n < P.BLOCK_LENGTH
      /\ m \in Seq(Byte) /\ Len(m) = n
      /\ last \in Seq(Byte) /\ Len(last) = 2 * P.BLOCK_LENGTH
      /\ \A i \in 1..n : last[i] = m[i]
  BY <1>1, RestIsBytes
<1>4. iv \in State(h)
  BY <1>1, InitialValues DEF State
<1> HIDE DEF m, last, iv
<1>5. x = Pad(P, last, Len(m))
  <2>1. message \o last = last
    BY <1>2, <1>3
  <2>2. Len(message) + n = Len(m)
    BY <1>2, <1>3
  <2>3. QED
    BY <2>1, <2>2
<1>6. FinishesPad(h, m, last)
  <2>1. /\ Len(m) < Hashes[h].BLOCK_LENGTH /\ Len(last) = 2 * Hashes[h].BLOCK_LENGTH
        /\ \A i \in 1..Len(m) : last[i] = m[i]
    BY <1>3 DEF P
  <2>2. QED
    BY <1>1, <1>3, <2>1, PadFollows
<1> HIDE DEF x
<1>7. /\ x[1] \in Seq(Byte) /\ x[2] \in Nat /\ q \in Seq(Byte)
      /\ Follows(h, none, z, x[1], x[2], q)
  BY <1>5, <1>6 DEF FinishesPad, P
<1> DEFINE data == x[1]
           nblk == x[2]
           k == z + nblk
<1>8. k \in Nat /\ Len(q) = P.BLOCK_LENGTH * k
  BY <1>7 DEF Follows, P
<1>9. StandardChain(h, iv, none) = iv
  BY <1>1, <1>4, ChainOfNothing
<1>10. digest' = Transform(h, iv, data, nblk) /\ data \in Seq(Byte) /\ nblk \in Nat
       /\ Follows(h, none, z, data, nblk, q)
  BY <1>2, <1>7 DEF iv, P
<1>11. q = StandardPadding(P, m) /\ q \in Seq(Byte) /\ none \in Seq(Byte) /\ z \in Nat
       /\ Len(none) = Hashes[h].BLOCK_LENGTH * z
  <2>1. Hashes[h].BLOCK_LENGTH \in Nat
    BY <1>1, BlockSizes
  <2>2. QED
    BY <1>7, <2>1
<1>12. out' = Serialize(P, digest')
  BY <1>2 DEF Raw, P
<1> HIDE DEF data, nblk, k, q, none, z
<1>13. Transform(h, StandardChain(h, iv, none), data, nblk) = StandardChain(h, iv, q)
  BY <1>1, <1>4, <1>10, <1>11, CallGoesOn
<1>14. digest' = StandardChain(hash, P.IV, q)
  <2>1. digest' = StandardChain(h, iv, q)
    BY <1>9, <1>10, <1>13
  <2>2. QED
    BY <2>1 DEF iv, P
<1>15. QED
  BY <1>1, <1>2, <1>3, <1>8, <1>11, <1>12, <1>14, Finishing

\* What is left of a step that changes nothing.
LEMMA Stuttering ==
  ASSUME Consistent, UNCHANGED vars
  PROVE  Consistent'
<1>1. hash' = hash /\ message' = message /\ digest' = digest /\ out' = out
  BY DEF vars
<1>2. QED
  BY <1>1 DEF Consistent, Typed, AtBlocks, ChainsAsStandard, DigestsAsStandard, WrittenOut, Fed, P

\* The invariant holds in every state: until a message is finished the chaining state is
\* the standard's after the blocks fed, and what it is finished with is the standard's
\* digest, written out of that state.
THEOREM ConsistentAlways == Spec => []Consistent
<1>1. Init => Consistent
  BY Started
<1>2. Consistent /\ [Next]_vars => Consistent'
  <2> SUFFICES ASSUME Consistent, [Next]_vars PROVE Consistent'
    OBVIOUS
  <2>1. ASSUME NEW bs \in Input, FeedTransform(bs) PROVE Consistent'
    BY <2>1, Feeding DEF FeedTransform
  <2>2. ASSUME NEW bs \in Input, FeedNative(bs) PROVE Consistent'
    BY <2>2, Feeding DEF FeedNative
  <2>3. ASSUME NEW b \in Pattern, NEW n \in Slack(P), FinishTail(b, n) PROVE Consistent'
    BY <2>3, FinishingTail
  <2>4. ASSUME NEW b \in Pattern, NEW n \in Slack(P), FinishRaw(b, n) PROVE Consistent'
    BY <2>4, FinishingRaw
  <2>5. CASE UNCHANGED vars
    BY <2>5, Stuttering
  <2>6. QED
    BY <2>1, <2>2, <2>3, <2>4, <2>5 DEF Next
<1>3. QED
  BY <1>1, <1>2, PTL DEF Spec

\* However blocks are divided into calls, and whichever of Transform and Native takes
\* them, the chaining state is the standard's.
THEOREM ChainsAlways == Spec => []ChainsAsStandard
<1>1. Consistent => ChainsAsStandard
  BY DEF Consistent
<1>2. QED
  BY <1>1, ConsistentAlways, PTL

\* What Tail behind the blocks, and Pad and Raw from the start, leave is the standard's
\* digest, for a last block of any length; for SHA-2 it is what sha2t.c computes.
THEOREM DigestsAlways == Spec => []DigestsAsStandard
<1>1. Consistent => DigestsAsStandard
  BY DEF Consistent
<1>2. QED
  BY <1>1, ConsistentAlways, PTL

\* Partial leaves the bytes of the digest that was written out, for every start and end.
THEOREM SlicesAlways == Spec => []PartialIsSlice
<1>1. Consistent => PartialIsSlice
  <2> SUFFICES ASSUME Consistent, out # NoOutput,
                      NEW end \in 0..P.DIGEST_LENGTH, NEW start \in 0..end
               PROVE  Partial(P, digest, start, end) = SubSeq(out, start + 1, end)
    BY DEF PartialIsSlice
  <2>1. out = Serialize(P, digest)
    BY DEF Consistent, WrittenOut
  <2>2. hash \in DOMAIN Hashes /\ digest \in State(hash)
    BY CompressionAssumption DEF Consistent, Typed
  <2>3. ParamsFit(P) /\ digest \in Registers(P.STATE_WORDS, P.WORD_BYTES) /\ P.DIGEST_LENGTH \in Nat
    BY <2>2, AllFit DEF P, State, ParamsFit
  <2>4. start \in Nat /\ end \in Nat /\ start <= end /\ end <= P.DIGEST_LENGTH
    BY <2>3
  <2>5. Partial(P, digest, start, end) = SubSeq(Serialize(P, digest), start + 1, end)
    BY <2>3, <2>4, PartialIs
  <2>6. QED
    BY <2>1, <2>5
<1>2. QED
  BY <1>1, ConsistentAlways, PTL

\* Of the fills of a hash, exactly one is not stored alike where the compiler knows its
\* length: 128 bytes of 0x36, behind an empty key of a hash with 128-byte blocks.
THEOREM FillsAre ==
  ASSUME NEW h \in Hash
  PROVE  \A f \in ZeroFills(Hashes[h]) \cup MaskFills(Hashes[h]) :
           M!MemsetAgrees([i \in 1..(2 * Hashes[h].BLOCK_LENGTH) |-> 255], f[1], f[2]) <=> f # MaskedBlock
<1> DEFINE p == Hashes[h]
           B == p.BLOCK_LENGTH
           d == [i \in 1..(2 * B) |-> 255]
           D == p.DIGEST_LENGTH
           R == Reserve(p)
<1>1. B \in Nat /\ B <= 128 /\ D \in Nat /\ D <= B /\ R \in 0..B
  <2>1. ParamsFit(p) /\ (B = 64 \/ B = 128)
    BY CompressionAssumption, BlockSizes
  <2>2. p.WORD_BYTES \in Nat /\ B = 16 * p.WORD_BYTES /\ D \in Nat
        /\ p.STATE_WORDS \in {4, 5, 8} /\ D <= p.STATE_WORDS * p.WORD_BYTES
    BY <2>1 DEF ParamsFit
  <2>3. p.WORD_BYTES = 4 \/ p.WORD_BYTES = 8
    BY <2>1 DEF ParamsFit, Width
  <2> HIDE DEF p, D, B
  <2>4. D <= 8 * p.WORD_BYTES
    BY <2>2, <2>3
  <2>5. QED
    BY <2>2, <2>3, <2>4 DEF Reserve
<1>2. KeyLengths(p) \subseteq 0..B
  BY CompressionAssumption
<1>3. ZeroFills(p) = {0} \X (0..(B + R - 9)) /\ MaskFills(p) = {54} \X {B - n : n \in KeyLengths(p) \cup {D}}
  BY DEF ZeroFills, MaskFills
<1> HIDE DEF p, B
<1>4. d \in Seq(Int) /\ Len(d) = 2 * B
  <2>1. 2 * B \in Nat
    BY <1>1
  <2> DEFINE k == 2 * B
  <2> HIDE DEF k
  <2>2. d = [i \in 1..k |-> 255]
    BY DEF k
  <2> HIDE DEF d
  <2>3. k \in Nat => d \in Seq(Int) /\ Len(d) = k
    BY <2>2
  <2>4. QED
    BY <2>1, <2>3 DEF k
<1> HIDE DEF d, D, R
<1>5. ASSUME NEW f \in ZeroFills(p)
      PROVE  M!MemsetAgrees(d, f[1], f[2]) <=> f # MaskedBlock
  <2>1. f[1] = 0 /\ f[2] \in 0..(B + R - 9)
    BY <1>3
  <2> DEFINE c == f[1]
             n == f[2]
  <2>2. c = 0 /\ n \in 0..Len(d)
    BY <1>1, <1>4, <2>1
  <2> HIDE DEF c, n
  <2>3. M!MemsetAgrees(d, c, n) <=> c = 0 \/ n < 128
    BY <1>4, <2>2, MemsetIs, Zenon
  <2>4. f # MaskedBlock
    BY <2>1 DEF MaskedBlock
  <2>5. QED
    BY <2>2, <2>3, <2>4 DEF c, n
<1>6. ASSUME NEW n \in KeyLengths(p) \cup {D}
      PROVE  M!MemsetAgrees(d, 54, B - n) <=> <<54, B - n>> # MaskedBlock
  <2> DEFINE c == 54
             k == B - n
  <2>1. n \in 0..B
    BY <1>1, <1>2
  <2>2. k \in 0..Len(d) /\ k \in Nat /\ k <= 128
    BY <1>1, <1>4, <2>1
  <2>3. c # 0
    OBVIOUS
  <2>4. <<c, k>> # MaskedBlock <=> k # 128
    BY DEF MaskedBlock
  <2> HIDE DEF c, k
  <2>5. d \in Seq(Int)
    BY <1>4
  <2>6. M!MemsetAgrees(d, c, k) <=> c = 0 \/ k < 128
    BY <2>2, <2>5, MemsetIs
  <2>7. k # 128 <=> k < 128
    BY <2>2
  <2>8. M!MemsetAgrees(d, c, k) <=> <<c, k>> # MaskedBlock
    BY <2>3, <2>4, <2>6, <2>7
  <2>9. QED
    BY <2>8, Zenon DEF c, k
<1>7. ASSUME NEW f \in MaskFills(p)
      PROVE  M!MemsetAgrees(d, f[1], f[2]) <=> f # MaskedBlock
  <2>1. PICK n \in KeyLengths(p) \cup {D} : f = <<54, B - n>>
    BY <1>3
  <2>2. f[1] = 54 /\ f[2] = B - n
    BY <2>1
  <2>3. QED
    BY <1>6, <2>1, <2>2
<1>8. \A f \in ZeroFills(p) \cup MaskFills(p) : M!MemsetAgrees(d, f[1], f[2]) <=> f # MaskedBlock
  BY <1>5, <1>7
<1>9. QED
  BY <1>8 DEF p, B, d

\* Whether the compiler knows a length decides nothing of any fill but that one.
THEOREM FillsAlways == Spec => []MemsetFills
<1>1. Consistent => MemsetFills
  <2> SUFFICES ASSUME Consistent
               PROVE  \A f \in ZeroFills(P) \cup MaskFills(P) :
                        M!MemsetAgrees([i \in 1..(2 * P.BLOCK_LENGTH) |-> 255], f[1], f[2])
                          <=> f # MaskedBlock
    BY DEF MemsetFills
  <2>1. hash \in Hash
    BY DEF Consistent, Typed
  <2>2. QED
    BY <2>1, FillsAre DEF P
<1>2. QED
  BY <1>1, ConsistentAlways, PTL
=============================================================================
