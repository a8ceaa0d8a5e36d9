-------------------------------- MODULE Words --------------------------------
(***************************************************************************)
(* The machine words the compression functions compute on: uint32_t and    *)
(* uint64_t as sequences of 4 and 8 bytes, the most significant first,     *)
(* with the bitwise operators of C, addition modulo the width and the      *)
(* rotations of src/macros.h.                                              *)
(***************************************************************************)
EXTENDS Integers, Sequences

Byte == 0..255

\* The bits of a byte, the lowest first, and the byte of eight bits.
Bits(a) == <<a % 2, (a \div 2) % 2, (a \div 4) % 2, (a \div 8) % 2,
             (a \div 16) % 2, (a \div 32) % 2, (a \div 64) % 2, (a \div 128) % 2>>
ByteOf(b) == b[1] + 2 * b[2] + 4 * b[3] + 8 * b[4] + 16 * b[5] + 32 * b[6] + 64 * b[7] + 128 * b[8]

\* The conjunction of two bytes, tabulated; the other operators follow from it.
AndByte == [a \in Byte |-> [b \in Byte |->
             LET x == Bits(a)
                 y == Bits(b)
             IN ByteOf([i \in 1..8 |-> IF x[i] = 1 THEN y[i] ELSE 0])]]

\* The word itself.  TLC evaluates a function again at each use and a SubSeq once.
Word(f) == SubSeq(f, 1, Len(f))

\* Op(t).  TLC evaluates an operand where it is first used; here it is before Op.
After(Op(_), t) == [u \in {t} |-> Op(u)][t]

x & y == Word([i \in DOMAIN x |-> AndByte[x[i]][y[i]]])
x | y == Word([i \in DOMAIN x |-> x[i] + y[i] - AndByte[x[i]][y[i]]])
x (+) y == Word([i \in DOMAIN x |-> x[i] + y[i] - 2 * AndByte[x[i]][y[i]]])
Not(x) == Word([i \in DOMAIN x |-> 255 - x[i]])

\* Sums of bytes, place by place, brought back to bytes: what the first place
\* carries is lost.
Carried(t) ==
  LET n == Len(t)
      carry[i \in 1..(n + 1)] == IF i > n THEN 0 ELSE (t[i] + carry[i + 1]) \div 256
  IN Word([i \in 1..n |-> (t[i] + carry[i + 1]) % 256])

x ++ y == Carried([i \in DOMAIN x |-> x[i] + y[i]])

\* Rotation by n bits, by whole bytes and then by what is left of n.
RotR(x, n) ==
  LET m == Len(x)
      from(i) == x[((i - 1 - (n \div 8)) % m) + 1]
      low == 2 ^ (n % 8)
  IN Word([i \in 1..m |-> (from(i) \div low) + (from(i - 1) % low) * (256 \div low)])

RotL(x, n) == RotR(x, 8 * Len(x) - n)

\* x >> n
ShiftR(x, n) ==
  LET m == Len(x)
      from(i) == IF i > n \div 8 THEN x[i - (n \div 8)] ELSE 0
      low == 2 ^ (n % 8)
  IN Word([i \in 1..m |-> (from(i) \div low) + (from(i - 1) % low) * (256 \div low)])

\* The bytes of numbers below 2^16, two for each, as constants are written here.
Halves(h) == [i \in 1..(2 * Len(h)) |->
                IF i % 2 = 1 THEN h[(i + 1) \div 2] \div 256 ELSE h[i \div 2] % 256]

\* The words of n bytes that a sequence of halves is written for.
Constants(h, n) ==
  [r \in 1..((2 * Len(h)) \div n) |->
     Halves(SubSeq(h, (r - 1) * (n \div 2) + 1, r * (n \div 2)))]

\* The words of n bytes that a region of memory holds, read in one byte order.
BigEndian(d, n) == [i \in 1..(Len(d) \div n) |-> SubSeq(d, n * (i - 1) + 1, n * i)]
LittleEndian(d, n) == [i \in 1..(Len(d) \div n) |-> [k \in 1..n |-> d[n * i + 1 - k]]]
=============================================================================
