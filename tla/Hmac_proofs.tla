---------------------------- MODULE Hmac_proofs ----------------------------
(***************************************************************************)
(* Proofs about Hmac, for every block length, word size, digest length,    *)
(* set of keys and chunks, and number of contexts.                         *)
(***************************************************************************)
EXTENDS Hmac, HashOps_proofs

LEMMA Sizes ==
  /\ BL \in Nat /\ RES \in Nat /\ LW \in Nat /\ 1 <= LW /\ LW <= RES /\ RES < BL
  /\ WB \in Nat /\ WB > 0 /\ DL \in Nat /\ DL > 0 /\ SL \in Nat
  /\ DL <= SL /\ SL <= BL /\ DL < BL
  /\ BL % WB = 0 /\ DL % WB = 0 /\ SL % WB = 0 /\ LW % WB = 0
  /\ NBLK \in Nat /\ NBLK > 3
BY SizeAssumption, KernelAssumption, HmacAssumption, OuterAssumption

-----------------------------------------------------------------------------
\* The words of a buffer.
Whole(n) == n \in Nat /\ \E a \in Nat : n = a * WB

LEMMA WholeSizes == Whole(BL) /\ Whole(DL) /\ Whole(SL) /\ Whole(LW)
<1>1. ASSUME NEW n \in Nat, n % WB = 0 PROVE Whole(n)
  <2>1. WB \in Nat /\ WB > 0
    BY Sizes
  <2>2. n = (n \div WB) * WB + (n % WB) /\ n \div WB \in Nat
    BY <2>1
  <2>3. n = (n \div WB) * WB
    BY <1>1, <2>1, <2>2
  <2>4. QED
    BY <2>2, <2>3, Zenon DEF Whole
<1>2. QED
  BY <1>1, Sizes

LEMMA WholeSum ==
  ASSUME NEW m, Whole(m), NEW n, Whole(n)
  PROVE  Whole(m + n) /\ (n <= m => Whole(m - n))
<1>1. PICK a \in Nat : m = a * WB
  BY DEF Whole
<1>2. PICK b \in Nat : n = b * WB
  BY DEF Whole
<1>3. WB \in Nat /\ WB > 0
  BY Sizes
<1>4. m + n = (a + b) * WB /\ a + b \in Nat /\ m + n \in Nat
  BY <1>1, <1>2, <1>3
<1>5. ASSUME n <= m PROVE Whole(m - n)
  <2>1. b <= a
    BY <1>1, <1>2, <1>3, <1>5
  <2>2. m - n = (a - b) * WB /\ a - b \in Nat /\ m - n \in Nat
    BY <1>1, <1>2, <1>3, <1>5, <2>1
  <2>3. QED
    BY <2>2 DEF Whole
<1>6. QED
  BY <1>4, <1>5 DEF Whole

\* A place is the word it is in and the place in the word; swapping mirrors the
\* latter.
LEMMA SwapOf ==
  ASSUME NEW q \in Nat, NEW r \in 0..(WB - 1)
  PROVE  SwapAt(q * WB + r + 1) = IF swapped THEN q * WB + (WB - 1 - r) + 1 ELSE q * WB + r + 1
<1>1. WB \in Nat /\ WB > 0 /\ r \in Nat /\ r < WB
  BY Sizes
<1> DEFINE n == q * WB + r
<1>2. n \in Nat /\ (n + 1) - 1 = n
  BY <1>1
<1>3. n \div WB = q /\ n % WB = r
  <2>1. /\ n \div WB \in Nat /\ n % WB \in Nat /\ n % WB < WB
        /\ n = (n \div WB) * WB + (n % WB)
    BY <1>1, <1>2
  <2> DEFINE p == n \div WB
             s == n % WB
  <2>2. p \in Nat /\ s \in Nat /\ s < WB /\ q * WB + r = p * WB + s
    BY <2>1, Zenon
  <2> HIDE DEF p, s, n
  <2>3. p = q
    BY <1>1, <2>2
  <2>4. s = r
    BY <1>1, <2>2, <2>3
  <2>5. QED
    BY <2>3, <2>4 DEF p, s
<1> HIDE DEF n
<1>4. SwapAt(n + 1) = IF swapped THEN q * WB + WB - r ELSE n + 1
  BY <1>2, <1>3 DEF SwapAt
<1>5. q * WB + WB - r = q * WB + (WB - 1 - r) + 1
  BY <1>1
<1>6. QED
  BY <1>4, <1>5 DEF n

LEMMA PlaceOf ==
  ASSUME NEW i \in Nat, i >= 1
  PROVE  \E q \in Nat, r \in 0..(WB - 1) : i = q * WB + r + 1
<1>1. WB \in Nat /\ WB > 0 /\ i - 1 \in Nat
  BY Sizes
<1>2. /\ (i - 1) \div WB \in Nat /\ (i - 1) % WB \in 0..(WB - 1)
      /\ i - 1 = ((i - 1) \div WB) * WB + ((i - 1) % WB)
  BY <1>1
<1>3. PICK q \in Nat, r \in 0..(WB - 1) : i - 1 = q * WB + r
  BY <1>2, Zenon
<1>4. i = q * WB + r + 1
  BY <1>1, <1>3
<1>5. QED
  BY <1>4

LEMMA SwapTwice ==
  ASSUME NEW i \in Nat, i >= 1
  PROVE  SwapAt(i) \in Nat /\ SwapAt(i) >= 1 /\ SwapAt(SwapAt(i)) = i
<1>1. PICK q \in Nat, r \in 0..(WB - 1) : i = q * WB + r + 1
  BY PlaceOf
<1>2. WB \in Nat /\ WB > 0 /\ WB - 1 - r \in 0..(WB - 1) /\ WB - 1 - (WB - 1 - r) = r
  BY Sizes
<1>3. q * WB \in Nat
  BY <1>2
<1>4. CASE ~swapped
  BY <1>1, <1>4 DEF SwapAt
<1>5. CASE swapped
  <2>1. SwapAt(i) = q * WB + (WB - 1 - r) + 1
    BY <1>1, <1>5, SwapOf
  <2>2. SwapAt(q * WB + (WB - 1 - r) + 1) = q * WB + (WB - 1 - (WB - 1 - r)) + 1
    BY <1>2, <1>5, SwapOf
  <2>3. QED
    BY <1>1, <1>2, <1>3, <2>1, <2>2
<1>6. QED
  BY <1>4, <1>5

\* Swapping stays within whole words, and moves with them.
LEMMA SwapIn ==
  ASSUME NEW n, Whole(n), NEW i \in 1..n
  PROVE  SwapAt(i) \in 1..n
<1>1. PICK a \in Nat : n = a * WB /\ n \in Nat
  BY DEF Whole
<1>2. PICK q \in Nat, r \in 0..(WB - 1) : i = q * WB + r + 1
  BY <1>1, PlaceOf
<1>3. WB \in Nat /\ WB > 0 /\ r \in Nat /\ r < WB /\ q * WB \in Nat
  BY Sizes
<1>4. q * WB < a * WB
  BY <1>1, <1>2, <1>3
<1>5. q < a
  BY <1>3, <1>4
<1>6. q * WB + WB <= a * WB
  <2>1. q + 1 <= a /\ (q + 1) * WB = q * WB + WB
    BY <1>3, <1>5
  <2>2. (q + 1) * WB <= a * WB
    BY <1>3, <2>1
  <2>3. QED
    BY <2>1, <2>2
<1>7. SwapAt(i) = IF swapped THEN q * WB + (WB - 1 - r) + 1 ELSE i
  BY <1>2, SwapOf
<1>8. QED
  BY <1>1, <1>3, <1>6, <1>7

LEMMA SwapShift ==
  ASSUME NEW n, Whole(n), NEW i \in Nat, i >= 1
  PROVE  SwapAt(n + i) = n + SwapAt(i)
<1>1. PICK a \in Nat : n = a * WB /\ n \in Nat
  BY DEF Whole
<1>2. PICK q \in Nat, r \in 0..(WB - 1) : i = q * WB + r + 1
  BY PlaceOf
<1>3. WB \in Nat /\ WB > 0 /\ r \in Nat /\ q * WB \in Nat /\ a + q \in Nat
  BY Sizes
<1>4. (a + q) * WB = n + q * WB
  BY <1>1, <1>3
<1>5. n + i = (a + q) * WB + r + 1
  BY <1>1, <1>2, <1>3, <1>4
<1>6. SwapAt(n + i) = IF swapped THEN (a + q) * WB + (WB - 1 - r) + 1 ELSE n + i
  BY <1>3, <1>5, SwapOf
<1>7. SwapAt(i) = IF swapped THEN q * WB + (WB - 1 - r) + 1 ELSE i
  BY <1>2, SwapOf
<1>8. QED
  BY <1>1, <1>3, <1>4, <1>6, <1>7

LEMMA SwapBeyond ==
  ASSUME NEW n, Whole(n), NEW i \in Nat, i > n
  PROVE  SwapAt(i) = n + SwapAt(i - n) /\ SwapAt(i) \in Nat /\ SwapAt(i) > n
<1>1. n \in Nat /\ i - n \in Nat /\ i - n >= 1 /\ n + (i - n) = i
  BY DEF Whole
<1>2. SwapAt(i) = n + SwapAt(i - n)
  BY <1>1, SwapShift
<1>3. SwapAt(i - n) \in Nat /\ SwapAt(i - n) >= 1
  BY <1>1, SwapTwice
<1>4. QED
  BY <1>1, <1>2, <1>3
-----------------------------------------------------------------------------
\* Buffers of whatever cells, as functions on their places, and what the buffer
\* operators make of them.
Agree(D, f, g) == \A i \in D : f[i] = g[i]

\* e is d (of n cells) with s (of m cells) copied behind its first off cells.
Copied(e, n, d, off, m, s) ==
  /\ IsFun(e, 1..n)
  /\ \A i \in 1..n : e[i] = IF off < i /\ i <= off + m THEN s[i - off] ELSE d[i]

\* e is d with v from off to end.
Overwritten(e, n, d, off, v, end) ==
  /\ IsFun(e, 1..n)
  /\ \A i \in 1..n : e[i] = IF off < i /\ i <= end THEN v ELSE d[i]

\* e is d, its words swapped.
Flipped(e, n, d) ==
  /\ IsFun(e, 1..n)
  /\ \A i \in 1..n : e[i] = d[SwapAt(i)]

\* e is the first k cells of d.
Prefix(e, k, d) == IsFun(e, 1..k) /\ Agree(1..k, e, d)

\* e is f (of m cells) and g (of n cells).
Joined(e, m, f, n, g) ==
  /\ IsFun(e, 1..(m + n))
  /\ \A i \in 1..(m + n) : e[i] = IF i <= m THEN f[i] ELSE g[i - m]

LEMMA FunEqual ==
  ASSUME NEW D, NEW f, IsFun(f, D), NEW g, IsFun(g, D), Agree(D, f, g)
  PROVE  f = g
<1>1. f = [i \in D |-> f[i]] /\ g = [i \in D |-> g[i]]
  BY Zenon DEF IsFun
<1>2. [i \in D |-> f[i]] = [i \in D |-> g[i]]
  BY DEF Agree
<1>3. QED
  BY <1>1, <1>2, Zenon

\* g is f but for v at c.
Replaces(g, D, f, c, v) ==
  /\ IsFun(g, D) /\ g[c] = v
  /\ \A d \in D : d # c => g[d] = f[d]

LEMMA FunExcept ==
  ASSUME NEW D, NEW f, IsFun(f, D), NEW c \in D, NEW v, NEW g, g = [f EXCEPT ![c] = v]
  PROVE  Replaces(g, D, f, c, v)
<1>1. DOMAIN f = D
  <2>1. f = [i \in D |-> f[i]]
    BY Zenon DEF IsFun
  <2>2. DOMAIN [i \in D |-> f[i]] = D
    OBVIOUS
  <2>3. QED
    BY <2>1, <2>2, Zenon
<1>2. g = [i \in D |-> IF i = c THEN v ELSE f[i]]
  BY <1>1
<1>3. \A i \in D : g[i] = IF i = c THEN v ELSE f[i]
  BY <1>2
<1>4. g = [i \in D |-> g[i]]
  BY <1>2, <1>3
<1>5. QED
  BY <1>3, <1>4, Zenon DEF IsFun, Replaces

\* A function on 1..n is a sequence of its values.
LEMMA FunSeq ==
  ASSUME NEW n \in Nat, NEW d, IsFun(d, 1..n), NEW S, \A i \in 1..n : d[i] \in S
  PROVE  d \in Seq(S) /\ Len(d) = n /\ DOMAIN d = 1..n
<1>1. d \in [1..n -> S]
  <2>1. [i \in 1..n |-> d[i]] \in [1..n -> S]
    OBVIOUS
  <2>2. QED
    BY <2>1, Zenon DEF IsFun
<1>2. d \in Seq(S)
  BY <1>1, SeqDef
<1>3. DOMAIN d = 1..n /\ DOMAIN d = 1..Len(d) /\ Len(d) \in Nat
  BY <1>1, <1>2, LenProperties
<1>4. QED
  BY <1>2, <1>3

LEMMA FunLen ==
  ASSUME NEW n \in Nat, NEW d, IsFun(d, 1..n)
  PROVE  Len(d) = n /\ DOMAIN d = 1..n
<1> DEFINE S == {d[i] : i \in 1..n}
<1>1. \A i \in 1..n : d[i] \in S
  OBVIOUS
<1> HIDE DEF S
<1>2. QED
  BY <1>1, FunSeq, Zenon

\* And a sequence is a function on 1..Len(s).
LEMMA SeqFun ==
  ASSUME NEW S, NEW s \in Seq(S)
  PROVE  IsFun(s, 1..Len(s)) /\ Len(s) \in Nat /\ \A i \in 1..Len(s) : s[i] \in S
<1>1. s \in [1..Len(s) -> S] /\ Len(s) \in Nat
  BY LenProperties
<1>2. s = [i \in 1..Len(s) |-> s[i]]
  BY <1>1
<1>3. QED
  BY <1>1, <1>2 DEF IsFun

LEMMA CopyFun ==
  ASSUME NEW n \in Nat, NEW d, IsFun(d, 1..n),
         NEW m \in Nat, NEW s, IsFun(s, 1..m), NEW off \in Int
  PROVE  Copied(OffsetCopy(d, off, s), n, d, off, m, s)
<1>1. Len(d) = n /\ Len(s) = m
  BY FunLen, Zenon
<1>2. PICK e : e = OffsetCopy(d, off, s)
  OBVIOUS
<1>3. e = [i \in 1..n |-> IF off < i /\ i <= off + m THEN s[i - off] ELSE d[i]]
  BY <1>1, <1>2, Zenon DEF OffsetCopy
<1>4. \A i \in 1..n : e[i] = IF off < i /\ i <= off + m THEN s[i - off] ELSE d[i]
  BY <1>3
<1>5. [i \in 1..n |-> IF off < i /\ i <= off + m THEN s[i - off] ELSE d[i]]
        = [i \in 1..n |-> e[i]]
  BY <1>4
<1>6. IsFun(e, 1..n)
  BY <1>3, <1>5, Zenon DEF IsFun
<1>7. QED
  BY <1>2, <1>4, <1>6, Zenon DEF Copied

LEMMA FillFun ==
  ASSUME NEW n \in Nat, NEW d, IsFun(d, 1..n), NEW off \in Int, NEW v, NEW end \in Int
  PROVE  Overwritten(OffsetFill(d, off, v, end), n, d, off, v, end)
<1>1. Len(d) = n
  BY FunLen, Zenon
<1>2. PICK e : e = OffsetFill(d, off, v, end)
  OBVIOUS
<1>3. e = [i \in 1..n |-> IF off < i /\ i <= end THEN v ELSE d[i]]
  BY <1>1, <1>2, Zenon DEF OffsetFill
<1>4. \A i \in 1..n : e[i] = IF off < i /\ i <= end THEN v ELSE d[i]
  BY <1>3
<1>5. [i \in 1..n |-> IF off < i /\ i <= end THEN v ELSE d[i]] = [i \in 1..n |-> e[i]]
  BY <1>4
<1>6. IsFun(e, 1..n)
  BY <1>3, <1>5, Zenon DEF IsFun
<1>7. QED
  BY <1>2, <1>4, <1>6, Zenon DEF Overwritten

LEMMA FlipFun ==
  ASSUME NEW n \in Nat, NEW d, IsFun(d, 1..n)
  PROVE  Flipped(Flip(d), n, d)
<1>1. DOMAIN d = 1..n
  BY FunLen, Zenon
<1>2. PICK e : e = Flip(d)
  OBVIOUS
<1>3. e = [i \in 1..n |-> d[SwapAt(i)]]
  BY <1>1, <1>2, Zenon DEF Flip
<1>4. \A i \in 1..n : e[i] = d[SwapAt(i)]
  BY <1>3
<1>5. [i \in 1..n |-> d[SwapAt(i)]] = [i \in 1..n |-> e[i]]
  BY <1>4
<1>6. IsFun(e, 1..n)
  BY <1>3, <1>5, Zenon DEF IsFun
<1>7. QED
  BY <1>2, <1>4, <1>6, Zenon DEF Flipped

\* The first cells of a buffer.
LEMMA PrefixFun ==
  ASSUME NEW n \in Nat, NEW d, IsFun(d, 1..n), NEW k \in Nat, k <= n
  PROVE  Prefix(SubSeq(d, 1, k), k, d)
<1> DEFINE S == {d[i] : i \in 1..n}
<1>1. \A i \in 1..n : d[i] \in S
  OBVIOUS
<1> HIDE DEF S
<1>2. \A i \in 1..k : d[i] \in S
  BY <1>1
<1>3. /\ SubSeq(d, 1, k) \in Seq(S)
      /\ Len(SubSeq(d, 1, k)) = k
      /\ \A i \in 1..k : SubSeq(d, 1, k)[i] = d[i]
  BY <1>2, SubSeqProperties
<1>4. IsFun(SubSeq(d, 1, k), 1..Len(SubSeq(d, 1, k)))
  BY <1>3, SeqFun, Zenon
<1>5. QED
  BY <1>3, <1>4, Zenon DEF Prefix, Agree

LEMMA JoinFun ==
  ASSUME NEW m \in Nat, NEW f, IsFun(f, 1..m), NEW n \in Nat, NEW g, IsFun(g, 1..n)
  PROVE  Joined(f \o g, m, f, n, g)
<1> DEFINE S == {f[i] : i \in 1..m} \cup {g[i] : i \in 1..n}
<1>1. (\A i \in 1..m : f[i] \in S) /\ (\A i \in 1..n : g[i] \in S)
  OBVIOUS
<1> HIDE DEF S
<1>2. f \in Seq(S) /\ Len(f) = m /\ g \in Seq(S) /\ Len(g) = n
  BY <1>1, FunSeq, Zenon
<1>3. /\ f \o g \in Seq(S)
      /\ Len(f \o g) = m + n
      /\ \A i \in 1..(m + n) : (f \o g)[i] = IF i <= m THEN f[i] ELSE g[i - m]
  BY <1>2, ConcatProperties
<1>4. IsFun(f \o g, 1..Len(f \o g))
  BY <1>3, SeqFun, Zenon
<1>5. QED
  BY <1>3, <1>4, Zenon DEF Joined

\* In d, read in the order of the hash, the first k cells are those of p.
Reads(d, k, p) == \A i \in 1..k : d[SwapAt(i)] = p[i]

\* The native kernel, from the initial state: it absorbs the cells of whole
\* blocks in the order of the hash.
LEMMA NativeStart ==
  ASSUME NEW n \in Nat, NEW d, IsFun(d, 1..n), NEW b \in Nat, b < NBLK,
         NEW k \in Nat, k = b * BL, k <= n,
         NEW p, IsFun(p, 1..k), Reads(d, k, p)
  PROVE  Native(Start, d, b) = [iv |-> StdIV, in |-> p]
<1>1. PICK e : e = Flip(d) /\ Flipped(e, n, d)
  BY FlipFun, Zenon
<1>2. PICK s : s = SubSeq(e, 1, k) /\ Prefix(s, k, e)
  <2>1. Prefix(SubSeq(e, 1, k), k, e)
    BY <1>1, PrefixFun, Zenon DEF Flipped
  <2>2. QED
    BY <2>1, Zenon
<1>3. Agree(1..k, s, p)
  BY <1>1, <1>2 DEF Flipped, Prefix, Agree, Reads
<1>4. s = p
  BY <1>2, <1>3, FunEqual, Zenon DEF Prefix
<1>5. (b % NBLK) * BL = k
  <2>1. b % NBLK = b
    BY Sizes
  <2>2. QED
    BY <2>1, Zenon
<1>6. << >> \o p = p
  <2> DEFINE S == {p[i] : i \in 1..k}
  <2>1. \A i \in 1..k : p[i] \in S
    OBVIOUS
  <2> HIDE DEF S
  <2>2. p \in Seq(S)
    BY <2>1, FunSeq, Zenon
  <2>3. QED
    BY <2>2, ConcatEmptySeq
<1>7. Start.iv = StdIV /\ Start.in = << >>
  BY DEF Start
<1>8. QED
  BY <1>1, <1>2, <1>4, <1>5, <1>6, <1>7, Zenon DEF Native, Transform
-----------------------------------------------------------------------------
\* The padding of a message is determined: there is one number of blocks for it,
\* and one content.
Fits(n, q) == q >= 1 /\ (q - 1) * BL < n + 1 + RES /\ n + 1 + RES <= q * BL

Padding(p, e, m, n) ==
  /\ IsFun(p, 1..e)
  /\ \A i \in 1..e : p[i] = IF i <= n THEN m[i]
                            ELSE IF i = n + 1 THEN Pad80
                            ELSE IF i <= e - LW THEN Zero
                            ELSE LengthCell(n, i - (e - LW))

LEMMA BlocksOf ==
  ASSUME NEW n \in Nat, NEW q \in Nat, Fits(n, q)
  PROVE  Ref!BlocksFor(n) = q
<1>1. BL \in Nat /\ BL > 0 /\ RES \in Nat
  BY Sizes
<1>2. q \in 1..(n + 1 + RES)
  <2>1. q - 1 <= (q - 1) * BL
    BY <1>1 DEF Fits
  <2>2. (q - 1) * BL \in Nat
    BY <1>1 DEF Fits
  <2>3. QED
    BY <1>1, <2>1, <2>2 DEF Fits
<1>3. ASSUME NEW r \in 1..(n + 1 + RES),
             (r - 1) * BL < n + 1 + RES, n + 1 + RES <= r * BL
      PROVE  r = q
  <2>1. (r - 1) * BL = r * BL - BL /\ (q - 1) * BL = q * BL - BL
    BY <1>1
  <2>2. r * BL \in Nat /\ q * BL \in Nat
    BY <1>1
  <2>3. r * BL < q * BL + BL /\ q * BL < r * BL + BL
    BY <1>1, <1>3, <2>1, <2>2 DEF Fits
  <2>4. r * BL < (q + 1) * BL /\ q * BL < (r + 1) * BL
    BY <1>1, <2>3
  <2>5. r < q + 1 /\ q < r + 1
    BY <1>1, <2>4
  <2>6. QED
    BY <2>5
<1>4. (q - 1) * BL < n + 1 + RES /\ n + 1 + RES <= q * BL
  BY DEF Fits
<1>5. \A r \in 1..(n + 1 + RES) :
        ((r - 1) * BL < n + 1 + RES /\ n + 1 + RES <= r * BL) <=> r = q
  BY <1>2, <1>3, <1>4
<1>6. QED
  BY <1>2, <1>5 DEF Ref!BlocksFor

LEMMA PaddedOf ==
  ASSUME NEW m, NEW n \in Nat, Len(m) = n, NEW q \in Nat, Fits(n, q),
         NEW p, Padding(p, q * BL, m, n)
  PROVE  p = Ref!Padded(m)
<1>1. PICK e : e = q * BL
  OBVIOUS
<1>2. Ref!BlocksFor(n) = q
  BY BlocksOf
<1>3. Ref!Padded(m) =
        [i \in 1..e |-> IF i <= n THEN m[i]
                        ELSE IF i = n + 1 THEN Pad80
                        ELSE IF i <= e - LW THEN Zero
                        ELSE Ref!LengthCell(n, i - (e - LW))]
  BY <1>1, <1>2, Zenon DEF Ref!Padded
<1>4. p = [i \in 1..e |-> p[i]]
  BY <1>1, Zenon DEF Padding, IsFun
<1>5. \A i \in 1..e : p[i] = IF i <= n THEN m[i]
                             ELSE IF i = n + 1 THEN Pad80
                             ELSE IF i <= e - LW THEN Zero
                             ELSE Ref!LengthCell(n, i - (e - LW))
  BY <1>1, Zenon DEF Padding, LengthCell, Ref!LengthCell
<1>6. [i \in 1..e |-> p[i]] =
        [i \in 1..e |-> IF i <= n THEN m[i]
                        ELSE IF i = n + 1 THEN Pad80
                        ELSE IF i <= e - LW THEN Zero
                        ELSE Ref!LengthCell(n, i - (e - LW))]
  BY <1>5
<1>7. QED
  BY <1>3, <1>4, <1>6, Zenon

LEMMA PaddedIs ==
  ASSUME NEW S, NEW m \in Seq(S), NEW p \in Seq(S), IsPadded(m, p)
  PROVE  p = Ref!Padded(m)
<1>1. PICK n \in Nat : n = Len(m)
  BY LenProperties
<1>2. IsFun(p, 1..Len(p)) /\ Len(p) \in Nat
  BY SeqFun, Zenon
<1>3. PICK q \in 0..Len(p) : Len(p) = q * BL
  BY DEF IsPadded
<1>4. /\ Len(p) >= n + 1 + RES /\ Len(p) < n + 1 + RES + BL
      /\ BL \in Nat /\ BL > 0 /\ RES \in Nat /\ q \in Nat
  BY <1>1, <1>2, Sizes DEF IsPadded
<1>5. Fits(n, q)
  <2>1. (q - 1) * BL = q * BL - BL
    BY <1>4
  <2>2. q # 0
    BY <1>3, <1>4
  <2>3. q * BL \in Nat
    BY <1>4
  <2>4. QED
    BY <1>3, <1>4, <2>1, <2>2, <2>3 DEF Fits
<1>6. Padding(p, q * BL, m, n)
  BY <1>1, <1>2, <1>3, Zenon DEF IsPadded, Padding
<1>7. QED
  BY <1>1, <1>4, <1>5, <1>6, PaddedOf, Zenon

\* Padding adds no cells but those of the padding.
LEMMA PaddedCells ==
  ASSUME NEW S, NEW T, CellSet(T), NEW m \in Seq(T), NEW p \in Seq(S), IsPadded(m, p)
  PROVE  p \in Seq(T)
<1>1. IsFun(p, 1..Len(p)) /\ Len(p) \in Nat
  BY SeqFun, Zenon
<1>2. Len(m) \in Nat /\ \A i \in 1..Len(m) : m[i] \in T
  BY SeqFun, Zenon
<1>3. ASSUME NEW i \in 1..Len(p) PROVE p[i] \in T
  <2>1. p[i] = IF i <= Len(m) THEN m[i]
               ELSE IF i = Len(m) + 1 THEN Pad80
               ELSE IF i <= Len(p) - LW THEN Zero
               ELSE LengthCell(Len(m), i - (Len(p) - LW))
    BY Zenon DEF IsPadded
  <2>2. CASE i <= Len(m)
    BY <1>1, <1>2, <2>1, <2>2
  <2>3. CASE ~(i <= Len(m)) /\ ~(i <= Len(p) - LW)
    <3>1. i - (Len(p) - LW) \in Nat
      BY <1>1, <2>3, Sizes
    <3>2. LengthCell(Len(m), i - (Len(p) - LW)) \in T
      BY <1>2, <3>1 DEF LengthCell, CellSet
    <3>3. Pad80 \in T
      BY DEF CellSet
    <3>4. QED
      BY <2>1, <2>3, <3>2, <3>3
  <2>4. CASE ~(i <= Len(m)) /\ i <= Len(p) - LW
    BY <2>1, <2>4 DEF CellSet
  <2>5. QED
    BY <2>2, <2>3, <2>4
<1>4. QED
  BY <1>1, <1>3, FunSeq, Zenon
-----------------------------------------------------------------------------
\* The lengths of the outer message.
LEMMA OuterSizes ==
  /\ OuterBlocks \in Nat /\ OuterBlocks < NBLK
  /\ OuterEnd \in Nat /\ OuterEnd = OuterBlocks * BL
  /\ ILen \in Nat /\ ILen = BL + DL
  /\ BL <= ILen /\ ILen + 1 <= OuterEnd - LW /\ OuterEnd - LW <= OuterEnd
  /\ OuterEnd - LW \in Nat
  /\ Fits(ILen, OuterBlocks)
  /\ Whole(ILen) /\ Whole(OuterEnd - LW) /\ Whole(OuterEnd)
<1>1. /\ BL \in Nat /\ DL \in Nat /\ RES \in Nat /\ LW \in Nat
      /\ 0 < DL /\ DL < BL /\ LW <= RES /\ RES < BL /\ NBLK \in Nat /\ NBLK > 3
  BY Sizes
<1>2. (BL + DL) % BL = DL
  <2>1. /\ (BL + DL) \div BL \in Nat /\ (BL + DL) % BL \in 0..(BL - 1)
        /\ BL + DL = ((BL + DL) \div BL) * BL + ((BL + DL) % BL)
    BY <1>1
  <2> DEFINE q == (BL + DL) \div BL
             r == (BL + DL) % BL
  <2>2. q \in Nat /\ r \in 0..(BL - 1) /\ BL + DL = q * BL + r
    BY <2>1, Zenon
  <2> HIDE DEF q, r
  <2>3. q = 1
    BY <1>1, <2>2
  <2>4. r = DL
    BY <1>1, <2>2, <2>3
  <2>5. QED
    BY <2>4 DEF r
<1>3. OuterBlocks = IF DL < BL - RES THEN 2 ELSE 3
  BY <1>2, Zenon DEF OuterBlocks
<1>4. ILen = BL + DL
  BY DEF ILen
<1>5. OuterBlocks \in Nat /\ OuterBlocks < NBLK /\ OuterBlocks \in {2, 3}
  BY <1>1, <1>3
<1>6. OuterEnd = OuterBlocks * BL
  BY DEF OuterEnd
<1>7. Fits(ILen, OuterBlocks) /\ ILen + 1 + RES <= OuterEnd /\ OuterEnd \in Nat
  BY <1>1, <1>3, <1>4, <1>6 DEF Fits
<1>8. Whole(ILen)
  BY <1>4, WholeSizes, WholeSum, Zenon
<1>9. Whole(OuterEnd)
  <2>1. OuterEnd = BL + BL \/ OuterEnd = (BL + BL) + BL
    BY <1>1, <1>5, <1>6
  <2>2. Whole(BL + BL)
    BY WholeSizes, WholeSum, Zenon
  <2>3. Whole((BL + BL) + BL)
    BY <2>2, WholeSizes, WholeSum, Zenon
  <2>4. QED
    BY <2>1, <2>2, <2>3, Zenon
<1>10. LW <= OuterEnd
  BY <1>1, <1>4, <1>7
<1>11. Whole(OuterEnd - LW)
  BY <1>9, <1>10, WholeSizes, WholeSum, Zenon
<1>12. /\ BL <= ILen /\ ILen \in Nat /\ ILen + 1 <= OuterEnd - LW /\ OuterEnd - LW <= OuterEnd
       /\ OuterEnd - LW \in Nat
  BY <1>1, <1>4, <1>7
<1>13. QED
  BY <1>4, <1>5, <1>6, <1>7, <1>8, <1>9, <1>11, <1>12, Zenon

\* The masked key of the contract.
LEMMA MaskedKeyFun ==
  ASSUME NEW tag, NEW k, NEW s, s = Ref!ShortKey(k), NEW n, n = Len(s)
  PROVE  /\ IsFun(Ref!MaskedKey(tag, k), 1..BL)
         /\ \A i \in 1..BL : Ref!MaskedKey(tag, k)[i] = <<tag, IF i <= n THEN s[i] ELSE Zero>>
<1>1. PICK m : m = Ref!MaskedKey(tag, k)
  OBVIOUS
<1>2. m = [i \in 1..BL |-> <<tag, IF i <= n THEN s[i] ELSE Zero>>]
  BY <1>1, Zenon DEF Ref!MaskedKey
<1>3. \A i \in 1..BL : m[i] = <<tag, IF i <= n THEN s[i] ELSE Zero>>
  BY <1>2
<1>4. [i \in 1..BL |-> <<tag, IF i <= n THEN s[i] ELSE Zero>>] = [i \in 1..BL |-> m[i]]
  BY <1>3
<1>5. IsFun(m, 1..BL)
  BY <1>2, <1>4, Zenon DEF IsFun
<1>6. QED
  BY <1>1, <1>3, <1>5, Zenon

\* The digest of the contract.
LEMMA DigestFun ==
  ASSUME NEW st
  PROVE  /\ IsFun(Ref!DigestOf(st), 1..DL)
         /\ Len(Ref!DigestOf(st)) = DL
         /\ \A i \in 1..DL : Ref!DigestOf(st)[i] = Ref!DigestCell(st, i)
<1>1. PICK d : d = Ref!DigestOf(st)
  OBVIOUS
<1>2. d = [i \in 1..DL |-> Ref!DigestCell(st, i)]
  BY <1>1, Zenon DEF Ref!DigestOf
<1>3. \A i \in 1..DL : d[i] = Ref!DigestCell(st, i)
  BY <1>2
<1>4. [i \in 1..DL |-> Ref!DigestCell(st, i)] = [i \in 1..DL |-> d[i]]
  BY <1>3
<1>5. IsFun(d, 1..DL)
  BY <1>2, <1>4, Zenon DEF IsFun
<1>6. Len(d) = DL
  BY <1>5, FunLen, Sizes, Zenon
<1>7. QED
  BY <1>1, <1>3, <1>5, <1>6, Zenon

LEMMA InMemoryFun ==
  ASSUME NEW st
  PROVE  /\ IsFun(InMemory(st), 1..SL)
         /\ \A i \in 1..SL : InMemory(st)[i] = Ref!DigestCell(st, SwapAt(i))
<1>1. PICK d : d = InMemory(st)
  OBVIOUS
<1>2. d = [i \in 1..SL |-> Ref!DigestCell(st, SwapAt(i))]
  BY <1>1, Zenon DEF InMemory
<1>3. \A i \in 1..SL : d[i] = Ref!DigestCell(st, SwapAt(i))
  BY <1>2
<1>4. [i \in 1..SL |-> Ref!DigestCell(st, SwapAt(i))] = [i \in 1..SL |-> d[i]]
  BY <1>3
<1>5. IsFun(d, 1..SL)
  BY <1>2, <1>4, Zenon DEF IsFun
<1>6. QED
  BY <1>1, <1>3, <1>5, Zenon

\* The two masks.
LEMMA MaskedFun ==
  ASSUME NEW e \in Nat, NEW h, IsFun(h, 1..e), NEW n \in Nat
  PROVE  /\ IsFun(Masked(h, n), 1..e)
         /\ \A i \in 1..e : Masked(h, n)[i] = IF i <= n THEN <<Inner, h[i]>> ELSE h[i]
<1>1. DOMAIN h = 1..e
  BY FunLen, Zenon
<1>2. PICK m : m = Masked(h, n)
  OBVIOUS
<1>3. m = [i \in 1..e |-> IF i <= n THEN <<Inner, h[i]>> ELSE h[i]]
  BY <1>1, <1>2, Zenon DEF Masked
<1>4. \A i \in 1..e : m[i] = IF i <= n THEN <<Inner, h[i]>> ELSE h[i]
  BY <1>3
<1>5. [i \in 1..e |-> IF i <= n THEN <<Inner, h[i]>> ELSE h[i]] = [i \in 1..e |-> m[i]]
  BY <1>4
<1>6. IsFun(m, 1..e)
  BY <1>3, <1>5, Zenon DEF IsFun
<1>7. QED
  BY <1>2, <1>4, <1>6, Zenon

LEMMA RemaskedFun ==
  ASSUME NEW e \in Nat, NEW h, IsFun(h, 1..e)
  PROVE  /\ IsFun(Remasked(h), 1..e)
         /\ \A i \in 1..e : Remasked(h)[i] = IF i <= BL THEN <<Outer, h[i][2]>> ELSE h[i]
<1>1. DOMAIN h = 1..e
  BY FunLen, Zenon
<1>2. PICK m : m = Remasked(h)
  OBVIOUS
<1>3. m = [i \in 1..e |-> IF i <= BL THEN <<Outer, h[i][2]>> ELSE h[i]]
  BY <1>1, <1>2, Zenon DEF Remasked
<1>4. \A i \in 1..e : m[i] = IF i <= BL THEN <<Outer, h[i][2]>> ELSE h[i]
  BY <1>3
<1>5. [i \in 1..e |-> IF i <= BL THEN <<Outer, h[i][2]>> ELSE h[i]] = [i \in 1..e |-> m[i]]
  BY <1>4
<1>6. IsFun(m, 1..e)
  BY <1>3, <1>5, Zenon DEF IsFun
<1>7. QED
  BY <1>2, <1>4, <1>6, Zenon
-----------------------------------------------------------------------------
\* Init, first half: the inner masked key, in the machine's order, in front.
Ipad(p, k) ==
  /\ IsFun(p, 1..OuterEnd)
  /\ \A i \in 1..BL : p[i] = Ref!MaskedKey(Inner, k)[SwapAt(i)]

LEMMA BlockFits == BL \in Nat /\ OuterEnd \in Nat /\ BL <= OuterEnd /\ DL <= BL /\ DL \in Nat
BY OuterSizes, Sizes

LEMMA ShortIpad ==
  ASSUME NEW h, IsFun(h, 1..OuterEnd), NEW k \in Seq(Byte), Len(k) <= BL
  PROVE  Ipad(ShortKey(h, k), k)
<1>0. BL \in Nat /\ OuterEnd \in Nat /\ BL <= OuterEnd
  BY BlockFits
<1>1. PICK n \in Nat : n = Len(k) /\ IsFun(k, 1..n) /\ n <= BL
  BY SeqFun, Zenon
<1>2. PICK a : a = OffsetCopy(h, 0, k) /\ Copied(a, OuterEnd, h, 0, n, k)
  <2>1. 0 \in Int
    OBVIOUS
  <2>2. Copied(OffsetCopy(h, 0, k), OuterEnd, h, 0, n, k)
    BY <1>0, <1>1, <2>1, CopyFun, Zenon
  <2>3. QED
    BY <2>2, Zenon
<1>3. PICK b : /\ b = Masked(a, n) /\ IsFun(b, 1..OuterEnd)
               /\ \A i \in 1..OuterEnd : b[i] = IF i <= n THEN <<Inner, a[i]>> ELSE a[i]
  <2>1. /\ IsFun(Masked(a, n), 1..OuterEnd)
        /\ \A i \in 1..OuterEnd : Masked(a, n)[i] = IF i <= n THEN <<Inner, a[i]>> ELSE a[i]
    <3>1. IsFun(a, 1..OuterEnd)
      BY <1>2, Zenon DEF Copied
    <3>2. QED
      BY <1>0, <3>1, MaskedFun
  <2>2. QED
    BY <2>1, Zenon
<1>4. PICK d : /\ d = OffsetFill(b, n, <<Inner, Zero>>, BL)
               /\ Overwritten(d, OuterEnd, b, n, <<Inner, Zero>>, BL)
  <2>1. n \in Int /\ BL \in Int
    BY <1>0
  <2>2. Overwritten(OffsetFill(b, n, <<Inner, Zero>>, BL), OuterEnd, b, n, <<Inner, Zero>>, BL)
    BY <1>0, <1>3, <2>1, FillFun, Zenon
  <2>3. QED
    BY <2>2, Zenon
<1>5. PICK s : s = SubSeq(d, 1, BL) /\ Prefix(s, BL, d)
  <2>1. Prefix(SubSeq(d, 1, BL), BL, d)
    BY <1>0, <1>4, PrefixFun, Zenon DEF Overwritten
  <2>2. QED
    BY <2>1, Zenon
<1>6. PICK f : f = Flip(s) /\ Flipped(f, BL, s)
  BY <1>0, <1>5, FlipFun, Zenon DEF Prefix
<1>7. PICK r : r = OffsetCopy(h, 0, f) /\ Copied(r, OuterEnd, h, 0, BL, f)
  <2>1. 0 \in Int
    OBVIOUS
  <2>2. Copied(OffsetCopy(h, 0, f), OuterEnd, h, 0, BL, f)
    BY <1>0, <1>6, <2>1, CopyFun, Zenon DEF Flipped
  <2>3. QED
    BY <2>2, Zenon
<1>8. r = ShortKey(h, k)
  BY <1>1, <1>2, <1>3, <1>4, <1>5, <1>6, <1>7, Zenon DEF ShortKey
<1>9. k = Ref!ShortKey(k)
  BY <1>0, <1>1 DEF Ref!ShortKey
<1>10. \A j \in 1..BL : Ref!MaskedKey(Inner, k)[j] = <<Inner, IF j <= n THEN k[j] ELSE Zero>>
  <2>1. PICK key : key = k
    OBVIOUS
  <2>2. key = Ref!ShortKey(k) /\ n = Len(key)
    BY <1>1, <1>9, <2>1, Zenon
  <2>3. \A j \in 1..BL : Ref!MaskedKey(Inner, k)[j] = <<Inner, IF j <= n THEN key[j] ELSE Zero>>
    BY <2>2, MaskedKeyFun, Zenon
  <2>4. QED
    BY <2>1, <2>3, Zenon
<1>11. ASSUME NEW j \in 1..BL PROVE s[j] = Ref!MaskedKey(Inner, k)[j]
  <2>1. j \in 1..OuterEnd /\ 0 < j /\ j - 0 = j /\ 0 + n = n
    BY <1>0, <1>1
  <2>2. s[j] = d[j]
    BY <1>5, Zenon DEF Prefix, Agree
  <2>3. d[j] = IF n < j /\ j <= BL THEN <<Inner, Zero>> ELSE b[j]
    BY <1>4, <2>1, Zenon DEF Overwritten
  <2>4. b[j] = IF j <= n THEN <<Inner, a[j]>> ELSE a[j]
    BY <1>3, <2>1, Zenon
  <2>5. a[j] = IF 0 < j /\ j <= 0 + n THEN k[j - 0] ELSE h[j]
    BY <1>2, <2>1, Zenon DEF Copied
  <2>6. Ref!MaskedKey(Inner, k)[j] = <<Inner, IF j <= n THEN k[j] ELSE Zero>>
    BY <1>10
  <2>7. CASE j <= n
    <3>1. d[j] = b[j]
      BY <1>1, <2>1, <2>3, <2>7
    <3>2. a[j] = k[j]
      BY <2>1, <2>5, <2>7
    <3>3. QED
      BY <2>2, <2>4, <2>6, <2>7, <3>1, <3>2, Zenon
  <2>8. CASE ~(j <= n)
    <3>1. d[j] = <<Inner, Zero>>
      BY <1>1, <2>1, <2>3, <2>8
    <3>2. QED
      BY <2>2, <2>6, <2>8, <3>1, Zenon
  <2>9. QED
    BY <2>7, <2>8
<1>12. ASSUME NEW i \in 1..BL PROVE r[i] = Ref!MaskedKey(Inner, k)[SwapAt(i)]
  <2>1. SwapAt(i) \in 1..BL
    BY WholeSizes, SwapIn, Zenon
  <2>2. r[i] = f[i]
    BY <1>0, <1>7 DEF Copied
  <2>3. f[i] = s[SwapAt(i)]
    BY <1>6, Zenon DEF Flipped
  <2>4. QED
    BY <1>11, <2>1, <2>2, <2>3, Zenon
<1>13. QED
  BY <1>7, <1>8, <1>12, Zenon DEF Ipad, Copied

\* A long key's digest comes from the chaining state, which is in memory already.
LEMMA LongIpad ==
  ASSUME NEW h, IsFun(h, 1..OuterEnd), NEW k, Len(k) > BL
  PROVE  Ipad(LongKey(h, Ref!HashOf(k)), k)
<1>0. BL \in Nat /\ OuterEnd \in Nat /\ BL <= OuterEnd /\ DL \in Nat /\ DL <= BL
      /\ SL \in Nat /\ DL <= SL /\ SL <= BL
  BY BlockFits, Sizes
<1>1. PICK st : st = Ref!HashOf(k)
  OBVIOUS
<1>2. PICK m : /\ m = InMemory(st) /\ IsFun(m, 1..SL)
               /\ \A i \in 1..SL : m[i] = Ref!DigestCell(st, SwapAt(i))
  BY InMemoryFun, Zenon
<1>3. PICK a : a = OffsetCopy(h, 0, m) /\ Copied(a, OuterEnd, h, 0, SL, m)
  <2>1. 0 \in Int
    OBVIOUS
  <2>2. Copied(OffsetCopy(h, 0, m), OuterEnd, h, 0, SL, m)
    BY <1>0, <1>2, <2>1, CopyFun, Zenon
  <2>3. QED
    BY <2>2, Zenon
<1>4. PICK b : /\ b = Masked(a, DL) /\ IsFun(b, 1..OuterEnd)
               /\ \A i \in 1..OuterEnd : b[i] = IF i <= DL THEN <<Inner, a[i]>> ELSE a[i]
  <2>1. IsFun(a, 1..OuterEnd) /\ DL \in Nat /\ OuterEnd \in Nat
    BY <1>0, <1>3, Zenon DEF Copied
  <2>2. /\ IsFun(Masked(a, DL), 1..OuterEnd)
        /\ \A i \in 1..OuterEnd : Masked(a, DL)[i] = IF i <= DL THEN <<Inner, a[i]>> ELSE a[i]
    BY <2>1, MaskedFun, Zenon
  <2>3. QED
    BY <2>2, Zenon
<1>5. PICK r : /\ r = OffsetFill(b, DL, <<Inner, Zero>>, BL)
               /\ Overwritten(r, OuterEnd, b, DL, <<Inner, Zero>>, BL)
  <2>1. DL \in Int /\ BL \in Int
    BY <1>0
  <2>2. Overwritten(OffsetFill(b, DL, <<Inner, Zero>>, BL), OuterEnd, b, DL, <<Inner, Zero>>, BL)
    BY <1>0, <1>4, <2>1, FillFun, Zenon
  <2>3. QED
    BY <2>2, Zenon
<1>6. r = LongKey(h, st)
  BY <1>2, <1>3, <1>4, <1>5, Zenon DEF LongKey
<1>7. PICK s : s = Ref!DigestOf(st) /\ \A i \in 1..DL : s[i] = Ref!DigestCell(st, i)
  BY DigestFun, Zenon
<1>8. s = Ref!ShortKey(k) /\ DL = Len(s)
  <2>1. DL = Len(s)
    BY <1>7, DigestFun, Zenon
  <2>2. QED
    BY <1>1, <1>7, <2>1, Zenon DEF Ref!ShortKey
<1>9. \A j \in 1..BL : Ref!MaskedKey(Inner, k)[j] = <<Inner, IF j <= DL THEN s[j] ELSE Zero>>
  BY <1>8, MaskedKeyFun, Zenon
<1>10. ASSUME NEW i \in 1..BL PROVE r[i] = Ref!MaskedKey(Inner, k)[SwapAt(i)]
  <2>1. i \in 1..OuterEnd /\ 0 < i /\ i - 0 = i /\ i \in Nat
    BY <1>0
  <2>2. SwapAt(i) \in 1..BL
    BY WholeSizes, SwapIn, Zenon
  <2>3. r[i] = IF DL < i /\ i <= BL THEN <<Inner, Zero>> ELSE b[i]
    BY <1>5, <2>1, Zenon DEF Overwritten
  <2>4. b[i] = IF i <= DL THEN <<Inner, a[i]>> ELSE a[i]
    BY <1>4, <2>1, Zenon
  <2>5. a[i] = IF 0 < i /\ i <= 0 + SL THEN m[i - 0] ELSE h[i]
    BY <1>3, <2>1, Zenon DEF Copied
  <2>6. Ref!MaskedKey(Inner, k)[SwapAt(i)]
          = <<Inner, IF SwapAt(i) <= DL THEN s[SwapAt(i)] ELSE Zero>>
    BY <1>9, <2>2, Zenon
  <2>7. CASE i <= DL
    <3>1. r[i] = b[i]
      BY <1>0, <2>1, <2>3, <2>7
    <3>2. i \in 1..SL /\ i \in 1..DL /\ a[i] = m[i]
      BY <1>0, <2>1, <2>5, <2>7
    <3>3. SwapAt(i) \in 1..DL
      BY <3>2, WholeSizes, SwapIn, Zenon
    <3>4. SwapAt(i) <= DL
      BY <3>3
    <3>5. s[SwapAt(i)] = Ref!DigestCell(st, SwapAt(i)) /\ m[i] = Ref!DigestCell(st, SwapAt(i))
      BY <1>2, <1>7, <3>2, <3>3, Zenon
    <3>6. QED
      BY <2>4, <2>6, <2>7, <3>1, <3>2, <3>4, <3>5, Zenon
  <2>8. CASE ~(i <= DL)
    <3>1. r[i] = <<Inner, Zero>>
      BY <1>0, <2>1, <2>3, <2>8
    <3>2. i > DL
      BY <1>0, <2>1, <2>8
    <3>3. SwapAt(i) > DL /\ SwapAt(i) \in Nat
      BY <2>1, <3>2, WholeSizes, SwapBeyond, Zenon
    <3>4. ~(SwapAt(i) <= DL)
      BY <1>0, <3>3
    <3>5. QED
      BY <2>6, <3>1, <3>4, Zenon
  <2>9. QED
    BY <2>7, <2>8
<1>11. QED
  BY <1>1, <1>5, <1>6, <1>10, Zenon DEF Ipad, Overwritten
-----------------------------------------------------------------------------
\* The cells of an inner hash, and of its chaining state.
LEMMA InnerCells ==
  /\ CellSet(InnerCell) /\ CellSet(Cell)
  /\ Cell \subseteq InnerCell /\ Byte \subseteq Cell
  /\ Zero \in InnerCell /\ Pad80 \in InnerCell /\ Junk \in InnerCell
BY CellForm DEF CellSet, InnerCell, Cell

\* A context that has absorbed nothing.
Base(d) == [data |-> d, bytelen |-> 0, state |-> Start, datalen |-> 0]

LEMMA BaseStep ==
  ASSUME NEW S, NEW d \in BlockOf(S)
  PROVE  /\ Base(d) \in ContextOf(S) /\ Aligned(Base(d))
         /\ Absorbed(Base(d)) = << >>
<1>1. Start \in StateOf(S)
  <2>1. << >> \in Seq(S)
    BY EmptySeq
  <2>2. QED
    BY <2>1, HmacAssumption DEF StateOf, Start
<1>2. Base(d) \in ContextOf(S)
  BY <1>1 DEF Base, ContextOf
<1>3. PICK x : x = Base(d) /\ x \in ContextOf(S)
  BY <1>2
<1>4. Fresh(x, StdIV) = x
  BY <1>3 DEF Base, Fresh, Start
<1>5. Aligned(x) /\ Absorbed(x) = << >>
  <2>1. Aligned(Fresh(x, StdIV)) /\ Absorbed(Fresh(x, StdIV)) = << >>
    BY <1>3, FreshStep, HmacAssumption
  <2>2. QED
    BY <1>4, <2>1, Zenon
<1>6. QED
  BY <1>3, <1>5, Zenon

\* HASH(Final) of a context leaves the hash of what it absorbed.
LEMMA FinishedIs ==
  ASSUME NEW S, CellSet(S), NEW x \in ContextOf(S), Aligned(x), x.state.iv = StdIV
  PROVE  /\ Finished(x).state = Ref!HashOf(Absorbed(x))
         /\ Finished(x) \in ContextOf(S)
<1>1. PICK y : /\ y = Finished(x) /\ y \in ContextOf(S) /\ y.state.iv = StdIV
               /\ IsPadded(Absorbed(x), y.state.in)
  BY FinishedStep
<1>2. Absorbed(x) \in Seq(S)
  BY AbsorbedType
<1>3. y.state \in StateOf(S) /\ y.state.in \in Seq(S)
  BY <1>1, Fields
<1>4. y.state.in = Ref!Padded(Absorbed(x))
  BY <1>1, <1>2, <1>3, PaddedIs, Zenon
<1>5. y.state = [iv |-> y.state.iv, in |-> y.state.in]
  BY <1>3 DEF StateOf
<1>6. y.state = Ref!HashOf(Absorbed(x))
  BY <1>1, <1>4, <1>5, Zenon DEF Ref!HashOf
<1>7. QED
  BY <1>1, <1>6, Zenon

LEMMA KeyHashed ==
  ASSUME NEW x, x.data \in BlockOf(InnerCell), NEW k \in Seq(Byte), Len(k) < NBLK * BL
  PROVE  /\ HashKey(x, k).state = Ref!HashOf(k)
         /\ HashKey(x, k).data \in BlockOf(InnerCell)
         /\ Ref!HashOf(k) \in State
<1>1. PICK z : /\ z = Base(x.data) /\ z \in ContextOf(InnerCell) /\ Aligned(z)
               /\ Absorbed(z) = << >>
  BY BaseStep, Zenon
<1>2. /\ z.datalen = 0 /\ z.bytelen = 0 /\ z.state = Start /\ z.data = x.data
      /\ z.state.iv = StdIV /\ z.state.in = << >>
  BY <1>1 DEF Base, Start
<1>3. k \in Seq(InnerCell) /\ k \in Seq(Cell) /\ Len(k) \in Nat
  <2>1. k \in [1..Len(k) -> Byte] /\ Len(k) \in Nat
    BY LenProperties
  <2>2. k \in [1..Len(k) -> InnerCell] /\ k \in [1..Len(k) -> Cell]
    BY <2>1, InnerCells
  <2>3. QED
    BY <2>1, <2>2, SeqDef
<1> DEFINE q == Len(k) \div BL
           rest == SubSeq(k, q * BL + 1, Len(k))
<1>4. TookBlocks(InnerCell, z, k)
  BY <1>1, <1>2, <1>3, TakeBlocksStep, Zenon
<1>5. PICK y : y = TakeBlocks(z, k)
  OBVIOUS
<1>6. /\ y \in ContextOf(InnerCell) /\ Aligned(y) /\ y.datalen = 0
      /\ y.state.iv = StdIV /\ y.state.in = << >> \o SubSeq(k, 1, q * BL)
      /\ SubSeq(k, 1, q * BL) \in Seq(InnerCell)
      /\ q * BL \in Nat /\ q * BL <= Len(k) /\ Len(k) - q * BL < BL
  BY <1>2, <1>4, <1>5, Zenon DEF TookBlocks
<1>7. y = [data |-> x.data, bytelen |-> q * BL, state |-> Transform(Start, k, q), datalen |-> 0]
  <2>1. y = [data |-> z.data, bytelen |-> z.bytelen + q * BL,
             state |-> Transform(z.state, k, q), datalen |-> z.datalen]
    BY <1>5, Zenon DEF TakeBlocks
  <2>2. 0 + q * BL = q * BL
    BY <1>6
  <2>3. QED
    BY <1>2, <2>1, <2>2, Zenon
<1>8. /\ k = SubSeq(k, 1, q * BL) \o rest
      /\ rest \in Seq(InnerCell) /\ Len(rest) = Len(k) - q * BL
  <2>1. PICK p : p = q * BL
    OBVIOUS
  <2>2. p \in Nat /\ p <= Len(k)
    BY <1>6, <2>1, Zenon
  <2>3. /\ k = SubSeq(k, 1, p) \o SubSeq(k, p + 1, Len(k))
        /\ SubSeq(k, p + 1, Len(k)) \in Seq(InnerCell)
        /\ Len(SubSeq(k, p + 1, Len(k))) = Len(k) - p
    BY <1>3, <2>2, Split
  <2>4. QED
    BY <2>1, <2>3, Zenon
<1>9. Len(rest) \in Nat /\ y.datalen + Len(rest) < BL /\ y.datalen + Len(rest) = Len(rest)
  BY <1>3, <1>6, <1>8
<1>10. Absorbed(y) = SubSeq(k, 1, q * BL)
  <2>1. << >> \o SubSeq(k, 1, q * BL) = SubSeq(k, 1, q * BL)
    BY <1>6, ConcatEmptySeq
  <2>2. SubSeq(y.data, 1, y.datalen) = << >>
    BY <1>6, SubSeqEmpty
  <2>3. SubSeq(k, 1, q * BL) \o << >> = SubSeq(k, 1, q * BL)
    BY <1>6, ConcatEmptySeq
  <2>4. QED
    BY <1>6, <2>1, <2>2, <2>3, Zenon DEF Absorbed
<1>11. PICK b : /\ b = Buffered(y, rest) /\ b \in ContextOf(InnerCell) /\ Aligned(b)
                /\ b.state.iv = StdIV /\ Absorbed(b) = k
  <2>1. /\ Buffered(y, rest) \in ContextOf(InnerCell) /\ Aligned(Buffered(y, rest))
        /\ Buffered(y, rest).state.iv = y.state.iv
        /\ Absorbed(Buffered(y, rest)) = Absorbed(y) \o rest
    BY <1>6, <1>8, <1>9, InnerCells, BufferedStep, Zenon
  <2>2. Absorbed(y) \o rest = k
    BY <1>8, <1>10, Zenon
  <2>3. QED
    BY <1>6, <2>1, <2>2, Zenon
<1>12. b = [data |-> OffsetCopy(x.data, 0, rest), bytelen |-> q * BL,
            state |-> Transform(Start, k, q), datalen |-> Len(rest)]
  <2>1. b = [data |-> OffsetCopy(y.data, y.datalen, rest), bytelen |-> y.bytelen,
             state |-> y.state, datalen |-> y.datalen + Len(rest)]
    BY <1>11, Zenon DEF Buffered
  <2>2. y.data = x.data /\ y.bytelen = q * BL /\ y.state = Transform(Start, k, q)
    BY <1>7
  <2>3. QED
    BY <1>6, <1>9, <2>1, <2>2, Zenon
<1>13. HashKey(x, k) = Finished(b)
  BY <1>12, Zenon DEF HashKey
<1>14. PICK f : f = Finished(b) /\ f.state = Ref!HashOf(k) /\ f \in ContextOf(InnerCell)
  <2>1. Finished(b).state = Ref!HashOf(Absorbed(b)) /\ Finished(b) \in ContextOf(InnerCell)
    BY <1>11, InnerCells, FinishedIs, Zenon
  <2>2. QED
    BY <1>11, <2>1, Zenon
<1>15. f.data \in BlockOf(InnerCell)
  BY <1>14, Fields
<1>16. Ref!HashOf(k) \in State
  <2>1. IsPadded(k, f.state.in)
    BY <1>11, <1>14, InnerCells, FinishedStep, Zenon
  <2>2. f.state.in \in Seq(InnerCell)
    BY <1>14, Fields
  <2>3. f.state.in \in Seq(Cell)
    <3>1. PICK g : g = f.state.in /\ g \in Seq(InnerCell) /\ IsPadded(k, g)
      BY <2>1, <2>2, Zenon
    <3>2. g \in Seq(Cell)
      BY <1>3, <3>1, InnerCells, PaddedCells
    <3>3. QED
      BY <3>1, <3>2, Zenon
  <2>4. f.state.in = Ref!Padded(k)
    BY <1>14 DEF Ref!HashOf
  <2>5. QED
    BY <2>3, <2>4, HmacAssumption DEF Ref!HashOf, State
<1>17. QED
  BY <1>13, <1>14, <1>15, <1>16, Zenon
-----------------------------------------------------------------------------
\* The outer blocks, read in the order of the hash: the masked key and, behind the
\* place of the inner digest, the padding of a message of that length.
Ready(h, k) ==
  LET f == Flip(h)
  IN f = Ref!Padded(SubSeq(f, 1, ILen)) /\ SubSeq(f, 1, BL) = Ref!MaskedKey(Outer, k)

Laid(h, k) ==
  /\ IsFun(h, 1..OuterEnd)
  /\ \A i \in 1..BL : h[SwapAt(i)] = Ref!MaskedKey(Outer, k)[i]
  /\ \A i \in (ILen + 1)..OuterEnd : h[SwapAt(i)] =
       IF i = ILen + 1 THEN Pad80
       ELSE IF i <= OuterEnd - LW THEN Zero
       ELSE LengthCell(ILen, i - (OuterEnd - LW))

\* The converse of PaddedOf.
LEMMA PaddedForm ==
  ASSUME NEW m, NEW n \in Nat, Len(m) = n, NEW q \in Nat, Fits(n, q)
  PROVE  Padding(Ref!Padded(m), q * BL, m, n)
<1>1. PICK e : e = q * BL
  OBVIOUS
<1>2. Ref!BlocksFor(n) = q
  BY BlocksOf
<1>3. PICK p : p = Ref!Padded(m)
  OBVIOUS
<1>4. p = [i \in 1..e |-> IF i <= n THEN m[i]
                          ELSE IF i = n + 1 THEN Pad80
                          ELSE IF i <= e - LW THEN Zero
                          ELSE LengthCell(n, i - (e - LW))]
  BY <1>1, <1>2, <1>3, Zenon DEF Ref!Padded, LengthCell, Ref!LengthCell
<1>5. \A i \in 1..e : p[i] = IF i <= n THEN m[i]
                             ELSE IF i = n + 1 THEN Pad80
                             ELSE IF i <= e - LW THEN Zero
                             ELSE LengthCell(n, i - (e - LW))
  BY <1>4
<1>6. [i \in 1..e |-> p[i]] =
        [i \in 1..e |-> IF i <= n THEN m[i]
                        ELSE IF i = n + 1 THEN Pad80
                        ELSE IF i <= e - LW THEN Zero
                        ELSE LengthCell(n, i - (e - LW))]
  BY <1>5
<1>7. IsFun(p, 1..e)
  BY <1>4, <1>6, Zenon DEF IsFun
<1>8. QED
  BY <1>1, <1>3, <1>5, <1>7, Zenon DEF Padding

LEMMA LaidReady ==
  ASSUME NEW h, NEW k, Laid(h, k)
  PROVE  Ready(h, k)
<1>1. PICK f : f = Flip(h) /\ Flipped(f, OuterEnd, h)
  BY OuterSizes, FlipFun, Zenon DEF Laid
<1>2. /\ OuterEnd \in Nat /\ ILen \in Nat /\ BL \in Nat
      /\ BL <= ILen /\ ILen + 1 <= OuterEnd - LW /\ OuterEnd - LW <= OuterEnd
      /\ BL <= OuterEnd /\ ILen <= OuterEnd /\ LW \in Nat
  <2>1. /\ OuterEnd \in Nat /\ ILen \in Nat /\ BL \in Nat /\ LW \in Nat
        /\ BL <= ILen /\ ILen + 1 <= OuterEnd - LW /\ OuterEnd - LW <= OuterEnd
    BY OuterSizes, Sizes, Zenon
  <2>2. QED
    BY <2>1
<1>3. PICK s : s = SubSeq(f, 1, ILen) /\ Prefix(s, ILen, f)
  <2>1. Prefix(SubSeq(f, 1, ILen), ILen, f)
    BY <1>1, <1>2, PrefixFun, Zenon DEF Flipped
  <2>2. QED
    BY <2>1, Zenon
<1>4. PICK b : b = SubSeq(f, 1, BL) /\ Prefix(b, BL, f)
  <2>1. Prefix(SubSeq(f, 1, BL), BL, f)
    BY <1>1, <1>2, PrefixFun, Zenon DEF Flipped
  <2>2. QED
    BY <2>1, Zenon
<1>5. f = Ref!Padded(s)
  <2>1. Len(s) = ILen
    BY <1>2, <1>3, FunLen, Zenon DEF Prefix
  <2>2. ASSUME NEW i \in 1..OuterEnd
        PROVE  f[i] = IF i <= ILen THEN s[i]
                      ELSE IF i = ILen + 1 THEN Pad80
                      ELSE IF i <= OuterEnd - LW THEN Zero
                      ELSE LengthCell(ILen, i - (OuterEnd - LW))
    <3>1. CASE i <= ILen
      <4>1. i \in 1..ILen
        BY <1>2, <3>1
      <4>2. s[i] = f[i]
        BY <1>3, <4>1, Zenon DEF Prefix, Agree
      <4>3. QED
        BY <3>1, <4>2, Zenon
    <3>2. CASE ~(i <= ILen)
      <4>1. i \in (ILen + 1)..OuterEnd
        BY <1>2, <3>2
      <4>2. f[i] = h[SwapAt(i)]
        BY <1>1, Zenon DEF Flipped
      <4>3. QED
        BY <3>2, <4>1, <4>2, Zenon DEF Laid
    <3>3. QED
      BY <3>1, <3>2, Zenon
  <2>3. Padding(f, OuterBlocks * BL, s, ILen)
    BY <1>1, <2>2, OuterSizes, Zenon DEF Padding, Flipped
  <2>4. QED
    BY <2>1, <2>3, OuterSizes, PaddedOf, Zenon
<1>6. b = Ref!MaskedKey(Outer, k)
  <2>1. IsFun(Ref!MaskedKey(Outer, k), 1..BL)
    BY MaskedKeyFun
  <2>2. ASSUME NEW i \in 1..BL PROVE b[i] = Ref!MaskedKey(Outer, k)[i]
    <3>1. i \in 1..OuterEnd
      BY <1>2
    <3>2. b[i] = f[i] /\ f[i] = h[SwapAt(i)]
      BY <1>1, <1>4, <3>1, Zenon DEF Prefix, Agree, Flipped
    <3>3. QED
      BY <3>2, Zenon DEF Laid
  <2>3. Agree(1..BL, b, Ref!MaskedKey(Outer, k))
    BY <2>2, Zenon DEF Agree
  <2>4. QED
    BY <1>4, <2>1, <2>3, FunEqual, Zenon DEF Prefix
<1>7. QED
  BY <1>1, <1>3, <1>4, <1>5, <1>6, Zenon DEF Ready

LEMMA ReadyLaid ==
  ASSUME NEW h, IsFun(h, 1..OuterEnd), NEW k, Ready(h, k)
  PROVE  Laid(h, k)
<1>1. PICK f : f = Flip(h) /\ Flipped(f, OuterEnd, h)
  BY OuterSizes, FlipFun, Zenon
<1>2. /\ OuterEnd \in Nat /\ ILen \in Nat /\ BL \in Nat /\ LW \in Nat
      /\ BL <= ILen /\ ILen + 1 <= OuterEnd - LW /\ OuterEnd - LW <= OuterEnd
  BY OuterSizes, Sizes, Zenon
<1>3. BL <= OuterEnd /\ ILen <= OuterEnd
  BY <1>2
<1>4. PICK s : s = SubSeq(f, 1, ILen) /\ Prefix(s, ILen, f)
  <2>1. Prefix(SubSeq(f, 1, ILen), ILen, f)
    BY <1>1, <1>2, <1>3, PrefixFun, Zenon DEF Flipped
  <2>2. QED
    BY <2>1, Zenon
<1>5. PICK b : b = SubSeq(f, 1, BL) /\ Prefix(b, BL, f)
  <2>1. Prefix(SubSeq(f, 1, BL), BL, f)
    BY <1>1, <1>2, <1>3, PrefixFun, Zenon DEF Flipped
  <2>2. QED
    BY <2>1, Zenon
<1>6. f = Ref!Padded(s) /\ b = Ref!MaskedKey(Outer, k)
  BY <1>1, <1>4, <1>5, Zenon DEF Ready
<1>7. Padding(f, OuterEnd, s, ILen)
  <2>1. Len(s) = ILen
    BY <1>2, <1>4, FunLen, Zenon DEF Prefix
  <2>2. Padding(Ref!Padded(s), OuterBlocks * BL, s, ILen)
    BY <2>1, OuterSizes, PaddedForm, Zenon
  <2>3. QED
    BY <1>6, <2>2, OuterSizes, Zenon
<1>8. ASSUME NEW i \in 1..BL PROVE h[SwapAt(i)] = Ref!MaskedKey(Outer, k)[i]
  <2>1. i \in 1..OuterEnd
    BY <1>2, <1>3
  <2>2. b[i] = f[i] /\ f[i] = h[SwapAt(i)]
    BY <1>1, <1>5, <2>1, Zenon DEF Prefix, Agree, Flipped
  <2>3. QED
    BY <1>6, <2>2, Zenon
<1>9. ASSUME NEW i \in (ILen + 1)..OuterEnd
      PROVE  h[SwapAt(i)] = IF i = ILen + 1 THEN Pad80
                            ELSE IF i <= OuterEnd - LW THEN Zero
                            ELSE LengthCell(ILen, i - (OuterEnd - LW))
  <2>1. i \in 1..OuterEnd /\ ~(i <= ILen)
    BY <1>2
  <2>2. f[i] = h[SwapAt(i)]
    BY <1>1, <2>1, Zenon DEF Flipped
  <2>3. QED
    BY <1>7, <2>1, <2>2, Zenon DEF Padding
<1>10. QED
  BY <1>8, <1>9, Zenon DEF Laid
\* In a hash whose length is laid out in order, its bytes go where the swap puts them.
LEMMA LengthAtIs ==
  ASSUME LengthInOrder, swapped \in Orders, NEW i \in 1..LW
  PROVE  LengthAt(i) = SwapAt(i)
<1>1. CASE ~(swapped /\ HashEndian = "little")
  BY <1>1 DEF LengthAt
<1>2. CASE swapped /\ HashEndian = "little"
  <2>1. swapped = TRUE
    BY <1>2, HmacAssumption
  <2>2. LW = WB
    BY <1>2, <2>1 DEF LengthInOrder
  <2>3. WB \in Nat /\ WB > 0 /\ i \in Nat /\ 1 <= i /\ i <= WB
    BY <2>2, Sizes
  <2>4. ((i - 1) + WB) % WB = i - 1
    <3> DEFINE a == i - 1
    <3>1. a \in Nat /\ a < WB
      BY <2>3
    <3> HIDE DEF a
    <3>2. /\ (a + WB) \div WB \in Nat /\ (a + WB) % WB \in 0..(WB - 1)
          /\ a + WB = ((a + WB) \div WB) * WB + ((a + WB) % WB)
      BY <2>3, <3>1
    <3>3. PICK q \in Nat, r \in 0..(WB - 1) : r = (a + WB) % WB /\ a + WB = q * WB + r
      BY <3>2, Zenon
    <3>4. q = 1
      BY <2>3, <3>1, <3>3
    <3>5. r = a
      BY <2>3, <3>1, <3>3, <3>4
    <3>6. QED
      BY <3>3, <3>5 DEF a
  <2>5. ((i - 1 + WB) % LW) + 1 = i
    BY <2>2, <2>3, <2>4
  <2>6. QED
    BY <2>1, <2>5, <1>2, Zenon DEF LengthAt
<1>3. QED
  BY <1>1, <1>2

\* Init, second half: the outer masked key over the inner one, and the padding.
LEMMA PaddingLaid ==
  ASSUME LengthInOrder, swapped \in Orders, NEW p, NEW k, Ipad(p, k)
  PROVE  Laid(OuterPadding(Remasked(p)), k)
<1>1. /\ OuterEnd \in Nat /\ ILen \in Nat /\ BL \in Nat /\ LW \in Nat
      /\ BL <= ILen /\ ILen + 1 <= OuterEnd - LW /\ OuterEnd - LW <= OuterEnd
      /\ OuterEnd - LW \in Nat /\ LW >= 1
  BY OuterSizes, Sizes, Zenon
<1>2. PICK h : /\ h = Remasked(p) /\ IsFun(h, 1..OuterEnd)
               /\ \A i \in 1..OuterEnd : h[i] = IF i <= BL THEN <<Outer, p[i][2]>> ELSE p[i]
  <2>1. IsFun(p, 1..OuterEnd)
    BY Zenon DEF Ipad
  <2>2. /\ IsFun(Remasked(p), 1..OuterEnd)
        /\ \A i \in 1..OuterEnd : Remasked(p)[i] = IF i <= BL THEN <<Outer, p[i][2]>> ELSE p[i]
    BY <1>1, <2>1, RemaskedFun, Zenon
  <2>3. QED
    BY <2>2, Zenon
<1>3. PICK a : a = OffsetFill(h, ILen, Zero, OuterEnd - LW)
               /\ Overwritten(a, OuterEnd, h, ILen, Zero, OuterEnd - LW)
  <2>1. ILen \in Int /\ OuterEnd - LW \in Int
    BY <1>1
  <2>2. Overwritten(OffsetFill(h, ILen, Zero, OuterEnd - LW), OuterEnd, h, ILen, Zero, OuterEnd - LW)
    BY <1>1, <1>2, <2>1, FillFun, Zenon
  <2>3. QED
    BY <2>2, Zenon
<1>4. SwapAt(ILen + 1) \in Nat /\ SwapAt(ILen + 1) > ILen /\ SwapAt(ILen + 1) <= OuterEnd - LW
  <2>1. ILen + 1 \in 1..(OuterEnd - LW) /\ ILen + 1 \in Nat /\ ILen + 1 > ILen
    BY <1>1
  <2>2. SwapAt(ILen + 1) \in 1..(OuterEnd - LW)
    BY <2>1, OuterSizes, SwapIn, Zenon
  <2>3. SwapAt(ILen + 1) > ILen
    BY <2>1, OuterSizes, SwapBeyond, Zenon
  <2>4. QED
    BY <1>1, <2>2, <2>3
<1>5. PICK t : t = <<Pad80>>
  OBVIOUS
<1>6. IsFun(t, 1..1) /\ t[1] = Pad80
  <2>1. t \in Seq({Pad80}) /\ Len(t) = 1 /\ t[1] = Pad80
    BY <1>5
  <2>2. QED
    BY <2>1, SeqFun
<1>7. PICK b : b = OffsetCopy(a, SwapAt(ILen + 1) - 1, t)
               /\ Copied(b, OuterEnd, a, SwapAt(ILen + 1) - 1, 1, t)
  <2>1. SwapAt(ILen + 1) - 1 \in Int /\ 1 \in Nat
    BY <1>4
  <2>2. Copied(OffsetCopy(a, SwapAt(ILen + 1) - 1, t), OuterEnd, a, SwapAt(ILen + 1) - 1, 1, t)
    BY <1>1, <1>3, <1>6, <2>1, CopyFun, Zenon DEF Overwritten
  <2>3. QED
    BY <2>2, Zenon
<1>8. PICK l : l = [i \in 1..LW |-> LengthCell(ILen, LengthAt(i))]
  OBVIOUS
<1>9. IsFun(l, 1..LW) /\ \A i \in 1..LW : l[i] = LengthCell(ILen, SwapAt(i))
  <2>1. \A i \in 1..LW : l[i] = LengthCell(ILen, LengthAt(i))
    BY <1>8
  <2>2. [i \in 1..LW |-> LengthCell(ILen, LengthAt(i))] = [i \in 1..LW |-> l[i]]
    BY <2>1
  <2>3. IsFun(l, 1..LW)
    BY <1>8, <2>2, Zenon DEF IsFun
  <2>4. QED
    BY <2>1, <2>3, LengthAtIs, Zenon
<1>10. PICK r : r = OffsetCopy(b, OuterEnd - LW, l)
                /\ Copied(r, OuterEnd, b, OuterEnd - LW, LW, l)
  <2>1. OuterEnd - LW \in Int /\ OuterEnd \in Nat /\ LW \in Nat
    BY <1>1
  <2>2. IsFun(b, 1..OuterEnd) /\ IsFun(l, 1..LW)
    BY <1>7, <1>9, Zenon DEF Copied
  <2>3. Copied(OffsetCopy(b, OuterEnd - LW, l), OuterEnd, b, OuterEnd - LW, LW, l)
    BY <2>1, <2>2, CopyFun, Zenon
  <2>4. QED
    BY <2>3, Zenon
<1>11. r = OuterPadding(Remasked(p))
  BY <1>2, <1>3, <1>5, <1>7, <1>8, <1>10, Zenon DEF OuterPadding
<1>12. \A j \in 1..OuterEnd : r[j] = IF OuterEnd - LW < j /\ j <= OuterEnd - LW + LW
                                     THEN l[j - (OuterEnd - LW)] ELSE b[j]
  BY <1>10, Zenon DEF Copied
<1>13. \A j \in 1..OuterEnd : b[j] = IF SwapAt(ILen + 1) - 1 < j /\ j <= SwapAt(ILen + 1) - 1 + 1
                                     THEN t[j - (SwapAt(ILen + 1) - 1)] ELSE a[j]
  BY <1>7, Zenon DEF Copied
<1>14. \A j \in 1..OuterEnd : a[j] = IF ILen < j /\ j <= OuterEnd - LW THEN Zero ELSE h[j]
  BY <1>3, Zenon DEF Overwritten
<1> DEFINE v == SwapAt(ILen + 1)
<1>15. ASSUME NEW j \in 1..OuterEnd
       PROVE  /\ OuterEnd - LW < j => r[j] = l[j - (OuterEnd - LW)]
              /\ j = v => r[j] = Pad80
              /\ ILen < j /\ j <= OuterEnd - LW /\ j # v => r[j] = Zero
              /\ j <= ILen => r[j] = h[j]
  <2>1. v \in Nat /\ v > ILen /\ v <= OuterEnd - LW
    BY <1>4
  <2>2. /\ r[j] = IF OuterEnd - LW < j /\ j <= OuterEnd - LW + LW
                  THEN l[j - (OuterEnd - LW)] ELSE b[j]
        /\ b[j] = IF v - 1 < j /\ j <= v - 1 + 1 THEN t[j - (v - 1)] ELSE a[j]
        /\ a[j] = IF ILen < j /\ j <= OuterEnd - LW THEN Zero ELSE h[j]
    BY <1>12, <1>13, <1>14, Zenon
  <2> HIDE DEF v
  <2>3. ASSUME OuterEnd - LW < j PROVE r[j] = l[j - (OuterEnd - LW)]
    BY <1>1, <2>2, <2>3
  <2>4. ASSUME j = v PROVE r[j] = Pad80
    <3>1. r[j] = b[j] /\ b[j] = t[j - (v - 1)] /\ j - (v - 1) = 1
      BY <1>1, <2>1, <2>2, <2>4
    <3>2. QED
      BY <1>6, <3>1
  <2>5. ASSUME ILen < j, j <= OuterEnd - LW, j # v PROVE r[j] = Zero
    BY <1>1, <2>1, <2>2, <2>5
  <2>6. ASSUME j <= ILen PROVE r[j] = h[j]
    BY <1>1, <2>1, <2>2, <2>6
  <2>7. QED
    BY <2>3, <2>4, <2>5, <2>6
<1>16. ASSUME NEW i \in 1..BL PROVE r[SwapAt(i)] = Ref!MaskedKey(Outer, k)[i]
  <2>1. PICK s, n : s = Ref!ShortKey(k) /\ n = Len(s)
    OBVIOUS
  <2>2. /\ Ref!MaskedKey(Inner, k)[i] = <<Inner, IF i <= n THEN s[i] ELSE Zero>>
        /\ Ref!MaskedKey(Outer, k)[i] = <<Outer, IF i <= n THEN s[i] ELSE Zero>>
    BY <2>1, MaskedKeyFun
  <2>3. i \in Nat /\ i >= 1
    BY <1>1
  <2>4. SwapAt(i) \in 1..BL
    BY WholeSizes, SwapIn, Zenon
  <2>5. SwapAt(i) \in 1..OuterEnd /\ SwapAt(i) <= BL /\ SwapAt(i) <= ILen
    BY <1>1, <2>4
  <2>6. SwapAt(SwapAt(i)) = i
    BY <2>3, SwapTwice
  <2>7. p[SwapAt(i)] = Ref!MaskedKey(Inner, k)[i]
    BY <2>4, <2>6, Zenon DEF Ipad
  <2>8. r[SwapAt(i)] = <<Outer, p[SwapAt(i)][2]>>
    BY <1>2, <1>15, <2>5, Zenon
  <2>9. PICK w : w = IF i <= n THEN s[i] ELSE Zero
    OBVIOUS
  <2>10. p[SwapAt(i)] = <<Inner, w>> /\ Ref!MaskedKey(Outer, k)[i] = <<Outer, w>>
    BY <2>2, <2>7, <2>9, Zenon
  <2>11. QED
    BY <2>8, <2>10
<1>17. ASSUME NEW i \in (ILen + 1)..OuterEnd
       PROVE  r[SwapAt(i)] = IF i = ILen + 1 THEN Pad80
                             ELSE IF i <= OuterEnd - LW THEN Zero
                             ELSE LengthCell(ILen, i - (OuterEnd - LW))
  <2>1. i \in Nat /\ i > ILen /\ i >= 1 /\ i \in 1..OuterEnd /\ ILen \in Nat
    BY <1>1
  <2>2. SwapAt(i) \in 1..OuterEnd
    BY <2>1, OuterSizes, SwapIn, Zenon
  <2>3. SwapAt(i) > ILen
    BY <2>1, OuterSizes, SwapBeyond, Zenon
  <2>4. CASE i = ILen + 1
    BY <1>15, <2>2, <2>4, Zenon
  <2>5. CASE i # ILen + 1 /\ i <= OuterEnd - LW
    <3>1. i \in 1..(OuterEnd - LW)
      BY <2>1, <2>5
    <3>2. SwapAt(i) \in 1..(OuterEnd - LW)
      BY <3>1, OuterSizes, SwapIn, Zenon
    <3>3. SwapAt(i) # v
      <4>1. SwapAt(SwapAt(i)) = i
        BY <2>1, SwapTwice
      <4>2. ILen + 1 \in Nat /\ ILen + 1 >= 1
        BY <1>1
      <4>3. SwapAt(v) = ILen + 1
        BY <4>2, SwapTwice
      <4>4. QED
        BY <2>5, <4>1, <4>3, Zenon
    <3>4. SwapAt(i) <= OuterEnd - LW
      BY <1>1, <3>2
    <3>5. r[SwapAt(i)] = Zero
      BY <1>15, <2>2, <2>3, <3>3, <3>4, Zenon
    <3>6. QED
      BY <2>5, <3>5, Zenon
  <2>6. CASE i # ILen + 1 /\ ~(i <= OuterEnd - LW)
    <3>1. i > OuterEnd - LW /\ i - (OuterEnd - LW) \in 1..LW
      BY <1>1, <2>1, <2>6
    <3>2. PICK j : j = i - (OuterEnd - LW) /\ j \in 1..LW /\ j \in Nat /\ j >= 1
      BY <3>1
    <3>3. SwapAt(i) = (OuterEnd - LW) + SwapAt(j)
      BY <2>1, <3>1, <3>2, OuterSizes, SwapBeyond, Zenon
    <3>4. SwapAt(j) \in 1..LW
      BY <3>2, WholeSizes, SwapIn, Zenon
    <3>5. SwapAt(i) - (OuterEnd - LW) = SwapAt(j) /\ OuterEnd - LW < SwapAt(i)
      BY <1>1, <3>3, <3>4
    <3>6. r[SwapAt(i)] = l[SwapAt(j)]
      BY <1>15, <2>2, <3>5, Zenon
    <3>7. l[SwapAt(j)] = LengthCell(ILen, SwapAt(SwapAt(j)))
      BY <1>9, <3>4, Zenon
    <3>8. SwapAt(SwapAt(j)) = j
      BY <3>2, SwapTwice
    <3>9. QED
      BY <2>6, <3>2, <3>6, <3>7, <3>8, Zenon
  <2>7. QED
    BY <2>4, <2>5, <2>6, Zenon
<1>18. QED
  BY <1>10, <1>11, <1>16, <1>17, Zenon DEF Laid, Copied
-----------------------------------------------------------------------------
\* The masked key is one block of cells of an inner hash.
LEMMA MaskCells ==
  ASSUME NEW k \in Seq(Byte), Ref!HashOf(k) \in State
  PROVE  Ref!MaskedKey(Inner, k) \in Seq(InnerCell) /\ Len(Ref!MaskedKey(Inner, k)) = BL
<1>1. PICK m : m = Ref!MaskedKey(Inner, k)
  OBVIOUS
<1>2. PICK s, n : s = Ref!ShortKey(k) /\ n = Len(s)
  OBVIOUS
<1>3. IsFun(m, 1..BL) /\ \A i \in 1..BL : m[i] = <<Inner, IF i <= n THEN s[i] ELSE Zero>>
  BY <1>1, <1>2, MaskedKeyFun
<1>4. ASSUME NEW i \in 1..BL, i <= n PROVE s[i] \in KeyCell
  <2>1. CASE Len(k) > BL
    <3>1. s = Ref!DigestOf(Ref!HashOf(k))
      BY <1>2, <2>1 DEF Ref!ShortKey
    <3>2. n = DL /\ DL \in Nat /\ BL \in Nat
      BY <1>2, <3>1, DigestFun, Sizes, Zenon
    <3>3. i \in 1..DL /\ i \in Nat
      BY <1>4, <3>2
    <3>4. s[i] = Ref!DigestCell(Ref!HashOf(k), i)
      BY <3>1, <3>3, DigestFun, Zenon
    <3>5. QED
      BY <3>3, <3>4 DEF Ref!DigestCell, KeyCell
  <2>2. CASE ~(Len(k) > BL)
    <3>1. s = k
      BY <1>2, <2>2 DEF Ref!ShortKey
    <3>2. n = Len(k) /\ n \in Nat /\ \A j \in 1..n : k[j] \in Byte
      BY <1>2, <3>1, SeqFun, Zenon
    <3>3. i \in 1..n
      BY <1>4, <3>2
    <3>4. QED
      BY <3>1, <3>2, <3>3 DEF KeyCell, Cell
  <2>3. QED
    BY <2>1, <2>2
<1>5. ASSUME NEW i \in 1..BL PROVE m[i] \in InnerCell
  <2>1. PICK w : w = IF i <= n THEN s[i] ELSE Zero
    OBVIOUS
  <2>2. Zero \in KeyCell
    BY DEF KeyCell, Cell
  <2>3. w \in KeyCell
    BY <1>4, <2>1, <2>2, Zenon
  <2>4. m[i] = <<Inner, w>>
    BY <1>3, <2>1, Zenon
  <2>5. QED
    BY <2>3, <2>4 DEF InnerCell
<1>6. QED
  BY <1>1, <1>3, <1>5, FunSeq, Sizes, Zenon

\* What Init leaves.
KeyedAs(r, k) ==
  /\ r.ctx \in ContextOf(InnerCell) /\ Aligned(r.ctx)
  /\ r.ctx.state.iv = StdIV
  /\ Absorbed(r.ctx) = Ref!MaskedKey(Inner, k)
  /\ Laid(r.hmac, k)

LEMMA KeyedStep ==
  ASSUME LengthInOrder, swapped \in Orders,
         NEW x, x.data \in BlockOf(InnerCell), NEW h, IsFun(h, 1..OuterEnd),
         NEW k \in Seq(Byte), Len(k) < NBLK * BL
  PROVE  KeyedAs(Keyed(x, h, k), k)
<1>1. PICK y : /\ y = HashKey(x, k) /\ y.state = Ref!HashOf(k)
               /\ y.data \in BlockOf(InnerCell) /\ Ref!HashOf(k) \in State
  BY KeyHashed, Zenon
<1>2. PICK p : p = IF Len(k) > BL THEN LongKey(h, y.state) ELSE ShortKey(h, k)
  OBVIOUS
<1>3. Ipad(p, k)
  <2>1. CASE Len(k) > BL
    <3>1. p = LongKey(h, Ref!HashOf(k))
      BY <1>1, <1>2, <2>1, Zenon
    <3>2. QED
      BY <2>1, <3>1, LongIpad, Zenon
  <2>2. CASE ~(Len(k) > BL)
    <3>1. p = ShortKey(h, k)
      BY <1>2, <2>2, Zenon
    <3>2. Len(k) <= BL
      BY <2>2, Sizes, LenProperties
    <3>3. QED
      BY <3>1, <3>2, ShortIpad, Zenon
  <2>3. QED
    BY <2>1, <2>2
<1>4. PICK m : /\ m = Ref!MaskedKey(Inner, k) /\ m \in Seq(InnerCell) /\ Len(m) = BL
               /\ IsFun(m, 1..BL)
  BY <1>1, MaskCells, MaskedKeyFun
<1>5. Native(Start, p, 1) = [iv |-> StdIV, in |-> m]
  <2>1. BL \in Nat /\ OuterEnd \in Nat /\ BL <= OuterEnd /\ 1 \in Nat /\ 1 < NBLK /\ BL = 1 * BL
    BY BlockFits, Sizes
  <2>2. \A i \in 1..BL : p[SwapAt(i)] = m[i]
    <3> TAKE i \in 1..BL
    <3>1. SwapAt(i) \in 1..BL
      BY WholeSizes, SwapIn, Zenon
    <3>2. p[SwapAt(i)] = m[SwapAt(SwapAt(i))]
      BY <1>3, <1>4, <3>1, Zenon DEF Ipad
    <3>3. i \in Nat /\ i >= 1
      BY <2>1
    <3>4. QED
      BY <3>2, <3>3, SwapTwice, Zenon
  <2>3. IsFun(p, 1..OuterEnd) /\ Reads(p, BL, m)
    BY <1>3, <2>2, Zenon DEF Ipad, Reads
  <2>4. QED
    BY <1>4, <2>1, <2>3, NativeStart
<1>6. PICK d : d = (IF Len(k) > BL THEN y.data ELSE x.data) /\ d \in BlockOf(InnerCell)
  BY <1>1
<1>7. PICK r : r = Keyed(x, h, k)
  OBVIOUS
<1>8. r = [ctx |-> [data |-> d, bytelen |-> BL, state |-> [iv |-> StdIV, in |-> m],
                    datalen |-> 0],
           hmac |-> OuterPadding(Remasked(p))]
  BY <1>1, <1>2, <1>5, <1>6, <1>7, Zenon DEF Keyed
<1>9. PICK z : z = [data |-> d, bytelen |-> BL, state |-> [iv |-> StdIV, in |-> m], datalen |-> 0]
  OBVIOUS
<1>10. /\ z.data = d /\ z.bytelen = BL /\ z.datalen = 0 /\ z.state.iv = StdIV /\ z.state.in = m
       /\ r.ctx = z /\ r.hmac = OuterPadding(Remasked(p))
  BY <1>8, <1>9
<1>11. z \in ContextOf(InnerCell)
  BY <1>4, <1>6, <1>9, Sizes, HmacAssumption DEF ContextOf, StateOf
<1>12. Aligned(z)
  <2>1. BL \in Nat /\ BL > 0
    BY Sizes
  <2>2. 1 \in 0..BL /\ BL = 1 * BL
    BY <2>1
  <2>3. \E q \in 0..BL : BL = q * BL
    BY <2>2
  <2>4. QED
    BY <1>4, <1>10, <2>1, <2>3 DEF Aligned
<1>13. Absorbed(z) = m
  <2>1. SubSeq(z.data, 1, z.datalen) = << >>
    BY <1>10, SubSeqEmpty
  <2>2. m \o << >> = m
    BY <1>4, ConcatEmptySeq
  <2>3. QED
    BY <1>10, <2>1, <2>2, Zenon DEF Absorbed
<1>14. Laid(r.hmac, k)
  BY <1>3, <1>10, PaddingLaid, Zenon
<1>15. KeyedAs(r, k)
  BY <1>4, <1>10, <1>11, <1>12, <1>13, <1>14, Zenon DEF KeyedAs
<1>16. QED
  BY <1>7, <1>15, Zenon

\* HMAC(Outer): with the inner digest in its place the outer blocks are those of
\* the outer message, and stay laid out for another.
LEMMA OuterStep ==
  ASSUME NEW h, NEW k, Laid(h, k), NEW st
  PROVE  /\ OuterHash(WithDigest(h, st)) = Ref!HashOf(Ref!MaskedKey(Outer, k) \o Ref!DigestOf(st))
         /\ IsFun(WithDigest(h, st), 1..OuterEnd)
<1>1. /\ OuterEnd \in Nat /\ ILen \in Nat /\ BL \in Nat /\ LW \in Nat /\ DL \in Nat /\ SL \in Nat
      /\ DL <= SL /\ ILen = BL + DL /\ OuterEnd - LW \in Nat
      /\ BL <= ILen /\ ILen + 1 <= OuterEnd - LW /\ OuterEnd - LW <= OuterEnd
      /\ OuterBlocks \in Nat /\ OuterBlocks < NBLK /\ OuterEnd = OuterBlocks * BL
  BY OuterSizes, Sizes, Zenon
<1>2. PICK s : s = InMemory(st) /\ IsFun(s, 1..SL)
               /\ \A i \in 1..SL : s[i] = Ref!DigestCell(st, SwapAt(i))
  BY InMemoryFun, Zenon
<1>3. PICK d : d = SubSeq(s, 1, DL) /\ Prefix(d, DL, s)
  <2>1. Prefix(SubSeq(s, 1, DL), DL, s)
    BY <1>1, <1>2, PrefixFun, Zenon
  <2>2. QED
    BY <2>1, Zenon
<1>4. PICK w : w = OffsetCopy(h, BL, d) /\ Copied(w, OuterEnd, h, BL, DL, d)
  <2>1. BL \in Int /\ OuterEnd \in Nat /\ DL \in Nat
    BY <1>1
  <2>2. IsFun(h, 1..OuterEnd) /\ IsFun(d, 1..DL)
    BY <1>3, Zenon DEF Laid, Prefix
  <2>3. Copied(OffsetCopy(h, BL, d), OuterEnd, h, BL, DL, d)
    BY <2>1, <2>2, CopyFun, Zenon
  <2>4. QED
    BY <2>3, Zenon
<1>5. w = WithDigest(h, st)
  BY <1>2, <1>3, <1>4, Zenon DEF WithDigest
<1>6. PICK m : m = Ref!MaskedKey(Outer, k) /\ IsFun(m, 1..BL)
  BY MaskedKeyFun
<1>7. PICK g : g = Ref!DigestOf(st) /\ IsFun(g, 1..DL)
               /\ \A i \in 1..DL : g[i] = Ref!DigestCell(st, i)
  BY DigestFun, Zenon
<1>8. PICK j : j = m \o g /\ Joined(j, BL, m, DL, g)
  <2>1. Joined(m \o g, BL, m, DL, g)
    BY <1>1, <1>6, <1>7, JoinFun, Zenon
  <2>2. QED
    BY <2>1, Zenon
<1>9. PICK p : p = Ref!Padded(j) /\ Padding(p, OuterEnd, j, ILen)
  <2>1. IsFun(j, 1..ILen)
    BY <1>1, <1>8, Zenon DEF Joined
  <2>2. Len(j) = ILen
    BY <1>1, <2>1, FunLen, Zenon
  <2>3. Padding(Ref!Padded(j), OuterBlocks * BL, j, ILen)
    BY <1>1, <2>2, OuterSizes, PaddedForm, Zenon
  <2>4. QED
    BY <1>1, <2>3, Zenon
<1>10. ASSUME NEW i \in 1..OuterEnd PROVE w[SwapAt(i)] = p[i]
  <2>1. SwapAt(i) \in 1..OuterEnd
    BY OuterSizes, SwapIn, Zenon
  <2>2. w[SwapAt(i)] = IF BL < SwapAt(i) /\ SwapAt(i) <= BL + DL THEN d[SwapAt(i) - BL]
                       ELSE h[SwapAt(i)]
    BY <1>4, <2>1, Zenon DEF Copied
  <2>3. p[i] = IF i <= ILen THEN j[i]
               ELSE IF i = ILen + 1 THEN Pad80
               ELSE IF i <= OuterEnd - LW THEN Zero
               ELSE LengthCell(ILen, i - (OuterEnd - LW))
    BY <1>9, Zenon DEF Padding
  <2>4. i \in Nat /\ SwapAt(i) \in Nat
    BY <1>1, <2>1
  <2>5. CASE i <= BL
    <3>1. i \in 1..BL /\ i \in 1..(BL + DL) /\ i <= ILen
      BY <1>1, <2>4, <2>5
    <3>2. SwapAt(i) \in 1..BL
      BY <3>1, WholeSizes, SwapIn, Zenon
    <3>3. ~(BL < SwapAt(i))
      BY <1>1, <3>2
    <3>4. w[SwapAt(i)] = m[i]
      BY <1>6, <2>2, <3>1, <3>3, Zenon DEF Laid
    <3>5. j[i] = m[i]
      BY <1>8, <2>5, <3>1, Zenon DEF Joined
    <3>6. QED
      BY <2>3, <3>1, <3>4, <3>5, Zenon
  <2>6. CASE i > BL /\ i <= ILen
    <3>1. i \in 1..(BL + DL) /\ ~(i <= BL) /\ i - BL \in 1..DL
      BY <1>1, <2>4, <2>6
    <3>2. PICK o : o = i - BL /\ o \in 1..DL /\ o \in Nat /\ o >= 1
      BY <3>1
    <3>3. SwapAt(i) = BL + SwapAt(o)
      BY <2>4, <2>6, <3>2, WholeSizes, SwapBeyond, Zenon
    <3>4. SwapAt(o) \in 1..DL
      BY <3>2, WholeSizes, SwapIn, Zenon
    <3>5. BL < SwapAt(i) /\ SwapAt(i) <= BL + DL /\ SwapAt(i) - BL = SwapAt(o) /\ SwapAt(o) \in 1..SL
      BY <1>1, <3>3, <3>4
    <3>6. w[SwapAt(i)] = d[SwapAt(o)]
      BY <2>2, <3>5, Zenon
    <3>7. d[SwapAt(o)] = s[SwapAt(o)]
      BY <1>3, <3>4, Zenon DEF Prefix, Agree
    <3>8. s[SwapAt(o)] = Ref!DigestCell(st, SwapAt(SwapAt(o)))
      BY <1>2, <3>5, Zenon
    <3>9. SwapAt(SwapAt(o)) = o
      BY <3>2, SwapTwice
    <3>10. j[i] = g[o]
      BY <1>8, <3>1, <3>2, Zenon DEF Joined
    <3>11. g[o] = Ref!DigestCell(st, o)
      BY <1>7, <3>2, Zenon
    <3>12. QED
      BY <2>3, <2>6, <3>6, <3>7, <3>8, <3>9, <3>10, <3>11, Zenon
  <2>7. CASE i > ILen
    <3>1. i \in (ILen + 1)..OuterEnd /\ ~(i <= ILen)
      BY <1>1, <2>4, <2>7
    <3>2. SwapAt(i) > ILen
      BY <2>4, <2>7, OuterSizes, SwapBeyond, Zenon
    <3>3. ~(SwapAt(i) <= BL + DL)
      BY <1>1, <2>4, <3>2
    <3>4. w[SwapAt(i)] = h[SwapAt(i)]
      BY <2>2, <3>3, Zenon
    <3>5. h[SwapAt(i)] = IF i = ILen + 1 THEN Pad80
                         ELSE IF i <= OuterEnd - LW THEN Zero
                         ELSE LengthCell(ILen, i - (OuterEnd - LW))
      BY <3>1, Zenon DEF Laid
    <3>6. QED
      BY <2>3, <3>1, <3>4, <3>5, Zenon
  <2>8. QED
    BY <1>1, <2>4, <2>5, <2>6, <2>7
<1>11. Native(Start, w, OuterBlocks) = [iv |-> StdIV, in |-> p]
  <2>1. OuterEnd <= OuterEnd
    BY <1>1
  <2>2. IsFun(w, 1..OuterEnd) /\ IsFun(p, 1..OuterEnd)
    BY <1>4, <1>9, Zenon DEF Copied, Padding
  <2>3. Reads(w, OuterEnd, p)
    BY <1>10, Zenon DEF Reads
  <2>4. QED
    BY <1>1, <2>1, <2>2, <2>3, NativeStart
<1>12. OuterHash(w) = Ref!HashOf(j)
  BY <1>9, <1>11, Zenon DEF OuterHash, Ref!HashOf
<1>13. QED
  BY <1>4, <1>5, <1>6, <1>7, <1>8, <1>12, Zenon DEF Copied
-----------------------------------------------------------------------------
\* The inductive invariant, one context at a time.
Prepares(x, h, k, f) ==
  /\ x \in ContextOf(InnerCell) /\ Aligned(x)
  /\ x.state.iv = StdIV
  /\ k \in Keys /\ f \in Seq(Byte)
  /\ Absorbed(x) = Ref!MaskedKey(Inner, k) \o f
  /\ Laid(h, k)

Good(x, h, ph, k, f) ==
  /\ Shaped(x) /\ IsFun(h, 1..OuterEnd)
  /\ ph \in {"new", "open"} => Prepares(x, h, k, f)
  /\ ph = "done" => x.state = Ref!HmacOf(k, f)

Frame ==
  /\ swapped \in Orders
  /\ IsFun(ctx, Ctx) /\ IsFun(hmac, Ctx) /\ IsFun(fed, Ctx)
  /\ phase \in [Ctx -> Phases]
  /\ keyed \in [Ctx -> Keys \cup {<<>>}]

GoodAll == \A c \in Ctx : Good(ctx[c], hmac[c], phase[c], keyed[c], fed[c])

LEMMA OuterReadyIs ==
  ASSUME NEW c \in Ctx, IsFun(hmac[c], 1..OuterEnd)
  PROVE  OuterReady(c) <=> Laid(hmac[c], keyed[c])
<1>1. OuterReady(c) <=> Ready(hmac[c], keyed[c])
  BY Zenon DEF OuterReady, Ready
<1>2. QED
  BY <1>1, LaidReady, ReadyLaid, Zenon

LEMMA PreparesIs ==
  ASSUME NEW c \in Ctx, IsFun(hmac[c], 1..OuterEnd)
  PROVE  Prepares(ctx[c], hmac[c], keyed[c], fed[c])
           <=> InUse(c) /\ InnerReady(c) /\ OuterReady(c)
<1>1. ctx[c] \in ContextOf(InnerCell) <=>
        ctx[c] \in [data : [1..BL -> InnerCell], bytelen : Nat,
                    state : [iv : IV, in : Seq(InnerCell)], datalen : Nat]
  BY Zenon DEF ContextOf, BlockOf, StateOf
<1>2. QED
  BY <1>1, OuterReadyIs, Zenon DEF Prepares, InUse, InnerReady

LEMMA IInvIs == IInv <=> Frame /\ GoodAll
<1>1. ASSUME NEW c \in Ctx, IsFun(hmac[c], 1..OuterEnd)
      PROVE  Prepares(ctx[c], hmac[c], keyed[c], fed[c])
               <=> InUse(c) /\ InnerReady(c) /\ OuterReady(c)
  BY <1>1, PreparesIs, Zenon
<1>2. \A c \in Ctx : Open(c) <=> phase[c] \in {"new", "open"}
  BY DEF Open
<1>3. QED
  BY <1>1, <1>2, Zenon DEF IInv, Frame, GoodAll, Good

\* The order of the bytes does not change while the program runs.
LEMMA SameOrder ==
  ASSUME swapped' = swapped
  PROVE  GoodAll' <=> \A c \in Ctx : Good(ctx'[c], hmac'[c], phase'[c], keyed'[c], fed'[c])
BY DEF GoodAll, Good, Prepares, Laid, SwapAt
LEMMA ExceptSame ==
  ASSUME NEW D, NEW f, IsFun(f, D), NEW c \in D
  PROVE  [f EXCEPT ![c] = f[c]] = f
<1>1. PICK g : g = [f EXCEPT ![c] = f[c]]
  OBVIOUS
<1>2. Replaces(g, D, f, c, f[c])
  BY <1>1, FunExcept
<1>3. IsFun(g, D) /\ Agree(D, g, f)
  BY <1>2 DEF Agree, Replaces
<1>4. QED
  BY <1>1, <1>3, FunEqual, Zenon

LEMMA IInvIsNext == IInv' <=> Frame' /\ GoodAll'
BY IInvIs, PTL

\* A call changes one context, and leaves it good.
LEMMA Replaced ==
  ASSUME IInv, swapped' = swapped, NEW c \in Ctx,
         NEW x, NEW h, NEW ph \in Phases, NEW k \in Keys \cup {<<>>}, NEW f,
         Good(x, h, ph, k, f),
         ctx' = [ctx EXCEPT ![c] = x], hmac' = [hmac EXCEPT ![c] = h],
         phase' = [phase EXCEPT ![c] = ph], keyed' = [keyed EXCEPT ![c] = k],
         fed' = [fed EXCEPT ![c] = f]
  PROVE  IInv'
<1>1. Frame /\ GoodAll
  BY IInvIs, Zenon
<1>2. /\ IsFun(ctx', Ctx) /\ ctx'[c] = x /\ \A d \in Ctx : d # c => ctx'[d] = ctx[d]
  <2>1. IsFun(ctx, Ctx)
    BY <1>1, Zenon DEF Frame
  <2>2. Replaces(ctx', Ctx, ctx, c, x)
    BY <2>1, FunExcept
  <2>3. QED
    BY <2>2, Zenon DEF Replaces
<1>3. /\ IsFun(hmac', Ctx) /\ hmac'[c] = h /\ \A d \in Ctx : d # c => hmac'[d] = hmac[d]
  <2>1. IsFun(hmac, Ctx)
    BY <1>1, Zenon DEF Frame
  <2>2. Replaces(hmac', Ctx, hmac, c, h)
    BY <2>1, FunExcept
  <2>3. QED
    BY <2>2, Zenon DEF Replaces
<1>4. /\ IsFun(fed', Ctx) /\ fed'[c] = f /\ \A d \in Ctx : d # c => fed'[d] = fed[d]
  <2>1. IsFun(fed, Ctx)
    BY <1>1, Zenon DEF Frame
  <2>2. Replaces(fed', Ctx, fed, c, f)
    BY <2>1, FunExcept
  <2>3. QED
    BY <2>2, Zenon DEF Replaces
<1>5. /\ phase' \in [Ctx -> Phases] /\ phase'[c] = ph
      /\ \A d \in Ctx : d # c => phase'[d] = phase[d]
  BY <1>1 DEF Frame
<1>6. /\ keyed' \in [Ctx -> Keys \cup {<<>>}] /\ keyed'[c] = k
      /\ \A d \in Ctx : d # c => keyed'[d] = keyed[d]
  BY <1>1 DEF Frame
<1>7. Frame'
  BY <1>1, <1>2, <1>3, <1>4, <1>5, <1>6, Zenon DEF Frame
<1>8. ASSUME NEW d \in Ctx PROVE Good(ctx'[d], hmac'[d], phase'[d], keyed'[d], fed'[d])
  <2>1. CASE d = c
    BY <1>2, <1>3, <1>4, <1>5, <1>6, <2>1, Zenon
  <2>2. CASE d # c
    BY <1>1, <1>2, <1>3, <1>4, <1>5, <1>6, <2>2, Zenon DEF GoodAll
  <2>3. QED
    BY <2>1, <2>2
<1>9. GoodAll'
  BY <1>8, SameOrder, Zenon
<1>10. QED
  BY <1>7, <1>9, IInvIsNext, Zenon
-----------------------------------------------------------------------------
\* Each call leaves its context good.
LEMMA ContextShaped ==
  ASSUME NEW x \in ContextOf(InnerCell), x.datalen \in 0..BL
  PROVE  Shaped(x)
<1>1. x.data \in BlockOf(InnerCell) /\ x.bytelen \in Nat
  BY Fields
<1>2. QED
  BY <1>1 DEF Shaped, BlockOf

LEMMA AlignedShaped ==
  ASSUME NEW x \in ContextOf(InnerCell), Aligned(x)
  PROVE  Shaped(x)
<1>1. x.datalen \in Nat /\ BL \in Nat
  BY Fields
<1>2. x.datalen \in 0..BL
  BY <1>1 DEF Aligned
<1>3. QED
  BY <1>2, ContextShaped, Zenon

LEMMA PreparesGood ==
  ASSUME NEW x, NEW h, NEW k, NEW f, Prepares(x, h, k, f), NEW ph \in {"new", "open"}
  PROVE  Good(x, h, ph, k, f)
<1>1. ph # "done"
  OBVIOUS
<1>2. Shaped(x) /\ IsFun(h, 1..OuterEnd)
  BY AlignedShaped, Zenon DEF Prepares, Laid
<1>3. QED
  BY <1>1, <1>2, Zenon DEF Good

LEMMA InitPrepares ==
  ASSUME ShortCalls, LengthInOrder, swapped \in Orders,
         NEW x, Shaped(x), NEW h, IsFun(h, 1..OuterEnd), NEW k \in Keys
  PROVE  Prepares(Keyed(x, h, k).ctx, Keyed(x, h, k).hmac, k, << >>)
<1>1. x.data \in BlockOf(InnerCell)
  BY DEF Shaped, BlockOf
<1>2. k \in Seq(Byte) /\ Len(k) < NBLK * BL
  BY HmacAssumption DEF ShortCalls
<1>3. PICK r : r = Keyed(x, h, k) /\ KeyedAs(r, k)
  <2>1. KeyedAs(Keyed(x, h, k), k)
    BY <1>1, <1>2, KeyedStep, Zenon
  <2>2. QED
    BY <2>1, Zenon
<1>4. PICK y : y = r.ctx /\ y \in ContextOf(InnerCell) /\ Aligned(y)
               /\ Absorbed(y) = Ref!MaskedKey(Inner, k)
  BY <1>3, Zenon DEF KeyedAs
<1>5. Ref!MaskedKey(Inner, k) \o << >> = Ref!MaskedKey(Inner, k)
  <2>1. Absorbed(y) \in Seq(InnerCell)
    BY <1>4, AbsorbedType
  <2>2. QED
    BY <1>4, <2>1, ConcatEmptySeq
<1>6. << >> \in Seq(Byte)
  BY EmptySeq
<1>7. Prepares(r.ctx, r.hmac, k, << >>)
  BY <1>3, <1>5, <1>6, Zenon DEF KeyedAs, Prepares
<1>8. QED
  BY <1>3, <1>7, Zenon

LEMMA UpdatePrepares ==
  ASSUME ShortCalls, NEW x, NEW h, NEW k, NEW f, Prepares(x, h, k, f),
         NEW m \in Seq(Byte), Len(m) < NBLK * BL
  PROVE  Prepares(Updated(x, m), h, k, f \o m)
<1>1. m \in Seq(Byte) /\ Len(m) < NBLK * BL /\ f \in Seq(Byte)
  BY DEF Prepares
<1>2. m \in Seq(InnerCell) /\ f \in Seq(InnerCell)
  <2>1. ASSUME NEW s \in Seq(Byte) PROVE s \in Seq(InnerCell)
    <3>1. s \in [1..Len(s) -> Byte] /\ Len(s) \in Nat
      BY LenProperties
    <3>2. s \in [1..Len(s) -> InnerCell]
      BY <3>1, InnerCells
    <3>3. QED
      BY <3>1, <3>2, SeqDef
  <2>2. QED
    BY <1>1, <2>1
<1>3. PICK y : /\ y = Updated(x, m) /\ y \in ContextOf(InnerCell) /\ Aligned(y)
               /\ y.state.iv = StdIV /\ Absorbed(y) = Absorbed(x) \o m
  <2>1. x \in ContextOf(InnerCell) /\ Aligned(x) /\ x.state.iv = StdIV
    BY Zenon DEF Prepares
  <2>2. /\ Updated(x, m) \in ContextOf(InnerCell) /\ Aligned(Updated(x, m))
        /\ Updated(x, m).state.iv = x.state.iv
        /\ Absorbed(Updated(x, m)) = Absorbed(x) \o m
    BY <1>1, <1>2, <2>1, InnerCells, UpdatedStep
  <2>3. QED
    BY <2>1, <2>2, Zenon
<1>4. Absorbed(y) = Ref!MaskedKey(Inner, k) \o (f \o m)
  <2>1. PICK g : g = Ref!MaskedKey(Inner, k) /\ g \in Seq(InnerCell)
    <3>1. k \in Seq(Byte) /\ Len(k) < NBLK * BL
      BY HmacAssumption DEF ShortCalls, Prepares
    <3>2. x.data \in BlockOf(InnerCell)
      BY Fields DEF Prepares
    <3>3. Ref!HashOf(k) \in State
      BY <3>1, <3>2, KeyHashed, Zenon
    <3>4. QED
      BY <3>1, <3>3, MaskCells, Zenon
  <2>2. Absorbed(x) = g \o f
    BY <2>1, Zenon DEF Prepares
  <2>3. Associates(g, f, m)
    BY <1>2, <2>1, Assoc, Zenon
  <2>4. QED
    BY <1>3, <2>1, <2>2, <2>3, Zenon DEF Associates
<1>5. f \o m \in Seq(Byte)
  BY <1>1, ConcatProperties
<1>6. Prepares(y, h, k, f \o m)
  BY <1>3, <1>4, <1>5, Zenon DEF Prepares
<1>7. QED
  BY <1>3, <1>6, Zenon

\* HMAC(Final), as the action writes it.
FinalCtx(x, h) == [Finished(x) EXCEPT !.state = OuterHash(WithDigest(h, Finished(x).state))]
FinalHmac(x, h) == WithDigest(h, Finished(x).state)

LEMMA FinalGood ==
  ASSUME NEW x, NEW h, NEW k, NEW f, Prepares(x, h, k, f)
  PROVE  Good(FinalCtx(x, h), FinalHmac(x, h), "done", k, f)
<1>1. x \in ContextOf(InnerCell) /\ Aligned(x) /\ x.state.iv = StdIV
  BY Zenon DEF Prepares
<1>2. PICK y : /\ y = Finished(x) /\ y.state = Ref!HashOf(Absorbed(x))
               /\ y \in ContextOf(InnerCell)
  BY <1>1, InnerCells, FinishedIs, Zenon
<1>3. y.datalen \in 0..BL
  <2>1. y.datalen = x.datalen
    BY <1>2 DEF Finished, CloseMessage, ClosePartial
  <2>2. Shaped(x)
    BY <1>1, AlignedShaped
  <2>3. QED
    BY <2>1, <2>2 DEF Shaped
<1>4. PICK w : /\ w = WithDigest(h, y.state) /\ IsFun(w, 1..OuterEnd)
               /\ OuterHash(w) = Ref!HashOf(Ref!MaskedKey(Outer, k) \o Ref!DigestOf(y.state))
  BY OuterStep, Zenon DEF Prepares
<1>5. OuterHash(w) = Ref!HmacOf(k, f)
  BY <1>2, <1>4, Zenon DEF Prepares, Ref!HmacOf
<1>6. PICK z : /\ z = [y EXCEPT !.state = OuterHash(w)]
               /\ z.state = OuterHash(w) /\ z.data = y.data /\ z.bytelen = y.bytelen
               /\ z.datalen = y.datalen
  <2>1. y \in [data : BlockOf(InnerCell), bytelen : Nat, state : StateOf(InnerCell), datalen : Nat]
    BY <1>2, Zenon DEF ContextOf
  <2>2. PICK v : v = OuterHash(w)
    OBVIOUS
  <2>3. PICK g : g = [y EXCEPT !.state = v]
    OBVIOUS
  <2>4. g.state = v /\ g.data = y.data /\ g.bytelen = y.bytelen /\ g.datalen = y.datalen
    BY <2>1, <2>3
  <2>5. QED
    BY <2>2, <2>3, <2>4, Zenon
<1>7. Shaped(z)
  <2>1. Shaped(y)
    BY <1>2, <1>3, ContextShaped
  <2>2. QED
    BY <1>6, <2>1, Zenon DEF Shaped
<1>8. z = FinalCtx(x, h) /\ w = FinalHmac(x, h)
  BY <1>2, <1>4, <1>6, Zenon DEF FinalCtx, FinalHmac
<1>9. Good(z, w, "done", k, f)
  BY <1>4, <1>5, <1>6, <1>7 DEF Good
<1>10. QED
  BY <1>8, <1>9, Zenon

LEMMA CloneGood ==
  ASSUME NEW y, Shaped(y), NEW x, NEW h, NEW ph \in {"new", "open", "done"}, NEW k, NEW f,
         Good(x, h, ph, k, f)
  PROVE  Good(Cloned(y, x), h, ph, k, f)
<1>1. PICK z : z = Cloned(y, x)
  OBVIOUS
<1>2. /\ z.state = x.state /\ z.datalen = x.datalen /\ z.bytelen = x.bytelen
      /\ z.data \in {x.data, y.data}
  BY <1>1 DEF Cloned
<1>3. Shaped(z) /\ IsFun(h, 1..OuterEnd)
  BY <1>2 DEF Good, Shaped
<1>4. CASE ph = "done"
  <2>1. ph \notin {"new", "open"}
    BY <1>4
  <2>2. Good(z, h, ph, k, f)
    BY <1>2, <1>3, <1>4, <2>1, Zenon DEF Good
  <2>3. QED
    BY <1>1, <1>2, <2>2, Zenon
<1>5. CASE ph \in {"new", "open"}
  <2>1. Prepares(x, h, k, f)
    BY <1>5, Zenon DEF Good
  <2>2. PICK d : /\ d = Base(y.data) /\ d \in ContextOf(InnerCell) /\ d.data = y.data
    <3>1. y.data \in BlockOf(InnerCell)
      BY DEF Shaped, BlockOf
    <3>2. Base(y.data) \in ContextOf(InnerCell)
      BY <3>1, BaseStep
    <3>3. QED
      BY <3>2 DEF Base
  <2>3. x \in ContextOf(InnerCell) /\ Aligned(x) /\ x.state.iv = StdIV
    BY <2>1, Zenon DEF Prepares
  <2>4. Cloned(d, x) = z
    BY <1>1, <2>2 DEF Cloned
  <2>5. /\ z \in ContextOf(InnerCell) /\ Aligned(z) /\ Absorbed(z) = Absorbed(x)
    <3>1. /\ Cloned(d, x) \in ContextOf(InnerCell)
          /\ Aligned(x) => Aligned(Cloned(d, x))
          /\ Absorbed(Cloned(d, x)) = Absorbed(x)
      BY <2>2, <2>3, ClonedStep
    <3>2. QED
      BY <2>3, <2>4, <3>1, Zenon
  <2>6. Prepares(z, h, k, f)
    BY <1>2, <2>1, <2>3, <2>5, Zenon DEF Prepares
  <2>7. QED
    BY <1>1, <1>2, <1>5, <2>6, PreparesGood, Zenon
<1>6. QED
  BY <1>4, <1>5

LEMMA IdleGood ==
  ASSUME NEW v \in InnerCell, NEW s, NEW n \in {0, 1}, NEW ph \in {"raw", "cleared"},
         NEW k, NEW f, NEW w
  PROVE  Good([data |-> [i \in 1..BL |-> v], bytelen |-> 0, state |-> s, datalen |-> n],
              [i \in 1..OuterEnd |-> w], ph, k, f)
<1>1. PICK x : x = [data |-> [i \in 1..BL |-> v], bytelen |-> 0, state |-> s, datalen |-> n]
  OBVIOUS
<1>2. x.data = [i \in 1..BL |-> v] /\ x.bytelen = 0 /\ x.datalen = n
  BY <1>1
<1>3. x.data \in [1..BL -> InnerCell]
  BY <1>2
<1>4. Shaped(x)
  BY <1>2, <1>3, Sizes DEF Shaped
<1>5. PICK h : h = [i \in 1..OuterEnd |-> w]
  OBVIOUS
<1>6. IsFun(h, 1..OuterEnd)
  BY <1>5 DEF IsFun
<1>7. ph \notin {"new", "open"} /\ ph # "done"
  OBVIOUS
<1>8. Good(x, h, ph, k, f)
  BY <1>4, <1>6, <1>7, Zenon DEF Good
<1>9. QED
  BY <1>1, <1>5, <1>8, Zenon
-----------------------------------------------------------------------------
\* The inductive invariant.
LEMMA InitInv == Init => IInv
<1> SUFFICES ASSUME Init PROVE IInv
  OBVIOUS
<1>1. PICK x : x = [data |-> [i \in 1..BL |-> Junk], bytelen |-> 0, state |-> Start, datalen |-> 1]
  OBVIOUS
<1>2. PICK h : h = [i \in 1..OuterEnd |-> Junk]
  OBVIOUS
<1>3. /\ swapped \in Orders
      /\ ctx = [c \in Ctx |-> x] /\ hmac = [c \in Ctx |-> h]
      /\ phase = [c \in Ctx |-> "raw"] /\ keyed = [c \in Ctx |-> << >>]
      /\ fed = [c \in Ctx |-> << >>]
  BY <1>1, <1>2, Zenon DEF Init
<1>4. Frame
  <2>1. IsFun(ctx, Ctx) /\ IsFun(hmac, Ctx) /\ IsFun(fed, Ctx)
    BY <1>3 DEF IsFun
  <2>2. phase \in [Ctx -> Phases] /\ keyed \in [Ctx -> Keys \cup {<<>>}]
    BY <1>3 DEF Phases
  <2>3. QED
    BY <1>3, <2>1, <2>2, Zenon DEF Frame
<1>5. ASSUME NEW c \in Ctx PROVE Good(ctx[c], hmac[c], phase[c], keyed[c], fed[c])
  <2>1. ctx[c] = x /\ hmac[c] = h /\ phase[c] = "raw"
    BY <1>3
  <2>2. Junk \in InnerCell /\ 1 \in {0, 1} /\ "raw" \in {"raw", "cleared"}
    BY InnerCells
  <2>3. Good([data |-> [i \in 1..BL |-> Junk], bytelen |-> 0, state |-> Start, datalen |-> 1],
             [i \in 1..OuterEnd |-> Junk], "raw", keyed[c], fed[c])
    BY <2>2, IdleGood
  <2>4. QED
    BY <1>1, <1>2, <2>1, <2>3, Zenon
<1>6. QED
  BY <1>4, <1>5, IInvIs, Zenon DEF GoodAll

LEMMA HmacInitInv ==
  ASSUME ShortCalls, LengthInOrder, IInv, NEW c \in Ctx, NEW k \in Keys, HmacInit(c, k)
  PROVE  IInv'
<1>1. Frame /\ Good(ctx[c], hmac[c], phase[c], keyed[c], fed[c])
  BY IInvIs, Zenon DEF GoodAll
<1>2. PICK r : r = Keyed(ctx[c], hmac[c], k)
  OBVIOUS
<1>3. Prepares(r.ctx, r.hmac, k, << >>)
  <2>1. swapped \in Orders /\ Shaped(ctx[c]) /\ IsFun(hmac[c], 1..OuterEnd)
    BY <1>1, Zenon DEF Frame, Good
  <2>2. Prepares(Keyed(ctx[c], hmac[c], k).ctx, Keyed(ctx[c], hmac[c], k).hmac, k, << >>)
    BY <2>1, InitPrepares, Zenon
  <2>3. QED
    BY <1>2, <2>2, Zenon
<1>4. "new" \in {"new", "open"} /\ "new" \in Phases /\ k \in Keys \cup {<<>>}
  BY DEF Phases
<1>5. Good(r.ctx, r.hmac, "new", k, << >>)
  BY <1>3, <1>4, PreparesGood, Zenon
<1>6. /\ ctx' = [ctx EXCEPT ![c] = r.ctx] /\ hmac' = [hmac EXCEPT ![c] = r.hmac]
      /\ phase' = [phase EXCEPT ![c] = "new"] /\ keyed' = [keyed EXCEPT ![c] = k]
      /\ fed' = [fed EXCEPT ![c] = << >>] /\ swapped' = swapped
  BY <1>2, Zenon DEF HmacInit
<1>7. QED
  BY <1>4, <1>5, <1>6, Replaced

\* What a call leaves alone.
LEMMA Unchanged ==
  ASSUME IInv, NEW c \in Ctx
  PROVE  /\ [ctx EXCEPT ![c] = ctx[c]] = ctx /\ [hmac EXCEPT ![c] = hmac[c]] = hmac
         /\ [keyed EXCEPT ![c] = keyed[c]] = keyed /\ [fed EXCEPT ![c] = fed[c]] = fed
         /\ keyed[c] \in Keys \cup {<<>>}
<1>1. Frame
  BY IInvIs, Zenon
<1>2. IsFun(ctx, Ctx) /\ IsFun(hmac, Ctx) /\ IsFun(fed, Ctx)
  BY <1>1, Zenon DEF Frame
<1>3. keyed \in [Ctx -> Keys \cup {<<>>}]
  BY <1>1, Zenon DEF Frame
<1>4. [keyed EXCEPT ![c] = keyed[c]] = keyed /\ keyed[c] \in Keys \cup {<<>>}
  BY <1>3
<1>5. QED
  BY <1>2, <1>4, ExceptSame, Zenon

LEMMA HmacUpdateInv ==
  ASSUME ShortCalls, IInv, NEW c \in Ctx, NEW m \in Chunks, HmacUpdate(c, m)
  PROVE  IInv'
<1>1. Good(ctx[c], hmac[c], phase[c], keyed[c], fed[c])
  BY IInvIs, Zenon DEF GoodAll
<1>2. Prepares(ctx[c], hmac[c], keyed[c], fed[c])
  BY <1>1, Zenon DEF Good, HmacUpdate, Open
<1>3. Prepares(Updated(ctx[c], m), hmac[c], keyed[c], fed[c] \o m)
  <2>1. m \in Seq(Byte) /\ Len(m) < NBLK * BL
    BY HmacAssumption DEF ShortCalls
  <2>2. QED
    BY <1>2, <2>1, UpdatePrepares, Zenon
<1>4. "open" \in {"new", "open"} /\ "open" \in Phases
  BY DEF Phases
<1>5. Good(Updated(ctx[c], m), hmac[c], "open", keyed[c], fed[c] \o m)
  BY <1>3, <1>4, PreparesGood, Zenon
<1>6. /\ ctx' = [ctx EXCEPT ![c] = Updated(ctx[c], m)] /\ hmac' = hmac
      /\ phase' = [phase EXCEPT ![c] = "open"] /\ keyed' = keyed
      /\ fed' = [fed EXCEPT ![c] = fed[c] \o m] /\ swapped' = swapped
  BY Zenon DEF HmacUpdate
<1>7. /\ hmac' = [hmac EXCEPT ![c] = hmac[c]] /\ keyed' = [keyed EXCEPT ![c] = keyed[c]]
      /\ keyed[c] \in Keys \cup {<<>>}
  BY <1>6, Unchanged, Zenon
<1>8. QED
  BY <1>4, <1>5, <1>6, <1>7, Replaced

LEMMA HmacFinalForm ==
  ASSUME NEW c, HmacFinal(c)
  PROVE  /\ ctx' = [ctx EXCEPT ![c] = FinalCtx(ctx[c], hmac[c])]
         /\ hmac' = [hmac EXCEPT ![c] = FinalHmac(ctx[c], hmac[c])]
         /\ phase' = [phase EXCEPT ![c] = "done"]
         /\ keyed' = keyed /\ fed' = fed /\ swapped' = swapped
BY Zenon DEF HmacFinal, FinalCtx, FinalHmac

LEMMA HmacFinalInv ==
  ASSUME IInv, NEW c \in Ctx, HmacFinal(c)
  PROVE  IInv'
<1>1. Good(ctx[c], hmac[c], phase[c], keyed[c], fed[c])
  BY IInvIs, Zenon DEF GoodAll
<1>2. Prepares(ctx[c], hmac[c], keyed[c], fed[c])
  BY <1>1, Zenon DEF Good, HmacFinal, Open
<1>3. Good(FinalCtx(ctx[c], hmac[c]), FinalHmac(ctx[c], hmac[c]), "done", keyed[c], fed[c])
  BY <1>2, FinalGood, Zenon
<1>4. "done" \in Phases
  BY DEF Phases
<1>5. /\ ctx' = [ctx EXCEPT ![c] = FinalCtx(ctx[c], hmac[c])]
      /\ hmac' = [hmac EXCEPT ![c] = FinalHmac(ctx[c], hmac[c])]
      /\ phase' = [phase EXCEPT ![c] = "done"]
      /\ keyed' = keyed /\ fed' = fed /\ swapped' = swapped
  BY HmacFinalForm, Zenon
<1>6. /\ keyed' = [keyed EXCEPT ![c] = keyed[c]] /\ fed' = [fed EXCEPT ![c] = fed[c]]
      /\ keyed[c] \in Keys \cup {<<>>}
  BY <1>5, Unchanged, Zenon
<1>7. QED
  BY <1>3, <1>4, <1>5, <1>6, Replaced

LEMMA HmacCloneInv ==
  ASSUME IInv, NEW dst \in Ctx, NEW src \in Ctx, HmacClone(dst, src)
  PROVE  IInv'
<1>1. /\ Good(ctx[src], hmac[src], phase[src], keyed[src], fed[src])
      /\ Good(ctx[dst], hmac[dst], phase[dst], keyed[dst], fed[dst])
  BY IInvIs, Zenon DEF GoodAll
<1>2. phase[src] \in {"new", "open", "done"}
  BY Zenon DEF HmacClone
<1>3. Good(Cloned(ctx[dst], ctx[src]), hmac[src], phase[src], keyed[src], fed[src])
  <2>1. Shaped(ctx[dst])
    BY <1>1, Zenon DEF Good
  <2>2. QED
    BY <1>1, <1>2, <2>1, CloneGood, Zenon
<1>4. phase[src] \in Phases
  BY <1>2 DEF Phases
<1>5. keyed[src] \in Keys \cup {<<>>}
  BY Unchanged, Zenon
<1>6. /\ ctx' = [ctx EXCEPT ![dst] = Cloned(ctx[dst], ctx[src])]
      /\ hmac' = [hmac EXCEPT ![dst] = hmac[src]]
      /\ phase' = [phase EXCEPT ![dst] = phase[src]]
      /\ keyed' = [keyed EXCEPT ![dst] = keyed[src]]
      /\ fed' = [fed EXCEPT ![dst] = fed[src]] /\ swapped' = swapped
  BY Zenon DEF HmacClone
<1>7. QED
  BY <1>3, <1>4, <1>5, <1>6, Replaced

LEMMA HmacClearInv ==
  ASSUME IInv, NEW c \in Ctx, HmacClear(c)
  PROVE  IInv'
<1>1. PICK x : x = [data |-> [i \in 1..BL |-> Zero], bytelen |-> 0,
                    state |-> [iv |-> Zero, in |-> <<>>], datalen |-> 0]
  OBVIOUS
<1>2. PICK h : h = [i \in 1..OuterEnd |-> Zero]
  OBVIOUS
<1>3. Good(x, h, "cleared", keyed[c], fed[c])
  <2>1. Zero \in InnerCell /\ 0 \in {0, 1} /\ "cleared" \in {"raw", "cleared"}
    BY InnerCells
  <2>2. Good([data |-> [i \in 1..BL |-> Zero], bytelen |-> 0,
              state |-> [iv |-> Zero, in |-> <<>>], datalen |-> 0],
             [i \in 1..OuterEnd |-> Zero], "cleared", keyed[c], fed[c])
    BY <2>1, IdleGood
  <2>3. QED
    BY <1>1, <1>2, <2>2, Zenon
<1>4. "cleared" \in Phases
  BY DEF Phases
<1>5. /\ ctx' = [ctx EXCEPT ![c] = x] /\ hmac' = [hmac EXCEPT ![c] = h]
      /\ phase' = [phase EXCEPT ![c] = "cleared"]
      /\ keyed' = keyed /\ fed' = fed /\ swapped' = swapped
  BY <1>1, <1>2, Zenon DEF HmacClear
<1>6. /\ keyed' = [keyed EXCEPT ![c] = keyed[c]] /\ fed' = [fed EXCEPT ![c] = fed[c]]
      /\ keyed[c] \in Keys \cup {<<>>}
  BY <1>5, Unchanged, Zenon
<1>7. QED
  BY <1>3, <1>4, <1>5, <1>6, Replaced

LEMMA StutterInv ==
  ASSUME IInv, UNCHANGED vars
  PROVE  IInv'
<1>1. /\ swapped' = swapped /\ ctx' = ctx /\ hmac' = hmac
      /\ phase' = phase /\ keyed' = keyed /\ fed' = fed
  BY DEF vars
<1>2. Frame /\ GoodAll
  BY IInvIs, Zenon
<1>3. Frame'
  BY <1>1, <1>2, Zenon DEF Frame
<1>4. \A c \in Ctx : Good(ctx'[c], hmac'[c], phase'[c], keyed'[c], fed'[c])
  BY <1>1, <1>2, Zenon DEF GoodAll
<1>5. QED
  BY <1>1, <1>3, <1>4, SameOrder, IInvIsNext, Zenon

LEMMA NextInv ==
  ASSUME ShortCalls, LengthInOrder
  PROVE  IInv /\ [Next]_vars => IInv'
<1> SUFFICES ASSUME IInv, [Next]_vars PROVE IInv'
  OBVIOUS
<1>1. ASSUME NEW c \in Ctx, NEW k \in Keys, HmacInit(c, k) PROVE IInv'
  BY <1>1, HmacInitInv, Zenon
<1>2. ASSUME NEW c \in Ctx, NEW m \in Chunks, HmacUpdate(c, m) PROVE IInv'
  BY <1>2, HmacUpdateInv, Zenon
<1>3. ASSUME NEW c \in Ctx, HmacFinal(c) PROVE IInv'
  BY <1>3, HmacFinalInv, Zenon
<1>4. ASSUME NEW c \in Ctx, NEW src \in Ctx, HmacClone(c, src) PROVE IInv'
  BY <1>4, HmacCloneInv, Zenon
<1>5. ASSUME NEW c \in Ctx, HmacClear(c) PROVE IInv'
  BY <1>5, HmacClearInv, Zenon
<1>6. ASSUME UNCHANGED vars PROVE IInv'
  BY <1>6, StutterInv, Zenon
<1>7. QED
  BY <1>1, <1>2, <1>3, <1>4, <1>5, <1>6, Zenon DEF Next
\* What Update, Final and Clone rely on holds after any calls before them: the
\* masked key absorbed, whole blocks counted, and the outer blocks laid out where
\* Final reads them, in either byte order.
THEOREM HmacInvariant ==
  ASSUME ShortCalls, LengthInOrder PROVE Spec => []IInv
BY InitInv, NextInv, PTL DEF Spec

\* Whatever calls are made in whatever order, the structures keep their shape.
THEOREM HmacTypeCorrect ==
  ASSUME ShortCalls, LengthInOrder PROVE Spec => []TypeOK
<1>1. IInv => TypeOK
  <2> SUFFICES ASSUME IInv PROVE TypeOK
    OBVIOUS
  <2>1. swapped \in BOOLEAN
    BY HmacAssumption DEF IInv
  <2>2. ASSUME NEW c \in Ctx
        PROVE  /\ DOMAIN ctx[c].data = 1..BL
               /\ ctx[c].bytelen \in Nat /\ ctx[c].datalen \in 0..BL
               /\ DOMAIN hmac[c] = 1..OuterEnd
    <3>1. Shaped(ctx[c]) /\ IsFun(hmac[c], 1..OuterEnd)
      BY Zenon DEF IInv
    <3>2. DOMAIN hmac[c] = 1..OuterEnd
      BY <3>1, OuterSizes, FunLen, Zenon
    <3>3. QED
      BY <3>1, <3>2 DEF Shaped
  <2>3. QED
    BY <2>1, <2>2, Zenon DEF IInv, TypeOK
<1>2. QED
  BY <1>1, InitInv, NextInv, PTL DEF Spec

\* Key material laid out once by Init stays good for every later Update, Final
\* and Clone: Semifinal and Outer find the padding where Init put it.
THEOREM PreparedHolds ==
  ASSUME ShortCalls, LengthInOrder PROVE Spec => []Prepared
<1>1. IInv => Prepared
  BY Zenon DEF IInv, Prepared
<1>2. QED
  BY <1>1, InitInv, NextInv, PTL DEF Spec

\* A finished context, or a clone of one, holds the HMAC of its key and of what
\* was fed to it.
THEOREM FinalExact ==
  ASSUME ShortCalls, LengthInOrder PROVE Spec => []FinalIsHmac
<1>1. IInv => FinalIsHmac
  <2> SUFFICES ASSUME IInv, NEW c \in Ctx, phase[c] = "done"
               PROVE  Mac[c] = Ref!HmacOf(keyed[c], fed[c])
    BY DEF FinalIsHmac
  <2>1. Mac[c] = ctx[c].state
    BY DEF Mac
  <2>2. ctx[c].state = Ref!HmacOf(keyed[c], fed[c])
    BY Zenon DEF IInv
  <2>3. QED
    BY <2>1, <2>2, Zenon
<1>2. QED
  BY <1>1, InitInv, NextInv, PTL DEF Spec

-----------------------------------------------------------------------------
\* Every step of the code is one of the contract.
LEMMA MacFun == IsFun(Mac, Ctx) /\ \A c \in Ctx : Mac[c] = IF phase[c] = "done" THEN ctx[c].state
                                                         ELSE NoDigest
BY DEF IsFun, Mac

\* The HMAC a call leaves in its context, and in no other.
LEMMA MacReplaced ==
  ASSUME IInv, NEW c \in Ctx, NEW x, NEW ph, NEW v,
         ctx' = [ctx EXCEPT ![c] = x], phase' = [phase EXCEPT ![c] = ph],
         v = IF ph = "done" THEN x.state ELSE NoDigest
  PROVE  Mac' = [Mac EXCEPT ![c] = v]
<1>1. Frame
  BY IInvIs, Zenon
<1>2. Replaces(ctx', Ctx, ctx, c, x)
  <2>1. IsFun(ctx, Ctx)
    BY <1>1, Zenon DEF Frame
  <2>2. QED
    BY <2>1, FunExcept
<1>3. phase'[c] = ph /\ \A d \in Ctx : d # c => phase'[d] = phase[d]
  BY <1>1 DEF Frame
<1>4. PICK n : n = Mac'
  OBVIOUS
<1>5. n = [d \in Ctx |-> IF phase'[d] = "done" THEN ctx'[d].state ELSE NoDigest]
  BY <1>4, Zenon DEF Mac
<1>6. \A d \in Ctx : n[d] = IF phase'[d] = "done" THEN ctx'[d].state ELSE NoDigest
  BY <1>5
<1>7. IsFun(n, Ctx)
  BY <1>5 DEF IsFun
<1>8. PICK g : g = [Mac EXCEPT ![c] = v]
  OBVIOUS
<1>9. Replaces(g, Ctx, Mac, c, v)
  <2>1. PICK f : f = Mac /\ IsFun(f, Ctx)
    BY MacFun
  <2>2. g = [f EXCEPT ![c] = v]
    BY <1>8, <2>1, Zenon
  <2>3. Replaces(g, Ctx, f, c, v)
    BY <2>1, <2>2, FunExcept
  <2>4. QED
    BY <2>1, <2>3, Zenon
<1>10. ASSUME NEW d \in Ctx PROVE n[d] = g[d]
  <2>1. CASE d = c
    BY <1>2, <1>3, <1>6, <1>9, <2>1, Zenon DEF Replaces
  <2>2. CASE d # c
    <3>1. ctx'[d] = ctx[d] /\ phase'[d] = phase[d] /\ g[d] = Mac[d]
      BY <1>2, <1>3, <1>9, <2>2, Zenon DEF Replaces
    <3>2. Mac[d] = IF phase[d] = "done" THEN ctx[d].state ELSE NoDigest
      BY MacFun, Zenon
    <3>3. n[d] = IF phase[d] = "done" THEN ctx[d].state ELSE NoDigest
      BY <1>6, <3>1, Zenon
    <3>4. QED
      BY <3>1, <3>2, <3>3, Zenon
  <2>3. QED
    BY <2>1, <2>2
<1>11. IsFun(g, Ctx) /\ Agree(Ctx, n, g)
  BY <1>9, <1>10, Zenon DEF Replaces, Agree
<1>12. n = g
  BY <1>7, <1>11, FunEqual, Zenon
<1>13. QED
  BY <1>4, <1>8, <1>12, Zenon

LEMMA InitMaps == Init => Ref!AbsInit
<1> SUFFICES ASSUME Init PROVE Ref!AbsInit
  OBVIOUS
<1>1. \A c \in Ctx : phase[c] # "done"
  BY DEF Init
<1>2. Mac = [c \in Ctx |-> NoDigest]
  BY <1>1 DEF Mac
<1>3. phase = [c \in Ctx |-> "raw"] /\ keyed = [c \in Ctx |-> << >>] /\ fed = [c \in Ctx |-> << >>]
  BY DEF Init
<1>4. QED
  BY <1>2, <1>3, Zenon DEF Ref!AbsInit

LEMMA InitStarts ==
  ASSUME IInv, NEW c \in Ctx, NEW k \in Keys, HmacInit(c, k)
  PROVE  Ref!Start(c, k)
<1>1. PICK r : r = Keyed(ctx[c], hmac[c], k)
  OBVIOUS
<1>2. ctx' = [ctx EXCEPT ![c] = r.ctx] /\ phase' = [phase EXCEPT ![c] = "new"]
  BY <1>1, Zenon DEF HmacInit
<1>3. NoDigest = IF "new" = "done" THEN r.ctx.state ELSE NoDigest
  OBVIOUS
<1>4. Mac' = [Mac EXCEPT ![c] = NoDigest]
  BY <1>2, <1>3, MacReplaced
<1>5. QED
  BY <1>4, Zenon DEF HmacInit, Ref!Start

LEMMA UpdateFeeds ==
  ASSUME IInv, NEW c \in Ctx, NEW m \in Chunks, HmacUpdate(c, m)
  PROVE  Ref!Feed(c, m)
<1>1. phase[c] \in {"new", "open"}
  BY Zenon DEF HmacUpdate, Open
<1>2. /\ ctx' = [ctx EXCEPT ![c] = Updated(ctx[c], m)]
      /\ phase' = [phase EXCEPT ![c] = "open"]
      /\ fed' = [fed EXCEPT ![c] = fed[c] \o m] /\ keyed' = keyed
  BY Zenon DEF HmacUpdate
<1>3. PICK x : x = Updated(ctx[c], m)
  OBVIOUS
<1>4. NoDigest = IF "open" = "done" THEN x.state ELSE NoDigest
  OBVIOUS
<1>5. Mac' = [Mac EXCEPT ![c] = NoDigest]
  BY <1>2, <1>3, <1>4, MacReplaced
<1>6. Mac[c] = NoDigest
  <2>1. phase[c] # "done"
    BY <1>1
  <2>2. QED
    BY <2>1, MacFun, Zenon
<1>7. Mac' = Mac
  <2>1. PICK f : f = Mac /\ IsFun(f, Ctx) /\ f[c] = NoDigest
    BY <1>6, MacFun
  <2>2. [f EXCEPT ![c] = f[c]] = f
    BY <2>1, ExceptSame, Zenon
  <2>3. QED
    BY <1>5, <2>1, <2>2, Zenon
<1>8. QED
  BY <1>1, <1>2, <1>7, Zenon DEF Ref!Feed, Ref!Open

LEMMA FinalFinishes ==
  ASSUME IInv, NEW c \in Ctx, HmacFinal(c)
  PROVE  Ref!Finish(c)
<1>1. phase[c] \in {"new", "open"}
  BY Zenon DEF HmacFinal, Open
<1>2. /\ ctx' = [ctx EXCEPT ![c] = FinalCtx(ctx[c], hmac[c])]
      /\ phase' = [phase EXCEPT ![c] = "done"]
      /\ keyed' = keyed /\ fed' = fed
  BY HmacFinalForm, Zenon
<1>3. PICK x : x = FinalCtx(ctx[c], hmac[c]) /\ x.state = Ref!HmacOf(keyed[c], fed[c])
  <2>1. Good(ctx[c], hmac[c], phase[c], keyed[c], fed[c])
    BY IInvIs, Zenon DEF GoodAll
  <2>2. Prepares(ctx[c], hmac[c], keyed[c], fed[c])
    BY <1>1, <2>1, Zenon DEF Good
  <2>3. Good(FinalCtx(ctx[c], hmac[c]), FinalHmac(ctx[c], hmac[c]), "done", keyed[c], fed[c])
    BY <2>2, FinalGood, Zenon
  <2>4. QED
    BY <2>3, Zenon DEF Good
<1>4. PICK v, p : v = x.state /\ p = "done" /\ v = IF p = "done" THEN x.state ELSE NoDigest
  OBVIOUS
<1>5. Mac' = [Mac EXCEPT ![c] = v]
  <2>1. ctx' = [ctx EXCEPT ![c] = x] /\ phase' = [phase EXCEPT ![c] = p]
    BY <1>2, <1>3, <1>4, Zenon
  <2>2. QED
    BY <1>4, <2>1, MacReplaced
<1>6. QED
  BY <1>1, <1>2, <1>3, <1>4, <1>5, Zenon DEF Ref!Finish, Ref!Open

LEMMA CloneDuplicates ==
  ASSUME IInv, NEW dst \in Ctx, NEW src \in Ctx, HmacClone(dst, src)
  PROVE  Ref!Duplicate(dst, src)
<1>1. /\ ctx' = [ctx EXCEPT ![dst] = Cloned(ctx[dst], ctx[src])]
      /\ phase' = [phase EXCEPT ![dst] = phase[src]]
      /\ keyed' = [keyed EXCEPT ![dst] = keyed[src]]
      /\ fed' = [fed EXCEPT ![dst] = fed[src]]
  BY Zenon DEF HmacClone
<1>2. PICK x : x = Cloned(ctx[dst], ctx[src]) /\ x.state = ctx[src].state
  <2>1. PICK x, y, z : x = Cloned(y, z) /\ y = ctx[dst] /\ z = ctx[src]
    OBVIOUS
  <2>2. x.state = z.state
    BY <2>1 DEF Cloned
  <2>3. QED
    BY <2>1, <2>2, Zenon
<1>3. PICK v : v = Mac[src] /\ v = IF phase[src] = "done" THEN x.state ELSE NoDigest
  BY <1>2, MacFun, Zenon
<1>4. Mac' = [Mac EXCEPT ![dst] = v]
  <2>1. ctx' = [ctx EXCEPT ![dst] = x]
    BY <1>1, <1>2, Zenon
  <2>2. PICK p : p = phase[src] /\ v = IF p = "done" THEN x.state ELSE NoDigest
    BY <1>3
  <2>3. phase' = [phase EXCEPT ![dst] = p]
    BY <1>1, <2>2, Zenon
  <2>4. QED
    BY <2>1, <2>2, <2>3, MacReplaced
<1>5. QED
  BY <1>1, <1>3, <1>4, Zenon DEF Ref!Duplicate

LEMMA ClearForgets ==
  ASSUME IInv, NEW c \in Ctx, HmacClear(c)
  PROVE  Ref!Forget(c)
<1>1. PICK x : x = [data |-> [i \in 1..BL |-> Zero], bytelen |-> 0,
                    state |-> [iv |-> Zero, in |-> <<>>], datalen |-> 0]
  OBVIOUS
<1>2. /\ ctx' = [ctx EXCEPT ![c] = x] /\ phase' = [phase EXCEPT ![c] = "cleared"]
      /\ keyed' = keyed /\ fed' = fed
  BY <1>1, Zenon DEF HmacClear
<1>3. NoDigest = IF "cleared" = "done" THEN x.state ELSE NoDigest
  OBVIOUS
<1>4. Mac' = [Mac EXCEPT ![c] = NoDigest]
  BY <1>2, <1>3, MacReplaced
<1>5. QED
  BY <1>2, <1>4, Zenon DEF Ref!Forget

LEMMA NextMaps == IInv /\ [Next]_vars => [Ref!AbsNext]_(Ref!absVars)
<1> SUFFICES ASSUME IInv, [Next]_vars PROVE [Ref!AbsNext]_(Ref!absVars)
  OBVIOUS
<1>1. ASSUME NEW c \in Ctx, NEW k \in Keys, HmacInit(c, k) PROVE Ref!AbsNext
  BY <1>1, InitStarts, Zenon DEF Ref!AbsNext
<1>2. ASSUME NEW c \in Ctx, NEW m \in Chunks, HmacUpdate(c, m) PROVE Ref!AbsNext
  BY <1>2, UpdateFeeds, Zenon DEF Ref!AbsNext
<1>3. ASSUME NEW c \in Ctx, HmacFinal(c) PROVE Ref!AbsNext
  BY <1>3, FinalFinishes, Zenon DEF Ref!AbsNext
<1>4. ASSUME NEW c \in Ctx, NEW src \in Ctx, HmacClone(c, src) PROVE Ref!AbsNext
  BY <1>4, CloneDuplicates, Zenon DEF Ref!AbsNext
<1>5. ASSUME NEW c \in Ctx, HmacClear(c) PROVE Ref!AbsNext
  BY <1>5, ClearForgets, Zenon DEF Ref!AbsNext
<1>6. ASSUME UNCHANGED vars PROVE UNCHANGED Ref!absVars
  BY <1>6 DEF vars, Mac, Ref!absVars
<1>7. QED
  BY <1>1, <1>2, <1>3, <1>4, <1>5, <1>6, Zenon DEF Next

\* Whatever the keys, the calls, the old bytes in the structures and the byte
\* order of the machine, Final leaves the HMAC of the bytes fed to the context:
\* every behaviour of the code's calls is one of the contract.
THEOREM HmacRefinement ==
  ASSUME ShortCalls, LengthInOrder PROVE Spec => ImplementsHmac
BY InitMaps, InitInv, NextInv, NextMaps, PTL DEF Spec, ImplementsHmac, Ref!AbsSpec
=============================================================================
