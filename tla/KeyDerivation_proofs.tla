----------------------- MODULE KeyDerivation_proofs -----------------------
(***************************************************************************)
(* Proofs about KeyDerivation, for every block length, word size, digest   *)
(* length, number of iterations, and range.                                *)
(***************************************************************************)
EXTENDS KeyDerivation, Hmac_proofs, WellFoundedInduction

\* A set that has 0, and the successor of each number it has, has all numbers.
LEMMA AllNumbers ==
  ASSUME NEW G, 0 \in G, \A i \in Nat : i \in G => i + 1 \in G
  PROVE  \A i \in Nat : i \in G
<1> DEFINE T == {i \in Nat : i \notin G}
           R == OpToRel(<, Nat)
<1> SUFFICES ASSUME T # {} PROVE FALSE
  OBVIOUS
<1>1. PICK j \in T : \A k \in T : ~(<<k, j>> \in R)
  <2>1. IsWellFoundedOn(R, Nat)
    BY NatLessThanWellFounded, Zenon
  <2>2. T \subseteq Nat
    OBVIOUS
  <2> HIDE DEF T, R
  <2>3. QED
    BY <2>1, <2>2, WFMin
<1>2. j \in Nat /\ j # 0 /\ j - 1 \in Nat /\ (j - 1) + 1 = j /\ j - 1 < j
  OBVIOUS
<1>3. j - 1 \in G
  <2>1. <<j - 1, j>> \in R
    BY <1>2, Zenon DEF OpToRel
  <2>2. QED
    BY <1>1, <1>2, <2>1
<1>4. QED
  BY <1>2, <1>3

\* The recursive definitions have the values they state, for any number of
\* iterations: a function for one more is the one so far, and its next value.
ChainStep(a, n, f, j) ==
  Ref!HmacOf(a.pass, IF j = 1 THEN a.salt \o STOR32BE(n) ELSE Ref!DigestOf(f[j - 1]))

LEMMA ChainIs ==
  ASSUME NEW a, a.c \in Nat, NEW n
  PROVE  Chain(a, n) = [j \in 1..a.c |-> ChainStep(a, n, Chain(a, n), j)]
<1> DEFINE Upto(f, i) == f = [j \in 1..i |-> ChainStep(a, n, f, j)]
           G == {i \in Nat : \E f : Upto(f, i)}
<1>1. 0 \in G
  <2>1. Upto([j \in 1..0 |-> ChainStep(a, n, <<>>, j)], 0)
    OBVIOUS
  <2>2. QED
    BY <2>1
<1>2. ASSUME NEW i \in Nat, i \in G PROVE i + 1 \in G
  <2>1. PICK f : Upto(f, i)
    BY <1>2
  <2>2. PICK g : g = [j \in 1..(i + 1) |-> IF j <= i THEN f[j] ELSE ChainStep(a, n, f, j)]
    OBVIOUS
  <2>3. ASSUME NEW j \in 1..(i + 1) PROVE g[j] = ChainStep(a, n, g, j)
    <3>1. j # 1 => j - 1 \in 1..(i + 1) /\ j - 1 <= i
      OBVIOUS
    <3>2. j # 1 => g[j - 1] = f[j - 1]
      BY <2>2, <3>1
    <3>3. ChainStep(a, n, g, j) = ChainStep(a, n, f, j)
      BY <3>2, Zenon DEF ChainStep
    <3>4. j <= i => f[j] = ChainStep(a, n, f, j)
      BY <2>1
    <3>5. QED
      BY <2>2, <3>3, <3>4
  <2>4. Upto(g, i + 1)
    BY <2>2, <2>3
  <2>5. QED
    BY <2>4
<1> HIDE DEF G
<1>3. a.c \in G
  BY <1>1, <1>2, AllNumbers
<1>4. \E f : Upto(f, a.c)
  BY <1>3 DEF G
<1>5. Chain(a, n) = CHOOSE f : Upto(f, a.c)
  BY DEF Chain, ChainStep
<1>6. QED
  BY <1>4, <1>5, Zenon
SumsStep(a, n, f, j) ==
  IF j = 1 THEN {Chain(a, n)[1]} ELSE Xor(f[j - 1], {Chain(a, n)[j]})

LEMMA SumsAre ==
  ASSUME NEW a, a.c \in Nat, NEW n
  PROVE  Sums(a, n) = [j \in 1..a.c |-> SumsStep(a, n, Sums(a, n), j)]
<1> DEFINE Upto(f, i) == f = [j \in 1..i |-> SumsStep(a, n, f, j)]
           G == {i \in Nat : \E f : Upto(f, i)}
<1>1. 0 \in G
  <2>1. Upto([j \in 1..0 |-> SumsStep(a, n, <<>>, j)], 0)
    OBVIOUS
  <2>2. QED
    BY <2>1
<1>2. ASSUME NEW i \in Nat, i \in G PROVE i + 1 \in G
  <2>1. PICK f : Upto(f, i)
    BY <1>2
  <2>2. PICK g : g = [j \in 1..(i + 1) |-> IF j <= i THEN f[j] ELSE SumsStep(a, n, f, j)]
    OBVIOUS
  <2>3. ASSUME NEW j \in 1..(i + 1) PROVE g[j] = SumsStep(a, n, g, j)
    <3>1. j # 1 => j - 1 \in 1..(i + 1) /\ j - 1 <= i
      OBVIOUS
    <3>2. j # 1 => g[j - 1] = f[j - 1]
      BY <2>2, <3>1
    <3>3. SumsStep(a, n, g, j) = SumsStep(a, n, f, j)
      BY <3>2, Zenon DEF SumsStep
    <3>4. j <= i => f[j] = SumsStep(a, n, f, j)
      BY <2>1
    <3>5. QED
      BY <2>2, <3>3, <3>4
  <2>4. Upto(g, i + 1)
    BY <2>2, <2>3
  <2>5. QED
    BY <2>4
<1> HIDE DEF G
<1>3. a.c \in G
  BY <1>1, <1>2, AllNumbers
<1>4. \E f : Upto(f, a.c)
  BY <1>3 DEF G
<1>5. Sums(a, n) = CHOOSE f : Upto(f, a.c)
  BY DEF Sums, SumsStep
<1>6. QED
  BY <1>4, <1>5, Zenon
FirstRound(U) == [U |-> U, T |-> {U}, itail |-> itail, outer |-> hmac["ictx"]]
RoundsStep(U, f, j) == IF j = 1 THEN FirstRound(U) ELSE Iterate(f[j - 1])

LEMMA RoundsAre ==
  ASSUME call.c \in Nat, NEW U
  PROVE  Rounds(U) = [j \in 1..call.c |-> RoundsStep(U, Rounds(U), j)]
<1> DEFINE Upto(f, i) == f = [j \in 1..i |-> RoundsStep(U, f, j)]
           G == {i \in Nat : \E f : Upto(f, i)}
<1>1. 0 \in G
  <2>1. Upto([j \in 1..0 |-> RoundsStep(U, <<>>, j)], 0)
    OBVIOUS
  <2>2. QED
    BY <2>1
<1>2. ASSUME NEW i \in Nat, i \in G PROVE i + 1 \in G
  <2>1. PICK f : Upto(f, i)
    BY <1>2
  <2>2. PICK g : g = [j \in 1..(i + 1) |-> IF j <= i THEN f[j] ELSE RoundsStep(U, f, j)]
    OBVIOUS
  <2>3. ASSUME NEW j \in 1..(i + 1) PROVE g[j] = RoundsStep(U, g, j)
    <3>1. j # 1 => j - 1 \in 1..(i + 1) /\ j - 1 <= i
      OBVIOUS
    <3>2. j # 1 => g[j - 1] = f[j - 1]
      BY <2>2, <3>1
    <3>3. RoundsStep(U, g, j) = RoundsStep(U, f, j)
      BY <3>2, Zenon DEF RoundsStep
    <3>4. j <= i => f[j] = RoundsStep(U, f, j)
      BY <2>1
    <3>5. QED
      BY <2>2, <3>3, <3>4
  <2>4. Upto(g, i + 1)
    BY <2>2, <2>3
  <2>5. QED
    BY <2>4
<1> HIDE DEF G
<1>3. call.c \in G
  BY <1>1, <1>2, AllNumbers
<1>4. \E f : Upto(f, call.c)
  BY <1>3 DEF G
<1>5. Rounds(U) = CHOOSE f : Upto(f, call.c)
  BY DEF Rounds, FirstRound, RoundsStep
<1>6. QED
  BY <1>4, <1>5, Zenon
-----------------------------------------------------------------------------
\* The padding behind the first k cells of the b blocks e, for a message of n.
Closing(k) == IF k < BL - RES THEN 1 ELSE 2

Pads(e, k, b, n) ==
  \A i \in (k + 1)..(b * BL) :
    e[i] = IF i = k + 1 THEN Pad80
           ELSE IF i <= b * BL - LW THEN Zero
           ELSE LengthCell(n, i - (b * BL - LW))

LEMMA ClosingFits ==
  ASSUME NEW a \in Nat, NEW k \in Nat, k < BL
  PROVE  /\ Closing(k) \in Nat /\ Closing(k) < NBLK
         /\ Closing(k) * BL \in Nat /\ Closing(k) * BL <= 2 * BL
         /\ a * BL \in Nat /\ 2 * BL \in Nat
         /\ (a + Closing(k)) * BL = a * BL + Closing(k) * BL
         /\ Fits(a * BL + k, a + Closing(k))
<1>1. BL \in Nat /\ BL > 0 /\ RES \in Nat /\ RES < BL /\ NBLK \in Nat /\ NBLK > 3
  BY Sizes
<1>2. a * BL \in Nat /\ (a + 1) * BL = a * BL + BL /\ (a + 2) * BL = a * BL + 2 * BL
  BY <1>1
<1>3. CASE k < BL - RES
  <2>1. Closing(k) = 1
    BY <1>3 DEF Closing
  <2>2. Fits(a * BL + k, a + 1)
    <3>1. ((a + 1) - 1) * BL = a * BL
      BY <1>1
    <3>2. QED
      BY <1>1, <1>2, <1>3, <3>1 DEF Fits
  <2>3. QED
    BY <1>1, <1>2, <2>1, <2>2
<1>4. CASE ~(k < BL - RES)
  <2>1. Closing(k) = 2
    BY <1>4 DEF Closing
  <2>2. Fits(a * BL + k, a + 2)
    <3>1. ((a + 2) - 1) * BL = a * BL + BL
      BY <1>1
    <3>2. QED
      BY <1>1, <1>2, <1>4, <3>1 DEF Fits
  <2>3. QED
    BY <1>1, <1>2, <2>1, <2>2
<1>5. QED
  BY <1>3, <1>4

\* The places of a message's padding, counted from the last block or blocks.
Places(l, t, k, i) ==
  /\ i <= l => i <= l + k /\ i \in 1..l
  /\ ~(i <= l) => /\ i - l \in 1..t /\ l + (i - l) = i
                  /\ i <= l + k <=> i - l <= k
                  /\ i - l <= k => i - l \in 1..k
                  /\ ~(i - l <= k) => i - l \in (k + 1)..t
                  /\ i = l + k + 1 <=> i - l = k + 1
                  /\ i <= (l + t) - LW <=> i - l <= t - LW
                  /\ i - ((l + t) - LW) = i - l - (t - LW)

LEMMA ClosingPlaces ==
  ASSUME NEW l \in Nat, NEW t \in Nat, NEW k \in Nat, NEW i \in 1..(l + t)
  PROVE  Places(l, t, k, i)
BY Sizes DEF Places

\* A chaining state that has absorbed whole blocks of a message, and then its last
\* bytes with the padding: the hash of the message.
LEMMA ClosingTail ==
  ASSUME NEW a \in Nat, NEW p, IsFun(p, 1..(a * BL)), NEW k \in Nat, k < BL,
         NEW e, IsFun(e, 1..(2 * BL)), NEW n, n = a * BL + k,
         NEW m, IsFun(m, 1..n), Agree(1..(a * BL), m, p),
         \A i \in 1..k : e[i] = m[a * BL + i],
         Pads(e, k, Closing(k), n)
  PROVE  Transform([iv |-> StdIV, in |-> p], e, Closing(k)) = Ref!HashOf(m)
<1>1. PICK b, l, t : b = Closing(k) /\ l = a * BL /\ t = b * BL
  OBVIOUS
<1>2. /\ b \in Nat /\ b < NBLK /\ t \in Nat /\ t <= 2 * BL /\ l \in Nat /\ 2 * BL \in Nat
      /\ (a + b) * BL = l + t /\ Fits(n, a + b) /\ n = l + k /\ n \in Nat
  <2>1. /\ Closing(k) \in Nat /\ Closing(k) < NBLK
        /\ Closing(k) * BL \in Nat /\ Closing(k) * BL <= 2 * BL
        /\ a * BL \in Nat /\ 2 * BL \in Nat
        /\ (a + Closing(k)) * BL = a * BL + Closing(k) * BL
        /\ Fits(a * BL + k, a + Closing(k))
    BY ClosingFits
  <2>2. a * BL + k \in Nat
    BY <2>1
  <2>3. QED
    BY <1>1, <2>1, <2>2, Zenon
<1>3. PICK s : s = SubSeq(e, 1, t) /\ Prefix(s, t, e)
  BY <1>2, PrefixFun, Zenon
<1>4. PICK q : q = p \o s /\ Joined(q, l, p, t, s)
  <2>1. IsFun(p, 1..l) /\ IsFun(s, 1..t)
    BY <1>1, <1>3, Zenon DEF Prefix
  <2>2. QED
    BY <1>2, <2>1, JoinFun, Zenon
<1>5. ASSUME NEW i \in 1..(l + t)
      PROVE  q[i] = IF i <= n THEN m[i]
                    ELSE IF i = n + 1 THEN Pad80
                    ELSE IF i <= (l + t) - LW THEN Zero
                    ELSE LengthCell(n, i - ((l + t) - LW))
  <2>0. Places(l, t, k, i)
    BY <1>2, ClosingPlaces
  <2>1. q[i] = IF i <= l THEN p[i] ELSE s[i - l]
    BY <1>4, Zenon DEF Joined
  <2>2. CASE i <= l
    <3>1. i \in 1..l /\ i <= n
      BY <1>2, <2>0, <2>2, Zenon DEF Places
    <3>2. m[i] = p[i]
      BY <1>1, <3>1, Zenon DEF Agree
    <3>3. QED
      BY <2>1, <2>2, <3>1, <3>2, Zenon
  <2>3. CASE ~(i <= l)
    <3>0. /\ i - l \in 1..t /\ l + (i - l) = i
          /\ i <= l + k <=> i - l <= k
          /\ i - l <= k => i - l \in 1..k
          /\ ~(i - l <= k) => i - l \in (k + 1)..t
          /\ i = l + k + 1 <=> i - l = k + 1
          /\ i <= (l + t) - LW <=> i - l <= t - LW
          /\ i - ((l + t) - LW) = i - l - (t - LW)
      BY <2>0, <2>3, Zenon DEF Places
    <3>1. PICK j : j = i - l /\ j \in 1..t /\ l + j = i
      BY <3>0, Zenon
    <3>2. /\ i <= n <=> j <= k
          /\ j <= k => j \in 1..k
          /\ ~(j <= k) => j \in (k + 1)..t
          /\ i = n + 1 <=> j = k + 1
          /\ i <= (l + t) - LW <=> j <= t - LW
          /\ i - ((l + t) - LW) = j - (t - LW)
      BY <1>2, <3>0, <3>1, Zenon
    <3>3. q[i] = e[j]
      BY <1>3, <2>1, <2>3, <3>1, Zenon DEF Prefix, Agree
    <3>4. CASE j <= k
      <4>1. e[j] = m[l + j]
        BY <1>1, <3>2, <3>4, Zenon
      <4>2. QED
        BY <3>1, <3>2, <3>3, <3>4, <4>1, Zenon
    <3>5. CASE ~(j <= k)
      <4>1. e[j] = IF j = k + 1 THEN Pad80
                   ELSE IF j <= t - LW THEN Zero
                   ELSE LengthCell(n, j - (t - LW))
        BY <1>1, <3>2, <3>5, Zenon DEF Pads
      <4>2. QED
        BY <3>2, <3>3, <3>5, <4>1, Zenon
    <3>6. QED
      BY <3>4, <3>5, Zenon
  <2>4. QED
    BY <2>2, <2>3, Zenon
<1>6. Padding(q, (a + b) * BL, m, n)
  <2>1. IsFun(q, 1..(l + t))
    BY <1>4, Zenon DEF Joined
  <2>2. Padding(q, l + t, m, n)
    BY <1>5, <2>1, Zenon DEF Padding
  <2>3. QED
    BY <1>2, <2>2, Zenon
<1>7. q = Ref!Padded(m)
  <2>1. Len(m) = n /\ a + b \in Nat
    BY <1>2, FunLen
  <2>2. QED
    BY <1>2, <1>6, <2>1, PaddedOf, Zenon
<1>8. Transform([iv |-> StdIV, in |-> p], e, b) = [iv |-> StdIV, in |-> q]
  <2>1. b % NBLK = b
    BY <1>2, Sizes
  <2>2. SubSeq(e, 1, (b % NBLK) * BL) = s
    BY <1>1, <1>3, <2>1, Zenon
  <2>3. [iv |-> StdIV, in |-> p].iv = StdIV /\ [iv |-> StdIV, in |-> p].in = p
    OBVIOUS
  <2>4. QED
    BY <1>4, <2>2, <2>3, Zenon DEF Transform
<1>9. QED
  BY <1>1, <1>7, <1>8, Zenon DEF Ref!HashOf
\* d with the length of a message of n bytes at its place before end.
Stored(e, w, d, n, end) ==
  /\ IsFun(e, 1..w)
  /\ \A i \in 1..w : e[i] = IF end - LW < i /\ i <= end THEN LengthCell(n, i - (end - LW))
                            ELSE d[i]

LEMMA StoreFun ==
  ASSUME NEW w \in Nat, NEW d, IsFun(d, 1..w), NEW n, NEW end \in Int
  PROVE  Stored(StoreLength(d, n, end), w, d, n, end)
<1>1. Len(d) = w
  BY FunLen, Zenon
<1>2. PICK e : e = StoreLength(d, n, end)
  OBVIOUS
<1>3. e = [i \in 1..w |-> IF end - LW < i /\ i <= end THEN LengthCell(n, i - (end - LW))
                          ELSE d[i]]
  BY <1>1, <1>2, Zenon DEF StoreLength
<1>4. \A i \in 1..w : e[i] = IF end - LW < i /\ i <= end THEN LengthCell(n, i - (end - LW))
                             ELSE d[i]
  BY <1>3
<1>5. [i \in 1..w |-> IF end - LW < i /\ i <= end THEN LengthCell(n, i - (end - LW)) ELSE d[i]]
        = [i \in 1..w |-> e[i]]
  BY <1>4
<1>6. IsFun(e, 1..w)
  BY <1>3, <1>5, Zenon DEF IsFun
<1>7. QED
  BY <1>2, <1>4, <1>6, Zenon DEF Stored

\* Where HASH(Tail) writes, with r bytes in the last block or blocks.
LEMMA TailPlaces ==
  ASSUME NEW r \in Nat, r < BL
  PROVE  LET t == Closing(r) * BL IN
         /\ t \in Nat /\ t <= 2 * BL /\ r + 1 <= t - LW /\ t - LW \in Int
<1>1. BL \in Nat /\ RES \in Nat /\ LW \in Nat /\ 1 <= LW /\ LW <= RES /\ RES < BL
  BY Sizes
<1>2. CASE r < BL - RES
  <2>1. Closing(r) * BL = BL
    BY <1>1, <1>2 DEF Closing
  <2>2. QED
    BY <1>1, <1>2, <2>1
<1>3. CASE ~(r < BL - RES)
  <2>1. Closing(r) * BL = BL + BL
    BY <1>1, <1>3 DEF Closing
  <2>2. QED
    BY <1>1, <1>3, <2>1
<1>4. QED
  BY <1>2, <1>3

\* HASH(Tail) leaves the bytes of the message alone and writes their padding.
Tailed(t, d, r, n) ==
  /\ t.blks = Closing(r)
  /\ IsFun(t.d, 1..(2 * BL))
  /\ Agree(1..r, t.d, d)
  /\ Pads(t.d, r, Closing(r), n)

LEMMA TailFun ==
  ASSUME NEW d, IsFun(d, 1..(2 * BL)), NEW n \in Nat, NEW r \in Nat, r = n % BL, r < BL
  PROVE  Tailed(HashTail(d, n), d, r, n)
<1>1. PICK w, b, t : w = 2 * BL /\ b = Closing(r) /\ t = b * BL
  OBVIOUS
<1>2. w \in Nat /\ t \in Nat /\ t <= w /\ r + 1 <= t - LW /\ t - LW \in Int /\ LW \in Nat
  <2>1. /\ Closing(r) * BL \in Nat /\ Closing(r) * BL <= 2 * BL
        /\ r + 1 <= Closing(r) * BL - LW /\ Closing(r) * BL - LW \in Int
    BY TailPlaces
  <2>2. 2 * BL \in Nat /\ LW \in Nat
    BY Sizes
  <2>3. QED
    BY <1>1, <2>1, <2>2, Zenon
<1>3. PICK o : o = <<Pad80>> /\ IsFun(o, 1..1) /\ o[1] = Pad80
  <2>1. <<Pad80>> \in Seq({Pad80}) /\ Len(<<Pad80>>) = 1 /\ <<Pad80>>[1] = Pad80
    OBVIOUS
  <2>2. IsFun(<<Pad80>>, 1..Len(<<Pad80>>))
    BY <2>1, SeqFun, Zenon
  <2>3. QED
    BY <2>1, <2>2, Zenon
<1>4. PICK m : m = OffsetCopy(d, r, o) /\ Copied(m, w, d, r, 1, o)
  <2>1. 1 \in Nat /\ r \in Int
    OBVIOUS
  <2>2. Copied(OffsetCopy(d, r, o), w, d, r, 1, o)
    BY <1>1, <1>2, <1>3, <2>1, CopyFun, Zenon
  <2>3. QED
    BY <2>2, Zenon
<1>5. PICK f : f = OffsetFill(m, r + 1, Zero, t - LW) /\ Overwritten(f, w, m, r + 1, Zero, t - LW)
  <2>1. r + 1 \in Int
    OBVIOUS
  <2>2. Overwritten(OffsetFill(m, r + 1, Zero, t - LW), w, m, r + 1, Zero, t - LW)
    BY <1>2, <1>4, <2>1, FillFun, Zenon DEF Copied
  <2>3. QED
    BY <2>2, Zenon
<1>6. PICK e : /\ e = StoreLength(f, n, t) /\ IsFun(e, 1..w)
               /\ \A i \in 1..w : e[i] =
                    IF t - LW < i /\ i <= t THEN LengthCell(n, i - (t - LW)) ELSE f[i]
  <2>1. t \in Int /\ IsFun(f, 1..w)
    BY <1>2, <1>5 DEF Overwritten
  <2>2. Stored(StoreLength(f, n, t), w, f, n, t)
    BY <1>2, <2>1, StoreFun, Zenon
  <2>3. QED
    BY <2>2, Zenon DEF Stored
<1>7. HashTail(d, n) = [d |-> e, blks |-> b]
  BY <1>1, <1>3, <1>4, <1>5, <1>6, Zenon DEF HashTail, Closing
<1>8. /\ \A i \in 1..w : m[i] = IF r < i /\ i <= r + 1 THEN o[i - r] ELSE d[i]
      /\ \A i \in 1..w : f[i] = IF r + 1 < i /\ i <= t - LW THEN Zero ELSE m[i]
  BY <1>4, <1>5, Zenon DEF Copied, Overwritten
<1>9. ASSUME NEW i \in 1..r PROVE e[i] = d[i]
  <2>1. i \in 1..w /\ ~(t - LW < i) /\ ~(r + 1 < i) /\ ~(r < i)
    BY <1>2
  <2>2. QED
    BY <1>6, <1>8, <2>1, Zenon
<1>10. ASSUME NEW i \in (r + 1)..t
       PROVE  e[i] = IF i = r + 1 THEN Pad80
                     ELSE IF i <= t - LW THEN Zero
                     ELSE LengthCell(n, i - (t - LW))
  <2>1. i \in 1..w /\ i <= t /\ r < i /\ (t - LW < i <=> ~(i <= t - LW))
        /\ (i = r + 1 => i <= t - LW /\ i - r = 1 /\ ~(r + 1 < i) /\ i <= r + 1)
        /\ (i # r + 1 => r + 1 < i)
    BY <1>2
  <2>2. CASE i = r + 1
    BY <1>3, <1>6, <1>8, <2>1, <2>2, Zenon
  <2>3. CASE i # r + 1
    BY <1>6, <1>8, <2>1, <2>3, Zenon
  <2>4. QED
    BY <2>2, <2>3, Zenon
<1>11. Agree(1..r, e, d) /\ Pads(e, r, b, n)
  BY <1>1, <1>9, <1>10, Zenon DEF Agree, Pads
<1>12. [d |-> e, blks |-> b].d = e /\ [d |-> e, blks |-> b].blks = b
  OBVIOUS
<1>13. QED
  BY <1>1, <1>6, <1>7, <1>11, <1>12, Zenon DEF Tailed

LEMMA FlipTwice ==
  ASSUME NEW n, Whole(n), NEW d, IsFun(d, 1..n)
  PROVE  Flip(Flip(d)) = d
<1>1. n \in Nat
  BY DEF Whole
<1>2. PICK e : e = Flip(d) /\ Flipped(e, n, d)
  BY <1>1, FlipFun, Zenon
<1>3. PICK f : f = Flip(e) /\ Flipped(f, n, e)
  BY <1>1, <1>2, FlipFun, Zenon DEF Flipped
<1>4. ASSUME NEW i \in 1..n PROVE f[i] = d[i]
  <2>1. SwapAt(i) \in 1..n
    BY SwapIn, Zenon
  <2>2. i \in Nat /\ i >= 1
    BY <1>1
  <2>3. SwapAt(SwapAt(i)) = i
    BY <2>2, SwapTwice, Zenon
  <2>4. QED
    BY <1>2, <1>3, <2>1, <2>3, Zenon DEF Flipped
<1>5. f = d
  <2>1. Agree(1..n, f, d)
    BY <1>4, Zenon DEF Agree
  <2>2. QED
    BY <1>3, <2>1, FunEqual, Zenon DEF Flipped
<1>6. QED
  BY <1>2, <1>3, <1>5, Zenon

\* Where the words are in order already, a swap does nothing.
LEMMA FlipStill ==
  ASSUME ~swapped, NEW n \in Nat, NEW d, IsFun(d, 1..n)
  PROVE  Flip(d) = d
<1>1. PICK e : e = Flip(d) /\ Flipped(e, n, d)
  BY FlipFun, Zenon
<1>2. \A i \in 1..n : SwapAt(i) = i
  BY DEF SwapAt
<1>3. Agree(1..n, e, d)
  BY <1>1, <1>2, Zenon DEF Flipped, Agree
<1>4. QED
  BY <1>1, <1>3, FunEqual, Zenon DEF Flipped
-----------------------------------------------------------------------------
\* The chaining state that has absorbed a masked key.
KeyState(tag, k) == [iv |-> StdIV, in |-> Ref!MaskedKey(tag, k)]

\* Putting a digest into its place leaves the key and the padding where they are.
LEMMA LaidKept ==
  ASSUME NEW h, NEW k, Laid(h, k), NEW d, IsFun(d, 1..DL)
  PROVE  Laid(OffsetCopy(h, BL, d), k)
<1>1. /\ OuterEnd \in Nat /\ ILen \in Nat /\ BL \in Nat /\ DL \in Nat /\ ILen = BL + DL
      /\ BL <= ILen /\ ILen <= OuterEnd
  <2>1. /\ OuterEnd \in Nat /\ ILen \in Nat /\ BL \in Nat /\ DL \in Nat /\ ILen = BL + DL
        /\ BL <= ILen /\ ILen + 1 <= OuterEnd - LW /\ OuterEnd - LW <= OuterEnd
        /\ OuterEnd - LW \in Nat
    BY OuterSizes, Sizes, Zenon
  <2>2. QED
    BY <2>1
<1>2. PICK w : w = OffsetCopy(h, BL, d) /\ Copied(w, OuterEnd, h, BL, DL, d)
  <2>1. BL \in Int
    BY <1>1
  <2>2. Copied(OffsetCopy(h, BL, d), OuterEnd, h, BL, DL, d)
    BY <1>1, <2>1, CopyFun, Zenon DEF Laid
  <2>3. QED
    BY <2>2, Zenon
<1>3. ASSUME NEW i \in 1..BL PROVE w[SwapAt(i)] = h[SwapAt(i)]
  <2>1. SwapAt(i) \in 1..BL
    BY WholeSizes, SwapIn, Zenon
  <2>2. SwapAt(i) \in 1..OuterEnd /\ ~(BL < SwapAt(i))
    BY <1>1, <2>1
  <2>3. QED
    BY <1>2, <2>2, Zenon DEF Copied
<1>4. ASSUME NEW i \in (ILen + 1)..OuterEnd PROVE w[SwapAt(i)] = h[SwapAt(i)]
  <2>1. i \in Nat /\ i > ILen /\ i \in 1..OuterEnd
    BY <1>1
  <2>2. SwapAt(i) > ILen /\ SwapAt(i) \in Nat
    BY <2>1, OuterSizes, SwapBeyond, Zenon
  <2>3. SwapAt(i) \in 1..OuterEnd
    BY <2>1, OuterSizes, SwapIn, Zenon
  <2>4. ~(SwapAt(i) <= BL + DL)
    BY <1>1, <2>2
  <2>5. QED
    BY <1>2, <2>3, <2>4, Zenon DEF Copied
<1>5. Laid(w, k)
  <2>1. IsFun(w, 1..OuterEnd)
    BY <1>2, Zenon DEF Copied
  <2>2. \A i \in 1..BL : w[SwapAt(i)] = Ref!MaskedKey(Outer, k)[i]
    BY <1>3, Zenon DEF Laid
  <2>3. \A i \in (ILen + 1)..OuterEnd : w[SwapAt(i)] =
          IF i = ILen + 1 THEN Pad80
          ELSE IF i <= OuterEnd - LW THEN Zero
          ELSE LengthCell(ILen, i - (OuterEnd - LW))
    BY <1>4, Zenon DEF Laid
  <2>4. QED
    BY <2>1, <2>2, <2>3, Zenon DEF Laid
<1>6. QED
  BY <1>2, <1>5, Zenon

\* The first DL bytes of a chaining state are those of the digest, swapped.
LEMMA DigestCut ==
  ASSUME NEW st
  PROVE  /\ IsFun(SubSeq(InMemory(st), 1, DL), 1..DL)
         /\ \A i \in 1..DL : SubSeq(InMemory(st), 1, DL)[i] = Ref!DigestCell(st, SwapAt(i))
<1>1. SL \in Nat /\ DL \in Nat /\ DL <= SL
  BY Sizes
<1>2. PICK s : s = InMemory(st) /\ IsFun(s, 1..SL)
               /\ \A i \in 1..SL : s[i] = Ref!DigestCell(st, SwapAt(i))
  BY InMemoryFun, Zenon
<1>3. PICK d : d = SubSeq(s, 1, DL) /\ Prefix(d, DL, s)
  <2>1. Prefix(SubSeq(s, 1, DL), DL, s)
    BY <1>1, <1>2, PrefixFun, Zenon
  <2>2. QED
    BY <2>1, Zenon
<1>4. ASSUME NEW i \in 1..DL PROVE d[i] = Ref!DigestCell(st, SwapAt(i))
  <2>1. i \in 1..SL
    BY <1>1
  <2>2. QED
    BY <1>2, <1>3, <2>1, Zenon DEF Prefix, Agree
<1>5. QED
  BY <1>2, <1>3, <1>4, Zenon DEF Prefix

LEMMA WithDigestLaid ==
  ASSUME NEW h, NEW k, Laid(h, k), NEW st
  PROVE  Laid(WithDigest(h, st), k)
<1>1. PICK d : d = SubSeq(InMemory(st), 1, DL) /\ IsFun(d, 1..DL)
  BY DigestCut, Zenon
<1>2. Laid(OffsetCopy(h, BL, d), k)
  BY <1>1, LaidKept, Zenon
<1>3. QED
  BY <1>1, <1>2, Zenon DEF WithDigest

\* The last blocks of the inner message, in the machine's order: complete but for
\* the digest that goes to their start.
InTail(t) ==
  /\ IsFun(t, 1..(2 * BL))
  /\ Pads(Flip(t), DL, Closing(DL), ILen)

\* The digest of st is at the start of t.
Starts(t, st) == \A i \in 1..DL : Flip(t)[i] = Ref!DigestCell(st, i)

LEMMA TwoBlocks == Whole(2 * BL) /\ 2 * BL \in Nat /\ DL <= 2 * BL
<1>1. BL \in Nat /\ DL \in Nat /\ DL < BL /\ 2 * BL = BL + BL
  BY Sizes
<1>2. Whole(BL + BL)
  BY WholeSizes, WholeSum, Zenon
<1>3. 2 * BL \in Nat /\ DL <= 2 * BL
  BY <1>1
<1>4. QED
  BY <1>1, <1>2, <1>3, Zenon

LEMMA Placed ==
  ASSUME NEW t, InTail(t), NEW st, NEW s, IsFun(s, 1..DL),
         \A i \in 1..DL : s[i] = Ref!DigestCell(st, SwapAt(i))
  PROVE  InTail(OffsetCopy(t, 0, s)) /\ Starts(OffsetCopy(t, 0, s), st)
<1>1. PICK w : w = 2 * BL /\ Whole(w) /\ w \in Nat /\ DL <= w /\ DL \in Nat /\ BL \in Nat
  BY TwoBlocks, Sizes, Zenon
<1>2. PICK e : e = OffsetCopy(t, 0, s) /\ Copied(e, w, t, 0, DL, s)
  <2>1. 0 \in Int
    OBVIOUS
  <2>2. Copied(OffsetCopy(t, 0, s), w, t, 0, DL, s)
    BY <1>1, <2>1, CopyFun, Zenon DEF InTail
  <2>3. QED
    BY <2>2, Zenon
<1>3. PICK f : f = Flip(e) /\ Flipped(f, w, e)
  BY <1>1, <1>2, FlipFun, Zenon DEF Copied
<1>4. PICK g : g = Flip(t) /\ Flipped(g, w, t)
  BY <1>1, FlipFun, Zenon DEF InTail
<1>5. ASSUME NEW i \in 1..DL PROVE f[i] = Ref!DigestCell(st, i)
  <2>1. SwapAt(i) \in 1..DL
    BY WholeSizes, SwapIn, Zenon
  <2>2. /\ i \in 1..w /\ i \in Nat /\ i >= 1 /\ SwapAt(i) \in 1..w
        /\ 0 < SwapAt(i) /\ SwapAt(i) <= 0 + DL /\ SwapAt(i) - 0 = SwapAt(i)
    BY <1>1, <2>1
  <2>3. SwapAt(SwapAt(i)) = i
    BY <2>2, SwapTwice, Zenon
  <2>4. e[SwapAt(i)] = s[SwapAt(i)]
    BY <1>2, <2>2, Zenon DEF Copied
  <2>5. f[i] = e[SwapAt(i)]
    BY <1>3, <2>2, Zenon DEF Flipped
  <2>6. QED
    BY <2>1, <2>3, <2>4, <2>5, Zenon
<1>6. ASSUME NEW i \in 1..w, i > DL PROVE f[i] = g[i]
  <2>1. i \in Nat
    BY <1>1
  <2>2. SwapAt(i) \in Nat /\ SwapAt(i) > DL
    BY <1>6, <2>1, WholeSizes, SwapBeyond, Zenon
  <2>3. SwapAt(i) \in 1..w
    BY <1>1, SwapIn, Zenon
  <2>4. ~(SwapAt(i) <= 0 + DL)
    BY <1>1, <2>2
  <2>5. e[SwapAt(i)] = t[SwapAt(i)]
    BY <1>2, <2>3, <2>4, Zenon DEF Copied
  <2>6. QED
    BY <1>3, <1>4, <2>5, Zenon DEF Flipped
<1>7. Pads(f, DL, Closing(DL), ILen)
  <2>1. PICK b : b = Closing(DL) * BL
    OBVIOUS
  <2>2. b \in Nat /\ b <= w
    <3>1. DL \in Nat /\ DL < BL
      BY Sizes
    <3>2. Closing(DL) * BL \in Nat /\ Closing(DL) * BL <= 2 * BL
      BY <3>1, TailPlaces
    <3>3. QED
      BY <1>1, <2>1, <3>2, Zenon
  <2>3. \A i \in (DL + 1)..b : i \in 1..w /\ i > DL
    BY <1>1, <2>2
  <2>4. \A i \in (DL + 1)..b : f[i] = g[i]
    BY <1>6, <2>3, Zenon
  <2>5. Pads(g, DL, Closing(DL), ILen)
    BY <1>4, Zenon DEF InTail
  <2>6. QED
    BY <2>1, <2>4, <2>5, Zenon DEF Pads
<1>8. InTail(e)
  BY <1>1, <1>2, <1>3, <1>7, Zenon DEF InTail, Copied
<1>9. Starts(e, st)
  BY <1>3, <1>5, Zenon DEF Starts
<1>10. QED
  BY <1>2, <1>8, <1>9, Zenon

\* The hash of a digest behind a masked key, from the state that has absorbed the
\* key and the last blocks.
LEMMA RoundHash ==
  ASSUME NEW t, InTail(t), NEW st, Starts(t, st), NEW tag, NEW k
  PROVE  Transform(KeyState(tag, k), Flip(t), Closing(DL))
           = Ref!HashOf(Ref!MaskedKey(tag, k) \o Ref!DigestOf(st))
<1>1. DL \in Nat /\ DL < BL /\ BL \in Nat /\ 1 * BL = BL /\ ILen = BL + DL /\ 2 * BL \in Nat
  BY Sizes DEF ILen
<1>2. PICK p : p = Ref!MaskedKey(tag, k) /\ IsFun(p, 1..BL)
  BY MaskedKeyFun
<1>3. PICK g : g = Ref!DigestOf(st) /\ IsFun(g, 1..DL)
               /\ \A i \in 1..DL : g[i] = Ref!DigestCell(st, i)
  BY DigestFun, Zenon
<1>4. PICK m : m = p \o g /\ Joined(m, BL, p, DL, g)
  <2>1. Joined(p \o g, BL, p, DL, g)
    BY <1>1, <1>2, <1>3, JoinFun, Zenon
  <2>2. QED
    BY <2>1, Zenon
<1>5. PICK e : e = Flip(t) /\ IsFun(e, 1..(2 * BL))
  <2>1. Flipped(Flip(t), 2 * BL, t)
    BY <1>1, FlipFun, Zenon DEF InTail
  <2>2. QED
    BY <2>1, Zenon DEF Flipped
<1>6. Agree(1..BL, m, p)
  <2>1. \A i \in 1..BL : i \in 1..(BL + DL) /\ i <= BL
    BY <1>1
  <2>2. QED
    BY <1>4, <2>1, Zenon DEF Joined, Agree
<1>7. \A i \in 1..DL : e[i] = m[BL + i]
  <2>1. \A i \in 1..DL : BL + i \in 1..(BL + DL) /\ ~(BL + i <= BL) /\ (BL + i) - BL = i
    BY <1>1
  <2>2. \A i \in 1..DL : m[BL + i] = g[i]
    BY <1>4, <2>1, Zenon DEF Joined
  <2>3. \A i \in 1..DL : e[i] = Ref!DigestCell(st, i)
    BY <1>5, Zenon DEF Starts
  <2>4. QED
    BY <1>3, <2>2, <2>3, Zenon
<1>8. Pads(e, DL, Closing(DL), ILen)
  BY <1>5, Zenon DEF InTail
<1>9. Transform([iv |-> StdIV, in |-> p], e, Closing(DL)) = Ref!HashOf(m)
  <2>1. /\ 1 \in Nat /\ IsFun(p, 1..(1 * BL)) /\ ILen = 1 * BL + DL
        /\ IsFun(m, 1..ILen) /\ Agree(1..(1 * BL), m, p)
        /\ \A i \in 1..DL : e[i] = m[1 * BL + i]
    BY <1>1, <1>2, <1>4, <1>6, <1>7, Zenon DEF Joined
  <2>2. QED
    BY <1>1, <1>5, <1>8, <2>1, ClosingTail
<1>10. QED
  BY <1>2, <1>3, <1>4, <1>5, <1>9, Zenon DEF KeyState
-----------------------------------------------------------------------------
\* What the iterations rely on: the two states keyed once, the number of last blocks,
\* and, where chaining states are hashed as they are in memory, no truncation.
LoopReady ==
  /\ ctx["ictx"].state = KeyState(Inner, call.pass)
  /\ W = KeyState(Outer, call.pass)
  /\ iblks = Closing(DL)
  /\ swapped /\ call.c # 1 => SL = DL

\* r comes from s by one more iteration of RFC 8018, and keeps the buffers good.
Turned(r, s) ==
  /\ r.U = Ref!HmacOf(call.pass, Ref!DigestOf(s.U))
  /\ r.T = Xor(s.T, {r.U})
  /\ InTail(r.itail) /\ Laid(r.outer, call.pass)

LEMMA IterateInOrder ==
  ASSUME LoopReady, ~swapped, NEW s, InTail(s.itail), Laid(s.outer, call.pass)
  PROVE  Turned(Iterate(s), s)
<1>1. PICK g : /\ g = Serialized(s.U) /\ IsFun(g, 1..DL)
               /\ \A i \in 1..DL : g[i] = Ref!DigestCell(s.U, i)
  BY DigestFun, Zenon DEF Serialized
<1>2. \A i \in 1..DL : g[i] = Ref!DigestCell(s.U, SwapAt(i))
  BY <1>1, Zenon DEF SwapAt
<1>3. PICK in : in = OffsetCopy(s.itail, 0, g) /\ InTail(in) /\ Starts(in, s.U)
  BY <1>1, <1>2, Placed, Zenon
<1>4. PICK hi : /\ hi = Transform(ctx["ictx"].state, in, iblks)
                /\ hi = Ref!HashOf(Ref!MaskedKey(Inner, call.pass) \o Ref!DigestOf(s.U))
  <2>1. Transform(KeyState(Inner, call.pass), Flip(in), Closing(DL))
          = Ref!HashOf(Ref!MaskedKey(Inner, call.pass) \o Ref!DigestOf(s.U))
    BY <1>3, RoundHash, Zenon
  <2>2. Flip(in) = in
    BY <1>3, TwoBlocks, FlipStill, Zenon DEF InTail
  <2>3. QED
    BY <2>1, <2>2, Zenon DEF LoopReady
<1>5. PICK o : /\ o = WithDigest(s.outer, hi) /\ Laid(o, call.pass)
               /\ OuterHash(o) = Ref!HashOf(Ref!MaskedKey(Outer, call.pass) \o Ref!DigestOf(hi))
  BY WithDigestLaid, OuterStep, Zenon
<1>6. Transform(Start, o, OuterBlocks) = OuterHash(o)
  <2>1. Flip(o) = o
    BY <1>5, OuterSizes, FlipStill, Zenon DEF Laid
  <2>2. QED
    BY <2>1, Zenon DEF OuterHash, Native
<1>7. PICK u : /\ u = Transform(Start, o, OuterBlocks)
               /\ u = Ref!HmacOf(call.pass, Ref!DigestOf(s.U))
  BY <1>4, <1>5, <1>6, Zenon DEF Ref!HmacOf
<1>8. Iterate(s) = [U |-> u, T |-> Xor(s.T, {u}), itail |-> in, outer |-> o]
  BY <1>1, <1>3, <1>4, <1>5, <1>7, Zenon DEF Iterate
<1>9. PICK r : /\ r = Iterate(s) /\ r.U = u /\ r.T = Xor(s.T, {u})
               /\ r.itail = in /\ r.outer = o
  BY <1>8
<1>10. QED
  BY <1>3, <1>5, <1>7, <1>9, Zenon DEF Turned

LEMMA IterateSwapped ==
  ASSUME LoopReady, swapped, call.c # 1, NEW s, InTail(s.itail), Laid(s.outer, call.pass)
  PROVE  Turned(Iterate(s), s)
<1>1. ASSUME NEW st
      PROVE  IsFun(InMemory(st), 1..DL)
             /\ \A i \in 1..DL : InMemory(st)[i] = Ref!DigestCell(st, SwapAt(i))
  <2>1. SL = DL
    BY DEF LoopReady
  <2>2. QED
    BY <2>1, InMemoryFun, Zenon
<1>2. PICK in : in = OffsetCopy(s.itail, 0, InMemory(s.U)) /\ InTail(in) /\ Starts(in, s.U)
  BY <1>1, Placed, Zenon
<1>3. PICK hi : /\ hi = Native(ctx["ictx"].state, in, iblks)
                /\ hi = Ref!HashOf(Ref!MaskedKey(Inner, call.pass) \o Ref!DigestOf(s.U))
  <2>1. Transform(KeyState(Inner, call.pass), Flip(in), Closing(DL))
          = Ref!HashOf(Ref!MaskedKey(Inner, call.pass) \o Ref!DigestOf(s.U))
    BY <1>2, RoundHash, Zenon
  <2>2. QED
    BY <2>1, Zenon DEF LoopReady, Native
<1>4. PICK out : out = OffsetCopy(in, 0, InMemory(hi)) /\ InTail(out) /\ Starts(out, hi)
  BY <1>1, <1>2, Placed, Zenon
<1>5. PICK u : /\ u = Native(W, out, iblks)
               /\ u = Ref!HmacOf(call.pass, Ref!DigestOf(s.U))
  <2>1. Transform(KeyState(Outer, call.pass), Flip(out), Closing(DL))
          = Ref!HashOf(Ref!MaskedKey(Outer, call.pass) \o Ref!DigestOf(hi))
    BY <1>4, RoundHash, Zenon
  <2>2. QED
    BY <1>3, <2>1, Zenon DEF LoopReady, Native, Ref!HmacOf
<1>6. Iterate(s) = [U |-> u, T |-> Xor(s.T, {u}), itail |-> out, outer |-> s.outer]
  BY <1>2, <1>3, <1>4, <1>5, Zenon DEF Iterate
<1>7. PICK r : /\ r = Iterate(s) /\ r.U = u /\ r.T = Xor(s.T, {u})
               /\ r.itail = out /\ r.outer = s.outer
  BY <1>6
<1>8. QED
  BY <1>4, <1>5, <1>7, Zenon DEF Turned

\* The i-th iteration has the i-th digest and sum of RFC 8018.
AtRound(r, n, i) ==
  /\ r.U = Chain(call, n)[i] /\ r.T = Sums(call, n)[i]
  /\ InTail(r.itail) /\ Laid(r.outer, call.pass)

LEMMA RoundsFollow ==
  ASSUME LoopReady, InTail(itail), Laid(hmac["ictx"], call.pass),
         call.c \in Nat, call.c >= 1, NEW n, NEW U, U = Chain(call, n)[1]
  PROVE  AtRound(Iterated(U), n, call.c)
<1>1. PICK C, S, R : C = Chain(call, n) /\ S = Sums(call, n) /\ R = Rounds(U)
  OBVIOUS
<1>2. /\ C = [j \in 1..call.c |-> ChainStep(call, n, C, j)]
      /\ S = [j \in 1..call.c |-> SumsStep(call, n, S, j)]
      /\ R = [j \in 1..call.c |-> RoundsStep(U, R, j)]
  <2>1. Chain(call, n) = [j \in 1..call.c |-> ChainStep(call, n, Chain(call, n), j)]
    BY ChainIs
  <2>2. Sums(call, n) = [j \in 1..call.c |-> SumsStep(call, n, Sums(call, n), j)]
    BY SumsAre
  <2>3. Rounds(U) = [j \in 1..call.c |-> RoundsStep(U, Rounds(U), j)]
    BY RoundsAre
  <2>4. QED
    BY <1>1, <2>1, <2>2, <2>3, Zenon
<1>3. \A j \in 1..call.c : /\ C[j] = ChainStep(call, n, C, j)
                           /\ S[j] = SumsStep(call, n, S, j)
                           /\ R[j] = RoundsStep(U, R, j)
  BY <1>2
<1> DEFINE G == {i \in Nat : i \in 1..call.c => AtRound(R[i], n, i)}
<1>4. 0 \in G
  OBVIOUS
<1>5. ASSUME NEW i \in Nat, i \in G PROVE i + 1 \in G
  <2> SUFFICES ASSUME i + 1 \in 1..call.c PROVE AtRound(R[i + 1], n, i + 1)
    OBVIOUS
  <2>1. CASE i = 0
    <3>1. 1 \in 1..call.c /\ i + 1 = 1
      BY <2>1
    <3>2. R[1] = FirstRound(U) /\ S[1] = {C[1]}
      BY <1>1, <1>3, <3>1, Zenon DEF RoundsStep, SumsStep
    <3>3. /\ FirstRound(U).U = U /\ FirstRound(U).T = {U}
          /\ FirstRound(U).itail = itail /\ FirstRound(U).outer = hmac["ictx"]
      BY DEF FirstRound
    <3>4. AtRound(R[1], n, 1)
      BY <1>1, <3>2, <3>3, Zenon DEF AtRound
    <3>5. QED
      BY <3>1, <3>4, Zenon
  <2>2. CASE i # 0
    <3>1. PICK j : j = i + 1 /\ j \in 1..call.c /\ j # 1 /\ j - 1 = i /\ i \in 1..call.c
      BY <2>2
    <3>2. AtRound(R[i], n, i)
      BY <1>5, <3>1
    <3>3. R[j] = Iterate(R[i])
      BY <1>3, <3>1, Zenon DEF RoundsStep
    <3>4. C[j] = Ref!HmacOf(call.pass, Ref!DigestOf(C[i]))
      BY <1>3, <3>1, Zenon DEF ChainStep
    <3>5. S[j] = Xor(S[i], {C[j]})
      BY <1>1, <1>3, <3>1, Zenon DEF SumsStep
    <3>6. Turned(R[j], R[i])
      <4>1. InTail(R[i].itail) /\ Laid(R[i].outer, call.pass)
        BY <3>2, Zenon DEF AtRound
      <4>2. call.c # 1
        BY <3>1
      <4>3. QED
        BY <3>3, <4>1, <4>2, IterateInOrder, IterateSwapped, Zenon
    <3>7. AtRound(R[j], n, j)
      BY <1>1, <3>2, <3>4, <3>5, <3>6, Zenon DEF AtRound, Turned
    <3>8. QED
      BY <3>1, <3>7, Zenon
  <2>3. QED
    BY <2>1, <2>2
<1> HIDE DEF G
<1>6. call.c \in G
  BY <1>4, <1>5, AllNumbers
<1>7. AtRound(R[call.c], n, call.c)
  BY <1>6 DEF G
<1>8. QED
  BY <1>1, <1>7, Zenon DEF Iterated
-----------------------------------------------------------------------------
\* The number of bytes behind whole blocks.
LEMMA ModOf ==
  ASSUME NEW a \in Nat, NEW k \in Nat, k < BL
  PROVE  (a * BL + k) % BL = k
<1>1. BL \in Nat /\ BL > 0 /\ a * BL + k \in Nat
  BY Sizes
<1> DEFINE n == a * BL + k
           p == n \div BL
           s == n % BL
<1>2. p \in Nat /\ s \in Nat /\ s < BL /\ a * BL + k = p * BL + s
  <2>1. /\ n \div BL \in Nat /\ n % BL \in Nat /\ n % BL < BL
        /\ n = (n \div BL) * BL + (n % BL)
    BY <1>1
  <2>2. QED
    BY <2>1, Zenon
<1> HIDE DEF n, p, s
<1>3. p = a
  BY <1>1, <1>2
<1>4. s = k
  BY <1>1, <1>2, <1>3
<1>5. QED
  BY <1>4 DEF n, s

\* Joining is associative whatever the cells.
LEMMA JoinAssoc ==
  ASSUME NEW l \in Nat, NEW f, IsFun(f, 1..l), NEW m \in Nat, NEW g, IsFun(g, 1..m),
         NEW n \in Nat, NEW h, IsFun(h, 1..n)
  PROVE  Associates(f, g, h)
<1> DEFINE S == {f[i] : i \in 1..l} \cup {g[i] : i \in 1..m} \cup {h[i] : i \in 1..n}
<1>1. /\ \A i \in 1..l : f[i] \in S
      /\ \A i \in 1..m : g[i] \in S
      /\ \A i \in 1..n : h[i] \in S
  OBVIOUS
<1> HIDE DEF S
<1>2. f \in Seq(S) /\ g \in Seq(S) /\ h \in Seq(S)
  BY <1>1, FunSeq, Zenon
<1>3. QED
  BY <1>2, Assoc, Zenon

LEMMA NumberFun ==
  ASSUME NEW n
  PROVE  IsFun(STOR32BE(n), 1..CB) /\ CB \in Nat
<1>1. CB \in Nat
  BY KeyDerivationAssumption
<1>2. IsFun(STOR32BE(n), 1..CB)
  BY DEF IsFun, STOR32BE
<1>3. QED
  BY <1>1, <1>2

\* The last blocks of the outer message, for a context x that has been fed the salt:
\* complete but for the block number behind the salt.
OutTail(t, x) ==
  /\ IsFun(t, 1..(2 * BL))
  /\ Agree(1..x.datalen, t, x.data)
  /\ Pads(t, x.datalen + CB, Closing(x.datalen + CB), x.bytelen + x.datalen + CB)

\* With a block number they are those of the message the context has absorbed and
\* that number, and they stay good for the next one.
Numbered(t, x, n) ==
  /\ OutTail(t, x)
  /\ Transform(x.state, t, Closing(x.datalen + CB)) = Ref!HashOf(Absorbed(x) \o STOR32BE(n))

LEMMA NumberPlaces ==
  ASSUME NEW d \in Nat, d + CB < BL
  PROVE  /\ CB \in Nat /\ BL \in Nat /\ d + CB \in Nat /\ 2 * BL \in Nat /\ d \in Int
         /\ \A i \in 1..d : i \in 1..(2 * BL) /\ ~(d < i)
         /\ \A i \in 1..CB : /\ d + i \in 1..(2 * BL) /\ d < d + i /\ d + i <= d + CB
                             /\ (d + i) - d = i
         /\ \A b \in Nat : b <= 2 * BL =>
              \A i \in (d + CB + 1)..b : i \in 1..(2 * BL) /\ ~(i <= d + CB)
         /\ \A i \in 1..(d + CB) : ~(i <= d) => i - d \in 1..CB /\ d + (i - d) = i
<1>1. CB \in Nat /\ BL \in Nat
  BY Sizes, KeyDerivationAssumption
<1>2. QED
  BY <1>1

LEMMA NumberKept ==
  ASSUME NEW x, x.datalen \in Nat, x.datalen + CB < BL, NEW t, OutTail(t, x), NEW n
  PROVE  /\ OutTail(OffsetCopy(t, x.datalen, STOR32BE(n)), x)
         /\ \A i \in 1..CB : OffsetCopy(t, x.datalen, STOR32BE(n))[x.datalen + i] = STOR32BE(n)[i]
<1>1. PICK d, s, w : d = x.datalen /\ s = STOR32BE(n) /\ IsFun(s, 1..CB) /\ w = 2 * BL
  BY NumberFun
<1>2. /\ d \in Nat /\ CB \in Nat /\ d + CB \in Nat /\ w \in Nat /\ d \in Int
      /\ \A i \in 1..d : i \in 1..w /\ ~(d < i)
      /\ \A i \in 1..CB : /\ d + i \in 1..w /\ d < d + i /\ d + i <= d + CB
                          /\ (d + i) - d = i
      /\ \A b \in Nat : b <= w => \A i \in (d + CB + 1)..b : i \in 1..w /\ ~(i <= d + CB)
  BY <1>1, NumberPlaces
<1>3. PICK e : e = OffsetCopy(t, d, s) /\ Copied(e, w, t, d, CB, s)
  <2>1. Copied(OffsetCopy(t, d, s), w, t, d, CB, s)
    BY <1>1, <1>2, CopyFun, Zenon DEF OutTail
  <2>2. QED
    BY <2>1, Zenon
<1>4. \A i \in 1..d : e[i] = t[i]
  BY <1>2, <1>3, Zenon DEF Copied
<1>5. \A i \in 1..CB : e[d + i] = s[i]
  <2>1. ASSUME NEW i \in 1..CB PROVE e[d + i] = s[i]
    <3>1. PICK j : j = d + i /\ j \in 1..w /\ d < j /\ j <= d + CB /\ j - d = i
      BY <1>2, Zenon
    <3>2. e[j] = s[j - d]
      BY <1>3, <3>1, Zenon DEF Copied
    <3>3. QED
      BY <3>1, <3>2, Zenon
  <2>2. QED
    BY <2>1, Zenon
<1>6. PICK b : b = Closing(d + CB) * BL /\ b \in Nat /\ b <= w
  <2>1. d + CB < BL
    BY <1>1
  <2>2. Closing(d + CB) * BL \in Nat /\ Closing(d + CB) * BL <= 2 * BL
    BY <1>2, <2>1, TailPlaces
  <2>3. QED
    BY <1>1, <2>2, Zenon
<1>7. \A i \in (d + CB + 1)..b : e[i] = t[i]
  BY <1>2, <1>3, <1>6, Zenon DEF Copied
<1>8. OutTail(e, x)
  <2>1. IsFun(e, 1..(2 * BL))
    BY <1>1, <1>3, Zenon DEF Copied
  <2>2. Agree(1..x.datalen, e, x.data)
    BY <1>1, <1>4, Zenon DEF OutTail, Agree
  <2>3. Pads(e, x.datalen + CB, Closing(x.datalen + CB), x.bytelen + x.datalen + CB)
    BY <1>1, <1>6, <1>7, Zenon DEF OutTail, Pads
  <2>4. QED
    BY <2>1, <2>2, <2>3, Zenon DEF OutTail
<1>9. QED
  BY <1>1, <1>3, <1>5, <1>8, Zenon

LEMMA NumberHashed ==
  ASSUME NEW S, NEW x \in ContextOf(S), Aligned(x), x.state.iv = StdIV,
         x.datalen + CB < BL, NEW t, OutTail(t, x), NEW n
  PROVE  Numbered(OffsetCopy(t, x.datalen, STOR32BE(n)), x, n)
<1>1. PICK d, s, p, y : /\ d = x.datalen /\ s = STOR32BE(n) /\ IsFun(s, 1..CB)
                        /\ p = x.state.in /\ y = x.bytelen
  BY NumberFun
<1>2. /\ d \in Nat /\ y \in Nat /\ p \in Seq(S) /\ y = Len(p) /\ d <= BL /\ d + CB < BL
      /\ \E q \in 0..y : y = q * BL
      /\ x.state \in StateOf(S) /\ x.data \in BlockOf(S)
  <2>1. x.datalen < BL
    BY DEF Aligned
  <2>2. QED
    BY <1>1, <2>1, Fields DEF Aligned
<1>3. PICK a \in Nat : y = a * BL
  BY <1>2
<1>4. /\ CB \in Nat /\ d + CB \in Nat /\ 2 * BL \in Nat /\ BL \in Nat
      /\ \A i \in 1..(d + CB) : ~(i <= d) => i - d \in 1..CB /\ d + (i - d) = i
  BY <1>2, NumberPlaces
<1>5. PICK e : /\ e = OffsetCopy(t, d, s) /\ OutTail(e, x)
               /\ \A i \in 1..CB : e[d + i] = s[i]
  <2>1. /\ OutTail(OffsetCopy(t, x.datalen, STOR32BE(n)), x)
        /\ \A i \in 1..CB : OffsetCopy(t, x.datalen, STOR32BE(n))[x.datalen + i] = STOR32BE(n)[i]
    BY <1>1, <1>2, NumberKept
  <2>2. QED
    BY <1>1, <2>1, Zenon
<1>6. PICK c : /\ c = SubSeq(x.data, 1, d) /\ IsFun(c, 1..d)
               /\ \A i \in 1..d : c[i] = x.data[i]
  <2>1. /\ SubSeq(x.data, 1, d) \in Seq(S) /\ Len(SubSeq(x.data, 1, d)) = d
        /\ \A i \in 1..d : SubSeq(x.data, 1, d)[i] = x.data[i]
    BY <1>2, PrefixOfBlock
  <2>2. IsFun(SubSeq(x.data, 1, d), 1..Len(SubSeq(x.data, 1, d)))
    BY <2>1, SeqFun, Zenon
  <2>3. QED
    BY <2>1, <2>2, Zenon
<1>7. PICK f : f = p \o c /\ f = Absorbed(x) /\ Joined(f, y, p, d, c) /\ IsFun(p, 1..y)
  <2>1. IsFun(p, 1..Len(p))
    BY <1>2, SeqFun, Zenon
  <2>2. Joined(p \o c, y, p, d, c)
    BY <1>2, <1>6, <2>1, JoinFun, Zenon
  <2>3. QED
    BY <1>1, <1>2, <1>6, <2>1, <2>2, Zenon DEF Absorbed
<1>8. PICK m : m = f \o s /\ Joined(m, y + d, f, CB, s)
  <2>1. y + d \in Nat /\ IsFun(f, 1..(y + d))
    BY <1>2, <1>7 DEF Joined
  <2>2. Joined(f \o s, y + d, f, CB, s)
    BY <1>1, <1>4, <2>1, JoinFun, Zenon
  <2>3. QED
    BY <2>2, Zenon
<1>9. y + (d + CB) = (y + d) + CB /\ x.bytelen + x.datalen + CB = y + (d + CB)
  BY <1>1, <1>2, <1>4
<1>10. Agree(1..y, m, p)
  <2>1. \A i \in 1..y : i <= y /\ i \in 1..(y + d) /\ i <= y + d /\ i \in 1..((y + d) + CB)
    BY <1>2, <1>4
  <2>2. QED
    BY <1>7, <1>8, <2>1, Zenon DEF Joined, Agree
<1>11. ASSUME NEW i \in 1..(d + CB) PROVE e[i] = m[y + i]
  <2>1. PICK j : j = y + i /\ j \in 1..((y + d) + CB) /\ ~(j <= y) /\ j - y = i
                 /\ (j <= y + d <=> i <= d) /\ (i <= d => i \in 1..d)
                 /\ j - (y + d) = i - d /\ (i <= d => j \in 1..(y + d))
    BY <1>2, <1>4
  <2>2. m[j] = IF j <= y + d THEN f[j] ELSE s[j - (y + d)]
    BY <1>8, <2>1, Zenon DEF Joined
  <2>3. CASE i <= d
    <3>1. f[j] = c[i]
      BY <1>7, <2>1, <2>3, Zenon DEF Joined
    <3>2. e[i] = x.data[i]
      BY <1>1, <1>5, <2>1, <2>3, Zenon DEF OutTail, Agree
    <3>3. QED
      BY <1>6, <2>1, <2>2, <2>3, <3>1, <3>2, Zenon
  <2>4. CASE ~(i <= d)
    <3>1. PICK o : o = i - d /\ o \in 1..CB /\ d + o = i
      BY <1>4, <2>4, Zenon
    <3>2. m[j] = s[o]
      BY <2>1, <2>2, <2>4, <3>1, Zenon
    <3>3. QED
      BY <1>5, <2>1, <3>1, <3>2, Zenon
  <2>5. QED
    BY <2>3, <2>4, Zenon
<1>12. Transform([iv |-> StdIV, in |-> p], e, Closing(d + CB)) = Ref!HashOf(m)
  <2>1. IsFun(e, 1..(2 * BL)) /\ Pads(e, d + CB, Closing(d + CB), a * BL + (d + CB))
    BY <1>1, <1>3, <1>5, <1>9, Zenon DEF OutTail
  <2>2. IsFun(p, 1..(a * BL)) /\ IsFun(m, 1..(a * BL + (d + CB))) /\ Agree(1..(a * BL), m, p)
    BY <1>3, <1>7, <1>8, <1>9, <1>10, Zenon DEF Joined
  <2>3. \A i \in 1..(d + CB) : e[i] = m[a * BL + i]
    BY <1>3, <1>11, Zenon
  <2>4. PICK k : k = d + CB /\ k \in Nat /\ k < BL
    BY <1>2, <1>4
  <2>5. Transform([iv |-> StdIV, in |-> p], e, Closing(k)) = Ref!HashOf(m)
    BY <2>1, <2>2, <2>3, <2>4, ClosingTail
  <2>6. QED
    BY <2>4, <2>5, Zenon
<1>13. x.state = [iv |-> StdIV, in |-> p]
  BY <1>1, <1>2 DEF StateOf
<1>14. QED
  BY <1>1, <1>5, <1>7, <1>8, <1>12, <1>13, Zenon DEF Numbered
-----------------------------------------------------------------------------
\* The HMAC of salt and block number is what the outer hash makes of the inner one.
LEMMA FirstOfChain ==
  ASSUME call \in Calls, NEW x, NEW h, Prepares(x, h, call.pass, call.salt), NEW n
  PROVE  OuterHash(WithDigest(h, Ref!HashOf(Absorbed(x) \o STOR32BE(n)))) = Chain(call, n)[1]
<1>1. call.c \in Nat /\ 1 \in 1..call.c /\ call.salt \in Seq(Byte)
  BY KeyDerivationAssumption
<1>2. PICK k, f, s : /\ k = Ref!MaskedKey(Inner, call.pass) /\ f = call.salt /\ s = STOR32BE(n)
                     /\ IsFun(k, 1..BL) /\ IsFun(s, 1..CB)
  BY MaskedKeyFun, NumberFun
<1>3. Associates(k, f, s)
  <2>1. IsFun(f, 1..Len(f)) /\ Len(f) \in Nat
    BY <1>1, <1>2, SeqFun
  <2>2. BL \in Nat /\ CB \in Nat
    BY Sizes, NumberFun
  <2>3. QED
    BY <1>2, <2>1, <2>2, JoinAssoc, Zenon
<1>4. Absorbed(x) \o s = k \o (f \o s)
  BY <1>2, <1>3, Zenon DEF Prepares, Associates
<1>5. PICK st : st = Ref!HashOf(Absorbed(x) \o s)
  OBVIOUS
<1>6. OuterHash(WithDigest(h, st)) = Ref!HashOf(Ref!MaskedKey(Outer, call.pass) \o Ref!DigestOf(st))
  <2>1. Laid(h, call.pass)
    BY Zenon DEF Prepares
  <2>2. QED
    BY <2>1, OuterStep, Zenon
<1>7. OuterHash(WithDigest(h, st)) = Ref!HmacOf(call.pass, f \o s)
  BY <1>2, <1>4, <1>5, <1>6, Zenon DEF Ref!HmacOf
<1>8. Chain(call, n)[1] = Ref!HmacOf(call.pass, f \o s)
  <2>1. PICK C : C = Chain(call, n) /\ C = [j \in 1..call.c |-> ChainStep(call, n, C, j)]
    <3>1. Chain(call, n) = [j \in 1..call.c |-> ChainStep(call, n, Chain(call, n), j)]
      BY <1>1, ChainIs
    <3>2. QED
      BY <3>1, Zenon
  <2>2. \A j \in 1..call.c : C[j] = ChainStep(call, n, C, j)
    BY <2>1
  <2>3. C[1] = ChainStep(call, n, C, 1)
    BY <1>1, <2>2, Zenon
  <2>4. QED
    BY <1>2, <2>1, <2>3, Zenon DEF ChainStep
<1>9. QED
  BY <1>2, <1>5, <1>7, <1>8, Zenon

LEMMA SumsFirst ==
  ASSUME NEW a, a.c \in Nat, a.c >= 1, NEW n
  PROVE  Sums(a, n)[1] = {Chain(a, n)[1]}
<1>1. PICK f : f = Sums(a, n) /\ f = [j \in 1..a.c |-> SumsStep(a, n, f, j)]
  <2>1. Sums(a, n) = [j \in 1..a.c |-> SumsStep(a, n, Sums(a, n), j)]
    BY SumsAre
  <2>2. QED
    BY <2>1, Zenon
<1>2. \A j \in 1..a.c : f[j] = SumsStep(a, n, f, j)
  BY <1>1
<1>3. 1 \in 1..a.c
  OBVIOUS
<1>4. QED
  BY <1>1, <1>2, <1>3, Zenon DEF SumsStep

\* PBKDF2(1) does without iterations and, in the hash's own byte order, with the
\* digest as it is serialized.
LEMMA OnceIs ==
  ASSUME ~swapped, call \in Calls, call.c = 1, NEW h, Laid(h, call.pass), NEW st, NEW n,
         OuterHash(WithDigest(h, st)) = Chain(call, n)[1]
  PROVE  /\ SerializedInner(h, st) = WithDigest(h, st)
         /\ {Transform(Start, SerializedInner(h, st), OuterBlocks)} = Chained(call, n)
<1>1. PICK g : /\ g = Ref!DigestOf(st) /\ IsFun(g, 1..DL)
               /\ \A i \in 1..DL : g[i] = Ref!DigestCell(st, i)
  BY DigestFun, Zenon
<1>2. PICK d : /\ d = SubSeq(InMemory(st), 1, DL) /\ IsFun(d, 1..DL)
               /\ \A i \in 1..DL : d[i] = Ref!DigestCell(st, SwapAt(i))
  BY DigestCut, Zenon
<1>3. Agree(1..DL, g, d)
  BY <1>1, <1>2, Zenon DEF Agree, SwapAt
<1>4. g = d
  BY <1>1, <1>2, <1>3, FunEqual, Zenon
<1>5. PICK w : w = WithDigest(h, st) /\ w = SerializedInner(h, st) /\ Laid(w, call.pass)
  <2>1. WithDigest(h, st) = SerializedInner(h, st)
    BY <1>1, <1>2, <1>4, Zenon DEF WithDigest, SerializedInner, Serialized
  <2>2. QED
    BY <2>1, WithDigestLaid, Zenon
<1>6. Transform(Start, w, OuterBlocks) = OuterHash(w)
  <2>1. Flip(w) = w
    BY <1>5, OuterSizes, FlipStill, Zenon DEF Laid
  <2>2. QED
    BY <2>1, Zenon DEF OuterHash, Native
<1>7. Chained(call, n) = {Chain(call, n)[1]}
  <2>1. call.c \in Nat /\ call.c >= 1
    OBVIOUS
  <2>2. Sums(call, n)[1] = {Chain(call, n)[1]}
    BY <2>1, SumsFirst, Zenon
  <2>3. QED
    BY <2>2, Zenon DEF Chained
<1>8. QED
  BY <1>5, <1>6, <1>7, Zenon

-----------------------------------------------------------------------------
\* The key so far: of the call a, the first w bytes asked for are in d.
Size(a) == a.end - a.off + DL

KeyOK(a, d, w) ==
  /\ IsFun(d, 1..Size(a))
  /\ \A i \in 1..Size(a) : d[i] = IF i <= w THEN KeyByte(a, a.off + i) ELSE Junk

\* Part of a buffer.
LEMMA PartFun ==
  ASSUME NEW n \in Nat, NEW d, IsFun(d, 1..n), NEW k \in Nat, NEW u \in Nat, k <= u, u <= n
  PROVE  /\ IsFun(SubSeq(d, k + 1, u), 1..(u - k))
         /\ \A i \in 1..(u - k) : SubSeq(d, k + 1, u)[i] = d[k + i]
<1> DEFINE S == {d[i] : i \in 1..n}
<1>1. \A i \in 1..n : d[i] \in S
  OBVIOUS
<1> HIDE DEF S
<1>2. PICK j : j = k + 1 /\ j \in Int /\ u \in Int /\ (j <= u <=> k < u)
               /\ u - j + 1 = u - k /\ \A i \in j..u : i \in 1..n
  OBVIOUS
<1>3. \A i \in j..u : d[i] \in S
  BY <1>1, <1>2, Zenon
<1>4. /\ SubSeq(d, j, u) \in Seq(S)
      /\ Len(SubSeq(d, j, u)) = IF j <= u THEN u - j + 1 ELSE 0
      /\ \A i \in 1..(u - j + 1) : SubSeq(d, j, u)[i] = d[j + i - 1]
  BY <1>2, <1>3, SubSeqProperties
<1>5. Len(SubSeq(d, j, u)) = u - k
  BY <1>2, <1>4
<1>6. \A i \in 1..(u - k) : j + i - 1 = k + i
  BY <1>2
<1>7. \A i \in 1..(u - k) : SubSeq(d, j, u)[i] = d[k + i]
  BY <1>2, <1>4, <1>6
<1>8. IsFun(SubSeq(d, j, u), 1..Len(SubSeq(d, j, u)))
  BY <1>4, SeqFun, Zenon
<1>9. QED
  BY <1>2, <1>5, <1>7, <1>8, Zenon

\* The bytes k + 1 to u of a block whose first byte is that behind base, at p.
LEMMA BlockBytes ==
  ASSUME NEW a, a.fn # "expand", NEW b \in Nat, b >= 1, NEW j \in 1..DL
  PROVE  KeyByte(a, (b - 1) * DL + j) = Ref!DigestCell(Chained(a, b), j)
<1>1. DL \in Nat /\ DL > 0 /\ b - 1 \in Nat /\ j - 1 \in Nat /\ j - 1 < DL /\ j \in Nat
  BY Sizes
<1> DEFINE n == (b - 1) * DL + (j - 1)
           q == n \div DL
           r == n % DL
<1>2. (b - 1) * DL \in Nat /\ n \in Nat /\ ((b - 1) * DL + j) - 1 = n
  BY <1>1
<1>3. q \in Nat /\ r \in Nat /\ r < DL /\ (b - 1) * DL + (j - 1) = q * DL + r
  <2>1. /\ n \div DL \in Nat /\ n % DL \in Nat /\ n % DL < DL
        /\ n = (n \div DL) * DL + (n % DL)
    BY <1>1, <1>2
  <2>2. QED
    BY <2>1, Zenon
<1>4. KeyByte(a, (b - 1) * DL + j) = Ref!DigestCell(Chained(a, q + 1), r + 1)
  BY <1>2, Zenon DEF KeyByte
<1> HIDE DEF n, q, r
<1>5. q = b - 1
  BY <1>1, <1>3
<1>6. r = j - 1
  BY <1>1, <1>3, <1>5
<1>7. q + 1 = b /\ r + 1 = j
  BY <1>1, <1>5, <1>6
<1>8. QED
  BY <1>4, <1>7, Zenon

LEMMA KeyPlaces ==
  ASSUME NEW o \in Nat, NEW c \in Nat, NEW p \in Nat, NEW k \in Nat, NEW u \in Nat, k <= u,
         u <= DL, o + p = c + k, NEW i \in Nat, p < i, i <= p + (u - k)
  PROVE  i - p \in 1..(u - k) /\ k + (i - p) \in 1..DL /\ o + i = c + (k + (i - p))
BY Sizes

LEMMA KeyGrows ==
  ASSUME NEW a, a.fn # "expand", a.off \in Nat, a.end \in Nat, a.off <= a.end,
         NEW b \in Nat, b >= 1, NEW p \in Nat, NEW k \in Nat, NEW u \in Nat, k <= u, u <= DL,
         a.off + p = (b - 1) * DL + k, p <= a.end - a.off, NEW d, KeyOK(a, d, p)
  PROVE  KeyOK(a, OffsetCopy(d, p, SubSeq(Serialized(Chained(a, b)), k + 1, u)), p + (u - k))
<1>1. PICK z : z = Size(a)
  OBVIOUS
<1>2. z \in Nat /\ DL \in Nat /\ u - k \in Nat /\ p \in Int /\ p + (u - k) <= z
      /\ (b - 1) * DL \in Nat /\ u - k <= DL
  BY <1>1, Sizes DEF Size
<1>3. PICK g : /\ g = Serialized(Chained(a, b)) /\ IsFun(g, 1..DL)
               /\ \A i \in 1..DL : g[i] = Ref!DigestCell(Chained(a, b), i)
  BY DigestFun, Zenon DEF Serialized
<1>4. PICK s : /\ s = SubSeq(g, k + 1, u) /\ IsFun(s, 1..(u - k))
               /\ \A i \in 1..(u - k) : s[i] = g[k + i]
  <2>1. /\ IsFun(SubSeq(g, k + 1, u), 1..(u - k))
        /\ \A i \in 1..(u - k) : SubSeq(g, k + 1, u)[i] = g[k + i]
    BY <1>2, <1>3, PartFun
  <2>2. QED
    BY <2>1, Zenon
<1>5. PICK e : e = OffsetCopy(d, p, s) /\ Copied(e, z, d, p, u - k, s)
  <2>1. IsFun(d, 1..z)
    BY <1>1, Zenon DEF KeyOK
  <2>2. Copied(OffsetCopy(d, p, s), z, d, p, u - k, s)
    BY <1>2, <1>4, <2>1, CopyFun, Zenon
  <2>3. QED
    BY <2>2, Zenon
<1>6. ASSUME NEW i \in 1..z
      PROVE  e[i] = IF i <= p + (u - k) THEN KeyByte(a, a.off + i) ELSE Junk
  <2>1. e[i] = IF p < i /\ i <= p + (u - k) THEN s[i - p] ELSE d[i]
    BY <1>5, Zenon DEF Copied
  <2>2. d[i] = IF i <= p THEN KeyByte(a, a.off + i) ELSE Junk
    BY <1>1, Zenon DEF KeyOK
  <2>3. CASE i <= p
    <3>1. ~(p < i) /\ i <= p + (u - k)
      BY <1>2, <2>3
    <3>2. QED
      BY <2>1, <2>2, <2>3, <3>1, Zenon
  <2>4. CASE p < i /\ i <= p + (u - k)
    <3>1. PICK j : j = i - p /\ j \in 1..(u - k) /\ k + j \in 1..DL
                   /\ a.off + i = (b - 1) * DL + (k + j)
      <4>1. i \in Nat
        BY <1>2
      <4>2. /\ i - p \in 1..(u - k) /\ k + (i - p) \in 1..DL
            /\ a.off + i = (b - 1) * DL + (k + (i - p))
        BY <1>2, <2>4, <4>1, KeyPlaces
      <4>3. QED
        BY <4>2, Zenon
    <3>2. e[i] = Ref!DigestCell(Chained(a, b), k + j)
      BY <1>3, <1>4, <2>1, <2>4, <3>1, Zenon
    <3>3. KeyByte(a, (b - 1) * DL + (k + j)) = Ref!DigestCell(Chained(a, b), k + j)
      BY <3>1, BlockBytes
    <3>4. QED
      BY <2>4, <3>1, <3>2, <3>3, Zenon
  <2>5. CASE ~(i <= p + (u - k))
    <3>1. ~(i <= p)
      BY <1>2, <2>5
    <3>2. QED
      BY <2>1, <2>2, <2>5, <3>1, Zenon
  <2>6. QED
    BY <1>2, <2>3, <2>4, <2>5
<1>7. KeyOK(a, e, p + (u - k))
  BY <1>1, <1>5, <1>6, Zenon DEF KeyOK, Copied
<1>8. QED
  BY <1>3, <1>4, <1>5, <1>7, Zenon
-----------------------------------------------------------------------------
\* The inductive invariant: where a call is, and what it has made ready by then.
Multi == call.fn \in {"whole", "range"}

Preparing == {"key", "clone", "feed", "layout", "number", "final"}

KFrame ==
  /\ call \in Calls /\ swapped \in Hosts[call.fn] /\ swapped \in Orders
  /\ IsFun(ctx, Ctx) /\ IsFun(hmac, Ctx)

Raw == \A c \in Ctx : Shaped(ctx[c]) /\ IsFun(hmac[c], 1..OuterEnd)
TailsRaw == IsFun(otail, 1..(2 * BL)) /\ IsFun(itail, 1..(2 * BL))

\* The context the other one is cloned from, when it is keyed and ever after.
KeyedOnly == Prepares(ctx["ictx"], hmac["ictx"], call.pass, << >>)
Based == ctx["ictx"].state = KeyState(Inner, call.pass) /\ Laid(hmac["ictx"], call.pass)
OtherShaped == Shaped(ctx["octx"])

\* The context that is fed the salt.
FedNothing == Prepares(ctx["octx"], hmac["octx"], call.pass, << >>)
FedSalt == Prepares(ctx["octx"], hmac["octx"], call.pass, call.salt)

\* It ends with the block number of HKDF(Expand).
FedNumber ==
  /\ Finished(ctx["octx"]).state =
       Ref!HashOf(Ref!MaskedKey(Inner, call.pass) \o (call.salt \o <<CounterCell(1, CB)>>))
  /\ Laid(hmac["octx"], call.pass)

\* The buffers of the loop.
OuterBuffer ==
  /\ FedSalt
  /\ ctx["octx"].datalen + CB < BL
  /\ oblks = Closing(ctx["octx"].datalen + CB) /\ OutTail(otail, ctx["octx"])
InnerBuffer == LoopReady /\ InTail(itail) /\ Laid(hmac["ictx"], call.pass)

\* Where the loop is in the key.
Positioned ==
  /\ block \in Nat /\ block >= 1 /\ nout \in Nat /\ pos \in Nat
  /\ nout = (block - 1) * DL /\ nout <= call.end /\ nout + DL > call.off
  /\ pos = IF nout < call.off THEN 0 ELSE nout - call.off

KeySoFar == KeyOK(call, dk, Written)

KInv ==
  /\ KFrame /\ KeySoFar
  /\ pc \in Preparing \cup {"block", "wipe", "done"}
  /\ pc \in Preparing => TailsRaw /\ pos = 0
  /\ pc = "key" => Raw
  /\ pc = "clone" => Multi /\ KeyedOnly /\ Based /\ OtherShaped
  /\ pc = "feed" => FedNothing /\ (Multi => Based)
  /\ pc = "layout" => call.fn # "expand" /\ FedSalt /\ (Multi => Based)
  /\ pc = "number" => call.fn = "expand" /\ FedSalt
  /\ pc = "final" => call.fn = "expand" /\ FedNumber
  /\ pc = "block" => call.fn # "expand" /\ OuterBuffer /\ (Multi => InnerBuffer) /\ Positioned

\* The order of the bytes and the arguments do not change during a call.
LEMMA SameCall ==
  ASSUME swapped' = swapped, call' = call
  PROVE  /\ KeyedOnly' <=> Prepares(ctx'["ictx"], hmac'["ictx"], call.pass, << >>)
         /\ Based' <=> /\ ctx'["ictx"].state = KeyState(Inner, call.pass)
                       /\ Laid(hmac'["ictx"], call.pass)
         /\ FedNothing' <=> Prepares(ctx'["octx"], hmac'["octx"], call.pass, << >>)
         /\ FedSalt' <=> Prepares(ctx'["octx"], hmac'["octx"], call.pass, call.salt)
         /\ Multi' <=> Multi
<1>1. KeyedOnly' <=> Prepares(ctx'["ictx"], hmac'["ictx"], call.pass, << >>)
  BY DEF KeyedOnly, Prepares, Laid, SwapAt
<1>2. Based' <=> /\ ctx'["ictx"].state = KeyState(Inner, call.pass)
                 /\ Laid(hmac'["ictx"], call.pass)
  BY DEF Based, Laid, SwapAt
<1>3. FedNothing' <=> Prepares(ctx'["octx"], hmac'["octx"], call.pass, << >>)
  BY DEF FedNothing, Prepares, Laid, SwapAt
<1>4. FedSalt' <=> Prepares(ctx'["octx"], hmac'["octx"], call.pass, call.salt)
  BY DEF FedSalt, Prepares, Laid, SwapAt
<1>5. Multi' <=> Multi
  BY DEF Multi
<1>6. QED
  BY <1>1, <1>2, <1>3, <1>4, <1>5, Zenon

LEMMA SameLoop ==
  ASSUME swapped' = swapped, call' = call
  PROVE  /\ FedNumber' <=>
              /\ Finished(ctx'["octx"]).state =
                   Ref!HashOf(Ref!MaskedKey(Inner, call.pass) \o (call.salt \o <<CounterCell(1, CB)>>))
              /\ Laid(hmac'["octx"], call.pass)
         /\ OuterBuffer' <=>
              /\ Prepares(ctx'["octx"], hmac'["octx"], call.pass, call.salt)
              /\ ctx'["octx"].datalen + CB < BL
              /\ oblks' = Closing(ctx'["octx"].datalen + CB) /\ OutTail(otail', ctx'["octx"])
         /\ InnerBuffer' <=>
              /\ ctx'["ictx"].state = KeyState(Inner, call.pass)
              /\ W' = KeyState(Outer, call.pass)
              /\ iblks' = Closing(DL)
              /\ swapped /\ call.c # 1 => SL = DL
              /\ InTail(itail') /\ Laid(hmac'["ictx"], call.pass)
<1>1. FedNumber' <=>
              /\ Finished(ctx'["octx"]).state =
                   Ref!HashOf(Ref!MaskedKey(Inner, call.pass) \o (call.salt \o <<CounterCell(1, CB)>>))
              /\ Laid(hmac'["octx"], call.pass)
  BY DEF FedNumber, Laid, SwapAt
<1>2. FedSalt' <=> Prepares(ctx'["octx"], hmac'["octx"], call.pass, call.salt)
  BY SameCall, Zenon
<1>3. OuterBuffer' <=>
              /\ Prepares(ctx'["octx"], hmac'["octx"], call.pass, call.salt)
              /\ ctx'["octx"].datalen + CB < BL
              /\ oblks' = Closing(ctx'["octx"].datalen + CB) /\ OutTail(otail', ctx'["octx"])
  BY <1>2, Zenon DEF OuterBuffer
<1>4. InTail(itail)' <=> InTail(itail')
  BY DEF InTail, Pads, Flip, SwapAt
<1>5. Laid(hmac["ictx"], call.pass)' <=> Laid(hmac'["ictx"], call.pass)
  BY DEF Laid, SwapAt
<1>6. LoopReady' <=>
              /\ ctx'["ictx"].state = KeyState(Inner, call.pass)
              /\ W' = KeyState(Outer, call.pass)
              /\ iblks' = Closing(DL)
              /\ swapped /\ call.c # 1 => SL = DL
  BY Zenon DEF LoopReady
<1>7. QED
  BY <1>1, <1>3, <1>4, <1>5, <1>6, Zenon DEF InnerBuffer
-----------------------------------------------------------------------------
\* What a call of HMAC does to the contexts.
LEMMA TwoContexts ==
  /\ "ictx" \in Ctx /\ "octx" \in Ctx /\ "ictx" # "octx"
  /\ \A c \in Ctx : c = "ictx" \/ c = "octx"
BY KeyDerivationAssumption

LEMMA CallFields ==
  ASSUME call \in Calls
  PROVE  /\ call.fn \in Functions /\ call.pass \in Keys /\ call.salt \in Seq(Byte)
         /\ call.c \in Nat /\ call.c >= 1 /\ call.off \in Nat /\ call.end \in Nat
         /\ call.off <= call.end
         /\ call.fn # "range" => call.off = 0
         /\ call.fn = "one" => call.c = 1
         /\ call.fn = "expand" => call.end <= DL
<1>1. /\ call.fn \in Functions /\ call.pass \in Keys /\ call.salt \in Seq(Byte)
      /\ call.c \in Nat \ {0} /\ call.off \in 0..call.end /\ call.end \in Nat
      /\ call.fn # "range" => call.off = 0
      /\ call.fn = "one" => call.c = 1
      /\ call.fn = "expand" => call.end <= DL
  BY KeyDerivationAssumption, Zenon
<1>2. PICK c, o, e : c = call.c /\ o = call.off /\ e = call.end
  OBVIOUS
<1>3. c \in Nat \ {0} /\ o \in 0..e /\ e \in Nat
  BY <1>1, <1>2, Zenon
<1>4. c \in Nat /\ c >= 1 /\ o \in Nat /\ o <= e
  BY <1>3
<1>5. QED
  BY <1>1, <1>2, <1>4, Zenon

\* f and g differ at c at most.
OnlyAt(c, f, g) == \A d \in Ctx : d # c => g[d] = f[d]

\* A context that has absorbed just the masked key.
LEMMA KeyBase ==
  ASSUME NEW x, NEW h, NEW k, Prepares(x, h, k, << >>), x.datalen = 0
  PROVE  x.state = KeyState(Inner, k)
<1>1. x \in ContextOf(InnerCell) /\ x.state.iv = StdIV
      /\ Absorbed(x) = Ref!MaskedKey(Inner, k) \o << >>
  BY Zenon DEF Prepares
<1>2. x.state \in StateOf(InnerCell) /\ x.state.in \in Seq(InnerCell)
  BY <1>1, Fields
<1>3. x.state = [iv |-> x.state.iv, in |-> x.state.in]
  BY <1>2 DEF StateOf
<1>4. x.state.in \o << >> = x.state.in /\ SubSeq(x.data, 1, 0) = << >>
  BY <1>2, ConcatEmptySeq, SubSeqEmpty
<1>5. Absorbed(x) = x.state.in
  BY <1>4, Zenon DEF Absorbed
<1>6. PICK m : m = Ref!MaskedKey(Inner, k) /\ IsFun(m, 1..BL)
  BY MaskedKeyFun, Zenon
<1>7. m \o << >> = m
  <2> DEFINE S == {m[i] : i \in 1..BL}
  <2>1. \A i \in 1..BL : m[i] \in S
    OBVIOUS
  <2> HIDE DEF S
  <2>2. m \in Seq(S)
    BY <1>6, <2>1, Sizes, FunSeq, Zenon
  <2>3. QED
    BY <2>2, ConcatEmptySeq
<1>8. QED
  BY <1>1, <1>3, <1>5, <1>6, <1>7, Zenon DEF KeyState

LEMMA InitCall ==
  ASSUME ShortCalls, LengthInOrder, KFrame, Raw, NEW c \in Ctx, HmacInit(c, call.pass)
  PROVE  /\ swapped' = swapped /\ IsFun(ctx', Ctx) /\ IsFun(hmac', Ctx)
         /\ Prepares(ctx'[c], hmac'[c], call.pass, << >>)
         /\ ctx'[c].state = KeyState(Inner, call.pass)
         /\ OnlyAt(c, ctx, ctx') /\ OnlyAt(c, hmac, hmac')
<1>1. PICK r : r = Keyed(ctx[c], hmac[c], call.pass)
  OBVIOUS
<1>2. ctx' = [ctx EXCEPT ![c] = r.ctx] /\ hmac' = [hmac EXCEPT ![c] = r.hmac] /\ swapped' = swapped
  BY <1>1, Zenon DEF HmacInit
<1>3. /\ IsFun(ctx', Ctx) /\ ctx'[c] = r.ctx /\ OnlyAt(c, ctx, ctx')
      /\ IsFun(hmac', Ctx) /\ hmac'[c] = r.hmac /\ OnlyAt(c, hmac, hmac')
  <2>1. IsFun(ctx, Ctx) /\ IsFun(hmac, Ctx)
    BY Zenon DEF KFrame
  <2>2. Replaces(ctx', Ctx, ctx, c, r.ctx)
    BY <1>2, <2>1, FunExcept
  <2>3. Replaces(hmac', Ctx, hmac, c, r.hmac)
    BY <1>2, <2>1, FunExcept
  <2>4. QED
    BY <2>2, <2>3, Zenon DEF Replaces, OnlyAt
<1>4. Prepares(r.ctx, r.hmac, call.pass, << >>)
  <2>1. call.pass \in Keys
    BY CallFields, Zenon DEF KFrame
  <2>2. Shaped(ctx[c]) /\ IsFun(hmac[c], 1..OuterEnd) /\ swapped \in Orders
    BY Zenon DEF Raw, KFrame
  <2>3. QED
    BY <1>1, <2>1, <2>2, InitPrepares, Zenon
<1>5. r.ctx.datalen = 0
  BY <1>1 DEF Keyed
<1>6. r.ctx.state = KeyState(Inner, call.pass)
  BY <1>4, <1>5, KeyBase, Zenon
<1>7. QED
  BY <1>2, <1>3, <1>4, <1>6, Zenon

LEMMA KFrameKept ==
  ASSUME KFrame, call' = call, swapped' = swapped, IsFun(ctx', Ctx), IsFun(hmac', Ctx)
  PROVE  KFrame'
BY DEF KFrame, IsFun

\* While the key is not written to, what is written of it stays.
LEMMA KeyKept ==
  ASSUME KeySoFar, call' = call, dk' = dk, Written' = Written
  PROVE  KeySoFar'
BY Zenon DEF KeySoFar

LEMMA TailsKept ==
  ASSUME TailsRaw, otail' = otail, itail' = itail
  PROVE  TailsRaw'
BY DEF TailsRaw, IsFun

LEMMA WrittenIs ==
  /\ pc \in Preparing \cup {"block"} => Written = pos
  /\ pc \in {"wipe", "done"} => Written = call.end - call.off
BY DEF Written, Preparing

LEMMA WrittenNext ==
  /\ pc' \in Preparing \cup {"block"} => Written' = pos'
  /\ pc' \in {"wipe", "done"} => Written' = call'.end - call'.off
BY DEF Written, Preparing
-----------------------------------------------------------------------------
\* Each step keeps the invariant.
LEMMA KeyInv ==
  ASSUME ShortCalls, LengthInOrder, KInv, Key
  PROVE  KInv'
<1>1. /\ KFrame /\ KeySoFar /\ pc = "key" /\ Raw /\ TailsRaw /\ pos = 0
      /\ call' = call /\ dk' = dk /\ otail' = otail /\ itail' = itail /\ pos' = pos
  BY DEF KInv, Key, Preparing, scratch
<1>2. pc' \in {"clone", "feed"}
  BY DEF Key
<1>3. \A c \in {"ictx", "octx"} : HmacInit(c, call.pass) =>
        /\ swapped' = swapped /\ IsFun(ctx', Ctx) /\ IsFun(hmac', Ctx)
        /\ Prepares(ctx'[c], hmac'[c], call.pass, << >>)
        /\ ctx'[c].state = KeyState(Inner, call.pass)
        /\ OnlyAt(c, ctx, ctx') /\ OnlyAt(c, hmac, hmac')
  BY <1>1, InitCall, KeyDerivationAssumption
<1>4. swapped' = swapped /\ IsFun(ctx', Ctx) /\ IsFun(hmac', Ctx)
  BY <1>3, Zenon DEF Key
<1>5. TailsRaw' /\ KFrame' /\ pos' = 0
  BY <1>1, <1>4, KFrameKept, TailsKept, Zenon
<1>6. KeySoFar'
  <2>1. Written = pos /\ Written' = pos'
    BY <1>1, <1>2, WrittenIs, WrittenNext DEF Preparing
  <2>2. QED
    BY <1>1, <2>1, KeyKept, Zenon
<1>7. CASE Multi
  <2>1. HmacInit("ictx", call.pass) /\ pc' = "clone"
    BY <1>7 DEF Key, Multi
  <2>2. /\ Prepares(ctx'["ictx"], hmac'["ictx"], call.pass, << >>)
        /\ ctx'["ictx"].state = KeyState(Inner, call.pass)
        /\ OnlyAt("ictx", ctx, ctx')
    BY <1>3, <2>1, Zenon
  <2>3. KeyedOnly' /\ Based' /\ Multi'
    BY <1>1, <1>4, <1>7, <2>2, SameCall, Zenon DEF Prepares
  <2>4. ctx'["octx"] = ctx["octx"]
    BY <2>2, TwoContexts, Zenon DEF OnlyAt
  <2>5. OtherShaped'
    <3>1. Shaped(ctx["octx"])
      BY <1>1, TwoContexts, Zenon DEF Raw
    <3>2. QED
      BY <2>4, <3>1, Zenon DEF OtherShaped
  <2>6. QED
    BY <1>5, <1>6, <2>1, <2>3, <2>5 DEF KInv, Preparing
<1>8. CASE ~Multi
  <2>1. HmacInit("octx", call.pass) /\ pc' = "feed"
    BY <1>8 DEF Key, Multi
  <2>2. Prepares(ctx'["octx"], hmac'["octx"], call.pass, << >>)
    BY <1>3, <2>1, Zenon
  <2>3. FedNothing' /\ ~Multi'
    BY <1>1, <1>4, <1>8, <2>2, SameCall, Zenon
  <2>4. QED
    BY <1>5, <1>6, <2>1, <2>3 DEF KInv, Preparing
<1>9. QED
  BY <1>7, <1>8

LEMMA CloneInv ==
  ASSUME KInv, Clone
  PROVE  KInv'
<1>1. /\ KFrame /\ KeySoFar /\ pc = "clone" /\ TailsRaw /\ pos = 0
      /\ Multi /\ KeyedOnly /\ Based /\ OtherShaped
      /\ call' = call /\ dk' = dk /\ otail' = otail /\ itail' = itail /\ pos' = pos
      /\ pc' = "feed" /\ HmacClone("octx", "ictx")
  BY DEF KInv, Clone, Preparing, scratch
<1>2. /\ ctx' = [ctx EXCEPT !["octx"] = Cloned(ctx["octx"], ctx["ictx"])]
      /\ hmac' = [hmac EXCEPT !["octx"] = hmac["ictx"]] /\ swapped' = swapped
  BY <1>1, Zenon DEF HmacClone
<1>3. Replaces(ctx', Ctx, ctx, "octx", Cloned(ctx["octx"], ctx["ictx"]))
  <2>1. IsFun(ctx, Ctx) /\ "octx" \in Ctx
    BY <1>1, TwoContexts, Zenon DEF KFrame
  <2>2. QED
    BY <1>2, <2>1, FunExcept
<1>4. Replaces(hmac', Ctx, hmac, "octx", hmac["ictx"])
  <2>1. IsFun(hmac, Ctx) /\ "octx" \in Ctx
    BY <1>1, TwoContexts, Zenon DEF KFrame
  <2>2. QED
    BY <1>2, <2>1, FunExcept
<1>5. ctx'["ictx"] = ctx["ictx"] /\ hmac'["ictx"] = hmac["ictx"]
  BY <1>3, <1>4, TwoContexts, Zenon DEF Replaces
<1>6. Prepares(ctx'["octx"], hmac'["octx"], call.pass, << >>)
  <2>1. "new" \in {"new", "open"} /\ "new" \in {"new", "open", "done"}
    OBVIOUS
  <2>2. Good(ctx["ictx"], hmac["ictx"], "new", call.pass, << >>)
    BY <1>1, <2>1, PreparesGood, Zenon DEF KeyedOnly
  <2>3. Good(Cloned(ctx["octx"], ctx["ictx"]), hmac["ictx"], "new", call.pass, << >>)
    BY <1>1, <2>1, <2>2, CloneGood, Zenon DEF OtherShaped
  <2>4. QED
    BY <1>3, <1>4, <2>1, <2>3, Zenon DEF Good, Replaces
<1>7. FedNothing' /\ Based' /\ Multi'
  BY <1>1, <1>2, <1>5, <1>6, SameCall, Zenon DEF Based
<1>8. TailsRaw' /\ KFrame' /\ pos' = 0
  BY <1>1, <1>2, <1>3, <1>4, KFrameKept, TailsKept, Zenon DEF Replaces
<1>9. KeySoFar'
  <2>1. Written = pos /\ Written' = pos'
    BY <1>1, WrittenIs, WrittenNext DEF Preparing
  <2>2. QED
    BY <1>1, <2>1, KeyKept, Zenon
<1>10. QED
  BY <1>1, <1>7, <1>8, <1>9 DEF KInv, Preparing
LEMMA UpdateCall ==
  ASSUME KFrame, NEW m, HmacUpdate("octx", m)
  PROVE  /\ swapped' = swapped /\ hmac' = hmac
         /\ Replaces(ctx', Ctx, ctx, "octx", Updated(ctx["octx"], m))
         /\ ctx'["ictx"] = ctx["ictx"]
<1>1. /\ ctx' = [ctx EXCEPT !["octx"] = Updated(ctx["octx"], m)]
      /\ hmac' = hmac /\ swapped' = swapped
  BY Zenon DEF HmacUpdate
<1>2. Replaces(ctx', Ctx, ctx, "octx", Updated(ctx["octx"], m))
  <2>1. IsFun(ctx, Ctx) /\ "octx" \in Ctx
    BY TwoContexts, Zenon DEF KFrame
  <2>2. QED
    BY <1>1, <2>1, FunExcept
<1>3. QED
  BY <1>1, <1>2, TwoContexts, Zenon DEF Replaces

LEMMA FeedInv ==
  ASSUME ShortCalls, CarefulRequests, KInv, Feed
  PROVE  KInv'
<1>1. /\ KFrame /\ KeySoFar /\ pc = "feed" /\ TailsRaw /\ pos = 0
      /\ FedNothing /\ (Multi => Based)
      /\ call' = call /\ dk' = dk /\ otail' = otail /\ itail' = itail /\ pos' = pos
      /\ HmacUpdate("octx", call.salt)
      /\ pc' = IF call.fn = "expand" THEN "number" ELSE "layout"
  BY DEF KInv, Feed, Preparing, scratch
<1>2. /\ swapped' = swapped /\ hmac' = hmac
      /\ Replaces(ctx', Ctx, ctx, "octx", Updated(ctx["octx"], call.salt))
      /\ ctx'["ictx"] = ctx["ictx"]
  BY <1>1, UpdateCall, Zenon
<1>3. Prepares(ctx'["octx"], hmac'["octx"], call.pass, call.salt)
  <2>1. call.salt \in Seq(Byte) /\ Len(call.salt) < NBLK * BL
    BY <1>1, CallFields, Zenon DEF CarefulRequests, KFrame
  <2>2. Prepares(Updated(ctx["octx"], call.salt), hmac["octx"], call.pass, << >> \o call.salt)
    BY <1>1, <2>1, UpdatePrepares, Zenon DEF FedNothing
  <2>3. << >> \o call.salt = call.salt
    BY <2>1, ConcatEmptySeq
  <2>4. QED
    BY <1>2, <2>2, <2>3, Zenon DEF Replaces
<1>4. FedSalt' /\ (Multi' => Based')
  BY <1>1, <1>2, <1>3, SameCall, Zenon DEF Based
<1>5. TailsRaw' /\ KFrame' /\ pos' = 0
  BY <1>1, <1>2, KFrameKept, TailsKept, Zenon DEF Replaces, KFrame
<1>6. KeySoFar'
  <2>1. Written = pos /\ Written' = pos'
    BY <1>1, WrittenIs, WrittenNext DEF Preparing
  <2>2. QED
    BY <1>1, <2>1, KeyKept, Zenon
<1>7. QED
  BY <1>1, <1>4, <1>5, <1>6 DEF KInv, Preparing

LEMMA Wider ==
  ASSUME NEW S, NEW R, S \subseteq R, NEW x \in ContextOf(S)
  PROVE  x \in ContextOf(R)
<1>1. /\ x.data \in [1..BL -> S] /\ x.bytelen \in Nat /\ x.datalen \in Nat
      /\ x.state \in StateOf(S) /\ x.state.in \in Seq(S)
  BY Fields DEF BlockOf
<1>2. x.data \in BlockOf(R)
  BY <1>1 DEF BlockOf
<1>3. x.state \in StateOf(R)
  <2>1. x.state.in \in [1..Len(x.state.in) -> S] /\ Len(x.state.in) \in Nat
    BY <1>1, LenProperties
  <2>2. x.state.in \in [1..Len(x.state.in) -> R]
    BY <2>1
  <2>3. x.state.in \in Seq(R)
    BY <2>1, <2>2, SeqDef
  <2>4. QED
    BY <1>1, <2>3 DEF StateOf
<1>4. QED
  BY <1>1, <1>2, <1>3 DEF ContextOf

LEMMA NumberFinishes ==
  ASSUME NEW x, NEW h, NEW k, NEW f, Prepares(x, h, k, f), NEW n, NEW j
  PROVE  Finished(Updated(x, <<CounterCell(n, j)>>)).state
           = Ref!HashOf(Ref!MaskedKey(Inner, k) \o (f \o <<CounterCell(n, j)>>))
<1> DEFINE R == InnerCell \cup {CounterCell(n, j)}
<1>1. PICK m : m = <<CounterCell(n, j)>>
  OBVIOUS
<1>2. m \in Seq(R) /\ Len(m) = 1
  BY <1>1
<1>3. x \in ContextOf(InnerCell) /\ Aligned(x) /\ x.state.iv = StdIV
      /\ Absorbed(x) = Ref!MaskedKey(Inner, k) \o f /\ f \in Seq(Byte)
  BY Zenon DEF Prepares
<1>4. x \in ContextOf(R)
  BY <1>3, Wider
<1>5. CellSet(R)
  BY InnerCells DEF CellSet
<1> HIDE DEF R
<1>6. Len(m) < NBLK * BL
  BY <1>2, Sizes
<1>7. PICK y : /\ y = Updated(x, m) /\ y \in ContextOf(R) /\ Aligned(y)
               /\ y.state.iv = StdIV /\ Absorbed(y) = Absorbed(x) \o m
  <2>1. /\ Updated(x, m) \in ContextOf(R) /\ Aligned(Updated(x, m))
        /\ Updated(x, m).state.iv = x.state.iv
        /\ Absorbed(Updated(x, m)) = Absorbed(x) \o m
    BY <1>2, <1>3, <1>4, <1>5, <1>6, UpdatedStep
  <2>2. QED
    BY <1>3, <2>1, Zenon
<1>8. Finished(y).state = Ref!HashOf(Absorbed(y))
  BY <1>5, <1>7, FinishedIs, Zenon
<1>9. Absorbed(y) = Ref!MaskedKey(Inner, k) \o (f \o m)
  <2>1. IsFun(Ref!MaskedKey(Inner, k), 1..BL)
    BY MaskedKeyFun, Zenon
  <2>2. IsFun(f, 1..Len(f)) /\ Len(f) \in Nat /\ IsFun(m, 1..1)
    <3>1. IsFun(m, 1..Len(m))
      BY <1>2, SeqFun, Zenon
    <3>2. QED
      BY <1>2, <1>3, <3>1, SeqFun, Zenon
  <2>3. Associates(Ref!MaskedKey(Inner, k), f, m)
    <3>1. 1 \in Nat /\ BL \in Nat
      BY Sizes
    <3>2. QED
      BY <2>1, <2>2, <3>1, JoinAssoc, Zenon
  <2>4. QED
    BY <1>3, <1>7, <2>3, Zenon DEF Associates
<1>10. QED
  BY <1>1, <1>7, <1>8, <1>9, Zenon

LEMMA NumberInv ==
  ASSUME KInv, Number
  PROVE  KInv'
<1>1. /\ KFrame /\ KeySoFar /\ pc = "number" /\ TailsRaw /\ pos = 0
      /\ FedSalt /\ call.fn = "expand"
      /\ call' = call /\ dk' = dk /\ otail' = otail /\ itail' = itail /\ pos' = pos
      /\ HmacUpdate("octx", <<CounterCell(1, CB)>>) /\ pc' = "final"
  BY DEF KInv, Number, Preparing, scratch
<1>2. /\ swapped' = swapped /\ hmac' = hmac
      /\ Replaces(ctx', Ctx, ctx, "octx", Updated(ctx["octx"], <<CounterCell(1, CB)>>))
  BY <1>1, UpdateCall, Zenon
<1>3. Finished(ctx'["octx"]).state =
        Ref!HashOf(Ref!MaskedKey(Inner, call.pass) \o (call.salt \o <<CounterCell(1, CB)>>))
  <2>1. Finished(Updated(ctx["octx"], <<CounterCell(1, CB)>>)).state =
          Ref!HashOf(Ref!MaskedKey(Inner, call.pass) \o (call.salt \o <<CounterCell(1, CB)>>))
    BY <1>1, NumberFinishes DEF FedSalt
  <2>2. QED
    BY <1>2, <2>1, Zenon DEF Replaces
<1>4. Laid(hmac'["octx"], call.pass)
  BY <1>1, <1>2, Zenon DEF FedSalt, Prepares
<1>5. FedNumber'
  BY <1>1, <1>2, <1>3, <1>4, SameLoop, Zenon
<1>6. TailsRaw' /\ KFrame' /\ pos' = 0
  BY <1>1, <1>2, KFrameKept, TailsKept, Zenon DEF Replaces, KFrame
<1>7. KeySoFar'
  <2>1. Written = pos /\ Written' = pos'
    BY <1>1, WrittenIs, WrittenNext DEF Preparing
  <2>2. QED
    BY <1>1, <2>1, KeyKept, Zenon
<1>8. QED
  BY <1>1, <1>5, <1>6, <1>7 DEF KInv, Preparing
LEMMA LastBlockInv ==
  ASSUME KInv, LastBlock
  PROVE  KInv'
<1>1. /\ KFrame /\ KeySoFar /\ pc = "block" /\ Positioned
      /\ call' = call /\ dk' = dk /\ swapped' = swapped /\ ctx' = ctx /\ hmac' = hmac
      /\ pc' = "wipe" /\ nout >= call.end
  BY DEF KInv, LastBlock, vars, scratch
<1>2. KFrame'
  BY <1>1, KFrameKept, Zenon DEF KFrame
<1>3. Written = Written'
  <2>1. Written = pos /\ Written' = call.end - call.off
    BY <1>1, WrittenIs, WrittenNext
  <2>2. call.end \in Nat /\ call.off \in Nat /\ call.off <= call.end
    BY <1>1, CallFields, Zenon DEF KFrame
  <2>3. pos = call.end - call.off
    BY <1>1, <2>2 DEF Positioned
  <2>4. QED
    BY <2>1, <2>3
<1>4. KeySoFar'
  BY <1>1, <1>3, KeyKept, Zenon
<1>5. QED
  BY <1>1, <1>2, <1>4 DEF KInv, Preparing

LEMMA ExpandedBytes ==
  ASSUME NEW a, a.fn = "expand", a.off = 0, a.end \in Nat, a.end <= DL,
         NEW d, KeyOK(a, d, 0)
  PROVE  KeyOK(a, OffsetCopy(d, 0, SubSeq(Serialized(Expanded(a)), 1, a.end)), a.end - a.off)
<1>1. PICK n : n = Size(a) /\ n = a.end + DL /\ n \in Nat /\ a.end - a.off = a.end /\ DL \in Nat
  BY Sizes DEF Size
<1>2. IsFun(d, 1..n) /\ \A i \in 1..n : d[i] = IF i <= 0 THEN KeyByte(a, a.off + i) ELSE Junk
  BY <1>1, Zenon DEF KeyOK
<1>3. PICK v : v = Serialized(Expanded(a)) /\ IsFun(v, 1..DL)
               /\ \A j \in 1..DL : v[j] = Ref!DigestCell(Expanded(a), j)
  BY DigestFun, Zenon DEF Serialized
<1>4. PICK s : s = SubSeq(v, 1, a.end) /\ Prefix(s, a.end, v)
  <2>1. Prefix(SubSeq(v, 1, a.end), a.end, v)
    BY <1>1, <1>3, PrefixFun, Zenon
  <2>2. QED
    BY <2>1, Zenon
<1>5. PICK e : e = OffsetCopy(d, 0, s) /\ Copied(e, n, d, 0, a.end, s)
  <2>1. IsFun(s, 1..a.end) /\ 0 \in Int
    BY <1>4 DEF Prefix
  <2>2. Copied(OffsetCopy(d, 0, s), n, d, 0, a.end, s)
    BY <1>1, <1>2, <2>1, CopyFun, Zenon
  <2>3. QED
    BY <2>2, Zenon
<1>6. \A i \in 1..a.end : s[i] = KeyByte(a, i)
  <2>1. ASSUME NEW i \in 1..a.end PROVE s[i] = KeyByte(a, i)
    <3>1. i \in 1..DL /\ ((i - 1) % DL) + 1 = i
      BY <1>1, Sizes
    <3>2. s[i] = Ref!DigestCell(Expanded(a), i)
      BY <1>3, <1>4, <3>1, Zenon DEF Prefix, Agree
    <3>3. KeyByte(a, i) = Ref!DigestCell(Expanded(a), ((i - 1) % DL) + 1)
      BY Zenon DEF KeyByte
    <3>4. QED
      BY <3>1, <3>2, <3>3, Zenon
  <2>2. QED
    BY <2>1
<1>7. \A i \in 1..n : e[i] = IF i <= a.end THEN KeyByte(a, a.off + i) ELSE Junk
  <2>1. ASSUME NEW i \in 1..n PROVE e[i] = IF i <= a.end THEN KeyByte(a, a.off + i) ELSE Junk
    <3>1. /\ 0 < i /\ ~(i <= 0) /\ 0 + a.end = a.end /\ i - 0 = i /\ a.off + i = i
          /\ i <= a.end => i \in 1..a.end
      BY <1>1
    <3>2. e[i] = IF 0 < i /\ i <= 0 + a.end THEN s[i - 0] ELSE d[i]
      BY <1>5, Zenon DEF Copied
    <3>3. QED
      BY <1>2, <1>6, <3>1, <3>2, Zenon
  <2>2. QED
    BY <2>1
<1>8. QED
  BY <1>1, <1>3, <1>4, <1>5, <1>7, Zenon DEF KeyOK, Copied

LEMMA ExpandInv ==
  ASSUME KInv, Expand
  PROVE  KInv'
<1>1. /\ KFrame /\ KeySoFar /\ pc = "final" /\ pos = 0
      /\ FedNumber /\ call.fn = "expand" /\ call' = call
      /\ HmacFinal("octx") /\ pc' = "wipe"
      /\ dk' = OffsetCopy(dk, 0, SubSeq(Serialized(ctx'["octx"].state), 1, call.end))
  BY DEF KInv, Expand, Preparing
<1>2. /\ ctx' = [ctx EXCEPT !["octx"] = FinalCtx(ctx["octx"], hmac["octx"])]
      /\ hmac' = [hmac EXCEPT !["octx"] = FinalHmac(ctx["octx"], hmac["octx"])]
      /\ swapped' = swapped
  BY <1>1, HmacFinalForm
<1>3. Replaces(ctx', Ctx, ctx, "octx", FinalCtx(ctx["octx"], hmac["octx"]))
  <2>1. IsFun(ctx, Ctx) /\ "octx" \in Ctx
    BY <1>1, TwoContexts, Zenon DEF KFrame
  <2>2. QED
    BY <1>2, <2>1, FunExcept
<1>4. Replaces(hmac', Ctx, hmac, "octx", FinalHmac(ctx["octx"], hmac["octx"]))
  <2>1. IsFun(hmac, Ctx) /\ "octx" \in Ctx
    BY <1>1, TwoContexts, Zenon DEF KFrame
  <2>2. QED
    BY <1>2, <2>1, FunExcept
<1>5. KFrame'
  BY <1>1, <1>2, <1>3, <1>4, KFrameKept, Zenon DEF Replaces
<1>6. ctx'["octx"].state = Expanded(call)
  <2>1. PICK y : y = Finished(ctx["octx"])
    OBVIOUS
  <2>2. OuterHash(WithDigest(hmac["octx"], y.state))
          = Ref!HashOf(Ref!MaskedKey(Outer, call.pass) \o Ref!DigestOf(y.state))
    BY <1>1, OuterStep, Zenon DEF FedNumber
  <2>3. OuterHash(WithDigest(hmac["octx"], y.state)) = Expanded(call)
    BY <1>1, <2>1, <2>2, Zenon DEF FedNumber, Expanded, Ref!HmacOf
  <2>4. PICK v : v = OuterHash(WithDigest(hmac["octx"], y.state))
    OBVIOUS
  <2>5. FinalCtx(ctx["octx"], hmac["octx"]) = [y EXCEPT !.state = v]
    BY <2>1, <2>4, Zenon DEF FinalCtx
  <2>6. [y EXCEPT !.state = v].state = v
    <3>1. y = [data |-> y.data, bytelen |-> y.bytelen, state |-> y.state, datalen |-> y.datalen]
      BY <2>1 DEF Finished, CloseMessage
    <3>2. QED
      BY <3>1
  <2>7. QED
    BY <1>3, <2>3, <2>4, <2>5, <2>6, Zenon DEF Replaces
<1>7. KeySoFar'
  <2>1. Written = 0 /\ Written' = call.end - call.off
    BY <1>1, WrittenIs, WrittenNext DEF Preparing
  <2>2. call.off = 0 /\ call.end \in Nat /\ call.end <= DL
    BY <1>1, CallFields DEF KFrame
  <2>3. KeyOK(call, dk, 0)
    BY <1>1, <2>1, Zenon DEF KeySoFar
  <2>4. KeyOK(call, OffsetCopy(dk, 0, SubSeq(Serialized(Expanded(call)), 1, call.end)),
              call.end - call.off)
    BY <1>1, <2>2, <2>3, ExpandedBytes, Zenon
  <2>5. KeyOK(call, dk', Written')
    BY <1>1, <1>6, <2>1, <2>4, Zenon
  <2>6. QED
    BY <1>1, <2>5, Zenon DEF KeySoFar
<1>8. QED
  BY <1>1, <1>5, <1>7 DEF KInv, Preparing

LEMMA WipeInv ==
  ASSUME KInv, Wipe
  PROVE  KInv'
<1>1. /\ KFrame /\ KeySoFar /\ pc = "wipe" /\ pc' = "done" /\ call' = call /\ dk' = dk
      /\ swapped' = swapped
  BY DEF KInv, Wipe
<1>2. IsFun(ctx', Ctx) /\ IsFun(hmac', Ctx)
  BY DEF Wipe, IsFun
<1>3. KFrame'
  BY <1>1, <1>2, KFrameKept, Zenon
<1>4. KeySoFar'
  <2>1. Written = call.end - call.off /\ Written' = call.end - call.off
    BY <1>1, WrittenIs, WrittenNext
  <2>2. QED
    BY <1>1, <2>1, KeyKept, Zenon
<1>5. QED
  BY <1>1, <1>3, <1>4 DEF KInv, Preparing

LEMMA KStutterInv ==
  ASSUME KInv, UNCHANGED kdfVars
  PROVE  KInv'
<1>1. /\ swapped' = swapped /\ ctx' = ctx /\ hmac' = hmac /\ call' = call /\ pc' = pc
      /\ W' = W /\ otail' = otail /\ itail' = itail /\ oblks' = oblks /\ iblks' = iblks
      /\ block' = block /\ nout' = nout /\ pos' = pos /\ dk' = dk
  BY DEF kdfVars, vars, scratch
<1>2. KFrame => KFrame'
  BY <1>1 DEF KFrame, IsFun
<1>3. KeySoFar => KeySoFar'
  <2>1. Written' = Written
    BY <1>1, Zenon DEF Written
  <2>2. QED
    BY <1>1, <2>1, KeyKept, Zenon
<1>4. TailsRaw => TailsRaw'
  BY <1>1, TailsKept, Zenon
<1>5. Raw => Raw'
  BY <1>1, Zenon DEF Raw, Shaped, IsFun
<1>6. OtherShaped => OtherShaped'
  BY <1>1, Zenon DEF OtherShaped
<1>7. Multi' <=> Multi
  BY <1>1, SameCall, Zenon
<1>8. (KeyedOnly => KeyedOnly') /\ (Based => Based')
  BY <1>1, SameCall, Zenon DEF KeyedOnly, Based
<1>9. (FedNothing => FedNothing') /\ (FedSalt => FedSalt')
  BY <1>1, SameCall, Zenon DEF FedNothing, FedSalt
<1>10. FedNumber => FedNumber'
  BY <1>1, SameLoop, Zenon DEF FedNumber
<1>11. OuterBuffer => OuterBuffer'
  BY <1>1, SameLoop, Zenon DEF OuterBuffer, FedSalt
<1>12. InnerBuffer => InnerBuffer'
  BY <1>1, SameLoop, Zenon DEF InnerBuffer, LoopReady
<1>13. Positioned => Positioned'
  BY <1>1, Zenon DEF Positioned
<1>14. QED
  BY <1>1, <1>2, <1>3, <1>4, <1>5, <1>6, <1>7, <1>8, <1>9, <1>10, <1>11, <1>12, <1>13, Zenon
  DEF KInv
\* Where the salt ends in the context that was fed it.
SaltEnd(x, q, k) ==
  /\ q \in Nat /\ x.bytelen = q * BL /\ x.datalen = k /\ k \in Nat
  /\ IsFun(x.data, 1..BL) /\ k < BL

LEMMA LengthParts ==
  ASSUME NEW q \in Nat, NEW b, b = q * BL, NEW k \in Nat, k < BL, NEW l \in Nat, b + k = BL + l
  PROVE  k = l % BL
<1>1. q # 0
  <2>1. ASSUME q = 0 PROVE FALSE
    <3>1. b = 0 /\ BL \in Nat
      BY <2>1, Sizes
    <3>2. QED
      BY <3>1
  <2>2. QED
    BY <2>1
<1>2. PICK p : p = q - 1 /\ p \in Nat
  BY <1>1
<1>3. q * BL = p * BL + BL
  BY <1>2, Sizes
<1>4. PICK r : r = p * BL /\ r \in Nat
  BY <1>2, Sizes
<1>5. l = r + k
  BY <1>3, <1>4, Sizes
<1>6. (p * BL + k) % BL = k
  BY <1>2, ModOf, Zenon
<1>7. QED
  BY <1>4, <1>5, <1>6, Zenon

LEMMA SaltEnds ==
  ASSUME NEW x, NEW h, NEW k, NEW f, Prepares(x, h, k, f)
  PROVE  \E q : SaltEnd(x, q, Len(f) % BL)
<1>1. /\ x \in ContextOf(InnerCell) /\ Aligned(x)
      /\ Absorbed(x) = Ref!MaskedKey(Inner, k) \o f /\ f \in Seq(Byte)
  BY Zenon DEF Prepares
<1>2. /\ x.data \in BlockOf(InnerCell) /\ x.bytelen \in Nat /\ x.datalen \in Nat /\ x.datalen < BL
  BY <1>1, Fields DEF Aligned
<1>3. PICK q \in Nat : x.bytelen = q * BL
  BY <1>1, <1>2 DEF Aligned
<1>4. PICK l : l = Len(f) /\ l \in Nat /\ IsFun(f, 1..l)
  BY <1>1, SeqFun, Zenon
<1>5. x.bytelen + x.datalen = BL + l
  <2>1. Len(Absorbed(x)) = x.bytelen + x.datalen
    BY <1>1, AbsorbedType
  <2>2. IsFun(Ref!MaskedKey(Inner, k), 1..BL) /\ BL \in Nat
    BY MaskedKeyFun, Sizes, Zenon
  <2>3. Joined(Ref!MaskedKey(Inner, k) \o f, BL, Ref!MaskedKey(Inner, k), l, f)
    BY <1>4, <2>2, JoinFun, Zenon
  <2>4. IsFun(Absorbed(x), 1..(BL + l)) /\ BL + l \in Nat
    BY <1>1, <1>4, <2>2, <2>3 DEF Joined
  <2>5. Len(Absorbed(x)) = BL + l
    BY <2>4, FunLen, Zenon
  <2>6. QED
    BY <2>1, <2>5, Zenon
<1>6. x.datalen = l % BL
  <2>1. PICK b, d : b = x.bytelen /\ d = x.datalen
    OBVIOUS
  <2>2. d = l % BL
    BY <1>2, <1>3, <1>4, <1>5, <2>1, LengthParts
  <2>3. QED
    BY <2>1, <2>2, Zenon
<1>7. IsFun(x.data, 1..BL)
  <2>1. x.data = [i \in 1..BL |-> x.data[i]]
    BY <1>2 DEF BlockOf
  <2>2. QED
    BY <2>1, Zenon DEF IsFun
<1>8. SaltEnd(x, q, l % BL)
  BY <1>2, <1>3, <1>6, <1>7, Zenon DEF SaltEnd
<1>9. QED
  BY <1>4, <1>8, Zenon

LEMMA OuterTail ==
  ASSUME NEW x, NEW q, NEW k, SaltEnd(x, q, k), k + CB < BL, NEW t, IsFun(t, 1..(2 * BL)),
         NEW o, o = HashTail(OffsetCopy(t, 0, SubSeq(x.data, 1, x.datalen)),
                             x.bytelen + x.datalen + CB)
  PROVE  o.blks = Closing(x.datalen + CB) /\ OutTail(o.d, x)
<1>1. /\ q \in Nat /\ x.bytelen = q * BL /\ x.datalen = k /\ k \in Nat
      /\ IsFun(x.data, 1..BL) /\ k < BL /\ k <= BL /\ CB \in Nat /\ BL \in Nat /\ 2 * BL \in Nat
      /\ k + CB \in Nat /\ k <= k + CB
  BY KeyDerivationAssumption, Sizes DEF SaltEnd
<1>2. PICK s : s = SubSeq(x.data, 1, k) /\ Prefix(s, k, x.data)
  <2>1. Prefix(SubSeq(x.data, 1, k), k, x.data)
    BY <1>1, PrefixFun, Zenon
  <2>2. QED
    BY <2>1, Zenon
<1>3. PICK d : d = OffsetCopy(t, 0, s) /\ Copied(d, 2 * BL, t, 0, k, s)
  <2>1. IsFun(s, 1..k) /\ 0 \in Int
    BY <1>2 DEF Prefix
  <2>2. Copied(OffsetCopy(t, 0, s), 2 * BL, t, 0, k, s)
    BY <1>1, <2>1, CopyFun, Zenon
  <2>3. QED
    BY <2>2, Zenon
<1>4. Agree(1..k, d, x.data)
  <2>1. ASSUME NEW i \in 1..k PROVE d[i] = x.data[i]
    <3>1. i \in 1..(2 * BL) /\ 0 < i /\ i <= 0 + k /\ i - 0 = i
      BY <1>1
    <3>2. d[i] = s[i - 0]
      BY <1>3, <3>1, Zenon DEF Copied
    <3>3. s[i] = x.data[i]
      BY <1>2, Zenon DEF Prefix, Agree
    <3>4. QED
      BY <3>1, <3>2, <3>3, Zenon
  <2>2. QED
    BY <2>1 DEF Agree
<1>5. PICK n : /\ n = x.bytelen + x.datalen + CB /\ n \in Nat
               /\ (q * BL + (k + CB)) % BL = k + CB /\ n = q * BL + (k + CB)
  <2>1. (q * BL + (k + CB)) % BL = k + CB
    BY <1>1, ModOf
  <2>2. PICK b : b = q * BL /\ b \in Nat
    BY <1>1
  <2>3. b + k + CB \in Nat /\ b + k + CB = b + (k + CB)
    BY <1>1, <2>2
  <2>4. QED
    BY <1>1, <2>1, <2>2, <2>3, Zenon
<1>6. PICK r : r = k + CB /\ r \in Nat /\ r = n % BL /\ r < BL
  BY <1>1, <1>5, Zenon
<1>7. Tailed(HashTail(d, n), d, r, n)
  BY <1>3, <1>5, <1>6, TailFun, Zenon DEF Copied
<1>8. o = HashTail(d, n)
  BY <1>1, <1>2, <1>3, <1>5, Zenon
<1>9. Agree(1..x.datalen, o.d, x.data)
  <2>1. \A i \in 1..k : i \in 1..r
    BY <1>1, <1>6
  <2>2. QED
    BY <1>1, <1>4, <1>7, <1>8, <2>1, Zenon DEF Tailed, Agree
<1>10. QED
  BY <1>1, <1>5, <1>6, <1>7, <1>8, <1>9, Zenon DEF Tailed, OutTail

LEMMA InnerTail ==
  ASSUME NEW t, IsFun(t, 1..(2 * BL)), NEW o, o = HashTail(t, BL + DL)
  PROVE  o.blks = Closing(DL) /\ InTail(Flip(o.d))
<1>1. PICK r : r = DL /\ r \in Nat /\ r < BL
  BY Sizes
<1>2. BL + DL \in Nat /\ r = (BL + DL) % BL /\ ILen = BL + DL
  <2>1. (1 * BL + DL) % BL = DL
    BY <1>1, ModOf
  <2>2. 1 * BL = BL
    BY Sizes
  <2>3. QED
    BY <1>1, <2>1, <2>2, Sizes DEF ILen
<1>3. Tailed(HashTail(t, BL + DL), t, r, BL + DL)
  BY <1>1, <1>2, TailFun, Zenon
<1>4. Flip(Flip(o.d)) = o.d
  BY <1>3, TwoBlocks, FlipTwice, Zenon DEF Tailed
<1>5. IsFun(Flip(o.d), 1..(2 * BL))
  <2>1. Flipped(Flip(o.d), 2 * BL, o.d)
    BY <1>3, TwoBlocks, FlipFun, Zenon DEF Tailed
  <2>2. QED
    BY <2>1, Zenon DEF Flipped
<1>6. QED
  BY <1>1, <1>2, <1>3, <1>4, <1>5, Zenon DEF Tailed, InTail

LEMMA KeyedOuter ==
  ASSUME NEW h, NEW k, Laid(h, k)
  PROVE  Native(Start, h, 1) = KeyState(Outer, k)
<1>1. /\ OuterEnd \in Nat /\ BL \in Nat /\ BL <= OuterEnd /\ 1 \in Nat /\ 1 < NBLK /\ BL = 1 * BL
  BY BlockFits, Sizes
<1>2. IsFun(h, 1..OuterEnd) /\ Reads(h, BL, Ref!MaskedKey(Outer, k))
  BY Zenon DEF Laid, Reads
<1>3. IsFun(Ref!MaskedKey(Outer, k), 1..BL)
  BY MaskedKeyFun, Zenon
<1>4. QED
  BY <1>1, <1>2, <1>3, NativeStart, Zenon DEF KeyState
LEMMA StartPlaces ==
  ASSUME NEW o \in Nat
  PROVE  /\ (o \div DL) + 1 \in Nat /\ (o \div DL) + 1 >= 1
         /\ o - (o % DL) \in Nat /\ o - (o % DL) <= o /\ (o - (o % DL)) + DL > o
         /\ o - (o % DL) = (((o \div DL) + 1) - 1) * DL
<1>1. DL \in Nat /\ DL > 0
  BY Sizes
<1>2. PICK q, r : q = o \div DL /\ r = o % DL
  OBVIOUS
<1>3. q \in Nat /\ r \in 0..(DL - 1) /\ o = DL * q + r
  BY <1>1, <1>2
<1>4. PICK z : z = q * DL /\ z \in Nat /\ DL * q = z
  BY <1>1, <1>3
<1>5. (q + 1) - 1 = q
  BY <1>3
<1>6. ((q + 1) - 1) * DL = z
  BY <1>4, <1>5
<1>7. q + 1 \in Nat /\ q + 1 >= 1 /\ o - r = z /\ o - r <= o /\ (o - r) + DL > o
  BY <1>1, <1>3, <1>4
<1>8. QED
  BY <1>2, <1>4, <1>6, <1>7

LEMMA LayoutInv ==
  ASSUME CarefulRequests, KInv, Layout
  PROVE  KInv'
<1>1. /\ KFrame /\ KeySoFar /\ pc = "layout" /\ TailsRaw /\ pos = 0
      /\ call.fn # "expand" /\ FedSalt /\ (Multi => Based)
      /\ call' = call /\ dk' = dk /\ pos' = pos /\ pc' = "block"
      /\ swapped' = swapped /\ ctx' = ctx /\ hmac' = hmac
  BY DEF KInv, Layout, Preparing, vars
<1>2. PICK x, outer, inner :
        /\ x = ctx["octx"]
        /\ outer = HashTail(OffsetCopy(otail, 0, SubSeq(x.data, 1, x.datalen)),
                            x.bytelen + x.datalen + CB)
        /\ inner = HashTail(itail, BL + DL)
        /\ W' = Native(Start, hmac["ictx"], 1)
        /\ otail' = outer.d /\ oblks' = outer.blks
        /\ itail' = Flip(inner.d) /\ iblks' = inner.blks
        /\ block' = (call.off \div DL) + 1
        /\ nout' = call.off - (call.off % DL)
  BY Zenon DEF Layout
<1>3. Prepares(x, hmac["octx"], call.pass, call.salt)
  BY <1>1, <1>2, Zenon DEF FedSalt
<1>4. PICK k : k = Len(call.salt) % BL
  OBVIOUS
<1>5. PICK q : SaltEnd(x, q, k)
  BY <1>3, <1>4, SaltEnds, Zenon
<1>6. k + CB < BL
  BY <1>1, <1>4, Zenon DEF CarefulRequests, KFrame
<1>7. outer.blks = Closing(x.datalen + CB) /\ OutTail(outer.d, x)
  <2>1. IsFun(otail, 1..(2 * BL))
    BY <1>1, Zenon DEF TailsRaw
  <2>2. QED
    BY <1>2, <1>5, <1>6, <2>1, OuterTail, Zenon
<1>8. inner.blks = Closing(DL) /\ InTail(Flip(inner.d))
  BY <1>1, <1>2, InnerTail, Zenon DEF TailsRaw
<1>9. OuterBuffer'
  <2>1. x.datalen + CB < BL
    BY <1>5, <1>6, Zenon DEF SaltEnd
  <2>2. QED
    BY <1>1, <1>2, <1>3, <1>7, <2>1, SameLoop, Zenon
<1>10. Multi' => InnerBuffer'
  <2>1. SUFFICES ASSUME Multi PROVE InnerBuffer'
    BY <1>1, SameCall, Zenon
  <2>2. ctx["ictx"].state = KeyState(Inner, call.pass) /\ Laid(hmac["ictx"], call.pass)
    BY <1>1, <2>1, Zenon DEF Based
  <2>3. W' = KeyState(Outer, call.pass)
    BY <1>2, <2>2, KeyedOuter, Zenon
  <2>4. swapped /\ call.c # 1 => SL = DL
    <3>1. SUFFICES ASSUME swapped, call.c # 1 PROVE SL = DL
      OBVIOUS
    <3>2. swapped = TRUE
      <4>1. swapped \in BOOLEAN
        BY <1>1, HmacAssumption, Zenon DEF KFrame
      <4>2. QED
        BY <3>1, <4>1, Zenon
    <3>3. TRUE \in Hosts[call.fn]
      BY <1>1, <3>2, Zenon DEF KFrame
    <3>4. QED
      BY <1>1, <3>1, <3>3, Zenon DEF CarefulRequests, KFrame
  <2>5. QED
    BY <1>1, <1>2, <1>8, <2>2, <2>3, <2>4, SameLoop, Zenon
<1>11. Positioned'
  <2>1. PICK o, e : o = call.off /\ e = call.end /\ o \in Nat /\ e \in Nat /\ o <= e
    BY <1>1, CallFields, Zenon DEF KFrame
  <2>2. PICK b, z : b = (o \div DL) + 1 /\ z = o - (o % DL)
    OBVIOUS
  <2>3. /\ b \in Nat /\ b >= 1 /\ z \in Nat /\ z <= o /\ z + DL > o /\ z = (b - 1) * DL
    BY <2>1, <2>2, StartPlaces
  <2>4. block' = b /\ nout' = z /\ pos' = 0 /\ call'.off = o /\ call'.end = e
    BY <1>1, <1>2, <2>1, <2>2, Zenon
  <2>5. z <= e /\ 0 = IF z < o THEN 0 ELSE z - o
    BY <2>1, <2>3
  <2>6. 0 \in Nat
    OBVIOUS
  <2>7. QED
    BY <2>3, <2>4, <2>5, <2>6, Zenon DEF Positioned
<1>12. KFrame'
  BY <1>1, KFrameKept, Zenon DEF KFrame
<1>13. KeySoFar'
  <2>1. Written = pos /\ Written' = pos'
    BY <1>1, WrittenIs, WrittenNext DEF Preparing
  <2>2. QED
    BY <1>1, <2>1, KeyKept, Zenon
<1>14. call'.fn # "expand"
  BY <1>1, Zenon
<1>15. QED
  BY <1>1, <1>9, <1>10, <1>11, <1>12, <1>13, <1>14 DEF KInv, Preparing

\* A block is given out, and the loop goes on behind it.
Cuts(o, e, n, p, from, upto) ==
  /\ from \in Nat /\ upto \in Nat /\ from <= upto /\ upto <= DL
  /\ p <= e - o /\ o + p = n + from /\ upto - from \in Nat
  /\ e < n + DL => p + (upto - from) = e - o
  /\ ~(e < n + DL) => /\ n + DL <= e /\ n + DL \in Nat /\ (n + DL) + DL > o
                      /\ p + (upto - from) \in Nat
                      /\ p + (upto - from) = IF n + DL < o THEN 0 ELSE (n + DL) - o

LEMMA OutputPlaces ==
  ASSUME NEW o \in Nat, NEW e \in Nat, o <= e, NEW n \in Nat, n < e, n + DL > o,
         NEW p, p = IF n < o THEN 0 ELSE n - o,
         NEW from, from = IF n < o THEN o - n ELSE 0,
         NEW upto, upto = IF e < n + DL THEN e - n ELSE DL
  PROVE  Cuts(o, e, n, p, from, upto)
BY Sizes DEF Cuts

LEMMA NextBlock ==
  ASSUME NEW b \in Nat, b >= 1, NEW n, n = (b - 1) * DL
  PROVE  b + 1 \in Nat /\ b + 1 >= 1 /\ n + DL = ((b + 1) - 1) * DL
<1>1. PICK c : c = b - 1 /\ c \in Nat /\ b = c + 1 /\ (b + 1) - 1 = c + 1
  OBVIOUS
<1>2. (c + 1) * DL = c * DL + DL
  BY <1>1, Sizes
<1>3. QED
  BY <1>1, <1>2

LEMMA EmitGrows ==
  ASSUME KFrame, KeySoFar, pc = "block", call.fn # "expand", Positioned, nout < call.end,
         call' = call, Emit(Chained(call, block))
  PROVE  KeySoFar' /\ (pc' = "wipe" \/ (pc' = "block" /\ Positioned'))
<1>1. PICK o, e : /\ o = call.off /\ e = call.end /\ o \in Nat /\ e \in Nat /\ o <= e
                  /\ nout < e
  BY CallFields, Zenon DEF KFrame
<1>2. /\ block \in Nat /\ block >= 1 /\ nout \in Nat /\ pos \in Nat
      /\ nout = (block - 1) * DL /\ nout + DL > o
      /\ pos = IF nout < o THEN 0 ELSE nout - o
  BY <1>1, Zenon DEF Positioned
<1>3. PICK from, upto : /\ from = IF nout < o THEN o - nout ELSE 0
                        /\ upto = IF e < nout + DL THEN e - nout ELSE DL
  OBVIOUS
<1>4. /\ from \in Nat /\ upto \in Nat /\ from <= upto /\ upto <= DL
      /\ pos <= e - o /\ o + pos = nout + from /\ upto - from \in Nat
      /\ e < nout + DL => pos + (upto - from) = e - o
      /\ ~(e < nout + DL) => /\ nout + DL <= e /\ nout + DL \in Nat /\ (nout + DL) + DL > o
                             /\ pos + (upto - from) \in Nat
                             /\ pos + (upto - from) = IF nout + DL < o THEN 0 ELSE (nout + DL) - o
  <2>1. Cuts(o, e, nout, pos, from, upto)
    BY <1>1, <1>2, <1>3, OutputPlaces
  <2>2. QED
    BY <2>1, Zenon DEF Cuts
<1>5. PICK T : T = Chained(call, block)
  OBVIOUS
<1>6. PICK out : /\ out = SubSeq(Serialized(T), from + 1, upto) /\ out = Output(T)
  BY <1>1, <1>3 DEF Output
<1>7. Len(out) = upto - from
  <2>1. PICK v : v = Serialized(T) /\ IsFun(v, 1..DL)
    BY DigestFun, Zenon DEF Serialized
  <2>2. IsFun(out, 1..(upto - from))
    BY <1>4, <1>6, <2>1, Sizes, PartFun
  <2>3. QED
    BY <1>4, <2>2, FunLen, Zenon
<1>8. KeyOK(call, OffsetCopy(dk, pos, out), pos + (upto - from))
  <2>1. KeyOK(call, dk, pos)
    BY WrittenIs, Zenon DEF KeySoFar
  <2>2. call.off + pos = (block - 1) * DL + from /\ pos <= call.end - call.off
    BY <1>1, <1>2, <1>4, Zenon
  <2>3. call.off \in Nat /\ call.end \in Nat /\ call.off <= call.end
    BY <1>1, Zenon
  <2>4. KeyOK(call, OffsetCopy(dk, pos, SubSeq(Serialized(Chained(call, block)), from + 1, upto)),
              pos + (upto - from))
    BY <1>2, <1>4, <2>1, <2>2, <2>3, KeyGrows, Zenon
  <2>5. QED
    BY <1>5, <1>6, <2>4, Zenon
<1>9. dk' = OffsetCopy(dk, pos, out)
  BY <1>5, <1>6, Zenon DEF Emit
<1>10. CASE e < nout + DL
  <2>1. pc' = "wipe"
    BY <1>1, <1>10, Zenon DEF Emit
  <2>2. Written' = pos + (upto - from)
    <3>1. Written' = call'.end - call'.off
      BY <2>1, WrittenNext
    <3>2. QED
      BY <1>1, <1>4, <1>10, <3>1, Zenon
  <2>3. KeySoFar'
    BY <1>8, <1>9, <2>2, Zenon DEF KeySoFar
  <2>4. QED
    BY <2>1, <2>3
<1>11. CASE ~(e < nout + DL)
  <2>1. /\ pc' = "block" /\ pos' = pos + Len(out) /\ nout' = nout + DL /\ block' = block + 1
    BY <1>1, <1>5, <1>6, <1>11, Zenon DEF Emit
  <2>2. pos' = pos + (upto - from) /\ Written' = pos'
    BY <1>7, <2>1, WrittenNext, Zenon
  <2>3. KeySoFar'
    BY <1>8, <1>9, <2>2, Zenon DEF KeySoFar
  <2>4. /\ block' \in Nat /\ block' >= 1 /\ nout' = (block' - 1) * DL
    BY <1>2, <2>1, NextBlock
  <2>5. nout' \in Nat /\ nout' <= e /\ nout' + DL > o /\ pos' \in Nat
        /\ pos' = IF nout' < o THEN 0 ELSE nout' - o
    BY <1>4, <1>11, <2>1, <2>2, Zenon
  <2>6. Positioned'
    BY <1>1, <2>4, <2>5, Zenon DEF Positioned
  <2>7. QED
    BY <2>1, <2>3, <2>6
<1>12. QED
  BY <1>10, <1>11
LEMMA ChainedIs ==
  ASSUME NEW a, NEW n
  PROVE  Chained(a, n) = Sums(a, n)[a.c]
BY Zenon DEF Chained

\* The outer buffer, with the number of a block, gives its first inner hash.
LEMMA FirstInner ==
  ASSUME KFrame, OuterBuffer, NEW n, NEW t,
         t = OffsetCopy(otail, ctx["octx"].datalen, STOR32BE(n))
  PROVE  /\ OutTail(t, ctx["octx"])
         /\ OuterHash(WithDigest(hmac["octx"], First(t))) = Chain(call, n)[1]
<1>1. PICK x : x = ctx["octx"]
  OBVIOUS
<1>2. /\ Prepares(x, hmac["octx"], call.pass, call.salt)
      /\ x.datalen + CB < BL /\ oblks = Closing(x.datalen + CB) /\ OutTail(otail, x)
  BY <1>1, Zenon DEF OuterBuffer, FedSalt
<1>3. x \in ContextOf(InnerCell) /\ Aligned(x) /\ x.state.iv = StdIV
  BY <1>2, Zenon DEF Prepares
<1>4. Numbered(t, x, n)
  BY <1>1, <1>2, <1>3, NumberHashed, Zenon
<1>5. First(t) = Ref!HashOf(Absorbed(x) \o STOR32BE(n))
  BY <1>1, <1>2, <1>4, Zenon DEF First, Numbered
<1>6. OuterHash(WithDigest(hmac["octx"], Ref!HashOf(Absorbed(x) \o STOR32BE(n)))) = Chain(call, n)[1]
  BY <1>2, FirstOfChain, Zenon DEF KFrame
<1>7. QED
  BY <1>1, <1>4, <1>5, <1>6, Zenon DEF Numbered

LEMMA DeriveBlockInv ==
  ASSUME KInv, DeriveBlock
  PROVE  KInv'
<1>1. /\ KFrame /\ KeySoFar /\ pc = "block" /\ call.fn # "expand" /\ Multi
      /\ OuterBuffer /\ InnerBuffer /\ Positioned /\ nout < call.end
      /\ swapped' = swapped /\ ctx' = ctx /\ call' = call /\ W' = W
      /\ oblks' = oblks /\ iblks' = iblks
      /\ otail' = OffsetCopy(otail, ctx["octx"].datalen, STOR32BE(block))
  BY DEF KInv, DeriveBlock, Multi
<1>2. PICK h, end : /\ h = WithDigest(hmac["octx"], First(otail'))
                    /\ end = Iterated(OuterHash(h))
                    /\ hmac' = [hmac EXCEPT !["octx"] = h, !["ictx"] = end.outer]
                    /\ itail' = end.itail /\ Emit(end.T)
  BY Zenon DEF DeriveBlock
<1>3. OutTail(otail', ctx["octx"]) /\ OuterHash(h) = Chain(call, block)[1]
  BY <1>1, <1>2, FirstInner, Zenon
<1>4. AtRound(end, block, call.c)
  <2>1. LoopReady /\ InTail(itail) /\ Laid(hmac["ictx"], call.pass)
    BY <1>1, Zenon DEF InnerBuffer
  <2>2. call.c \in Nat /\ call.c >= 1
    BY <1>1, CallFields DEF KFrame
  <2>3. QED
    BY <1>2, <1>3, <2>1, <2>2, RoundsFollow, Zenon
<1>5. KeySoFar' /\ (pc' = "wipe" \/ (pc' = "block" /\ Positioned'))
  <2>1. end.T = Chained(call, block)
    BY <1>4, ChainedIs, Zenon DEF AtRound
  <2>2. QED
    BY <1>1, <1>2, <2>1, EmitGrows, Zenon
<1>6. PICK g : g = [hmac EXCEPT !["octx"] = h] /\ Replaces(g, Ctx, hmac, "octx", h)
  <2>1. IsFun(hmac, Ctx) /\ "octx" \in Ctx
    BY <1>1, TwoContexts, Zenon DEF KFrame
  <2>2. Replaces([hmac EXCEPT !["octx"] = h], Ctx, hmac, "octx", h)
    BY <2>1, FunExcept
  <2>3. QED
    BY <2>2, Zenon
<1>7. Replaces(hmac', Ctx, g, "ictx", end.outer)
  <2>1. IsFun(g, Ctx) /\ "ictx" \in Ctx
    BY <1>6, TwoContexts, Zenon DEF Replaces
  <2>2. hmac' = [g EXCEPT !["ictx"] = end.outer]
    BY <1>2, <1>6
  <2>3. QED
    BY <2>1, <2>2, FunExcept
<1>8. IsFun(hmac', Ctx) /\ hmac'["octx"] = h /\ hmac'["ictx"] = end.outer
  BY <1>6, <1>7, TwoContexts, Zenon DEF Replaces
<1>9. OuterBuffer'
  <2>1. Prepares(ctx["octx"], hmac["octx"], call.pass, call.salt)
        /\ ctx["octx"].datalen + CB < BL /\ oblks = Closing(ctx["octx"].datalen + CB)
    BY <1>1, Zenon DEF OuterBuffer, FedSalt
  <2>2. Laid(h, call.pass)
    BY <1>2, <2>1, WithDigestLaid, Zenon DEF Prepares
  <2>3. Prepares(ctx'["octx"], hmac'["octx"], call.pass, call.salt)
    BY <1>1, <1>8, <2>1, <2>2, Zenon DEF Prepares
  <2>4. QED
    BY <1>1, <1>3, <2>1, <2>3, SameLoop, Zenon
<1>10. InnerBuffer'
  <2>1. InTail(itail') /\ Laid(hmac'["ictx"], call.pass)
    BY <1>2, <1>4, <1>8, Zenon DEF AtRound
  <2>2. QED
    BY <1>1, <2>1, SameLoop, Zenon DEF InnerBuffer, LoopReady
<1>11. KFrame'
  BY <1>1, <1>8, KFrameKept, Zenon DEF KFrame
<1>12. QED
  BY <1>1, <1>5, <1>9, <1>10, <1>11 DEF KInv, Preparing

LEMMA DeriveOnceInv ==
  ASSUME CarefulRequests, KInv, DeriveOnce
  PROVE  KInv'
<1>1. /\ KFrame /\ KeySoFar /\ pc = "block" /\ call.fn # "expand" /\ ~Multi /\ call.fn = "one"
      /\ OuterBuffer /\ Positioned /\ nout < call.end
      /\ swapped' = swapped /\ ctx' = ctx /\ call' = call
      /\ oblks' = oblks
      /\ otail' = OffsetCopy(otail, ctx["octx"].datalen, STOR32BE(block))
  BY DEF KInv, DeriveOnce, Multi
<1>2. PICK st, h : /\ st = First(otail')
                   /\ h = SerializedInner(hmac["octx"], st)
                   /\ hmac' = [hmac EXCEPT !["octx"] = h]
                   /\ Emit({Transform(Start, h, OuterBlocks)})
  BY Zenon DEF DeriveOnce
<1>3. OutTail(otail', ctx["octx"]) /\ OuterHash(WithDigest(hmac["octx"], st)) = Chain(call, block)[1]
  BY <1>1, <1>2, FirstInner, Zenon
<1>4. Laid(hmac["octx"], call.pass)
  BY <1>1, Zenon DEF OuterBuffer, FedSalt, Prepares
<1>5. /\ h = WithDigest(hmac["octx"], st)
      /\ {Transform(Start, h, OuterBlocks)} = Chained(call, block)
  <2>1. call \in Calls /\ call.c = 1
    BY <1>1, CallFields DEF KFrame
  <2>2. ~swapped
    <3>1. swapped \in Hosts["one"] /\ TRUE \notin Hosts["one"]
      BY <1>1, Zenon DEF KFrame, CarefulRequests
    <3>2. swapped # TRUE /\ swapped \in BOOLEAN
      BY <1>1, <3>1, HmacAssumption, Zenon DEF KFrame
    <3>3. QED
      BY <3>2, Zenon
  <2>3. QED
    BY <1>2, <1>3, <1>4, <2>1, <2>2, OnceIs, Zenon
<1>6. KeySoFar' /\ (pc' = "wipe" \/ (pc' = "block" /\ Positioned'))
  BY <1>1, <1>2, <1>5, EmitGrows, Zenon
<1>7. Replaces(hmac', Ctx, hmac, "octx", h)
  <2>1. IsFun(hmac, Ctx) /\ "octx" \in Ctx
    BY <1>1, TwoContexts, Zenon DEF KFrame
  <2>2. QED
    BY <1>2, <2>1, FunExcept
<1>8. OuterBuffer'
  <2>1. Prepares(ctx["octx"], hmac["octx"], call.pass, call.salt)
        /\ ctx["octx"].datalen + CB < BL /\ oblks = Closing(ctx["octx"].datalen + CB)
    BY <1>1, Zenon DEF OuterBuffer, FedSalt
  <2>2. Laid(h, call.pass)
    BY <1>4, <1>5, WithDigestLaid, Zenon
  <2>3. Prepares(ctx'["octx"], hmac'["octx"], call.pass, call.salt)
    BY <1>1, <1>7, <2>1, <2>2, Zenon DEF Prepares, Replaces
  <2>4. QED
    BY <1>1, <1>3, <2>1, <2>3, SameLoop, Zenon
<1>9. KFrame' /\ ~Multi'
  BY <1>1, <1>7, KFrameKept, SameCall, Zenon DEF KFrame, Replaces
<1>10. QED
  BY <1>1, <1>6, <1>8, <1>9 DEF KInv, Preparing

LEMMA KInitInv == KInit => KInv
<1> SUFFICES ASSUME KInit PROVE KInv
  OBVIOUS
<1>1. /\ Init /\ call \in Calls /\ swapped \in Hosts[call.fn] /\ pc = "key" /\ pos = 0
      /\ otail = Unwritten(2 * BL) /\ itail = Unwritten(2 * BL)
      /\ dk = Unwritten(call.end - call.off + DL)
  BY DEF KInit
<1>2. Frame /\ GoodAll
  BY <1>1, InitInv, IInvIs, Zenon
<1>3. KFrame
  BY <1>1, <1>2, Zenon DEF KFrame, Frame
<1>4. Raw
  BY <1>2, Zenon DEF Raw, GoodAll, Good
<1>5. TailsRaw
  BY <1>1 DEF TailsRaw, Unwritten, IsFun
<1>6. KeySoFar
  <2>1. Written = 0
    BY <1>1, WrittenIs DEF Preparing
  <2>2. PICK n : n = Size(call) /\ dk = Unwritten(n)
    BY <1>1, Zenon DEF Size
  <2>3. dk = [i \in 1..n |-> Junk]
    BY <2>2, Zenon DEF Unwritten
  <2>4. IsFun(dk, 1..n) /\ \A i \in 1..n : dk[i] = Junk /\ ~(i <= 0)
    BY <2>3 DEF IsFun
  <2>5. QED
    BY <2>1, <2>2, <2>4, Zenon DEF KeySoFar, KeyOK
<1>7. QED
  BY <1>1, <1>3, <1>4, <1>5, <1>6 DEF KInv, Preparing

LEMMA KNextInv ==
  ASSUME ShortCalls, LengthInOrder, CarefulRequests, KInv, [KNext]_kdfVars
  PROVE  KInv'
<1>1. CASE Derive
  BY <1>1, KeyInv, CloneInv, FeedInv, LayoutInv, DeriveBlockInv, DeriveOnceInv, LastBlockInv,
     NumberInv, ExpandInv, WipeInv, Zenon DEF Derive
<1>2. CASE Done \/ UNCHANGED kdfVars
  BY <1>2, KStutterInv, Zenon DEF Done
<1>3. QED
  BY <1>1, <1>2, Zenon DEF KNext

LEMMA KInvKey == KInv => DerivedKey
<1> SUFFICES ASSUME KInv PROVE DerivedKey
  OBVIOUS
<1>1. KeyOK(call, dk, Written) /\ call \in Calls
  BY Zenon DEF KInv, KeySoFar, KFrame
<1>2. PICK n : n = Size(call) /\ n \in Nat
  <2>1. call.end \in Nat /\ call.off \in Nat /\ call.off <= call.end /\ DL \in Nat
    BY <1>1, CallFields, Sizes, Zenon
  <2>2. QED
    BY <2>1 DEF Size
<1>3. DOMAIN dk = 1..n
  BY <1>1, <1>2, FunLen, Zenon DEF KeyOK
<1>4. QED
  BY <1>1, <1>2, <1>3, Zenon DEF KeyOK, DerivedKey

-----------------------------------------------------------------------------
\* Whatever the sizes, the passwords, the salts, the iterations, the ranges and the
\* old bytes in the scratch memory: every byte PBKDF2 and the one block of HKDF(Expand)
\* have given out is the byte of the key the RFC defines, from the blocks laid out once
\* and reused for every iteration and block, and they write no byte beyond the range,
\* as long as the callers keep to CarefulRequests.
THEOREM DerivedKeyExact ==
  ASSUME ShortCalls, LengthInOrder, CarefulRequests
  PROVE  KSpec => []DerivedKey
<1>1. KInit => KInv
  BY KInitInv, Zenon
<1>2. KInv /\ [KNext]_kdfVars => KInv'
  BY KNextInv, Zenon
<1>3. KInv => DerivedKey
  BY KInvKey, Zenon
<1>4. QED
  BY <1>1, <1>2, <1>3, PTL DEF KSpec
=============================================================================
