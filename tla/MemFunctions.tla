---------------------------- MODULE MemFunctions ----------------------------
(***************************************************************************)
(* The functions src/common/string.[ch] puts in the place of the C         *)
(* library's for WebAssembly.  Each has loops for a length known to the    *)
(* compiler and a function for any other; those of llh_memset are not      *)
(* alike.  d is the memory written to.                                     *)
(* A definition marked "slip" is a deliberate error that nothing uses.     *)
(***************************************************************************)
EXTENDS Integers, Sequences

\* The function, for a length that is not known.
memset_impl(d, c, n) == [i \in DOMAIN d |-> IF i <= n THEN c ELSE d[i]]

\* <<memory, _d>> after one of the loops: n bytes stored from _d on.
Loop(m, c, n) ==
  <<[i \in DOMAIN m[1] |-> IF i \in (m[2] + 1)..(m[2] + n) THEN c ELSE m[1][i]], m[2] + n>>

\* slip: a single byte behind the first loop is forgotten.
RestForgotten(m, c, r) ==
  LET low == IF r > 0 THEN Loop(m, c, IF r < 64 THEN r ELSE 64) ELSE m
  IN IF r > 65 THEN Loop(low, c, r - 64) ELSE low

\* What is left behind the whole turns, below 128 bytes.
Rest(m, c, r) ==
  LET low == IF r > 0 THEN Loop(m, c, IF r < 64 THEN r ELSE 64) ELSE m
  IN IF r > 64 THEN Loop(low, c, r - 64) ELSE low

\* llh_memset of a known length: turns of 128 bytes, which store zeros, and a rest,
\* which stores c.
llh_memset(d, c, n) ==
  LET turn[k \in 0..(n \div 128)] ==
        IF k = 0 THEN <<d, 0>> ELSE Loop(Loop(turn[k - 1], 0, 64), 0, 64)
  IN Rest(turn[n \div 128], c, n % 128)[1]

\* The two forms of llh_memset do the same: whether the compiler knows a length
\* decides nothing.
MemsetAgrees(d, c, n) == llh_memset(d, c, n) = memset_impl(d, c, n)
=============================================================================
