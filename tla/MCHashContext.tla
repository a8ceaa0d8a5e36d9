--------------------------- MODULE MCHashContext ---------------------------
\* Small instances of HashContext for TLC.
EXTENDS HashContext, TLC

CONSTANTS b1, b2, b3, Sizes

\* Bytes cycle with period three, so that no chunk equals a shift of another.
MCByte == {b1, b2, b3}
MCChunks == {[i \in 1..n |-> <<b1, b2, b3>>[((i - 1) % 3) + 1]] : n \in Sizes}

\* No definition tells one structure from the other.
CtxSymmetry == Permutations(Ctx)
=============================================================================
