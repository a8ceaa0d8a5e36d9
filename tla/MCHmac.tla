------------------------------- MODULE MCHmac -------------------------------
\* A small instance of Hmac for TLC, in which keys, chunks and the order of the
\* length are what the theorems assume of them.
EXTENDS Hmac, TLC

CONSTANTS b1, b2, b3, k1, k2, ChunkSizes, KeySizes

ASSUME ShortCalls /\ LengthInOrder

MCByte == {b1, b2, b3, k1, k2}
MCChunks == {[i \in 1..n |-> <<b1, b2, b3>>[((i - 1) % 3) + 1]] : n \in ChunkSizes}
MCKeys == {[i \in 1..n |-> IF i = n THEN k2 ELSE k1] : n \in KeySizes}

\* No definition tells one structure from the other.
CtxSymmetry == Permutations(Ctx)
=============================================================================
