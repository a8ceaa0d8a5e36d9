----------------------------- MODULE MCOneShot -----------------------------
\* Small instances of OneShot for TLC.
EXTENDS OneShot, TLC

CONSTANTS b1, b2, b3, Sizes

\* Messages of the given sizes; the first byte of each differs by its size, so
\* that one message's bytes left in the padding never pass for another's.
MCByte == {b1, b2, b3}
MCMessages ==
  {[i \in 1..n |-> <<b1, b2, b3>>[((n + i - 1) % 3) + 1]] : n \in Sizes}
=============================================================================
