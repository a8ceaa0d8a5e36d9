----------------------------- MODULE MCEmptyKey -----------------------------
\* Small instances of EmptyKey for TLC.
EXTENDS EmptyKey, TLC

ThreadSymmetry == Permutations(Thread)
=============================================================================
