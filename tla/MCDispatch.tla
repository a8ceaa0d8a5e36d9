----------------------------- MODULE MCDispatch -----------------------------
\* A small instance of Dispatch for TLC.
EXTENDS Dispatch, TLC

\* One implementation alone, all of them, and a bit that names none.
MCMasks == {{i} : i \in 1..(N + 1)} \cup {1..(N + 1)}

ThreadSymmetry == Permutations(Thread)
=============================================================================
