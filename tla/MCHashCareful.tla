--------------------------- MODULE MCHashCareful ---------------------------
\* Instances in which the callers keep to what the theorems assume of them.
EXTENDS MCHashContext

ASSUME CarefulCalls
=============================================================================
