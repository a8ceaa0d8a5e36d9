---------------------------- MODULE MCKeyCareful ----------------------------
\* The instance in which the calls are what the theorem about KeyDerivation assumes.
EXTENDS MCKeyDerivation

ASSUME ShortCalls /\ LengthInOrder /\ CarefulRequests
=============================================================================
