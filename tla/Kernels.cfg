\* Two blocks of every hash, in every order, and every way to finish after one.
SPECIFICATION Spec
CONSTANTS
  Hash <- MCHash
  Pattern <- MCPattern
  Slack <- MCSlack
  KeyLengths <- MCKeyLengths
  MaxBlocks = 2
INVARIANTS ChainsAsStandard DigestsAsStandard PartialIsSlice KnownAnswers TruncatedIvs MemsetFills
CHECK_DEADLOCK FALSE
