\* Two contexts and Clone between them in every phase.  A 64-byte block is scaled to
\* 3 cells and the 8-byte length to 1; the reserve is twice the length, as in the
\* 64-bit hashes.  Chunks of 1 and 4 are buffered, fill the room exactly, spill over
\* it and hold a whole block, and leave every fill of the last block.
SPECIFICATION Spec
CONSTANTS
  BL = 3
  RES = 2
  LW = 1
  NBLK = 4
  b1 = b1
  b2 = b2
  b3 = b3
  Byte <- MCByte
  Sizes = {1, 4}
  Chunks <- MCChunks
  IV = {iv0}
  StdIV = iv0
  iv0 = iv0
  Zero = Zero
  Pad80 = Pad80
  Junk = Junk
  Ctx = {c1, c2}
  PtrBytes = 1
  ExtendOnto = {"new"}
  MaxBytes = 5
  NoDigest = NoDigest
INVARIANTS TypeOK Bookkeeping IInv
PROPERTIES ImplementsAbs ExtendRecreates
SYMMETRY CtxSymmetry
