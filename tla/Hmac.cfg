\* Two contexts, both byte orders, a truncated hash, keys around the block and
\* around the reserve of their own padding.
SPECIFICATION Spec
CONSTANTS
  BL = 10
  RES = 4
  LW = 4
  WB = 2
  DL = 4
  SL = 6
  HashEndian = "big"
  Orders = {TRUE, FALSE}
  NBLK = 4
  b1 = b1
  b2 = b2
  b3 = b3
  k1 = k1
  k2 = k2
  Byte <- MCByte
  ChunkSizes = {6}
  Chunks <- MCChunks
  KeySizes = {10, 16}
  Keys <- MCKeys
  IV = {iv0}
  StdIV = iv0

  Zero = Zero
  Pad80 = Pad80
  Junk = Junk
  Inner = Inner
  Outer = Outer
  Digested = Digested
  Ctx = {c1, c2}
  MaxBytes = 12
  NoDigest = NoDigest
INVARIANTS TypeOK Prepared IInv
PROPERTY ImplementsHmac
SYMMETRY CtxSymmetry
