\* A chunk of as many blocks as a kernel can count, and one byte: NBLK stands for
\* the 2^28 (2^32 / 16) blocks after which the kernel's end pointer wraps.
SPECIFICATION Spec
CONSTANTS
  BL = 4
  RES = 1
  LW = 1
  NBLK = 3
  b1 = b1
  b2 = b2
  b3 = b3
  Byte <- MCByte
  Sizes = {1, 13}
  Chunks <- MCChunks
  IV = {iv0}
  StdIV = iv0
  iv0 = iv0
  Zero = Zero
  Pad80 = Pad80
  Junk = Junk
  Ctx = {c1}
  PtrBytes = 1
  ExtendOnto = {"new"}
  MaxBytes = 14
  NoDigest = NoDigest
PROPERTY UpdateHashesAll
