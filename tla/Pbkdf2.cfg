\* Salts of every length modulo the block.
SPECIFICATION KSpec
CONSTANTS
  BL = 8
  RES = 2
  LW = 2
  WB = 2
  CB = 2
  DL = 4
  SL = 4
  HashEndian = "big"
  Orders = {TRUE, FALSE}
  NBLK = 4
  b1 = b1
  b2 = b2
  b3 = b3
  k1 = k1
  k2 = k2
  Byte <- MCByte
  SaltSizes = {0, 1, 2, 3, 4, 5, 6, 7, 8}
  Chunks = {}
  KeySizes = {3}
  Keys <- MCKeys
  Iterations = {1}
  Ends = {4}
  Calls <- MCCalls
  Hosts <- MCHosts
  IV = {iv0}
  StdIV = iv0
  Zero = Zero
  Pad80 = Pad80
  Junk = Junk
  Inner = Inner
  Outer = Outer
  Digested = Digested
  Counter = Counter
  Ctx = {"ictx", "octx"}
  MaxBytes = 20
  NoDigest = NoDigest
INVARIANT DerivedKey
