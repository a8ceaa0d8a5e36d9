\* Salts that leave room for the block number, with one and two last blocks,
\* short and long passwords, one to three iterations, keys of up to three blocks.
SPECIFICATION KSpec
CONSTANTS
  BL = 8
  RES = 2
  LW = 2
  WB = 2
  CB = 2
  DL = 4
  SL = 4
  HashEndian = "big"
  Orders = {TRUE, FALSE}
  NBLK = 4
  b1 = b1
  b2 = b2
  b3 = b3
  k1 = k1
  k2 = k2
  Byte <- MCByte
  SaltSizes = {0, 3, 5, 12, 13}
  Chunks = {}
  KeySizes = {3, 10}
  Keys <- MCKeys
  Iterations = {1, 2, 3}
  Ends = {0, 3, 4, 7, 8, 10}
  Calls <- MCCalls
  Hosts <- MCHosts
  IV = {iv0}
  StdIV = iv0
  Zero = Zero
  Pad80 = Pad80
  Junk = Junk
  Inner = Inner
  Outer = Outer
  Digested = Digested
  Counter = Counter
  Ctx = {"ictx", "octx"}
  MaxBytes = 20
  NoDigest = NoDigest
INVARIANT DerivedKey
