\* A hash with a digest shorter than its state, and a second iteration.
SPECIFICATION KSpec
CONSTANTS
  BL = 8
  RES = 2
  LW = 2
  WB = 2
  CB = 2
  DL = 4
  SL = 6
  HashEndian = "big"
  Orders = {TRUE, FALSE}
  NBLK = 4
  b1 = b1
  b2 = b2
  b3 = b3
  k1 = k1
  k2 = k2
  Byte <- MCByte
  SaltSizes = {3}
  Chunks = {}
  KeySizes = {3}
  Keys <- MCKeys
  Iterations = {2}
  Ends = {4}
  Calls <- MCCalls
  Hosts <- MCHosts
  IV = {iv0}
  StdIV = iv0
  Zero = Zero
  Pad80 = Pad80
  Junk = Junk
  Inner = Inner
  Outer = Outer
  Digested = Digested
  Counter = Counter
  Ctx = {"ictx", "octx"}
  MaxBytes = 20
  NoDigest = NoDigest
INVARIANT DerivedKey
