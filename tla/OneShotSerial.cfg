\* Two threads that keep their calls apart, with messages around every boundary:
\* each call finds what any other one left in the padding.
SPECIFICATION Spec
CONSTANTS
  BL = 4
  RES = 2
  LW = 1
  NBLK = 4
  b1 = b1
  b2 = b2
  b3 = b3
  Byte <- MCByte
  Sizes = {0, 1, 2, 3, 5, 8}
  Messages <- MCMessages
  IV = {iv0}
  StdIV = iv0
  iv0 = iv0
  Zero = Zero
  Pad80 = Pad80
  Junk = Junk
  Thread = {t1, t2}
  Dests = {"own", "null"}
  Serial = TRUE
  NoDigest = NoDigest
INVARIANTS IInv ReturnsDigest
