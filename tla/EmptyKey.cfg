\* Three threads, one of which may be cancelled anywhere.
SPECIFICATION FairSpec
CONSTANTS
  Thread = {t1, t2, t3}
  Mortal = {t1}
  BlockLen = 64
INVARIANTS TypeOK KeyedUse OneWriter
PROPERTIES PublishedForGood ExtractReturns ClaimPublishes
