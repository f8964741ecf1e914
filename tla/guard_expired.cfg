SPECIFICATION Spec
CONSTANTS
  Requests = {r1, r2}
  MaxSlot = 4
  Validity = 2
  MaxLag = 0
  MaxAge = 1
  CacheSize = 2
  Undated = {}
  Texts <- MCTexts
SYMMETRY Symmetry
INVARIANT
  ExpiredIsRejected
