SPECIFICATION Spec
CONSTANTS
  Requests = {r1, r2}
  MaxSlot = 4
  Validity = 1
  MaxLag = 0
  MaxAge = 1
  CacheSize = 2
  Undated = {1}
  Texts <- MCTexts
SYMMETRY Symmetry
INVARIANTS
  TypeOK
  DatesAreBounded
  PassedIsRecent
  JudgedByItsBlockhash
PROPERTIES
  DatesNeverGoBack
