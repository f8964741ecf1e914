SPECIFICATION Spec
CONSTANTS
  Upstreams = {u1, u2}
  Requests = {r1, r2}
  MaxConcurrent = 1
  MaxAttempts = 3
  RetryDifferent = TRUE
  Scores = {0, 1, 2}
  Margin = 10
  None = None
SYMMETRY Symmetry
INVARIANTS
  TypeOK
  PermitsBalanced
  NoFalseExhaustion
PROPERTIES
  OnlyADropOrphansASlot
  NoStepInVain
  KeepsPromise
