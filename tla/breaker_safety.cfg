\* Three requests share one upstream that admits two; a deadline is shorter
\* than the cooldown, as in the shipped configuration (15 s against 30 s).
SPECIFICATION Spec
CONSTANTS
  Tasks = {t1, t2, t3}
  MaxConcurrent = 2
  Deadline = 2
  Cooldown = 3
SYMMETRY TaskSymmetry
INVARIANTS
  TypeOK
  PermitsConserved
  Timing
PROPERTIES
  KeepsPromise
