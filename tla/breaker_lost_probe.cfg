SPECIFICATION FairSpec
CONSTANTS
  Tasks = {t1, t2}
  MaxConcurrent = 1
  Deadline = 1
  Cooldown = 2
PROPERTIES
  ProbeSlotReleased
