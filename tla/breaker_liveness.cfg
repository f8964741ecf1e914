\* The cooldown is not longer than a request may last: validate() accepts it.
SPECIFICATION FairSpec
CONSTANTS
  Tasks = {t1, t2}
  MaxConcurrent = 1
  Deadline = 2
  Cooldown = 2
PROPERTIES
  PermitReturned
  DropEnds
  RestEndedByTimeOrRestore
