\* A cooldown of several ticks, so that a rest may still run when the errors behind
\* it have left the window (2, with delays 4); a poll every other tick; a thread may
\* be held up for one.
SPECIFICATION FairSpec
CONSTANTS
  Requests = {r1}
  Interval = 2
  Window = 2
  Threshold = 50
  Cooldown = 2
  Delay = 1
  Load = 2
  MaxSlot = 2
INVARIANTS
  TypeOK
  CheckedWindowIsRecent
  OnlyRecentErrorsTrip
  TipCoversReports
PROPERTIES
  RecoveredStaysUp
  NoRestWithoutCause
