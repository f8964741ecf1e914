\* As in the shipped configuration, the window is longer than the cooldown and
\* several polls long.  Load lets a probe start with three outcomes kept: that many
\* errors outweigh the successes of the probe and of the next poll.
SPECIFICATION Spec
CONSTANTS
  Requests = {r1}
  Interval = 1
  Window = 3
  Threshold = 50
  Cooldown = 1
  Delay = 0
  Load = 4
  MaxSlot = 0
PROPERTIES
  ProbeDecides
