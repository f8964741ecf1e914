SPECIFICATION FairSpec
CONSTANTS
  Upstreams = {u1, u2}
  Requests = {r1, r2}
  MaxConcurrent = 1
  MaxAttempts = 2
  RetryDifferent = FALSE
  Scores = {1}
  Margin = 10
  None = None
PROPERTIES
  Answered
