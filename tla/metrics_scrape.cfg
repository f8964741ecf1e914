\* Two attempts on one upstream against a scraper; a latency between the
\* bounds, which is truncated, and one above them.
SPECIFICATION FairSpec
CONSTANTS
  Upstreams = {u1}
  Nobody = Nobody
  Attempts = {a1, a2}
  Bounds = {1, 5}
  Inf = Inf
  Latencies = {5, 12}
  MaxRouted = 3
INVARIANTS
  TypeOK
  Accounted
  PageHistogram
  PageRequestsWereRouted
PROPERTIES
  RecordingEnds
