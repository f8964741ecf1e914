\* Latencies in units of 50 ms: an upstream is at 50-100 ms, or at 200.  A tick
\* outlasts the window of sendTransaction latencies.
SPECIFICATION FairSpec
CONSTANTS
  Upstreams = {u1, u2}
  Requests = {r1}
  None = None
  Setups <- MCSetups
  SuccessWeight = 20
  Alpha = 75
  Margin = 20
  Latencies = {1, 2, 4}
  Speeds = {1, 4}
  Noise = 1
  Window = 0
  Load = 1
  Troubled = 1
  Unit = 50
  Full = 2
  Scale = 1
INVARIANTS
  TypeOK
  OnlyFailuresShutOut
  NobodyIsOverlooked
PROPERTIES
  RoutingSettles
  PolledFindsFastest
  SafeLeadIsKept
