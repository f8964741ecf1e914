SPECIFICATION FairSpec
CONSTANTS
  Upstreams = {u1, u2}
  Requests = {r1}
  None = None
  Setups <- MCUnpolled
  SuccessWeight = 20
  Alpha = 80
  Margin = 20
  Latencies = {1, 2, 4}
  Speeds = {1, 4}
  Noise = 1
  Window = 1
  Load = 2
  Troubled = 1
  Unit = 50
  Full = 2
  Scale = 1
PROPERTIES
  RoutedToTheFastest
