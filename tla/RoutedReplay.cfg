SPECIFICATION Spec
CONSTANTS
  NoRoute = NoRoute
  NoSeed = NoSeed
  NodeCount = 2
  Plans <- OnePlan
  Backends <- SimBackends
  Workloads <- RoutedWorkloads
  Streams <- RoutedStreams
  Recordings <- RoutedRecordings
  Breakable <- RoutedStreams
  MaxBroken = 3
INVARIANT ReplayReproduces
