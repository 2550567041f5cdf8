SPECIFICATION Spec
CONSTANTS
  NoRoute = NoRoute
  NoSeed = NoSeed
  NodeCount = 2
  Plans <- AllPlans
  Backends <- AllBackends
  Workloads <- HomeWorkloads
  Streams <- HomeStreams
  Recordings <- HomeRecordings
  Breakable <- HomeBreakable
  MaxBroken = 3
INVARIANTS ReportsSkipNothing OutcomesAreTrue FailuresComeBack ScenariosAreTight
