SPECIFICATION Spec
CONSTANTS
  NodeCount = 2
  Msg = {}
  Timer = {t}
  NoRoute = NoRoute
  Setups <- OpSetups
  After = {1}
  MaxEffects = 1
  MaxSeq = 6
INVARIANTS TypeOK OneInFlight NobodyStarves HistoryIsComplete
PROPERTIES ImplementsSequentialClients EndComesNearer
