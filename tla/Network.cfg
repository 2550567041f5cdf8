SPECIFICATION Spec
CONSTANTS
  NodeCount = 2
  Msg = {m}
  Timer = {}
  NoRoute = NoRoute
  Setups <- NetworkSetups
  After = {}
  MaxEffects = 2
  MaxSeq = 5
INVARIANTS TimeMovesForward LinksAreFifo
PROPERTY ImplementsLossyNetwork
