SPECIFICATION Spec
CONSTANTS
  NodeCount = 2
  Msg = {}
  Timer = {}
  NoRoute = NoRoute
  Setups <- OpSetups
  After = {}
  MaxEffects = 1
  MaxSeq = 9
INVARIANT CrashedNodesGetNoOps
