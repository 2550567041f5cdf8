SPECIFICATION ObservedSpec
CONSTANTS
  NodeCount = 1
  Msg = {}
  Timer = {t}
  NoRoute = NoRoute
  Setups <- RunSetups
  After = {2}
  MaxEffects = 1
  MaxSeq = 14
  Properties <- RunProperties
INVARIANTS DeadlinesAreExact QuantifiersAreExact
PROPERTY RunTerminates
