SPECIFICATION Spec
CONSTANTS
  NodeCount = 1
  Msg = {}
  Timer = {t, u}
  NoRoute = NoRoute
  Setups <- TimerSetups
  After = {0, 1}
  MaxEffects = 2
  MaxSeq = 6
PROPERTIES ImplementsTimerService AlarmsAreAsSet
