SPECIFICATION Spec
CONSTANTS
  NodeCount = 3
  Msg = {}
  Timer = {}
  Plans <- AllPlans
  Sampled = {0, 1, 2, 100, 600, 999, 1999, 2000, 3999}
INVARIANTS LivenessHeals HealedForGood
PROPERTY EveryFaultFires
