CONSTANTS
  IntMax = 127
  M = 2
  N = 3
  Jets <- MCJets
  Tolerances <- MCTolerances
  Doublings = 2
  Halvings = 2
  One = 8
  Infinity = Infinity
SPECIFICATION Spec
INVARIANTS TypeOK BracketHolds ReachIsLargest InfiniteWhereExact PredictionPlusError SensitivityIsGradient
