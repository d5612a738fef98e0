CONSTANTS
  IntMax = 127
  M = 2
  N = 3
  Jets <- MCInnerJets
  Tolerances <- MCInnerTolerances
  Doublings = 2
  Halvings = 2
  One = 8
  Infinity = Infinity
SPECIFICATION Spec
INVARIANTS InnerCrossing
