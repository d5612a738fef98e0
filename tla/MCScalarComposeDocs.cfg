CONSTANTS
  IntMax = 127
  P = 11
  NonFin = NonFin
  M = 2
  N = 1
  Paths <- MCPaths
  Values <- MCValues
  Exponents <- MCExponents
  Seeds <- MCSeeds
  Program <- MCNoFunctions
  MaxCalls = 1
  Operands <- MCOperands
  Composed <- MCSingular
SPECIFICATION SpecElementary
INVARIANTS DocumentedSingularities
