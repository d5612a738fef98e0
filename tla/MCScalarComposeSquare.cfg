CONSTANTS
  IntMax = 127
  P = 11
  NonFin = NonFin
  M = 2
  N = 3
  Paths <- MCPaths
  Values <- MCValues
  Exponents <- MCExponents
  Seeds <- MCZeroSeeds
  Program <- MCSquares
  MaxCalls = 2
  Operands <- MCOperands
  Composed <- MCNoFunctions
SPECIFICATION SpecElementary
INVARIANTS SquareIsProduct
