CONSTANTS
  IntMax = 127
  P = 11
  NonFin = NonFin
  M = 2
  N = 3
  Paths <- MCPaths
  Values <- MCValues
  Exponents <- MCExponents
  Seeds <- MCSeeds
  Program <- MCProgram
  MaxCalls = 1
  Operands <- MCOperands
  Composed <- MCComposed
SPECIFICATION SpecElementary
INVARIANTS TypeOK PowersOfNilpotent SingularSignal ChainRule PowerLaw ComposedRule SelectsWhole ComposedSignal
