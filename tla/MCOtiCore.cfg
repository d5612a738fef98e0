CONSTANTS
  IntMax = 127
  P = 5
  NonFin = NonFin
  M = 2
  N = 2
  X = X
  Y = Y
  Regs <- MCRegs
  Scalars <- MCScalars
  DenseInputs <- MCDenseInputs
  SparseInputs <- MCSparseInputs
  Seeds <- MCSeeds
  Paths <- MCPaths
  MaxCalls = 2
SPECIFICATION Spec
INVARIANTS TypeOK SolvedPrefix
PROPERTIES ImplementsAlgebra NonFiniteSticks
