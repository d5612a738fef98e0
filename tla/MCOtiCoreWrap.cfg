CONSTANTS
  IntMax = 7
  P = 5
  NonFin = NonFin
  M = 2
  N = 2
  X = X
  Y = Y
  Regs <- MCRegs
  Scalars <- MCScalars
  DenseInputs <- MCWrappingInputs
  SparseInputs <- MCNoSparse
  Seeds <- MCSeeds
  Paths <- MCPaths
  MaxCalls = 1
SPECIFICATION Spec
PROPERTIES OutsideOrderIgnored
