CONSTANTS
  Extent = 3
  ncoeffs = 2
  Values <- MCValues
  Blank = 0
  FillX <- MCFillX
  FillY <- MCFillY
  Combine <- MCCombine
  Passes = 2
SPECIFICATION Spec
INVARIANTS TypeOK
PROPERTIES ImplementsArrays
