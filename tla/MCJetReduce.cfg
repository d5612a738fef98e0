CONSTANTS
  Ranks <- MCThree
  Count = 2
  Ops <- MCAllOps
  Inputs <- MCInputs
  NaN = NaN
  P = 7
  MaxInFlight = 2
SPECIFICATION Spec
INVARIANTS TypeOK WinnerDominates FoldsInputs Agreement
CHECK_DEADLOCK FALSE
