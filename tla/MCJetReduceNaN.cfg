CONSTANTS
  Ranks <- MCThree
  Count = 1
  Ops <- MCLocOps
  Inputs <- MCNaNInputs
  NaN = NaN
  P = 7
  MaxInFlight = 2
SPECIFICATION Spec
INVARIANTS Agreement
CHECK_DEADLOCK FALSE
