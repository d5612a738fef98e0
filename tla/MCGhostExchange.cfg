CONSTANTS
  P = 101
  Problems <- MCProblems
  Iterations = 2
SPECIFICATION Spec
INVARIANTS TypeOK CallsPair ViewsMirror ReceiveFits GhostsCurrent
PROPERTIES ImplementsSerialSweeps EndsInPass
