CONSTANTS
  IntMax = 127
  Shapes <- MCShapes
SPECIFICATION FairSpec
INVARIANTS TypeOK RankInverts RankIsPosition SearchBrackets RanksInRange TermsComplete InverseReadsSolved
PROPERTIES WriteOnce Terminates
