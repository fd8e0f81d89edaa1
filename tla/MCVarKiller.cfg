SPECIFICATION KillerSpec
CONSTANTS
  MaxUid = 6
  Programs <- MCPrograms
CHECK_DEADLOCK FALSE
INVARIANTS
  
  CallerVarsSurvive
PROPERTIES
  BranchKillsDead
