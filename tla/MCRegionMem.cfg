SPECIFICATION MemSpec
CONSTANTS
  objA = objA
  objB = objB
  Obj = {objA, objB}
  Size = 4
  Ptr = {p}
  Fields <- MCFields
  Windows <- MCWindows
  Copies <- WholeCopies
  MaxEnt = 4
CHECK_DEADLOCK FALSE
INVARIANTS
  MemSound
  ArenaConsistent
  UsedByExact
  CoverageIsTrue
