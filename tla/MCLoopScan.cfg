SPECIFICATION ScanSpec
CONSTANTS
  Block = {1, 2, 3, 4}
  Fn = {"f"}
  Programs <- MCPrograms
  Confs <- MCConfs
INVARIANTS
  EveryLoopIsClosed
  ClosesALoop
PROPERTIES
  ScanEnds
