SPECIFICATION StateSpec
CONSTANTS
  Block = {"b1", "b2"}
  Fn = {"id"}
  Programs <- MCPrograms
  Confs <- MCConfs
  Heap <- MCHeap
  NoHeap = "none"
  Covers <- MCCovers
  ThreeWay <- MCThreeWay
  Forced <- MCForced
  ExitHeap = {}
  CallResults = "all"
  ClientKeys = {"b1"}
  MaxHeaps = 4
INVARIANTS
  StateTypeOK
  DoneIsProcessed
  NothingLost
  NoIsomorphicPair
PROPERTIES
  PackTerminates
