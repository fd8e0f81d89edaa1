SPECIFICATION MCSpec
CONSTANTS
  Block = {1, 2, 3, 4, 5}
  Fn <- MCFn
  Programs <- AllPrograms
  Confs <- RefinementConfs
  MaxLen = 3
  MaxPath = 120
  Heap <- ListHeap
  NoHeap = "none"
  Covers <- MCCovers
  ThreeWay <- MCThreeWay
  Forced <- MCForced
  ExitHeap <- ListExitHeap
  CallResults = 0
  ClientKeys = {}
  MaxHeaps = 0
  EntryHeaps = {"n", "l1", "p2"}
  Post <- MCPost
  Fatal <- MCFatal
  Abstract <- ListAbstract
  SetExit <- MCSetExit
  Destroy <- MCDestroy
INVARIANTS
  PendingIsScheduled
  SkippedIsProcessed
  PruneNeverFails
  QueueMatchesTodo
  CoversAllPaths
  EndNotReachedIsTrue
PROPERTIES
  Termination
  ImplementsWorkSet
