SPECIFICATION CutSpec
CONSTANTS
  Anon = Anon
  cvP = cvP
  cvQ = cvQ
  cvX = cvX
  Objects <- MCObjects
  Addrs <- MCAddrs
  Cuts <- MCCuts
  Unknowns = 2
CHECK_DEADLOCK FALSE
INVARIANTS
  SplitPartitions
  Separated
  FrameRule
