SPECIFICATION SigSpec
CONSTANTS
  Sig <- MCSig
  DieSigs = {2, 15}
  Root = {"main", "other"}
INVARIANTS
  NotLostUnnoticed
PROPERTIES
  DieSignalEndsAnalysis
