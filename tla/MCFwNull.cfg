SPECIFICATION FwNullSpec
CONSTANTS
  Ptrs <- OnePtr
  Conds <- MCConds
  Programs <- Calls
INVARIANTS
  ReportHasPath
  AssignedIsGuaranteed
PROPERTIES
  ReportOverFixedPoint
