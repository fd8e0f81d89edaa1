SPECIFICATION CallSpec
CONSTANTS
  Fnc = {"m", "f", "h", "u"}
  GlVar = {"g", "k"}
  GlOrder <- MCGlOrder
  Plain = {"0", "1", "?"}
  InitVal = "0"
  Unknown = "?"
  Programs <- AllPrograms
  MaxDepth = 3
  MissThr = 2
INVARIANTS
  KeyMatchesEntry
  PendingIsOnStack
  BacktraceInStep
  ResultsAreExact
