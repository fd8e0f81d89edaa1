SPECIFICATION RangeSpec
CONSTANTS
  Width = 5
  Converts = 0
  IntArithmeticLimit = 2
  Var = {x}
  Operand <- MCOperand
  CmpCodes = {"EQ", "NE", "LT", "LE", "GT", "GE"}
  Limits <- MCLimits
  Types <- MCTypes
  Inputs <- MCInputs
CHECK_DEADLOCK FALSE
INVARIANTS
  CoversValue
  CompareAgrees
