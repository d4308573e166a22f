CONSTANTS
  Exprs <- MC_Exprs
  BadExpr <- MC_BadExpr
  Placeholders <- MC_Placeholders
  BindVals <- MC_BindVals
  Ints <- MC_Ints
  LockOptions <- MC_LockOptions
  MaxItems = 2
SPECIFICATION Spec
PROPERTIES
  CallContract
