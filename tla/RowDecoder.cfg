CONSTANTS
  W <- MC_W
  SizeMod <- MC_SizeMod
  SIntVals <- MC_SIntVals
  UIntVals <- MC_UIntVals
  TimeVals <- MC_TimeVals
  SetChars <- MC_SetChars
  MaxElemLen = 2
  SetElemLens = {1, 2}
  MaxSetSize = 2
  MaxDecDigits = 3
  Malformed <- MC_Malformed
SPECIFICATION Spec
INVARIANTS
  TypeOK
  ServerValuesRoundTrip
\* Decoding a field is one call that returns: the model stops after it.
CHECK_DEADLOCK FALSE
