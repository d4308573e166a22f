\* SET elements of 0 or 1 bytes, a short DECIMAL and an overrunning SET length.
CONSTANTS
  W <- MC_W
  SizeMod <- MC_SizeMod
  SIntVals <- MC_SIntVals
  UIntVals <- MC_UIntVals
  TimeVals <- MC_TimeVals
  SetChars <- MC_SetChars
  MaxElemLen = 2
  SetElemLens = {0, 1}
  MaxSetSize = 2
  MaxDecDigits = 3
  Malformed <- MC_SpecMalformed
SPECIFICATION Spec
INVARIANTS
  DecodedAsSpecified
\* Decoding a field is one call that returns: the model stops after it.
CHECK_DEADLOCK FALSE
