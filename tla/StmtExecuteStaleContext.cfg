\* Replies of up to two result sets of one or two columns, possibly cut by an ERROR.
SPECIFICATION Spec
CONSTANTS
  MaxCols = 2
  MaxRows = 1
  Prefetch = {1}
  Separators = {"FETCH_DONE_MORE_RSETS"}
  NoticeFrames = {}
  MidStreamErrors = TRUE
  CorruptFrames = FALSE
  Bound <- MC_Bound
  WarningSignals = {"AGAIN"}
  VariableSignals = {"AGAIN"}
  ErrorSignals = {"PASS_RETURN_FAIL"}
  MetaSignals = {"AGAIN"}
  FieldSignals = {"AGAIN"}
  MetaAllocMayFail = FALSE
  SizeMod = 8
INVARIANT
  ContextFollowsReply
