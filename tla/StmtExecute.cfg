\* Buffered and callback reads of replies with up to two result sets of up
\* to 2 columns and 2 rows, a notice, a mid-stream error or a corrupt frame,
\* the connection dropping at any point.
SPECIFICATION Spec
CONSTANTS
  MaxCols = 2
  MaxRows = 2
  Prefetch = {1, 2}
  Separators = {"FETCH_DONE_MORE_RSETS", "FETCH_DONE_MORE_OUT"}
  NoticeFrames <- MC_NoticeFrames
  MidStreamErrors = TRUE
  CorruptFrames = TRUE
  Bound <- MC_Bound
  WarningSignals = {"AGAIN"}
  VariableSignals = {"AGAIN"}
  ErrorSignals = {"PASS_RETURN_FAIL"}
  MetaSignals = {"PASS", "AGAIN"}
  FieldSignals = {"AGAIN", "FAIL"}
  MetaAllocMayFail = TRUE
  SizeMod = 8
INVARIANTS
  TypeOK
  PrefetchWindow
PROPERTIES
  ImplementsReplyReader
  SuccessfulReplyCompletes
