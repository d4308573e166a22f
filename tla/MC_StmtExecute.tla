---------------------------- MODULE MC_StmtExecute ----------------------------
(* Values for the constants of StmtExecute used by the StmtExecute runs.    *)
EXTENDS StmtExecute

(* A Warning notice and a SessionStateChanged(ROWS_AFFECTED) notice, both  *)
(* LOCAL with a payload, as the server sends them inside a result.         *)
WarningFrame ==
  [scope |-> "LOCAL", type |-> 1, payload |-> TRUE, param |-> FALSE,
   value |-> FALSE, state |-> "NONE"]
RowsAffectedFrame ==
  [scope |-> "LOCAL", type |-> 3, payload |-> TRUE, param |-> TRUE,
   value |-> TRUE, state |-> "ROWS_AFFECTED"]

MC_NoticeFrames == {WarningFrame, RowsAffectedFrame}

(* Every callback of init_read is bound, as the statement object does.     *)
MC_Bound ==
  {"create_meta_field", "on_row_field", "on_meta_field", "on_warning",
   "on_error", "on_execution_state_change", "on_session_variable_change"}
=============================================================================
