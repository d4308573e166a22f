------------------------------ MODULE XProtocol ------------------------------
(***************************************************************************)
(* Definitions shared by every exchange of src/xmysqlnd/                   *)
(* xmysqlnd_wireprotocol.cc: the handler continuation signals, the server  *)
(* message kinds, the routing done by the switch of                        *)
(* xmysqlnd_receive_message, its return value, and the notice              *)
(* sub-dispatcher xmysqlnd_inspect_notice_frame_ex.                        *)
(*                                                                         *)
(* A server message is a record [k, cols, note]: k its kind, cols the      *)
(* number of fields of a ROW (0 for other kinds), note the decoded         *)
(* Notice.Frame of a NOTICE (NoFrame for other kinds).  The protobuf       *)
(* payload itself is abstracted to the fields the handlers test.           *)
(***************************************************************************)
EXTENDS Naturals

(* enum_hnd_func_status, with the values mysqlnd gives it:                 *)
(* HND_PASS = PASS = 0, HND_FAIL = FAIL = 1, HND_PASS_RETURN_FAIL,         *)
(* HND_AGAIN, HND_AGAIN_ASYNC.                                             *)
HndValue == [s \in {"PASS", "FAIL", "PASS_RETURN_FAIL", "AGAIN", "AGAIN_ASYNC"} |->
               CASE s = "PASS"             -> 0
                 [] s = "FAIL"             -> 1
                 [] s = "PASS_RETURN_FAIL" -> 2
                 [] s = "AGAIN"            -> 3
                 [] s = "AGAIN_ASYNC"      -> 4]

Signals == DOMAIN HndValue

(* The server message types the switch of xmysqlnd_receive_message has a   *)
(* case for (enum xmysqlnd_server_message_type).                           *)
SwitchedKinds ==
  {"OK", "ERROR", "CAPABILITIES", "AUTH_CONTINUE", "AUTH_OK", "NOTICE",
   "COLUMN_META", "ROW", "FETCH_DONE", "FETCH_SUSPENDED",
   "FETCH_DONE_MORE_RSETS", "STMT_EXECUTE_OK", "FETCH_DONE_MORE_OUT"}

(* Mysqlx::ServerMessages::Type_IsValid accepts the switched kinds and the *)
(* types of newer protocol versions the switch lacks (OTHER_VALID); a frame *)
(* of any other type is INVALID.                                           *)
ValidServerKinds == SwitchedKinds \cup {"OTHER_VALID"}
ServerKinds == ValidServerKinds \cup {"INVALID"}

(* Mysqlx::Notice::SessionStateChanged parameters.                          *)
ExecStateParams == {"GENERATED_INSERT_ID", "ROWS_AFFECTED", "ROWS_FOUND", "ROWS_MATCHED"}
IgnoredStateParams ==
  {"CURRENT_SCHEMA", "ACCOUNT_EXPIRED", "TRX_COMMITTED", "TRX_ROLLEDBACK",
   "PRODUCED_MESSAGE", "CLIENT_ID_ASSIGNED"}

(* A decoded Notice.Frame: scope, type and presence of payload; for the     *)
(* embedded messages the presence of param and value and the state param.   *)
Frames ==
  [scope : {"LOCAL", "GLOBAL"}, type : {1, 2, 3, 4}, payload : BOOLEAN,
   param : BOOLEAN, value : BOOLEAN,
   state : ExecStateParams \cup IgnoredStateParams \cup {"NONE"}]

NoFrame ==
  [scope |-> "GLOBAL", type |-> 4, payload |-> FALSE, param |-> FALSE,
   value |-> FALSE, state |-> "NONE"]

Msg(kind, n) == [k |-> kind, cols |-> n, note |-> NoFrame]
NoticeMsg(f) == [k |-> "NOTICE", cols |-> 0, note |-> f]

Messages == [k : ServerKinds, cols : Nat, note : Frames]

(***************************************************************************)
(* How one iteration of xmysqlnd_receive_message routes a received frame,  *)
(* given the set of kinds whose slot of the handler table is non-NULL:     *)
(* "invalid"    - Type_IsValid fails: error set, the loop returns FAIL;    *)
(* "unknown"    - valid type without a case: the default branch, whose     *)
(*                on_UNKNOWN slot is NULL in every table, so hnd_ret stays *)
(*                HND_PASS and the error "Unknown type" is set;            *)
(* "handler"    - the slot's handler runs and its signal is hnd_ret;       *)
(* "unexpected" - the slot is NULL: on_UNEXPECTED is NULL in every table,  *)
(*                so hnd_ret stays HND_PASS and the frame is dropped.      *)
(***************************************************************************)
Route(slots, kind) ==
  IF kind \notin ValidServerKinds THEN "invalid"
  ELSE IF kind \notin SwitchedKinds THEN "unknown"
  ELSE IF kind \in slots THEN "handler"
  ELSE "unexpected"

(* The value xmysqlnd_receive_message returns once the loop stops with     *)
(* handler signal hnd: `(HND_PASS || HND_AGAIN_ASYNC)? PASS:FAIL`, an       *)
(* expression over two enum constants that never looks at hnd.             *)
\* Variant: the handler signal returned as the function's status.
LoopReturnSignal(hnd) == hnd

LoopReturn(hnd) ==
  IF HndValue["PASS"] /= 0 \/ HndValue["AGAIN_ASYNC"] /= 0 THEN "PASS" ELSE "FAIL"

(***************************************************************************)
(* xmysqlnd_inspect_notice_frame_ex and the inspectors it calls.  warnSig  *)
(* and varSig are what the bound on_warning / on_session_variable_change   *)
(* callbacks return (warnBound / varBound: the callback is non-NULL);      *)
(* SessionStateChanged goes to xmysqlnd_inspect_changed_state, which       *)
(* always answers HND_AGAIN.                                               *)
(***************************************************************************)
InspectWarning(warnBound, warnSig) ==
  IF warnBound THEN warnSig ELSE "PASS"

InspectChangedVariable(f, varSig) ==
  IF f.param /\ f.value THEN varSig ELSE "AGAIN"

InspectNoticeFrame(f, warnBound, warnSig, varBound, varSig) ==
  IF f.scope = "LOCAL" /\ f.payload
  THEN CASE f.type = 1 -> IF warnBound THEN InspectWarning(warnBound, warnSig) ELSE "AGAIN"
         [] f.type = 2 -> IF varBound THEN InspectChangedVariable(f, varSig) ELSE "AGAIN"
         [] f.type = 3 -> "AGAIN"
         [] OTHER      -> "AGAIN"
  ELSE "AGAIN"

=============================================================================
