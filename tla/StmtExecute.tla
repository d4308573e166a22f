----------------------------- MODULE StmtExecute -----------------------------
(***************************************************************************)
(* The StatementExecute exchange of src/xmysqlnd/xmysqlnd_wireprotocol.cc  *)
(* (lines 1063-1825) driven by the dispatch loop xmysqlnd_receive_message  *)
(* (lines 291-445), over one connection, with the server's reply and the   *)
(* caller of the exchange.                                                 *)
(*                                                                         *)
(* The server's reply is fixed when the request is sent: stream holds it   *)
(* and pos counts the frames the client has read.  The loop reads one      *)
(* frame per Receive step and blocks when none is left.  The caller (the   *)
(* statement object, outside src/) sends the request, binds its callbacks  *)
(* with init_read, then calls read_response again as long as the last call *)
(* did not fail and has_more_results is set.                               *)
(***************************************************************************)
EXTENDS XProtocol, Integers, Sequences, SequencesExt

CONSTANTS
  MaxCols,          \* columns of a result set: 1..MaxCols
  MaxRows,          \* rows of a result set: 0..MaxRows
  Prefetch,         \* row counts the caller passes to read_response in callback mode
  Separators,       \* frames the server puts between two result sets
  NoticeFrames,     \* Notice.Frame values the server may interleave (at most one per reply)
  MidStreamErrors,  \* may an ERROR end the reply in the middle of a result set?
  CorruptFrames,    \* may a frame of an invalid type appear?
  Bound,            \* the callbacks the caller binds in init_read
  WarningSignals,   \* what the caller's callbacks may return
  VariableSignals,
  ErrorSignals,
  MetaSignals,
  FieldSignals,
  MetaAllocMayFail, \* may create_meta_field return NULL (out of memory)?
  SizeMod           \* 2^(bits of size_t): prefetch_counter arithmetic wraps here

ASSUME /\ MaxCols \in Nat \ {0} /\ MaxRows \in Nat
       /\ Prefetch \subseteq Nat \ {0}
       /\ Separators \subseteq {"FETCH_DONE_MORE_RSETS", "FETCH_DONE_MORE_OUT"}
       /\ NoticeFrames \subseteq Frames
       /\ SizeMod \in Nat \ {0}

VARIABLES
  stream,       \* the server's reply to the request
  pos,          \* frames of stream read so far
  link,         \* the transport: "up" or "down"
  phase,        \* where the caller is: send, init, idle, reading, returned, done, failed
  ctx,          \* st_xmysqlnd_sql_stmt_execute_message_ctx
  mode,         \* how the caller reads: buffered (response zval) or callback with rows
  ret,          \* what the last read_response (or send) returned
  hnd,          \* the handler signal that ended the last loop
  lastKind,     \* the kind of the last frame the current call read ("NONE": none yet)
  delivered,    \* rows handed to the caller: [pos, fields] in order
  callRows      \* rows handed over during the current read_response call

vars == <<stream, pos, link, phase, ctx, mode, ret, hnd, lastKind, delivered,
          callRows>>

-----------------------------------------------------------------------------
(* The server's replies to one StmtExecute, per the X Protocol:            *)
(*   [resultset (separator resultset)* FETCH_DONE] STMT_EXECUTE_OK | ERROR *)
(* with a notice anywhere before the last frame.                           *)

ResultSet(c, r) == [i \in 1..c |-> Msg("COLUMN_META", 0)] \o [i \in 1..r |-> Msg("ROW", c)]
ResultSets == {ResultSet(c, r) : c \in 1..MaxCols, r \in 0..MaxRows}

Bodies ==
  {<<>>}
  \cup {s \o <<Msg("FETCH_DONE", 0)>> : s \in ResultSets}
  \cup {s1 \o <<Msg(sep, 0)>> \o s2 \o <<Msg("FETCH_DONE", 0)>> :
          s1 \in ResultSets, s2 \in ResultSets, sep \in Separators}

Succeeded == {b \o <<Msg("STMT_EXECUTE_OK", 0)>> : b \in Bodies}

Failed ==
  {<<Msg("ERROR", 0)>>}
  \cup IF MidStreamErrors
       THEN UNION {{SubSeq(b, 1, i) \o <<Msg("ERROR", 0)>> : i \in 1..Len(b)} : b \in Bodies}
       ELSE {}

Corrupted ==
  IF CorruptFrames
  THEN UNION {{SubSeq(s, 1, i - 1) \o <<Msg("INVALID", 0)>> : i \in 1..Len(s)} : s \in Succeeded}
  ELSE {}

WithNotice(s) == {s} \cup {InsertAt(s, i, NoticeMsg(f)) : i \in 1..Len(s), f \in NoticeFrames}

Responses == UNION {WithNotice(s) : s \in Succeeded \cup Failed} \cup Corrupted

-----------------------------------------------------------------------------
(* What the caller's callbacks answer for one frame.                       *)
Answers ==
  [w : WarningSignals, v : VariableSignals, e : ErrorSignals, m : MetaSignals,
   f : FieldSignals, oom : IF MetaAllocMayFail THEN BOOLEAN ELSE {FALSE}]

(* The non-NULL slots of stmt_execute_handlers.                             *)
StmtSlots ==
  {"ERROR", "NOTICE", "COLUMN_META", "ROW", "FETCH_DONE", "FETCH_SUSPENDED",
   "FETCH_DONE_MORE_RSETS", "STMT_EXECUTE_OK", "FETCH_DONE_MORE_OUT"}

(* A handler's outcome: its signal, the context it leaves, and the number  *)
(* of fields of a row it handed to the caller (-1: no row handed over).    *)
Out(s, c, n) == [sig |-> s, ctx |-> c, fields |-> n]

(* Variants of the handlers below, as a slip in them would read; each is   *)
(* used in place of the handler it is named after to show that a property  *)
(* catches the slip.                                                       *)

\* `ctx->prefetch_counter--` in place of `--ctx->prefetch_counter`
RowPostDecrement(cx, m, ch) ==
  LET cx1 == [cx EXCEPT !.has_more_results = TRUE]
  IN IF cx.response THEN Out("PASS", cx1, m.cols)
     ELSE IF "on_row_field" \notin Bound THEN Out("AGAIN", cx1, -1)
     ELSE IF ch.f \notin {"PASS", "AGAIN"} /\ cx.field_count > 0 THEN Out(ch.f, cx1, 1)
     ELSE Out(IF cx.prefetch_counter /= 0 THEN "AGAIN" ELSE "PASS",
              [cx1 EXCEPT !.prefetch_counter = (cx.prefetch_counter - 1) % SizeMod],
              cx.field_count)

\* FETCH_DONE answering HND_PASS instead of HND_AGAIN
FetchDonePass(cx) ==
  Out("PASS", [cx EXCEPT !.has_more_results = FALSE, !.has_more_rows_in_set = FALSE], -1)

\* STMT_EXECUTE_OK answering HND_AGAIN, like FETCH_DONE, instead of HND_PASS
ExecuteOkAgain(cx) == Out("AGAIN", [cx EXCEPT !.has_more_results = FALSE], -1)

stmt_execute_on_ERROR(cx, ch) ==
  Out(IF "on_error" \in Bound THEN ch.e ELSE "PASS_RETURN_FAIL", cx, -1)

stmt_execute_on_NOTICE(cx, m, ch) ==
  Out(InspectNoticeFrame(m.note, "on_warning" \in Bound, ch.w,
                         "on_session_variable_change" \in Bound, ch.v), cx, -1)

stmt_execute_on_COLUMN_META(cx, ch) ==
  LET cx1 == [cx EXCEPT !.has_more_results = TRUE, !.field_count = @ + 1]
  IN IF cx.response THEN Out("PASS", cx1, -1)
     ELSE IF {"create_meta_field", "on_meta_field"} \subseteq Bound
          THEN IF ch.oom THEN Out("FAIL", cx1, -1) ELSE Out(ch.m, cx1, -1)
          ELSE Out("AGAIN", cx1, -1)

(* In callback mode the field callback gets message.field(i) for every i   *)
(* below field_count; a signal other than PASS/AGAIN ends the row at its    *)
(* first field.  A complete row decrements prefetch_counter (a size_t).    *)
stmt_execute_on_RSET_ROW(cx, m, ch) ==
  LET cx1  == [cx EXCEPT !.has_more_results = TRUE]
      left == (cx.prefetch_counter - 1) % SizeMod
  IN IF cx.response THEN Out("PASS", cx1, m.cols)
     ELSE IF "on_row_field" \notin Bound THEN Out("AGAIN", cx1, -1)
     ELSE IF ch.f \notin {"PASS", "AGAIN"} /\ cx.field_count > 0 THEN Out(ch.f, cx1, 1)
     ELSE Out(IF left /= 0 THEN "AGAIN" ELSE "PASS",
              [cx1 EXCEPT !.prefetch_counter = left], cx.field_count)

stmt_execute_on_RSET_FETCH_DONE(cx) ==
  Out("AGAIN", [cx EXCEPT !.has_more_results = FALSE, !.has_more_rows_in_set = FALSE], -1)

stmt_execute_on_RSET_FETCH_SUSPENDED(cx) ==
  Out("PASS", [cx EXCEPT !.has_more_results = TRUE], -1)

stmt_execute_on_RSET_FETCH_DONE_MORE_RSETS(cx) ==
  Out("PASS", [cx EXCEPT !.has_more_results = TRUE, !.has_more_rows_in_set = FALSE], -1)

stmt_execute_on_STMT_EXECUTE_OK(cx) ==
  Out("PASS", [cx EXCEPT !.has_more_results = FALSE], -1)

stmt_execute_on_RSET_FETCH_DONE_MORE_OUT_PARAMS(cx) ==
  Out("PASS", [cx EXCEPT !.has_more_results = TRUE], -1)

(* One frame through the switch of xmysqlnd_receive_message with the       *)
(* stmt_execute_handlers table (valid types only).                         *)
StmtExecuteDispatch(cx, m, ch) ==
  IF Route(StmtSlots, m.k) /= "handler" THEN Out("PASS", cx, -1)
  ELSE CASE m.k = "ERROR"                 -> stmt_execute_on_ERROR(cx, ch)
         [] m.k = "NOTICE"                -> stmt_execute_on_NOTICE(cx, m, ch)
         [] m.k = "COLUMN_META"           -> stmt_execute_on_COLUMN_META(cx, ch)
         [] m.k = "ROW"                   -> stmt_execute_on_RSET_ROW(cx, m, ch)
         [] m.k = "FETCH_DONE"            -> stmt_execute_on_RSET_FETCH_DONE(cx)
         [] m.k = "FETCH_SUSPENDED"       -> stmt_execute_on_RSET_FETCH_SUSPENDED(cx)
         [] m.k = "FETCH_DONE_MORE_RSETS" -> stmt_execute_on_RSET_FETCH_DONE_MORE_RSETS(cx)
         [] m.k = "STMT_EXECUTE_OK"       -> stmt_execute_on_STMT_EXECUTE_OK(cx)
         [] m.k = "FETCH_DONE_MORE_OUT"   -> stmt_execute_on_RSET_FETCH_DONE_MORE_OUT_PARAMS(cx)

-----------------------------------------------------------------------------
(* The context xmysqlnd_get_sql_stmt_execute_message allocates (zeroed).    *)
NewCtx ==
  [field_count |-> 0, has_more_results |-> FALSE, has_more_rows_in_set |-> FALSE,
   read_started |-> FALSE, prefetch_counter |-> 0, response |-> FALSE]

(* buffered: read_response gets a response zval (rows 0); otherwise the   *)
(* caller asks for rows rows through the row-field callback.              *)
Modes == {[buffered |-> TRUE, rows |-> 0]} \cup {[buffered |-> FALSE, rows |-> n] : n \in Prefetch}

Init ==
  /\ stream \in Responses
  /\ pos = 0
  /\ link = "up"
  /\ phase = "send"
  /\ ctx = NewCtx
  /\ mode = [buffered |-> FALSE, rows |-> 0]
  /\ ret = "PASS"
  /\ hnd = "PASS"
  /\ lastKind = "NONE"
  /\ delivered = <<>>
  /\ callRows = 0

(* xmysqlnd_sql_stmt_execute__send_request: the write fails on a dead link. *)
send_request ==
  /\ phase = "send"
  /\ IF link = "up" THEN phase' = "init" /\ ret' = "PASS"
                    ELSE phase' = "failed" /\ ret' = "FAIL"
  /\ UNCHANGED <<stream, pos, link, ctx, mode, hnd, lastKind, delivered, callRows>>

(* xmysqlnd_sql_stmt_execute__init_read: binds the callbacks and resets the *)
(* field count and the flags; the caller picks the read mode here.          *)
init_read ==
  /\ phase = "init"
  /\ \E md \in Modes : mode' = md
  /\ ctx' = [ctx EXCEPT !.field_count = 0, !.has_more_results = FALSE,
                        !.has_more_rows_in_set = FALSE, !.read_started = FALSE]
  /\ phase' = "idle"
  /\ UNCHANGED <<stream, pos, link, ret, hnd, lastKind, delivered, callRows>>

(* xmysqlnd_sql_stmt_execute__read_response: with rows or a response zval *)
(* it stores them and enters the loop, otherwise it returns PASS at once.  *)
read_response ==
  /\ phase = "idle"
  /\ callRows' = 0
  /\ lastKind' = "NONE"
  /\ IF mode.rows /= 0 \/ mode.buffered
     THEN /\ ctx' = [ctx EXCEPT !.prefetch_counter = mode.rows, !.response = mode.buffered]
          /\ phase' = "reading"
          /\ UNCHANGED ret
     ELSE /\ phase' = "returned" /\ ret' = "PASS"
          /\ UNCHANGED ctx
  /\ UNCHANGED <<stream, pos, link, mode, hnd, delivered>>

(* One iteration of the do-while of xmysqlnd_receive_message: read a frame, *)
(* route it, run its handler; loop on HND_AGAIN, otherwise return.          *)
receive_message ==
  /\ phase = "reading"
  /\ link = "up"
  /\ pos < Len(stream)
  /\ LET m == stream[pos + 1] IN
     /\ pos' = pos + 1
     /\ lastKind' = m.k
     /\ IF Route(StmtSlots, m.k) = "invalid"
        THEN /\ phase' = "returned" /\ ret' = "FAIL"
             /\ UNCHANGED <<ctx, hnd, delivered, callRows>>
        ELSE \E ch \in Answers :
             LET out == StmtExecuteDispatch(ctx, m, ch) IN
             /\ ctx' = out.ctx
             /\ hnd' = out.sig
             /\ delivered' = IF out.fields >= 0
                             THEN Append(delivered, [pos |-> pos + 1, fields |-> out.fields])
                             ELSE delivered
             /\ callRows' = callRows + (IF out.fields >= 0 THEN 1 ELSE 0)
             /\ IF out.sig = "AGAIN"
                THEN UNCHANGED <<phase, ret>>
                ELSE phase' = "returned" /\ ret' = LoopReturn(out.sig)
  /\ UNCHANGED <<stream, link, mode>>

(* The read of a frame fails on a dead link: the loop returns FAIL.        *)
receive_fail ==
  /\ phase = "reading"
  /\ link = "down"
  /\ phase' = "returned" /\ ret' = "FAIL"
  /\ UNCHANGED <<stream, pos, link, ctx, mode, hnd, lastKind, delivered, callRows>>

(* No frame arrives: the blocking read of the transport gives up after    *)
(* its read timeout and the loop returns FAIL.                             *)
read_timeout ==
  /\ phase = "reading"
  /\ link = "up"
  /\ pos = Len(stream)
  /\ phase' = "returned" /\ ret' = "FAIL"
  /\ UNCHANGED <<stream, pos, link, ctx, mode, hnd, lastKind, delivered, callRows>>

(* The caller: stop on FAIL, read again while has_more_results is set.      *)
next_result ==
  /\ phase = "returned"
  /\ phase' = IF ret = "FAIL" THEN "failed"
              ELSE IF ctx.has_more_results THEN "idle" ELSE "done"
  /\ UNCHANGED <<stream, pos, link, ctx, mode, ret, hnd, lastKind, delivered, callRows>>

(* The connection drops (at most once; it is never re-opened here).        *)
ConnectionLost ==
  /\ link = "up"
  /\ phase \notin {"done", "failed"}
  /\ link' = "down"
  /\ UNCHANGED <<stream, pos, phase, ctx, mode, ret, hnd, lastKind, delivered, callRows>>

(* The exchange is over; the statement object keeps its result.            *)
Finished ==
  /\ phase \in {"done", "failed"}
  /\ UNCHANGED vars

Next ==
  \/ send_request \/ init_read \/ read_response \/ receive_message
  \/ receive_fail \/ read_timeout \/ next_result \/ ConnectionLost \/ Finished

(* The client's steps are taken as long as they are enabled: the caller    *)
(* drives the exchange synchronously, the server has sent its reply, and a *)
(* blocked read ends at the transport's timeout.                           *)
Fairness ==
  /\ WF_vars(send_request) /\ WF_vars(init_read) /\ WF_vars(read_response)
  /\ WF_vars(receive_message) /\ WF_vars(receive_fail)
  /\ WF_vars(read_timeout) /\ WF_vars(next_result)

Spec == Init /\ [][Next]_vars /\ Fairness

-----------------------------------------------------------------------------
TypeOK ==
  /\ stream \in Seq(Messages)
  /\ pos \in 0..Len(stream)
  /\ link \in {"up", "down"}
  /\ phase \in {"send", "init", "idle", "reading", "returned", "done", "failed"}
  /\ ctx \in [field_count : Nat, has_more_results : BOOLEAN,
              has_more_rows_in_set : BOOLEAN, read_started : BOOLEAN,
              prefetch_counter : 0..(SizeMod - 1), response : BOOLEAN]
  /\ mode \in Modes \cup {[buffered |-> FALSE, rows |-> 0]}
  /\ ret \in {"PASS", "FAIL"}
  /\ hnd \in Signals
  /\ lastKind \in ServerKinds \cup {"NONE"}
  /\ delivered \in Seq([pos : 1..Len(stream), fields : Nat])
  /\ callRows \in Nat

(* Prefetch (stmt_execute_on_RSET_ROW, --prefetch_counter): in callback    *)
(* mode one read_response call hands over at most the rows it asked for,   *)
(* and when a ROW suspends the stream it has handed over exactly that many.*)
PrefetchWindow ==
  phase \in {"reading", "returned"} /\ ~mode.buffered =>
    /\ callRows <= mode.rows
    /\ (phase = "returned" /\ lastKind = "ROW" /\ hnd = "PASS") => callRows = mode.rows

(* The caller's view of the exchange: the frames read, the rows handed    *)
(* over, and whether it finished with the reply (done) or gave up on it   *)
(* (failed).                                                               *)
IsRowFrame(m) == m.k = "ROW"

Outcome ==
  CASE phase = "done" -> "done" [] phase = "failed" -> "failed" [] OTHER -> "pending"

Reader == INSTANCE ReplyReader
            WITH Replies <- Responses, IsRow <- IsRowFrame,
                 reply <- stream, consumed <- pos,
                 rows <- [i \in 1..Len(delivered) |-> delivered[i].pos],
                 outcome <- Outcome

(* The exchange, with its dispatch loop, handlers, flags and the caller's *)
(* has_more_results loop, implements ReplyReader: frames are read one at  *)
(* a time in order, a row is handed over only as its frame is read, the   *)
(* caller is done with a reply only when every frame of it was read (none *)
(* left to be taken as the answer to the next request) and every row was  *)
(* handed over once in the server's order, and it always ends done or     *)
(* failed.                                                                 *)
ImplementsReplyReader == Reader!Spec

(* A reply that ends with STMT_EXECUTE_OK is eventually read to the end    *)
(* and the caller done with it, unless the connection drops: the flags the *)
(* handlers set keep the caller reading until the final frame.             *)
SuccessfulReplyCompletes ==
  (stream[Len(stream)].k = "STMT_EXECUTE_OK") => <>(phase = "done" \/ link = "down")

(* An ERROR is the server's last frame: once the client has read it, it    *)
(* never blocks reading another frame of the reply (stmt_execute_on_ERROR  *)
(* and the caller's has_more_results loop).                                *)
ErrorEndsReads ==
  (pos = Len(stream) /\ stream[Len(stream)].k = "ERROR") => phase /= "reading"

(* The field callback is given message.field(i) only for fields the row    *)
(* has (stmt_execute_on_RSET_ROW loops up to field_count).                 *)
NoFieldReadPastRow ==
  \A i \in 1..Len(delivered) : delivered[i].fields <= stream[delivered[i].pos].cols

(* The message context follows the reply it is reading: field_count is    *)
(* the column count of the current result set (NoFieldReadPastRow), and   *)
(* has_more_results no longer asks for more once the reply has ended in   *)
(* an ERROR (ErrorEndsReads).  Both flags outlive the part of the reply    *)
(* that set them unless a handler resets them.                             *)
ContextFollowsReply == NoFieldReadPastRow /\ ErrorEndsReads
====
