------------------------------- MODULE Session -------------------------------
(***************************************************************************)
(* The exchanges a session runs on one connection, one after the other:   *)
(* CapabilitiesGet, CapabilitiesSet, AuthenticateStart (with the           *)
(* AuthenticateContinue it sends from inside its handler) and ConClose,    *)
(* src/xmysqlnd/xmysqlnd_wireprotocol.cc lines 480-892 and 1828-1923, each *)
(* read by the dispatch loop xmysqlnd_receive_message, against an X        *)
(* Protocol server that answers every request in order.                    *)
(*                                                                         *)
(* Requests and frames carry the number of the request they belong to     *)
(* (id), so that the model can tell which exchange a frame answers.        *)
(* init_read only stores the caller's callbacks, which are fixed here, so  *)
(* it is part of the caller's start of an exchange.                        *)
(***************************************************************************)
EXTENDS XProtocol, Integers, Sequences

CONSTANTS
  Program,            \* the exchanges the session runs, in order
  ServerErrors,       \* may the server answer a request with ERROR?
  Challenges,         \* may the server answer AuthenticateStart with a challenge?
  OkSignals,          \* what capabilities_set_on_OK's missing return can yield
  AuthContinueSignals \* what the session's on_auth_continue callback returns

Exchanges == {"CapabilitiesGet", "CapabilitiesSet", "AuthenticateStart", "ConClose"}

ASSUME /\ Program \in Seq(Exchanges) /\ Len(Program) > 0
       /\ OkSignals \subseteq Signals /\ AuthContinueSignals \subseteq Signals

VARIABLES
  link,      \* "up" or "down"
  toServer,  \* requests sent and not yet read by the server: [k, id]
  toClient,  \* frames sent by the server and not yet read: [k, id]
  srvErred,  \* has the server answered some request with ERROR?
  ex,        \* index in Program of the caller's current exchange
  cphase,    \* send, reading, returned, done, failed
  nextId,    \* the number the next request gets
  sent,      \* the numbers of the requests the current exchange sent
  lastId,    \* the number of the request the last frame read answers (0: none)
  ret,       \* what the last send_request / read_response returned
  authOk     \* has the current exchange read AUTH_OK?

vars == <<link, toServer, toClient, srvErred, ex, cphase, nextId, sent, lastId, ret, authOk>>

Exchange == Program[ex]

(* The request each exchange's send_request builds and hands to          *)
(* xmysqlnd_send_message; its fields are left out.                         *)
capabilities_get__send_request     == "CAPABILITIES_GET"
capabilities_set__send_request     == "CAPABILITIES_SET"
authentication_start__send_request == "AUTH_START"
con_close__send_request            == "CLOSE"

(* The non-NULL slots of each exchange's handler table.                    *)
capabilities_get_handlers == {"ERROR", "CAPABILITIES", "NOTICE"}
capabilities_set_handlers == {"OK", "ERROR", "NOTICE"}
auth_start_handlers       == {"ERROR", "AUTH_CONTINUE", "AUTH_OK", "NOTICE"}
con_close_handlers        == {"OK", "ERROR", "NOTICE"}

(* The message factory gives the caller, for each exchange, a context      *)
(* whose send_request writes that exchange's request and whose             *)
(* read_response runs the dispatch loop with that exchange's table.        *)
MessageFactory ==
  [e \in Exchanges |->
     CASE e = "CapabilitiesGet"   -> [send_request  |-> capabilities_get__send_request,
                                      read_response |-> capabilities_get_handlers]
       [] e = "CapabilitiesSet"   -> [send_request  |-> capabilities_set__send_request,
                                      read_response |-> capabilities_set_handlers]
       [] e = "AuthenticateStart" -> [send_request  |-> authentication_start__send_request,
                                      read_response |-> auth_start_handlers]
       [] e = "ConClose"          -> [send_request  |-> con_close__send_request,
                                      read_response |-> con_close_handlers]]

-----------------------------------------------------------------------------
(* The server (outside src/): it reads requests in order and writes the    *)
(* whole reply to one before it reads the next.                            *)
Frame(kind, i) == [k |-> kind, id |-> i]

Errs(i) == IF ServerErrors THEN {<<Frame("ERROR", i)>>} ELSE {}

(* A reply, optionally led by a notice.                                     *)
Noticed(kind, i) == {<<Frame(kind, i)>>, <<Frame("NOTICE", i), Frame(kind, i)>>}

Replies(r) ==
  CASE r.k = "CAPABILITIES_GET" -> Noticed("CAPABILITIES", r.id) \cup Errs(r.id)
    [] r.k = "CAPABILITIES_SET" -> Noticed("OK", r.id) \cup Errs(r.id)
    [] r.k = "AUTH_START"       -> Noticed("AUTH_OK", r.id) \cup Errs(r.id)
                                   \cup (IF Challenges THEN {<<Frame("AUTH_CONTINUE", r.id)>>} ELSE {})
    [] r.k = "AUTH_CONTINUE"    -> Noticed("AUTH_OK", r.id) \cup Errs(r.id)
    [] r.k = "CLOSE"            -> {<<Frame("OK", r.id)>>} \cup Errs(r.id)

Serve ==
  /\ link = "up"
  /\ toServer /= <<>>
  /\ \E reply \in Replies(Head(toServer)) :
       /\ toClient' = toClient \o reply
       /\ srvErred' = (srvErred \/ reply[Len(reply)].k = "ERROR")
  /\ toServer' = Tail(toServer)
  /\ UNCHANGED <<link, ex, cphase, nextId, sent, lastId, ret, authOk>>

-----------------------------------------------------------------------------
(* Variants of the handlers below, as a slip in them would read.          *)

\* on_AUTHENTICATE_CONTINUE answering its initial HND_PASS, not the callback's signal
AuthContinueIgnoresCallback(up, cb) ==
  IF up THEN [sig |-> "PASS", sends |-> TRUE] ELSE [sig |-> "FAIL", sends |-> FALSE]

\* con_close_on_OK answering HND_AGAIN like con_close_on_NOTICE
ConCloseOkAgain(kind) ==
  CASE kind = "OK"     -> "AGAIN"
    [] kind = "ERROR"  -> "PASS_RETURN_FAIL"
    [] kind = "NOTICE" -> "AGAIN"

(* auth_start_on_AUTHENTICATE_CONTINUE: the callback's answer is sent at   *)
(* once as an AuthenticateContinue; a failed send makes it HND_FAIL.       *)
(* (The session's callback always produces an answer to a challenge.)      *)
auth_start_on_AUTHENTICATE_CONTINUE(up, cb) ==
  IF up THEN [sig |-> cb, sends |-> TRUE] ELSE [sig |-> "FAIL", sends |-> FALSE]

(* The signal each exchange's handler answers for a frame of a kind that *)
(* has a slot.  The *_on_ERROR handlers answer HND_PASS_RETURN_FAIL        *)
(* whatever the on_error callback does (con_close_on_ERROR sets the client *)
(* error itself); the NOTICE handlers answer HND_AGAIN.                    *)
capabilities_get_handler(kind) ==
  CASE kind = "ERROR"        -> "PASS_RETURN_FAIL"
    [] kind = "CAPABILITIES" -> "PASS"
    [] kind = "NOTICE"       -> "AGAIN"

(* capabilities_set_on_OK has no return statement: the caller sees         *)
(* whatever okSig the return register holds.                               *)
capabilities_set_handler(kind, okSig) ==
  CASE kind = "OK"     -> okSig
    [] kind = "ERROR"  -> "PASS_RETURN_FAIL"
    [] kind = "NOTICE" -> "AGAIN"

(* AUTH_CONTINUE is handled by auth_start_on_AUTHENTICATE_CONTINUE above.  *)
auth_start_handler(kind) ==
  CASE kind = "ERROR"   -> "PASS_RETURN_FAIL"
    [] kind = "AUTH_OK" -> "PASS"
    [] kind = "NOTICE"  -> "AGAIN"

con_close_handler(kind) ==
  CASE kind = "OK"     -> "PASS"
    [] kind = "ERROR"  -> "PASS_RETURN_FAIL"
    [] kind = "NOTICE" -> "AGAIN"

SessionHandler(e, kind, okSig) ==
  CASE e = "CapabilitiesGet"   -> capabilities_get_handler(kind)
    [] e = "CapabilitiesSet"   -> capabilities_set_handler(kind, okSig)
    [] e = "AuthenticateStart" -> auth_start_handler(kind)
    [] e = "ConClose"          -> con_close_handler(kind)

-----------------------------------------------------------------------------
Init ==
  /\ link = "up"
  /\ toServer = <<>>
  /\ toClient = <<>>
  /\ srvErred = FALSE
  /\ ex = 1
  /\ cphase = "send"
  /\ nextId = 1
  /\ sent = {}
  /\ lastId = 0
  /\ ret = "PASS"
  /\ authOk = FALSE

(* The caller starts the exchange: init_read, then send_request, whose    *)
(* xmysqlnd_send_message fails on a dead link.                             *)
send_request ==
  /\ cphase = "send"
  /\ IF link = "up"
     THEN /\ toServer' = Append(toServer, [k |-> MessageFactory[Exchange].send_request, id |-> nextId])
          /\ sent' = {nextId}
          /\ nextId' = nextId + 1
          /\ cphase' = "reading" /\ ret' = "PASS"
     ELSE /\ cphase' = "failed" /\ ret' = "FAIL"
          /\ UNCHANGED <<toServer, sent, nextId>>
  /\ lastId' = 0
  /\ authOk' = FALSE
  /\ UNCHANGED <<link, toClient, srvErred, ex>>

(* One iteration of xmysqlnd_receive_message with the exchange's table.    *)
receive_message ==
  /\ cphase = "reading"
  /\ link = "up"
  /\ toClient /= <<>>
  /\ LET m == Head(toClient)
         r == Route(MessageFactory[Exchange].read_response, m.k)
     IN /\ toClient' = Tail(toClient)
        /\ lastId' = m.id
        /\ authOk' = (authOk \/ (r = "handler" /\ m.k = "AUTH_OK"))
        /\ \E okSig \in OkSignals, cb \in AuthContinueSignals :
           LET ac  == auth_start_on_AUTHENTICATE_CONTINUE(link = "up", cb)
               cont == r = "handler" /\ m.k = "AUTH_CONTINUE"
               sig == IF r /= "handler" THEN "PASS"
                      ELSE IF cont THEN ac.sig
                      ELSE SessionHandler(Exchange, m.k, okSig)
           IN /\ IF cont /\ ac.sends
                 THEN /\ toServer' = Append(toServer, [k |-> "AUTH_CONTINUE", id |-> nextId])
                      /\ sent' = sent \cup {nextId}
                      /\ nextId' = nextId + 1
                 ELSE UNCHANGED <<toServer, sent, nextId>>
              /\ IF sig = "AGAIN" THEN UNCHANGED <<cphase, ret>>
                 ELSE cphase' = "returned" /\ ret' = LoopReturn(sig)
  /\ UNCHANGED <<link, srvErred, ex>>

(* The read of a frame fails on a dead link.                               *)
receive_fail ==
  /\ cphase = "reading"
  /\ link = "down"
  /\ cphase' = "returned" /\ ret' = "FAIL"
  /\ UNCHANGED <<link, toServer, toClient, srvErred, ex, nextId, sent, lastId, authOk>>

(* The caller (outside src/): a failed exchange ends the session, a passed *)
(* one is followed by the next exchange of the program.                    *)
next_exchange ==
  /\ cphase = "returned"
  /\ IF ret = "FAIL" THEN cphase' = "failed" /\ UNCHANGED ex
     ELSE IF ex = Len(Program) THEN cphase' = "done" /\ UNCHANGED ex
     ELSE cphase' = "send" /\ ex' = ex + 1
  /\ UNCHANGED <<link, toServer, toClient, srvErred, nextId, sent, lastId, ret, authOk>>

ConnectionLost ==
  /\ link = "up"
  /\ cphase \notin {"done", "failed"}
  /\ link' = "down"
  /\ UNCHANGED <<toServer, toClient, srvErred, ex, cphase, nextId, sent, lastId, ret, authOk>>

Finished ==
  /\ cphase \in {"done", "failed"}
  /\ UNCHANGED vars

Next ==
  \/ Serve \/ send_request \/ receive_message \/ receive_fail
  \/ next_exchange \/ ConnectionLost \/ Finished

(* The caller and the server work as long as they can.  A read that no    *)
(* frame will answer blocks (until the transport's timeout fails it).     *)
Fairness ==
  /\ WF_vars(Serve) /\ WF_vars(send_request) /\ WF_vars(receive_message)
  /\ WF_vars(receive_fail) /\ WF_vars(next_exchange)

Spec == Init /\ [][Next]_vars /\ Fairness

-----------------------------------------------------------------------------
TypeOK ==
  /\ link \in {"up", "down"}
  /\ toServer \in Seq([k : {"CAPABILITIES_GET", "CAPABILITIES_SET", "AUTH_START",
                            "AUTH_CONTINUE", "CLOSE"}, id : 1..(nextId - 1)])
  /\ toClient \in Seq([k : SwitchedKinds, id : 1..(nextId - 1)])
  /\ srvErred \in BOOLEAN
  /\ ex \in 1..Len(Program)
  /\ cphase \in {"send", "reading", "returned", "done", "failed"}
  /\ nextId \in Nat \ {0}
  /\ sent \subseteq 1..(nextId - 1)
  /\ lastId \in 0..(nextId - 1)
  /\ ret \in {"PASS", "FAIL"}
  /\ authOk \in BOOLEAN

(* No cross-talk on the connection: every frame an exchange's dispatch     *)
(* loop reads answers a request that exchange sent, so no exchange stops   *)
(* before the end of its reply and leaves it to the next one.              *)
NoCrossTalk ==
  lastId /= 0 => lastId \in sent

(* A session whose link stays up and whose server never answers ERROR     *)
(* ends with every exchange of the program passed.                        *)
HealthySessionCompletes ==
  [](link = "up" /\ ~srvErred) => <>(cphase = "done")

(* The caller goes past AuthenticateStart only when the exchange read the *)
(* server's AUTH_OK: read_response returns PASS only for an accepted       *)
(* authentication.                                                         *)
AuthOnlyOnAuthOk ==
  (cphase = "returned" /\ Exchange = "AuthenticateStart" /\ ret = "PASS") => authOk
=============================================================================
