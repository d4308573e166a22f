----------------------------- MODULE ReplyReader -----------------------------
(***************************************************************************)
(* What reading the reply to one request promises its caller, whatever the *)
(* handlers, callbacks and read modes: the frames of the reply are taken   *)
(* one at a time and in order; a row is handed over, if at all, when its   *)
(* frame is taken; the caller is told the reply is complete only when all  *)
(* of it was read and every row was handed over; it may instead be told    *)
(* that the read failed, at any point.  Either way it is told eventually.  *)
(***************************************************************************)
EXTENDS Integers, Sequences, SequencesExt

CONSTANTS
  Replies,   \* the replies the server may send
  IsRow(_)   \* the frames that carry a row

VARIABLES
  reply,     \* the reply being read
  consumed,  \* how many of its frames were taken
  rows,      \* positions of the rows handed over, in the order handed over
  outcome    \* "pending", "done" or "failed"

avars == <<reply, consumed, rows, outcome>>

(* Positions of the rows of the reply.                                      *)
RowsOf(r) == SetToSortSeq({i \in 1..Len(r) : IsRow(r[i])}, <)

Init ==
  /\ reply \in Replies
  /\ consumed = 0
  /\ rows = <<>>
  /\ outcome = "pending"

(* Take the next frame; a row may be handed over as it is taken.           *)
Take ==
  /\ outcome = "pending"
  /\ consumed < Len(reply)
  /\ consumed' = consumed + 1
  /\ \/ rows' = rows
     \/ IsRow(reply[consumed + 1]) /\ rows' = Append(rows, consumed + 1)
  /\ UNCHANGED <<reply, outcome>>

Complete ==
  /\ outcome = "pending"
  /\ consumed = Len(reply)
  /\ rows = RowsOf(reply)
  /\ outcome' = "done"
  /\ UNCHANGED <<reply, consumed, rows>>

Abort ==
  /\ outcome = "pending"
  /\ outcome' = "failed"
  /\ UNCHANGED <<reply, consumed, rows>>

Next == Take \/ Complete \/ Abort

(* A reader that can go on does: the reply is finite, so it ends.          *)
Spec == Init /\ [][Next]_avars /\ WF_avars(Next)
====
