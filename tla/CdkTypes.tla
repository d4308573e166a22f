------------------------------ MODULE CdkTypes ------------------------------
(***************************************************************************)
(* The value types of cdk/foundation/types.h: bytes, a pair of pointers    *)
(* delimiting a buffer; buffers, a chain of bytes linked by a pointer to   *)
(* the rest of the chain; option_t, a three-valued flag; and scoped_ptr<T>,*)
(* the owner of one heap object.  The classes do not share state: the      *)
(* specification is the interleaving of what a caller does with each.      *)
(*                                                                         *)
(* A byte* is an address in 0..MaxAddr, 0 standing for NULL.  A buffers    *)
(* object is the non-empty sequence of the bytes along its chain: its head *)
(* is m_first and its tail is *m_rest, m_rest being NULL when the tail is  *)
(* empty.  The heap holds the objects a scoped_ptr may own; a delete of an *)
(* object already deleted is counted, since its effect is undefined.       *)
(***************************************************************************)
EXTENDS Integers, Sequences, SequencesExt

CONSTANTS
  Objs,      \* the objects of type T the caller may allocate
  NULL,      \* the null T*
  MaxAddr,   \* byte addresses are 0..MaxAddr; 0 is the null byte*
  MaxLen,    \* the longest buffer the caller describes
  MaxChain   \* the longest chain of buffers the caller links

VARIABLES
  heap,      \* heap[o]: "free" (not yet allocated), "live" or "deleted"
  deletes,   \* deletes[o]: how many times o was deleted
  m_ptr,     \* scoped_ptr::m_ptr
  alive,     \* the scoped_ptr is constructed and not yet destroyed
  owned,     \* the live objects the caller holds and must delete itself
  bufs,      \* the caller's buffers object, as the chain of its bytes
  m_option,  \* option_t::m_option
  conv       \* what the last conversion of the option_t to bool gave

ptrvars == <<heap, deletes, m_ptr, alive, owned>>
vars == <<heap, deletes, m_ptr, alive, owned, bufs, m_option, conv>>

Addr == 0..MaxAddr
OutOfRange == [thrown |-> "pos out of range"]   \* buffers::get_buffer THROW

(* --------------------------- bytes ------------------------------------- *)

(* A constructor that sets m_end one byte past the buffer.                 *)
BytesPastEnd(buf, len) == [b |-> buf, e |-> buf + len + 1]

(* bytes(), bytes(buf, len), bytes(begin, end) and the string constructors *)
(* all set m_begin to the start and m_end to the start plus the length;    *)
(* bytes() is bytes(NULL, 0).                                              *)
bytes(buf, len) == [b |-> buf, e |-> buf + len]

(* A buffer the caller can describe.  A description past the address     *)
(* space is one no caller can make.                                       *)
BytesArgs == {<<p, l>> \in Addr \X (0..MaxLen) : p + l <= MaxAddr}

(* bytes::size: the distance between the pointers, but 0 when either is    *)
(* NULL; bytes(NULL, len) has size 0 though its m_end is not NULL.  The    *)
(* assert m_end >= m_begin holds for every bytes built above.              *)
size(x) == IF x.b # 0 /\ x.e # 0 THEN x.e - x.b ELSE 0

(* --------------------------- buffers ----------------------------------- *)

(* buffers::buf_count: 1 + (m_rest ? m_rest->buf_count() : 0).            *)
RECURSIVE buf_count(_)
buf_count(c) == 1 + (IF Len(c) > 1 THEN buf_count(Tail(c)) ELSE 0)

(* buffers::length: m_first.size() + (m_rest ? m_rest->length() : 0).     *)
RECURSIVE length(_)
length(c) == size(c[1]) + (IF Len(c) > 1 THEN length(Tail(c)) ELSE 0)

RECURSIVE get_buffer(_, _)

(* A get_buffer that passes pos on to the rest of the chain unchanged.    *)
GetBufferSamePos(c, pos) ==
  IF pos = 0 THEN c[1]
  ELSE IF Len(c) = 1 THEN OutOfRange
  ELSE get_buffer(Tail(c), pos)

(* buffers::get_buffer: m_first at 0; past the end of the chain it throws; *)
(* otherwise it asks the rest for pos-1.                                   *)
get_buffer(c, pos) ==
  IF pos = 0 THEN c[1]
  ELSE IF Len(c) = 1 THEN OutOfRange
  ELSE get_buffer(Tail(c), pos - 1)

(* buffers(buf, len), buffers(begin, end), buffers(const bytes&): a chain  *)
(* of one buffer, m_rest = NULL.                                           *)
buffers_one ==
  /\ \E a \in BytesArgs : bufs' = <<bytes(a[1], a[2])>>
  /\ UNCHANGED <<ptrvars, m_option, conv>>

(* buffers(first, rest): m_first = first, m_rest = &rest, the caller's     *)
(* current chain.                                                          *)
buffers_link ==
  /\ Len(bufs) < MaxChain
  /\ \E a \in BytesArgs : bufs' = <<bytes(a[1], a[2])>> \o bufs
  /\ UNCHANGED <<ptrvars, m_option, conv>>

(* --------------------------- option_t ---------------------------------- *)

(* option_t(): m_option = UNKNOWN.                                         *)
option_t_default ==
  /\ m_option' = "UNKNOWN"
  /\ UNCHANGED <<ptrvars, bufs, conv>>

(* option_t(bool x): m_option = x ? YES : NO.                              *)
option_t_bool ==
  /\ \E x \in BOOLEAN : m_option' = IF x THEN "YES" ELSE "NO"
  /\ UNCHANGED <<ptrvars, bufs, conv>>

(* option_t::operator bool: throws on UNKNOWN, else m_option == YES.       *)
option_to_bool ==
  /\ conv' = CASE m_option = "UNKNOWN" -> "thrown"
               [] m_option = "YES"     -> "true"
               [] OTHER                -> "false"
  /\ UNCHANGED <<ptrvars, bufs, m_option>>

(* --------------------------- scoped_ptr -------------------------------- *)

(* delete p: nothing for NULL, else the object is deleted once more.       *)
Delete(p) ==
  /\ heap' = IF p = NULL THEN heap ELSE [heap EXCEPT ![p] = "deleted"]
  /\ deletes' = IF p = NULL THEN deletes ELSE [deletes EXCEPT ![p] = @ + 1]

(* The caller's new T: a fresh object it owns.                             *)
New ==
  /\ \E o \in Objs :
       /\ heap[o] = "free"
       /\ heap' = [heap EXCEPT ![o] = "live"]
       /\ owned' = owned \cup {o}
  /\ UNCHANGED <<deletes, m_ptr, alive, bufs, m_option, conv>>

(* The caller's delete of an object it owns.                               *)
DeleteOwned ==
  /\ \E o \in owned : Delete(o) /\ owned' = owned \ {o}
  /\ UNCHANGED <<m_ptr, alive, bufs, m_option, conv>>

(* scoped_ptr(T *ptr = NULL): takes over ptr.                              *)
scoped_ptr ==
  /\ ~alive
  /\ \E p \in owned \cup {NULL} : m_ptr' = p /\ owned' = owned \ {p}
  /\ alive' = TRUE
  /\ UNCHANGED <<heap, deletes, bufs, m_option, conv>>

(* ~scoped_ptr(): delete m_ptr.                                            *)
destroy ==
  /\ alive
  /\ Delete(m_ptr)
  /\ alive' = FALSE
  /\ m_ptr' = NULL
  /\ UNCHANGED <<owned, bufs, m_option, conv>>

(* A reset that stores the new pointer without deleting the old one.       *)
ResetNoDelete ==
  /\ alive
  /\ \E p \in owned \cup {NULL} : m_ptr' = p /\ owned' = owned \ {p}
  /\ UNCHANGED <<heap, deletes, alive, bufs, m_option, conv>>

(* reset(T *ptr = NULL): delete m_ptr; m_ptr = ptr.  The caller passes a   *)
(* pointer it owns or NULL.                                                *)
reset ==
  /\ alive
  /\ Delete(m_ptr)
  /\ \E p \in owned \cup {NULL} : m_ptr' = p /\ owned' = owned \ {p}
  /\ UNCHANGED <<alive, bufs, m_option, conv>>

(* A release that hands the object over but keeps pointing at it.          *)
ReleaseKeepsPtr ==
  /\ alive
  /\ owned' = IF m_ptr = NULL THEN owned ELSE owned \cup {m_ptr}
  /\ UNCHANGED <<heap, deletes, m_ptr, alive, bufs, m_option, conv>>

(* release(): ptr = get(); m_ptr = NULL; return ptr -- the caller now owns *)
(* what the scoped_ptr held.                                               *)
release ==
  /\ alive
  /\ m_ptr' = NULL
  /\ owned' = IF m_ptr = NULL THEN owned ELSE owned \cup {m_ptr}
  /\ UNCHANGED <<heap, deletes, alive, bufs, m_option, conv>>

(* --------------------------- specification ----------------------------- *)

Init ==
  /\ heap = [o \in Objs |-> "free"]
  /\ deletes = [o \in Objs |-> 0]
  /\ m_ptr = NULL
  /\ alive = FALSE
  /\ owned = {}
  /\ bufs = <<bytes(0, 0)>>
  /\ m_option = "UNKNOWN"
  /\ conv = "none"

Next ==
  \/ buffers_one \/ buffers_link
  \/ option_t_default \/ option_t_bool \/ option_to_bool
  \/ New \/ DeleteOwned \/ scoped_ptr \/ destroy \/ reset \/ release

Spec == Init /\ [][Next]_vars

(* --------------------------- properties -------------------------------- *)

TypeOK ==
  /\ heap \in [Objs -> {"free", "live", "deleted"}]
  /\ deletes \in [Objs -> Nat]
  /\ m_ptr \in Objs \cup {NULL}
  /\ alive \in BOOLEAN
  /\ owned \subseteq Objs
  /\ bufs \in Seq([b : Addr, e : Addr]) /\ bufs # <<>>
  /\ m_option \in {"UNKNOWN", "NO", "YES"}
  /\ conv \in {"none", "thrown", "true", "false"}

(* The recursive buf_count, length and get_buffer of buffers agree with    *)
(* the chain they walk: the number of links, the sum of the sizes of their *)
(* bytes, and the bytes at each position, with a throw past the last.      *)
BuffersAgree ==
  /\ buf_count(bufs) = Len(bufs)
  /\ length(bufs) = FoldSeq(LAMBDA x, acc : size(x) + acc, 0, bufs)
  /\ \A pos \in 0..MaxChain :
       get_buffer(bufs, pos) = IF pos < Len(bufs) THEN bufs[pos + 1]
                                                   ELSE OutOfRange

(* Whatever the caller does with scoped_ptr's constructor, reset, release  *)
(* and destructor and with the objects it owns, no object is deleted twice *)
(* (the destructor and reset delete m_ptr, so it must not point at an      *)
(* object handed over by release).                                         *)
NoDoubleDelete == \A o \in Objs : deletes[o] <= 1

(* No object is leaked by the scoped_ptr: every live object is held by it  *)
(* or owned by the caller (reset and the destructor delete what m_ptr      *)
(* held before it is overwritten or goes away).                            *)
NoLeak ==
  \A o \in Objs : heap[o] = "live" => o \in owned \/ (alive /\ m_ptr = o)
====
