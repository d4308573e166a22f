---------------------------- MODULE CollectionFind ----------------------------
(***************************************************************************)
(* The Collection.find() builder of src/mysqlx_collection__find.cc: the     *)
(* pending Find command behind a CollectionFind object and the PHP methods *)
(* that change it.  Each method is one action: the type checks of its      *)
(* argument, the xmysqlnd_crud_collection_find__* calls it makes in order, *)
(* the exception it raises and whether it returns the object for chaining. *)
(* The crud functions are outside src/ and are modelled from the spec: an *)
(* expression that does not parse is refused (FAIL), a name that is not a *)
(* placeholder of the criteria cannot be bound.                            *)
(*                                                                         *)
(* A PHP value is a record: t its type, e the expression text of a string *)
(* or of a mysqlx\Expression object, a the elements of an array.          *)
(***************************************************************************)
EXTENDS Integers, Sequences, SequencesExt

CONSTANTS
  Exprs,        \* expression texts that parse
  BadExpr,      \* an expression text that does not parse
  Placeholders, \* the :name placeholders of the search criteria
  BindVals,     \* values given to bind()
  Ints,         \* integers given to limit() and offset()
  LockOptions,  \* lock waiting options
  MaxItems      \* bound on the entries of the projection, sort and grouping

VARIABLES
  cmd,      \* the pending command (find_op)
  call,     \* the last method called
  raised,   \* that method raised an exception
  chained   \* that method returned the object (a PHP call can chain on it)
vars == <<cmd, call, raised, chained>>

Str(e)     == [t |-> "string", e |-> e, a |-> <<>>]
ExprObj(e) == [t |-> "expr", e |-> e, a |-> <<>>]
Other(t)   == [t |-> t, e |-> "", a |-> <<>>]
Arr(s)     == [t |-> "array", e |-> "", a |-> s]

Texts == Exprs \cup {BadExpr}
Scalars == {Str(e) : e \in Texts} \cup {ExprObj(e) : e \in Texts}
           \cup {Other("object"), Other("int")}
(* Array elements: strings that parse or not, and a non-string.          *)
ArrayElems == {Str(e) : e \in Texts} \cup {Other("int")}
Arrays == {Arr(s) : s \in UNION {[1..n -> ArrayElems] : n \in 1..2}}
Values == Scalars \cup Arrays

(* limit/offset: not set, or set to n (find_op keeps a flag and a value). *)
NoLimit == [set |-> FALSE, n |-> 0]
SetTo(n) == [set |-> TRUE, n |-> n]
Unbound == "unbound"

-----------------------------------------------------------------------------
(* The crud layer (spec section 4.5).                                       *)
Parses(e) == e \in Exprs

(* Collection_find::init: a criteria that does not parse gives no object.  *)
NewCmd(crit) ==
  [criteria |-> crit, projection |-> <<>>, sort |-> <<>>, grouping |-> <<>>,
   having |-> "", limit |-> NoLimit, offset |-> NoLimit,
   bindings |-> [p \in (IF crit = "" THEN {} ELSE Placeholders) |-> Unbound],
   lock |-> "none", waiting |-> "none"]

Result(c, ok, exc) == [cmd |-> c, ok |-> ok, exc |-> exc]

(* The loop of fields() over an array: each element, a mysqlx\Expression   *)
(* turned into its text, must be a string (else raise and return false);   *)
(* set_fields adds it, and a FAIL breaks the loop and raises.              *)
RECURSIVE FieldsLoop(_, _)
FieldsLoop(c, s) ==
  IF s = <<>> THEN Result(c, TRUE, FALSE)
  ELSE LET v == Head(s)
       IN IF v.t \notin {"string", "expr"} THEN Result(c, FALSE, TRUE)
          ELSE IF ~Parses(v.e) THEN Result(c, FALSE, TRUE)
          ELSE FieldsLoop([c EXCEPT !.projection = Append(@, [e |-> v.e, x |-> v.t = "expr"])],
                          Tail(s))

(* Collection_find::fields.  An object that is not an expression passes   *)
(* the switch and is neither a string nor an array: nothing is added and  *)
(* the call succeeds.                                                      *)
Fields(c, v) ==
  CASE v.t \in {"string", "expr"} ->
         IF Parses(v.e)
         THEN Result([c EXCEPT !.projection = Append(@, [e |-> v.e, x |-> v.t = "expr"])], TRUE, FALSE)
         ELSE Result(c, FALSE, TRUE)
    [] v.t = "array"  -> FieldsLoop(c, v.a)
    [] v.t = "object" -> Result(c, TRUE, FALSE)
    [] OTHER          -> Result(c, FALSE, TRUE)

AddExpr(c, kind, e) == [c EXCEPT ![kind] = Append(@, e)]

(* The second loop of add_operation over one argument: a string is added *)
(* and a FAIL is ignored; an array's entries must be strings that parse,  *)
(* else raise and return false; an object raises.  ub is the value the    *)
(* function returns when it reaches its end without a return statement.   *)
RECURSIVE AddArgs(_, _, _, _)
AddArgs(c, kind, args, ub) ==
  IF args = <<>> THEN Result(c, ub, FALSE)
  ELSE LET v == Head(args)
       IN CASE v.t = "string" ->
                 AddArgs(IF Parses(v.e) THEN AddExpr(c, kind, v.e) ELSE c, kind, Tail(args), ub)
            [] v.t = "array" ->
                 LET bad  == {i \in DOMAIN v.a : v.a[i].t /= "string" \/ ~Parses(v.a[i].e)}
                     stop == IF bad = {} THEN Len(v.a) + 1 ELSE Min(bad)
                     c1   == [c EXCEPT ![kind] = @ \o [i \in 1..(stop - 1) |-> v.a[i].e]]
                 IN IF bad = {} THEN AddArgs(c1, kind, Tail(args), ub)
                    ELSE Result(c1, FALSE, TRUE)
            [] OTHER -> Result(c, FALSE, TRUE)

(* Collection_find::add_operation: a first loop refuses, with a warning   *)
(* and no exception, an argument that is not a string, object or array.   *)
add_operation(c, kind, args, ub) ==
  IF \E i \in DOMAIN args : args[i].t \notin {"string", "expr", "object", "array"}
  THEN Result(c, FALSE, FALSE)
  ELSE AddArgs(c, kind, args, ub)

(* Collection_find::bind: each variable with a string key is bound in     *)
(* order; the first FAIL raises and leaves the earlier ones bound; both    *)
(* ways out are DBG_VOID_RETURN in a bool function (ub).                   *)
RECURSIVE Bind(_, _, _)
Bind(c, s, ub) ==
  IF s = <<>> THEN Result(c, ub, FALSE)
  ELSE LET b == Head(s)
       IN IF b.k = "int" THEN Bind(c, Tail(s), ub)
          ELSE IF b.k \notin DOMAIN c.bindings THEN Result(c, ub, TRUE)
          ELSE Bind([c EXCEPT !.bindings[b.k] = b.v], Tail(s), ub)

\* Variant: a refused limit clears the one set before
LimitClearsOnError(c, rows) ==
  IF rows < 0 THEN Result([c EXCEPT !.limit = NoLimit], FALSE, TRUE)
  ELSE Result([c EXCEPT !.limit = SetTo(rows)], TRUE, FALSE)

\* Variant: limit without the check of the sign of rows
LimitUnchecked(c, rows) == Result([c EXCEPT !.limit = SetTo(rows)], TRUE, FALSE)

(* Collection_find::limit and ::offset: a negative value raises.           *)
Limit(c, rows) ==
  IF rows < 0 THEN Result(c, FALSE, TRUE)
  ELSE Result([c EXCEPT !.limit = SetTo(rows)], TRUE, FALSE)

Offset(c, pos) ==
  IF pos < 0 THEN Result(c, FALSE, TRUE)
  ELSE Result([c EXCEPT !.offset = SetTo(pos)], TRUE, FALSE)

(* Collection_find::having: set_having's FAIL returns false, no exception. *)
Having(c, e) ==
  IF Parses(e) THEN Result([c EXCEPT !.having = e], TRUE, FALSE) ELSE Result(c, FALSE, FALSE)

(* lock_shared / lock_exclusive: enable the lock, then the waiting option. *)
Lock(c, mode, opt) == Result([c EXCEPT !.lock = mode, !.waiting = opt], TRUE, FALSE)

-----------------------------------------------------------------------------
Init ==
  /\ cmd \in {NewCmd(crit) : crit \in {""} \cup Exprs}
  /\ call = "none"
  /\ raised = FALSE
  /\ chained = TRUE

(* The PHP method: it returns the object when the member function returned *)
(* true, NULL otherwise.                                                   *)
Apply(name, r) ==
  /\ cmd' = r.cmd
  /\ call' = name
  /\ raised' = r.exc
  /\ chained' = r.ok

Size(c) == Len(c.projection) + Len(c.sort) + Len(c.grouping)
ItemsOf(v) == IF v.t = "array" THEN Len(v.a) ELSE 1

fields == \E v \in Values : Size(cmd) + ItemsOf(v) <= MaxItems /\ Apply("fields", Fields(cmd, v))

(* sort() and groupBy() take one or two arguments.                         *)
sort_or_group_by ==
  \E kind \in {"sort", "grouping"}, args \in UNION {[1..n -> Values] : n \in 1..2}, ub \in BOOLEAN :
    /\ Size(cmd) + FoldFunction(LAMBDA v, acc : ItemsOf(v) + acc, 0, args) <= MaxItems
    /\ Apply(IF kind = "sort" THEN "sort" ELSE "groupBy", add_operation(cmd, kind, args, ub))

having == \E e \in Texts : Apply("having", Having(cmd, e))

limit == \E rows \in Ints : Apply("limit", Limit(cmd, rows))

(* The PHP method offset checks the sign before Collection_find::offset.   *)
offset == \E pos \in Ints : Apply("offset", Offset(cmd, pos))

bind ==
  \E s \in UNION {[1..n -> [k : Placeholders \cup {"other", "int"}, v : BindVals]] : n \in 1..2},
     ub \in BOOLEAN :
    Apply("bind", Bind(cmd, s, ub))

lock == \E mode \in {"shared", "exclusive"}, opt \in LockOptions :
          Apply(IF mode = "shared" THEN "lockShared" ELSE "lockExclusive", Lock(cmd, mode, opt))

Next == fields \/ sort_or_group_by \/ having \/ limit \/ offset \/ bind \/ lock

Spec == Init /\ [][Next]_vars

-----------------------------------------------------------------------------
TypeOK ==
  /\ cmd.limit.n \in Nat /\ cmd.offset.n \in Nat
  /\ \A p \in DOMAIN cmd.bindings : cmd.bindings[p] \in BindVals \cup {Unbound}
  /\ call \in {"none", "fields", "sort", "groupBy", "having", "limit", "offset",
               "bind", "lockShared", "lockExclusive"}
  /\ raised \in BOOLEAN /\ chained \in BOOLEAN

(* limit(n) / offset(n) with n < 0 raise and leave the pending command as *)
(* it was, whatever was set before (spec section 8: limit(-1) leaves the  *)
(* stored limit unchanged) - Collection_find::limit / ::offset.            *)
NegativeRejectedUnchanged ==
  [][call' \in {"limit", "offset"} /\ raised' => cmd' = cmd]_vars

(* The contract of a builder call (spec sections 3 and 6): it either     *)
(* returns the object, so that calls chain, or raises an exception and    *)
(* leaves the pending command as it was - no silent NULL, no partial      *)
(* mutation on error.  It is about fields(), sort() and groupBy() over     *)
(* arrays, bind(), and add_operation's refusal of an argument's type.     *)
CallContract ==
  [][IF raised' THEN cmd' = cmd ELSE chained']_vars
====
