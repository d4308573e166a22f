------------------------------ MODULE RowDecoder ------------------------------
(***************************************************************************)
(* xmysqlnd_row_field_to_zval (src/xmysqlnd/xmysqlnd_wireprotocol.cc      *)
(* lines 1298-1588): the decoding of one field of a ROW for its column     *)
(* type, as operators over byte sequences, next to the encoders the X      *)
(* Protocol server uses, written from the protocol (spec section 4.3).     *)
(*                                                                         *)
(* Integers are W bits wide, W standing for 64: a varint has at most       *)
(* ceil(W/7) bytes (10 for 64) and the native long is W bits signed.       *)
(* size_t arithmetic wraps at SizeMod.  A decoded value (zval) is modelled *)
(* by what it denotes: the number an integer or a printed integer stands   *)
(* for, the bytes of a string, the fields a TIME/DATETIME text shows, the  *)
(* sign, digits and dot of a DECIMAL text, the elements of a SET array.   *)
(* DOUBLE and FLOAT are IEEE bit reinterpretations and are not modelled.   *)
(*                                                                         *)
(* The state is a field the server sent and the decoder's result: Init    *)
(* picks the field, Decode is the call that decodes it.                    *)
(***************************************************************************)
EXTENDS Integers, Sequences, SequencesExt, FiniteSets

CONSTANTS
  W,            \* width of the integers (64 in the build)
  SizeMod,      \* 2^(bits of size_t)
  SIntVals,     \* signed values the server sends (a subset of LongRange)
  UIntVals,     \* unsigned values the server sends (below 2^W)
  TimeVals,     \* values of the TIME / DATETIME fields the server sends
  SetChars,     \* bytes the elements of a SET / BYTES value are made of
  MaxElemLen,   \* longest SET element / BYTES value
  SetElemLens,  \* lengths of the SET elements the server sends
  MaxSetSize,   \* most elements of a SET
  MaxDecDigits, \* most digits of a DECIMAL
  Malformed     \* payloads a broken server may send: [type, bytes]

ASSUME W \in 8..16 /\ SizeMod \in Nat \ {0}

Pending == [ret |-> "NONE", zv |-> [t |-> "null"]]

LongMax == 2^(W - 1) - 1
LongRange == (-(LongMax + 1))..LongMax
UMod == 2^W
MaxVarintBytes == (W + 6) \div 7

VARIABLES field, result
vars == <<field, result>>

-----------------------------------------------------------------------------
(* The server side: varint, zigzag and the per-type payloads.              *)
RECURSIVE VarintEncode(_)
VarintEncode(u) == IF u < 128 THEN <<u>> ELSE <<(u % 128) + 128>> \o VarintEncode(u \div 128)

ZigZagEncode(v) == IF v >= 0 THEN 2 * v ELSE -2 * v - 1

VarintsEncode(s) == FoldLeft(LAMBDA acc, x : acc \o VarintEncode(x), <<>>, s)

(* A DECIMAL: scale byte, digit nibbles, the sign nibble (0xC / 0xD), and  *)
(* a zero nibble to fill the last byte.                                    *)
Nibbles(d, neg) ==
  LET n == d \o <<IF neg THEN 13 ELSE 12>>
  IN IF Len(n) % 2 = 0 THEN n ELSE Append(n, 0)
PackNibbles(n) == [i \in 1..(Len(n) \div 2) |-> 16 * n[2 * i - 1] + n[2 * i]]
DecimalEncode(v) == <<v.scale>> \o PackNibbles(Nibbles(v.digits, v.neg))

SetEncode(elems) ==
  IF elems = <<>> THEN <<1>>
  ELSE FoldLeft(LAMBDA acc, e : acc \o VarintEncode(Len(e)) \o e, <<>>, elems)

(* TIME is (neg, hours, minutes, seconds, useconds), DATETIME (year,       *)
(* month, day, hours, minutes, seconds, useconds); trailing zero fields    *)
(* after the first keep fields may be left out.                            *)
TemporalEncodings(f, keep) ==
  {VarintsEncode(SubSeq(f, 1, k)) :
     k \in {j \in keep..Len(f) : \A i \in (j + 1)..Len(f) : f[i] = 0}}

(* src is "value" for the encoding of value v, "null" for a NULL, and     *)
(* "malformed" for a payload no value encodes to.                          *)
Fld(t, bytes, src, v) == [type |-> t, bytes |-> bytes, src |-> src, v |-> v]

Strings(maxLen) == UNION {[1..n -> SetChars] : n \in 0..maxLen}
SetElems == UNION {[1..n -> SetChars] : n \in SetElemLens}
Decimals ==
  {[neg |-> ng, digits |-> d, scale |-> sc] :
     ng \in BOOLEAN, d \in UNION {[1..n -> 0..9] : n \in 1..MaxDecDigits},
     sc \in 0..(MaxDecDigits - 1)}

ServerFields ==
  {Fld(t, <<>>, "null", 0) : t \in {"SINT", "UINT", "BYTES", "TIME", "DATETIME", "SET", "DECIMAL"}}
  \cup {Fld("SINT", VarintEncode(ZigZagEncode(x)), "value", x) : x \in SIntVals}
  \cup {Fld(t, VarintEncode(u), "value", u) : u \in UIntVals, t \in {"UINT", "BIT"}}
  \cup {Fld(t, s \o <<0>>, "value", s) : s \in Strings(MaxElemLen), t \in {"BYTES", "ENUM"}}
  \cup {Fld("TIME", <<0>>, "value", <<0, 0, 0, 0, 0>>)}
  \cup UNION {{Fld("TIME", b, "value", f) : b \in TemporalEncodings(f, 2)} :
                f \in {<<ng>> \o g : ng \in {0, 1}, g \in [1..4 -> TimeVals]}}
  \cup {Fld("DATETIME", <<0>>, "value", <<0, 0, 0, 0, 0, 0, 0>>)}
  \cup UNION {{Fld("DATETIME", b, "value", f) : b \in TemporalEncodings(f, 3)} : f \in [1..7 -> TimeVals]}
  \cup {Fld("SET", SetEncode(e), "value", e) : e \in UNION {[1..n -> SetElems] : n \in 0..MaxSetSize}}
  \cup {Fld("DECIMAL", DecimalEncode(v), "value", v) : v \in {x \in Decimals : Len(x.digits) > x.scale}}

Fields == ServerFields \cup {Fld(m.type, m.bytes, "malformed", 0) : m \in Malformed}

-----------------------------------------------------------------------------
(* The client side.  CodedInputStream::ReadVarint64 from byte i: fails on  *)
(* a buffer that ends inside the varint or on a varint longer than         *)
(* MaxVarintBytes; bits above W are dropped.                               *)
RECURSIVE ReadVarintFrom(_, _, _, _)
ReadVarintFrom(p, i, k, acc) ==
  IF i > Len(p) THEN [ok |-> FALSE, val |-> 0, next |-> i]
  ELSE LET b == p[i]
           a == acc + (b % 128) * 2^(7 * k)
       IN IF b < 128 THEN [ok |-> TRUE, val |-> a % UMod, next |-> i + 1]
          ELSE IF k + 1 = MaxVarintBytes THEN [ok |-> FALSE, val |-> 0, next |-> i + 1]
          ELSE ReadVarintFrom(p, i + 1, k + 1, a)

ReadVarint64(p, i) == ReadVarintFrom(p, i, 0, 0)

(* WireFormatLite::ZigZagDecode64: (n >> 1) ^ -(n & 1).                    *)
ZigZagDecode64(g) == IF g % 2 = 0 THEN g \div 2 ELSE -(g \div 2) - 1

Pass(zv) == [ret |-> "PASS", zv |-> zv]
Fail(zv) == [ret |-> "FAIL", zv |-> zv]
NullZv == [t |-> "null"]

DecodeSINT(p) ==
  LET r == ReadVarint64(p, 1)
  IN IF r.ok THEN Pass([t |-> "long", n |-> ZigZagDecode64(r.val)]) ELSE Fail(NullZv)

\* Variant: the UINT range test against the unsigned maximum instead of INT64_MAX
DecodeUINTWideLong(p) ==
  LET r == ReadVarint64(p, 1)
  IN IF ~r.ok THEN Fail(NullZv)
     ELSE IF r.val > UMod - 1 THEN Pass([t |-> "string", n |-> r.val])
     ELSE Pass([t |-> "long", n |-> r.val])

(* Values above INT64_MAX become the decimal string of the value.          *)
DecodeUINT(p) ==
  LET r == ReadVarint64(p, 1)
  IN IF ~r.ok THEN Fail(NullZv)
     ELSE IF r.val > LongMax THEN Pass([t |-> "string", n |-> r.val])
     ELSE Pass([t |-> "long", n |-> r.val])

(* BYTES / ENUM: the value without the terminating zero byte.              *)
DecodeBYTES(p) == Pass([t |-> "bytes", s |-> SubSeq(p, 1, Len(p) - 1)])

(* The do { if (!ReadVarint64(&f)) break; ... } while (0) of TIME and      *)
(* DATETIME: fields are read in order until one cannot be; the rest stay 0.*)
RECURSIVE ReadFields(_, _, _)
ReadFields(p, i, n) ==
  IF n = 0 THEN <<>>
  ELSE LET r == ReadVarint64(p, i)
       IN IF r.ok THEN <<r.val>> \o ReadFields(p, r.next, n - 1)
          ELSE [j \in 1..n |-> 0]

(* The (unsigned int) casts of the format arguments.                       *)
UInt(x) == x % 2^(W \div 2)

DecodeTIME(p) ==
  IF Len(p) = 1
  THEN IF p[1] = 0 THEN Pass([t |-> "time", neg |-> FALSE, f |-> <<0, 0, 0, 0>>])
       ELSE Fail(NullZv)
  ELSE LET f == ReadFields(p, 1, 5)
       IN Pass([t |-> "time", neg |-> f[1] /= 0,
                f |-> [i \in 1..4 |-> UInt(f[i + 1])]])

(* DATETIME_FMT_STR has six conversions for seven arguments: the           *)
(* microseconds are not printed.                                           *)
DecodeDATETIME(p) ==
  IF Len(p) = 1
  THEN IF p[1] = 0 THEN Pass([t |-> "datetime", f |-> <<0, 0, 0, 0, 0, 0>>])
       ELSE Fail(NullZv)
  ELSE LET f == ReadFields(p, 1, 7)
       IN Pass([t |-> "datetime", f |-> [i \in 1..6 |-> UInt(f[i])]])

(* The SET loop: read a length; GetDirectBufferPointer fails when no byte  *)
(* is left, and the next length read ends the loop; a length past the end *)
(* fails with the elements read so far in the array.                       *)
RECURSIVE SetLoop(_, _, _)
SetLoop(p, i, acc) ==
  LET r    == ReadVarint64(p, i)
      rest == Len(p) - r.next + 1
  IN IF ~r.ok \/ rest <= 0 THEN Pass([t |-> "array", s |-> acc])
     ELSE IF r.val > rest THEN Fail([t |-> "array", s |-> acc])
     ELSE SetLoop(p, r.next + r.val, Append(acc, SubSeq(p, r.next, r.next + r.val - 1)))

DecodeSET(p) ==
  IF Len(p) = 1 /\ p[1] = 1 THEN Pass([t |-> "array", s |-> <<>>])
  ELSE SetLoop(p, 1, <<>>)

\* Variant: the dot placed one digit later (digits - scale)
DecimalDotLate(p) ==
  LET n      == Len(p)
      last   == p[n]
      sign   == IF last % 16 /= 0 THEN last % 16 ELSE last \div 16
      digits == ((n - 2) * 2 + (IF last % 16 > 9 THEN 1 ELSE 0)) % SizeMod
  IN IF digits = 0 THEN Fail(NullZv)
     ELSE IF 1 + (digits - 1) \div 2 > n - 1 THEN Fail([t |-> "overread"])
     ELSE Pass([t |-> "decimal", neg |-> sign = 13,
                d |-> [q \in 1..digits |-> IF (q - 1) % 2 = 1 THEN p[2 + (q - 1) \div 2] % 16
                                           ELSE p[2 + (q - 1) \div 2] \div 16],
                dot |-> ((digits - p[1]) % SizeMod) + 1])

(* DECIMAL: scale = buf[0]; the sign is the low nibble of the last byte,   *)
(* or its high nibble when the low one is 0; digits =                      *)
(* (buf_size - 2) * 2 + (low nibble > 9) in size_t; the digit at position *)
(* pos is a nibble of buf[1 + pos / 2]; the dot follows position           *)
(* digits - scale - 1 (size_t).  dot is the number of digits before the   *)
(* dot; a dot_position no digit has means no dot (dot >= digits).  Digits *)
(* beyond the buffer are a read past its end ("overread").                 *)
DecodeDECIMAL(p) ==
  LET n      == Len(p)
      last   == p[n]
      sign   == IF last % 16 /= 0 THEN last % 16 ELSE last \div 16
      digits == ((n - 2) * 2 + (IF last % 16 > 9 THEN 1 ELSE 0)) % SizeMod
  IN IF digits = 0 THEN Fail(NullZv)
     ELSE IF 1 + (digits - 1) \div 2 > n - 1 THEN Fail([t |-> "overread"])
     ELSE Pass([t |-> "decimal", neg |-> sign = 13,
                d |-> [q \in 1..digits |-> IF (q - 1) % 2 = 1 THEN p[2 + (q - 1) \div 2] % 16
                                           ELSE p[2 + (q - 1) \div 2] \div 16],
                dot |-> ((digits - p[1] - 1) % SizeMod) + 1])

(* The whole function: an empty buffer leaves the zval NULL and passes.    *)
xmysqlnd_row_field_to_zval(t, p) ==
  IF p = <<>> THEN Pass(NullZv)
  ELSE CASE t = "SINT"                -> DecodeSINT(p)
         [] t \in {"UINT", "BIT"}     -> DecodeUINT(p)
         [] t \in {"BYTES", "ENUM"}   -> DecodeBYTES(p)
         [] t = "TIME"                -> DecodeTIME(p)
         [] t = "DATETIME"            -> DecodeDATETIME(p)
         [] t = "SET"                 -> DecodeSET(p)
         [] t = "DECIMAL"             -> DecodeDECIMAL(p)

-----------------------------------------------------------------------------
Init ==
  /\ field \in Fields
  /\ result = Pending

(* The field callback decodes the field of the row.                        *)
Decode ==
  /\ result = Pending
  /\ result' = xmysqlnd_row_field_to_zval(field.type, field.bytes)
  /\ UNCHANGED field

Spec == Init /\ [][Decode]_vars

-----------------------------------------------------------------------------
(* The value a decoded zval stands for, to be compared with the value the  *)
(* server encoded.                                                         *)
Denotes(zv, t, src, v) ==
  CASE src = "null"               -> zv = NullZv
    [] t = "SINT"                 -> zv.t = "long" /\ zv.n = v
    [] t \in {"UINT", "BIT"}      -> zv.t \in {"long", "string"} /\ zv.n = v
    [] t \in {"BYTES", "ENUM"}    -> zv.t = "bytes" /\ zv.s = v
    [] t = "TIME"                 -> zv.t = "time" /\ zv.neg = (v[1] /= 0)
                                     /\ zv.f = SubSeq(v, 2, 5)
    [] t = "DATETIME"             -> zv.t = "datetime" /\ zv.f = SubSeq(v, 1, 6)
    [] t = "SET"                  -> zv.t = "array" /\ zv.s = v
    [] t = "DECIMAL"              -> zv.t = "decimal" /\ zv.neg = v.neg /\ zv.d = v.digits
                                     /\ zv.dot = Len(v.digits) - v.scale

TypeOK ==
  /\ field \in Fields
  /\ result.ret \in {"NONE", "PASS", "FAIL"}
  /\ result.zv.t \in {"null", "long", "string", "bytes", "time", "datetime",
                      "array", "decimal", "overread"}
  /\ result.zv.t = "long" => result.zv.n \in LongRange

(* Every value the server encodes decodes, with PASS, to a zval that       *)
(* stands for that value: integers exact (a string above INT64_MAX), the   *)
(* fields of a TIME, those of a DATETIME but its microseconds (which the   *)
(* format leaves out), every element of a SET in order, the sign, digits   *)
(* and dot of a DECIMAL (xmysqlnd_row_field_to_zval).                      *)
ServerValuesRoundTrip ==
  result /= Pending /\ field.src /= "malformed" =>
    result.ret = "PASS" /\ Denotes(result.zv, field.type, field.src, field.v)

(* What spec sections 4.3 and 6 say of the decoder as a whole: a payload a *)
(* server value encodes to decodes to that value with PASS (a SET element  *)
(* is appended until the buffer is exhausted, so an empty last element is *)
(* kept), and a malformed one is a decode error that reports FAIL with the *)
(* field Null (a SET length past the end discards the partial list).       *)
DecodedAsSpecified ==
  result /= Pending =>
    IF field.src = "malformed"
    THEN result.ret = "FAIL" /\ result.zv = NullZv
    ELSE result.ret = "PASS" /\ Denotes(result.zv, field.type, field.src, field.v)
=============================================================================
