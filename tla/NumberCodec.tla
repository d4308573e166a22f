----------------------------- MODULE NumberCodec -----------------------------
(***************************************************************************)
(* The CDK number codecs of cdk/foundation/codec.h: Number_codec<E> turns  *)
(* the bytes of a buffer into an integer of type T and back, in byte order *)
(* E.  For the host's own order (Endianess::NATIVE) it casts the buffer to *)
(* T; for the other order it reverses the bytes and calls the native one,  *)
(* with its own overloads for 1- and 2-byte integers.  A buffer shorter    *)
(* than T is read as the largest of 8, 4, 2 or 1 bytes that fits, as the   *)
(* integer of that size and of T's signedness, then cast to T.             *)
(*                                                                         *)
(* A byte has ByteMod values (ByteMod stands for 256): its top bit is the  *)
(* sign bit, so an 8-byte integer has ByteMod^8 values and TLC can hold    *)
(* them.  host is the build's CDK_BIG_ENDIAN setting; buf is the caller's  *)
(* buffer, filled by the network or by to_bytes; last the last call.       *)
(***************************************************************************)
EXTENDS Integers, Sequences, SequencesExt

CONSTANTS
  ByteMod,   \* values of a byte (stands for 256)
  Hosts,     \* byte orders the build may have: subset of {"LITTLE", "BIG"}
  Codecs,    \* the Number_codec<E> used: subset of {"LITTLE", "BIG"}
  ByteVals,  \* byte values of received buffers
  MaxLen     \* bound on the length of a received buffer

ASSUME ByteMod >= 4 /\ ByteMod % 2 = 0 /\ MaxLen >= 9

VARIABLES host, buf, last
vars == <<host, buf, last>>

Widths == {1, 2, 4, 8}
Types == [w : Widths, signed : BOOLEAN]
U8  == [w |-> 1, signed |-> FALSE]
S8  == [w |-> 1, signed |-> TRUE]
U16 == [w |-> 2, signed |-> FALSE]
S16 == [w |-> 2, signed |-> TRUE]

Lo(t) == IF t.signed THEN -((ByteMod ^ t.w) \div 2) ELSE 0
Hi(t) == IF t.signed THEN (ByteMod ^ t.w) \div 2 - 1 ELSE ByteMod ^ t.w - 1
Ints(t) == Lo(t)..Hi(t)

(* The result of a conversion: ok is FALSE when it throws; val the value  *)
(* read; ret the number of bytes read or written; out the bytes written.  *)
Throw == [ok |-> FALSE, val |-> 0, ret |-> 0, out |-> <<>>]
Read(v, n) == [ok |-> TRUE, val |-> v, ret |-> n, out |-> <<>>]
Written(bs) == [ok |-> TRUE, val |-> 0, ret |-> Len(bs), out |-> bs]

-----------------------------------------------------------------------------
(* Endianess::NATIVE is BIG when CDK_BIG_ENDIAN, else LITTLE.              *)
IsNative(E) == E = host

(* num_type<N, Signed>::type: the N-byte bits u read as that integer.     *)
Interpret(u, n, signed) ==
  IF signed /\ u >= (ByteMod ^ n) \div 2 THEN u - ByteMod ^ n ELSE u

(* The C cast (T)v: v modulo 2^(8*sizeof(T)), read with T's signedness.   *)
Cast(v, t) == Interpret(v % (ByteMod ^ t.w), t.w, t.signed)

(* The load through a T pointer: the bytes as an unsigned integer in the  *)
(* host's order.                                                           *)
Load(bs) ==
  LET be == IF host = "BIG" THEN bs ELSE Reverse(bs)
  IN FoldLeft(LAMBDA acc, b : acc * ByteMod + b, 0, be)

(* The store through a T pointer: the n bytes of u in the host's order.    *)
Store(u, n) ==
  LET be == [i \in 1..n |-> (u \div ByteMod ^ (n - i)) % ByteMod]
  IN IF host = "BIG" THEN be ELSE Reverse(be)

\* Variant: the cascade without its 4-byte step
HowmuchNo4(n, w) ==
  CASE n >= w -> w [] n >= 8 -> 8 [] n >= 2 -> 2 [] n >= 1 -> 1 [] OTHER -> 0

(* How many bytes a conversion to T reads from a buffer of n bytes.       *)
Howmuch(n, w) ==
  CASE n >= w -> w [] n >= 8 -> 8 [] n >= 4 -> 4 [] n >= 2 -> 2 [] n >= 1 -> 1
    [] OTHER -> 0

(* Number_codec<NATIVE>::convert(bytes, T&).                               *)
NativeConvertFrom(bs, t) ==
  LET p == Howmuch(Len(bs), t.w)
  IN IF p = 0 THEN Throw
     ELSE Read(Cast(Interpret(Load(SubSeq(bs, 1, p)), p, t.signed), t), p)

(* Number_codec<NATIVE>::convert(T, bytes): n is the buffer's size.       *)
NativeConvertTo(v, t, n) ==
  IF n < t.w THEN Throw ELSE Written(Store(v % (ByteMod ^ t.w), t.w))

(* The opposite order's template convert(bytes, T&): reverse the bytes    *)
(* to be read into buf0, then convert them natively.                       *)
OppositeConvertFrom(bs, t) ==
  NativeConvertFrom(Reverse(SubSeq(bs, 1, Howmuch(Len(bs), t.w))), t)

(* ... and convert(T, bytes): convert natively, then reverse.              *)
OppositeConvertTo(v, t, n) ==
  LET r == NativeConvertTo(v, t, t.w)
  IN IF n < t.w THEN Throw ELSE Written(Reverse(r.out))

(* The overloads for 1- and 2-byte integers.  The signed ones convert     *)
(* through a reference to the unsigned type: the bits read are kept and    *)
(* read back as the signed type.                                           *)
ConvertU8From(bs) == IF Len(bs) < 1 THEN Throw ELSE Read(bs[1], 1)

ConvertU8To(v, n) == IF n < 1 THEN Throw ELSE Written(<<v>>)

\* Variant: int8 read without reading the bits back as signed
ConvertS8FromUnsigned(bs) == ConvertU8From(bs)

ConvertS8From(bs) ==
  LET r == ConvertU8From(bs) IN [r EXCEPT !.val = Cast(@, S8)]

ConvertS8To(v, n) == ConvertU8To(Cast(v, U8), n)

ConvertU16From(bs) ==
  IF Len(bs) < 2 THEN NativeConvertFrom(bs, U16)
  ELSE NativeConvertFrom(<<bs[2], bs[1]>>, U16)

\* Variant: uint16 written without swapping the two bytes
ConvertU16ToNoSwap(v, n) ==
  LET b0 == NativeConvertTo(v, U16, 2).out
  IN IF n < 2 THEN Throw ELSE Written(b0)

ConvertU16To(v, n) ==
  LET b0 == NativeConvertTo(v, U16, 2).out
  IN IF n < 2 THEN Throw ELSE Written(<<b0[2], b0[1]>>)

\* Variant: the bits of the uint16 read back as a one-byte integer
ConvertS16FromNarrow(bs) ==
  LET r == ConvertU16From(bs) IN [r EXCEPT !.val = Cast(@, S8)]

ConvertS16From(bs) ==
  LET r == ConvertU16From(bs) IN [r EXCEPT !.val = Cast(@, S16)]

ConvertS16To(v, n) == ConvertU16To(Cast(v, U16), n)

(* The public from_bytes / to_bytes of the opposite order's codec: each   *)
(* overload of T picks the matching convert.                               *)
OppositeFromBytes(bs, t) ==
  CASE t = U8  -> ConvertU8From(bs)
    [] t = S8  -> ConvertS8From(bs)
    [] t = U16 -> ConvertU16From(bs)
    [] t = S16 -> ConvertS16From(bs)
    [] OTHER   -> OppositeConvertFrom(bs, t)

OppositeToBytes(v, t, n) ==
  CASE t = U8  -> ConvertU8To(v, n)
    [] t = S8  -> ConvertS8To(v, n)
    [] t = U16 -> ConvertU16To(v, n)
    [] t = S16 -> ConvertS16To(v, n)
    [] OTHER   -> OppositeConvertTo(v, t, n)

(* Number_codec<E>: the native class when E is the host's order.           *)
FromBytes(E, bs, t) ==
  IF IsNative(E) THEN NativeConvertFrom(bs, t) ELSE OppositeFromBytes(bs, t)

ToBytes(E, v, t, n) ==
  IF IsNative(E) THEN NativeConvertTo(v, t, n) ELSE OppositeToBytes(v, t, n)

(* Codec<Type::NUMBER> is Number_codec<Endianess::LITTLE>.                 *)
DefaultCodec == "LITTLE"

-----------------------------------------------------------------------------
(* Received buffers of every length up to MaxLen.  The bytes a read can   *)
(* take the sign from, the first and the last of a 1-, 2-, 4- or 8-byte    *)
(* prefix, range over ByteVals; every other byte is Filler.                *)
Filler == ByteMod \div 2
Buffers ==
  {[i \in 1..n |-> IF i \in Widths THEN f[i] ELSE Filler] :
     n \in 0..MaxLen, f \in [Widths -> ByteVals]}

(* Values given to to_bytes: the ends of T's range and those around 0.    *)
Values(t) == {Lo(t), -1, 0, 1, Hi(t)} \cap Ints(t)

None == [op |-> "none", codec |-> DefaultCodec, t |-> U8, val |-> 0, res |-> Throw]

Init ==
  /\ host \in Hosts
  /\ buf \in Buffers
  /\ last = None

(* The buffer receives bytes from the server.                              *)
receive ==
  /\ \E b \in Buffers : buf' = b
  /\ last' = [None EXCEPT !.op = "receive"]
  /\ UNCHANGED host

(* api::Number_codec::from_bytes(buf, T&) on the current buffer.           *)
from_bytes ==
  \E E \in Codecs, t \in Types :
    /\ last' = [op |-> "from_bytes", codec |-> E, t |-> t, val |-> 0,
                res |-> FromBytes(E, buf, t)]
    /\ UNCHANGED <<host, buf>>

(* api::Number_codec::to_bytes(val, buf): the bytes written replace the    *)
(* start of the buffer; a throw leaves it as it was.                       *)
to_bytes ==
  \E E \in Codecs, t \in Types :
    \E v \in Values(t) :
      LET r == ToBytes(E, v, t, Len(buf))
      IN /\ last' = [op |-> "to_bytes", codec |-> E, t |-> t, val |-> v, res |-> r]
         /\ buf' = IF r.ok THEN r.out \o SubSeq(buf, r.ret + 1, Len(buf)) ELSE buf
         /\ UNCHANGED host

Next == receive \/ from_bytes \/ to_bytes

Spec == Init /\ [][Next]_vars

-----------------------------------------------------------------------------
(* The integer the n bytes of bs stand for in byte order E, as a signed   *)
(* or an unsigned number: the reference the codecs are checked against.   *)
WireValue(E, bs, signed) ==
  LET n == Len(bs)
      u == FoldLeft(LAMBDA acc, i : acc + bs[i] * ByteMod ^ (IF E = "LITTLE" THEN i - 1 ELSE n - i),
                    0, [i \in 1..n |-> i])
  IN IF signed /\ n > 0 /\ u >= (ByteMod ^ n) \div 2 THEN u - ByteMod ^ n ELSE u

(* The w bytes of v in byte order E (two's complement).                    *)
WireBytes(E, v, w) ==
  LET u == v % (ByteMod ^ w)
  IN [i \in 1..w |-> (u \div ByteMod ^ (IF E = "LITTLE" THEN i - 1 ELSE w - i)) % ByteMod]

(* The bytes a read of T from a buffer of n bytes must take: all of T's   *)
(* if there are enough, else the largest of 8, 4, 2, 1 that fits.         *)
ExpectedWidth(n, w) ==
  IF n >= w THEN w ELSE LET ws == {k \in Widths : k <= n} IN IF ws = {} THEN 0 ELSE Max(ws)

-----------------------------------------------------------------------------
TypeOK ==
  /\ host \in {"LITTLE", "BIG"}
  /\ buf \in Seq(0..(ByteMod - 1))
  /\ last.op \in {"none", "receive", "from_bytes", "to_bytes"}
  /\ last.t \in Types /\ last.res.ok \in BOOLEAN
  /\ last.op = "from_bytes" /\ last.res.ok => last.res.val \in Ints(last.t)

(* to_bytes(v, buf) of Number_codec<E> writes the sizeof(T) bytes of v in  *)
(* byte order E at the start of the buffer, returns their number and      *)
(* leaves the rest of the buffer alone; it throws, writing nothing, when  *)
(* the buffer is too small - on either host, for the native class and for *)
(* the byte-reversing one with its 1- and 2-byte overloads.               *)
ToBytesWritesWire ==
  [][last'.op = "to_bytes" =>
       LET w == last'.t.w IN
       IF Len(buf) >= w
       THEN /\ last'.res.ok /\ last'.res.ret = w
            /\ SubSeq(buf', 1, w) = WireBytes(last'.codec, last'.val, w)
            /\ SubSeq(buf', w + 1, Len(buf')) = SubSeq(buf, w + 1, Len(buf))
       ELSE ~last'.res.ok /\ buf' = buf]_vars

(* A value written by to_bytes and read back by from_bytes of the same    *)
(* codec and type is the value written: for a signed T this takes the     *)
(* reading back of the unsigned bits the 1- and 2-byte overloads do.       *)
RoundTrip ==
  [][last.op = "to_bytes" /\ last.res.ok /\ last'.op = "from_bytes"
     /\ last'.codec = last.codec /\ last'.t = last.t
     => last'.res.ok /\ last'.res.val = last.val]_vars

(* from_bytes of an unsigned T reads the bytes the cascade of convert     *)
(* picks (all of T's, else the largest of 8, 4, 2, 1 in the buffer) as    *)
(* the number they stand for in the codec's byte order, and throws on an  *)
(* empty buffer.                                                           *)
UnsignedReadsWire ==
  last.op = "from_bytes" /\ ~last.t.signed =>
    LET n == ExpectedWidth(Len(buf), last.t.w)
    IN IF n = 0 THEN ~last.res.ok
       ELSE /\ last.res.ok /\ last.res.ret = n
            /\ last.res.val = WireValue(last.codec, SubSeq(buf, 1, n), FALSE)

(* from_bytes of any T, signed or not, reads the bytes the cascade picks  *)
(* as the integer of that size and of T's signedness in the codec's byte  *)
(* order: convert's comment "convert 1,2,4 or 8 initial bytes ... as much *)
(* as fits into T" through num_type<N, is_signed<T>>.                     *)
FromBytesReadsWire ==
  last.op = "from_bytes" /\ last.res.ok =>
    LET n == ExpectedWidth(Len(buf), last.t.w)
    IN /\ last.res.ret = n
       /\ last.res.val = WireValue(last.codec, SubSeq(buf, 1, n), last.t.signed)
====
