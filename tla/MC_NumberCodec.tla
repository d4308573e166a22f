--------------------------- MODULE MC_NumberCodec ---------------------------
(* Instance of NumberCodec for TLC: a byte of 4 values, so that an 8-byte *)
(* integer has 4^8 values; received buffers of up to 9 bytes, one past    *)
(* the widest integer, of a byte below and a byte above the sign bit.     *)
EXTENDS NumberCodec

MC_ByteMod == 4
MC_ByteVals == {1, 3}
MC_MaxLen == 9
====
