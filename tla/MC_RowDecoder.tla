---------------------------- MODULE MC_RowDecoder ----------------------------
(* Constants of RowDecoder for TLC: 16-bit integers stand for 64-bit ones. *)
EXTENDS RowDecoder

MC_W == 16
MC_SizeMod == 2^16

(* The ends of the signed range and the values whose zigzag code crosses a *)
(* varint byte boundary (63/64, -64/-65, 8191/8192).                       *)
MC_SIntVals ==
  {-(LongMax + 1), -LongMax, -8193, -65, -64, -1, 0, 1, 63, 64, 8191, 8192,
   LongMax - 1, LongMax}

(* Varint byte boundaries, the long/string boundary, the unsigned maximum. *)
MC_UIntVals == {0, 127, 128, 16383, 16384, LongMax, LongMax + 1, UMod - 1}

(* 200 takes two varint bytes and fits the (unsigned int) cast.           *)
MC_TimeVals == {0, 1, 200}

(* 'a' and 0x01, the byte of the empty SET.                                *)
MC_SetChars == {97, 1}

(* Payloads no server value encodes to: truncated and overlong varints, a *)
(* SET length past the end, a one-byte TIME/DATETIME that is not 0, a     *)
(* DECIMAL without digits.                                                 *)
MC_Malformed ==
  {[type |-> "SINT", bytes |-> <<128>>],
   [type |-> "UINT", bytes |-> <<255, 255, 255, 1>>],
   [type |-> "SET", bytes |-> <<1, 97, 5, 97>>],
   [type |-> "TIME", bytes |-> <<5>>],
   [type |-> "DATETIME", bytes |-> <<3>>],
   [type |-> "DECIMAL", bytes |-> <<2, 192>>]}

(* A one-byte DECIMAL: its scale byte is also its last byte.               *)
MC_ShortDecimal == {[type |-> "DECIMAL", bytes |-> <<13>>]}

(* The malformed payloads the spec calls decode errors and the decoder   *)
(* does not all reject: a one-byte DECIMAL, a SET whose second length runs *)
(* past the end, a SET whose second length is a truncated varint, and a   *)
(* TIME and a DATETIME whose last field is a truncated varint.            *)
MC_SpecMalformed ==
  MC_ShortDecimal \cup
  {[type |-> "SET", bytes |-> <<1, 97, 5, 97>>],
   [type |-> "SET", bytes |-> <<1, 97, 128>>],
   [type |-> "TIME", bytes |-> <<0, 200>>],
   [type |-> "DATETIME", bytes |-> <<0, 1, 200>>]}
=============================================================================
