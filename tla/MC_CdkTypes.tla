---------------------------- MODULE MC_CdkTypes ----------------------------
(* Instance of CdkTypes for TLC: two heap objects, so that one can be held *)
(* by the scoped_ptr while the caller owns the other; addresses 0..2 with  *)
(* buffers of up to 2 bytes, so that a bytes(NULL, len) of size 0 occurs;  *)
(* chains of up to 3 buffers, so that get_buffer recurses twice.           *)
EXTENDS CdkTypes, TLC

CONSTANTS o1, o2

MC_Objs == {o1, o2}
MC_Symmetry == Permutations(MC_Objs)
====
