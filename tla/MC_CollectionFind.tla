-------------------------- MODULE MC_CollectionFind --------------------------
(* Constants of CollectionFind for TLC.                                     *)
EXTENDS CollectionFind

MC_Exprs == {"a"}
MC_BadExpr == "a +"
MC_Placeholders == {"p"}
MC_BindVals == {"v"}
(* A negative value, zero and a positive value.                            *)
MC_Ints == {-1, 0, 2}
MC_LockOptions == {"NOWAIT"}
=============================================================================
