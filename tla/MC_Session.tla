------------------------------ MODULE MC_Session ------------------------------
(* Values for the constants of Session used by the Session runs.           *)
EXTENDS Session

(* The order in which a session opens, authenticates and closes.           *)
MC_Program == <<"CapabilitiesGet", "CapabilitiesSet", "AuthenticateStart", "ConClose">>
=============================================================================
