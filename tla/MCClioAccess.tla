---------------------------- MODULE MCClioAccess ----------------------------
(* Instances of ClioAccess. *)
EXTENDS ClioAccess
=============================================================================
