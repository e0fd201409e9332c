----------------------------- MODULE MCClioSync -----------------------------
(* Instances of ClioSync: the sync.push worker alone or with a manual sync. *)
EXTENDS ClioSync

CONSTANTS w, r1, t1
=============================================================================
