----------------------------- MODULE ClioCallers -----------------------------
(***************************************************************************)
(* Who calls Clio: sync jobs in the workers, handlers of the API server.   *)
(* RateLimiter and ClioAuth share this set.                                *)
(***************************************************************************)
CONSTANT Callers   \* the calls under way at one time, in any process
=============================================================================
