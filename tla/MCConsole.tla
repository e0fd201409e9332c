------------------------------- MODULE MCConsole -------------------------------
(* Instances of Console.  r1 names matter and action, r2 only the action with a
   higher priority, r3 only the matter. *)
EXTENDS Console, TLC

CONSTANTS r1, r2, r3, m1, filing

MCRuleArea   == r1 :> m1 @@ r2 :> Wild @@ r3 :> m1
MCRuleAction == r1 :> filing @@ r2 :> filing @@ r3 :> Wild
MCPriority   == r1 :> 0 @@ r2 :> 9 @@ r3 :> 5
=============================================================================
