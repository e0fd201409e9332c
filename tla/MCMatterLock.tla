---------------------------- MODULE MCMatterLock ----------------------------
(* Instances of MatterLock: three jobs on one matter and one without. *)
EXTENDS MatterLock

CONSTANTS j1, j2, j3, j4, m1

\* j1, j2, j3 contend for m1; j4 has no matter and takes no lock.
MCMatterOf == [j \in Jobs |-> IF j = j4 THEN NoMatter ELSE m1]
=============================================================================
