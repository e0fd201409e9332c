--------------------------- MODULE MCDedupRegistry ---------------------------
(* Instances of DedupRegistry: which candidates arrive, from which evidence. *)
EXTENDS DedupRegistry, TLC

CONSTANTS c1, c2, c3, e1, e2, m1, p1, p2, p3

Row(m, p, e, due, conf) == [matter |-> m, print |-> p, evidence |-> e, due |-> due, conf |-> conf]

\* Two reports of the same work on one matter.
Twins == [c \in Candidates |->
            IF c = c1 THEN Row(m1, p1, e1, TRUE, "high") ELSE Row(m1, p1, e2, TRUE, "high")]

\* Two kinds of work on one matter: the first without a due date, the second
\* with one that it may add to the first.
Mixed == [c \in Candidates |->
            IF c = c1 THEN Row(m1, p1, e1, FALSE, "high") ELSE Row(m1, p2, e2, TRUE, "high")]

\* One evidence with two candidates, one of them hopeless, and a third
\* candidate whose matter is unknown.
Triage == [c \in Candidates |->
             CASE c = c1 -> Row(m1, p1, e1, TRUE, "moderate")
               [] c = c2 -> Row(m1, p2, e1, FALSE, "low")
               [] OTHER  -> Row(NoMatter, p3, e2, TRUE, "high")]

\* The uuids are interchangeable.
Uuids == Permutations(LockIds)
=============================================================================
