------------------------------ MODULE MCIdentity ------------------------------
(* Instances of Identity: m2 is registered and the name displayed for it
   contains the reference m1; r is an alias of m1 and unknown without it. *)
EXTENDS Identity, TLC

CONSTANTS m1, m2, r, p, n, u, v, c1, c2, e1, e2

MCExact       == {<<m1, m1>>, <<m2, m2>>, <<r, m1>>}
MCAlike       == {<<m1, m1>>, <<m2, m2>>, <<m1, m2>>}
MCCalled      == {<<n, u>>}
MCRoles       == {<<n, v>>}
MCCandsOf     == e1 :> <<c1>> @@ e2 :> <<c2>>
MCExtracted   == c1 :> r @@ c2 :> m1
MCAssignee    == c1 :> Nothing @@ c2 :> n
MCContact     == e1 :> Nothing @@ e2 :> p
MCParticipant == e1 :> p @@ e2 :> p
=============================================================================
