------------------------- MODULE MCRadargramLifecycle -------------------------
(***************************************************************************)
(* Up to three revisions with axes of their own, or the first of them with *)
(* none.                                                                   *)
(***************************************************************************)
EXTENDS RadargramLifecycle, TLC

CONSTANTS r1, r2, r3, g1, g2, g3, anna, bert, t1, t2

MCGridOf == (r1 :> g1) @@ (r2 :> g2) @@ (r3 :> g3)
MCFirstWithout == (r1 :> None) @@ (r2 :> g2) @@ (r3 :> g3)
MCTwo == (r1 :> g1) @@ (r2 :> g2)

Symmetric == Permutations({anna, bert})
=============================================================================
