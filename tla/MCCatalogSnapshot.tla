--------------------------- MODULE MCCatalogSnapshot ---------------------------
(***************************************************************************)
(* Two radargrams, two revisions and two settings.                         *)
(***************************************************************************)
EXTENDS CatalogSnapshot, TLC

CONSTANTS a, b, r1, r2, plain, named, e1, e2, c1, c2

Symmetric == Permutations({a, b}) \cup Permutations({r1, r2})
                \cup Permutations({plain, named}) \cup Permutations({c1, c2})
=============================================================================
