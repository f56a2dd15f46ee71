------------------------------ MODULE MCRawStore ------------------------------
(***************************************************************************)
(* Two requests at once over one or two radargram ids, two contents and a  *)
(* DEM, of which an upload in chunks brings one.                           *)
(***************************************************************************)
EXTENDS RawStore, TLC

CONSTANTS u1, s1, s2, f, g, a, b, dem1

MCHashOf == [u \in Uploads |-> f]
Symmetric == Permutations(Slots)
===============================================================================
