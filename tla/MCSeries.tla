------------------------------ MODULE MCSeries ------------------------------
(* Small instances of Series for TLC. *)
EXTENDS Series, TLC

CONSTANTS c1, c2, g1, g2, r1, r2

Alike == Permutations(Calls) \union Permutations(Revisions)
=============================================================================
