------------------------------- MODULE MCCatalogue -------------------------------
(***************************************************************************)
(* Instances of Catalogue for TLC.                                          *)
(***************************************************************************)
EXTENDS Catalogue, TLC

CONSTANTS p1, p2, n1, n2, n3, x1, x2, b1, b2, d1, d2, s1, q1, q2, slug, other

\* Two of the three names have one slug.
SharedSlug == (n1 :> slug) @@ (n2 :> slug) @@ (n3 :> other)

Symmetry ==
  Permutations(Services) \cup Permutations(Sboms) \cup Permutations(Requests)
=============================================================================
