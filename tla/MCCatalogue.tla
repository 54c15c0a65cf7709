---------------------------- MODULE MCCatalogue ----------------------------
EXTENDS Catalogue, TLC

CONSTANTS s1, s2, s3, f1, f2, f3, t1, t2, d1, d2, c1, c2, c3, l1, l2, o1, o2, k1, a1

\* A semester with one offering, one that is being set up, and an empty one.
\* The rooms are d1 and d2.
Seeded ==
  s1 :> {} @@ s2 :> {} @@ s3 :> {} @@ f1 :> {} @@ f2 :> {} @@ t1 :> {s1} @@ d1 :> {s1} @@
  c1 :> {s1} @@ l1 :> {s1} @@ c2 :> {s2} @@ o1 :> {s1, c1, d1, l1, t1}

Symmetry == Permutations(Requests) \cup Permutations({f1, f2})
=============================================================================
