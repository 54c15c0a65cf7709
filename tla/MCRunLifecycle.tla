--------------------------- MODULE MCRunLifecycle ---------------------------
(* Small instances of RunLifecycle for TLC. *)
EXTENDS RunSafety, TLC

\* Interchangeable runs, requests and bodies (never used with liveness).
Symmetry == Permutations(Runs) \cup Permutations(Calls) \cup Permutations(Bodies)

\* A body is compared only under a key: without one, any body stands for all.
KeylessBody == CHOOSE b \in Bodies : TRUE
BodiesMatter == \A c \in Calls : call'[c].key = None => call'[c].body \in {None, KeylessBody}
=============================================================================
