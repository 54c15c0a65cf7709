----------------------------- MODULE Bipartite -----------------------------
(***************************************************************************)
(* What a matching of sessions to slots is, for the search of Matching and *)
(* for the verdict that Pipeline takes from it. A graph is a function from *)
(* sessions to the sets of slots each may have.                            *)
(***************************************************************************)
EXTENDS Naturals, FiniteSets

\* The sessions of T can hold distinct slots.
Matchable(graph, T) ==
  \E f \in [T -> UNION {graph[s] : s \in T}] :
    /\ \A s \in T : f[s] \in graph[s]
    /\ \A s, t \in T : f[s] = f[t] => s = t

\* No larger set of sessions than n can.
AtMost(graph, n) == \A T \in SUBSET DOMAIN graph : Cardinality(T) > n => ~Matchable(graph, T)
=============================================================================
