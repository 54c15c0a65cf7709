------------------------------ MODULE Matching ------------------------------
(***************************************************************************)
(* runHopcroftKarp of src/ssa/hopcroftKarp.ts: rounds of a breadth-first   *)
(* search for layers and of depth-first searches along them, each of which *)
(* may add one session to the matching. The order in which sessions and    *)
(* slots are tried, that of the maps' keys in the code, is left open.      *)
(***************************************************************************)
EXTENDS Integers, Sequences, FiniteSets, Bipartite

CONSTANTS
  Left,   \* the sessions
  Right,  \* the slots
  Nobody  \* no slot, or no session

ASSUME GraphAssumption ==
  /\ IsFiniteSet(Left) /\ IsFiniteSet(Right)
  /\ Nobody \notin Left /\ Nobody \notin Right

VARIABLES
  edges,     \* adjacency: the slots each session may have
  matchL,    \* the slot of a session
  matchR,    \* the session of a slot
  dist,      \* the layer of a session, or INF
  front,     \* the queue of bfs, layer by layer
  todo,      \* the sessions the round has not come to
  path,      \* the calls of dfs under way: their sessions
  left,      \* the slots the call for a session has not tried
  matching,  \* the counter of the matched sessions
  gained,    \* history: the round has added a session
  step       \* "layers", "search" or "done"

matchVars == <<edges, matchL, matchR, dist, front, todo, path, left, matching, gained, step>>

INF == -1  \* in no layer
Free == {s \in Left : matchL[s] = Nobody}

MatchingInit ==
  /\ edges \in [Left -> SUBSET Right]
  /\ matchL = [s \in Left |-> Nobody] /\ matchR = [t \in Right |-> Nobody]
  /\ dist = [s \in Left |-> 0] /\ front = Left
  /\ todo = {} /\ path = <<>> /\ left = [s \in Left |-> {}]
  /\ matching = 0 /\ gained = FALSE /\ step = "layers"

\* bfs: the sessions that hold a slot of this layer are the next one.
Partners == {matchR[t] : t \in UNION {edges[s] : s \in front}} \ {Nobody}
Layer ==
  LET next == {s \in Partners : dist[s] = INF}
      d == dist[CHOOSE s \in front : TRUE]
  IN /\ step = "layers" /\ front # {}
     /\ dist' = [s \in Left |-> IF s \in next THEN d + 1 ELSE dist[s]]
     /\ front' = next
     /\ UNCHANGED <<edges, matchL, matchR, todo, path, left, matching, gained, step>>

\* Mutant: a round only starts where an unmatched session has a free slot.
FoundFreeSlot == \E s \in Left : dist[s] = 0 /\ \E t \in edges[s] : matchR[t] = Nobody
\* A session of a layer has a free slot.
FoundAugmenting == \E s \in Left : dist[s] # INF /\ \E t \in edges[s] : matchR[t] = Nobody

\* while (bfs()): a round over all sessions, or the end.
Layered ==
  /\ step = "layers" /\ front = {}
  /\ IF FoundAugmenting THEN step' = "search" /\ todo' = Left ELSE step' = "done" /\ UNCHANGED todo
  /\ gained' = FALSE
  /\ UNCHANGED <<edges, matchL, matchR, dist, front, path, left, matching>>

\* The next session of the round, searched for if it is unmatched.
Visit ==
  /\ step = "search" /\ path = <<>>
  /\ \E s \in todo :
       /\ todo' = todo \ {s}
       /\ IF s \in Free THEN path' = <<s>> /\ left' = [left EXCEPT ![s] = edges[s]]
          ELSE UNCHANGED <<path, left>>
  /\ UNCHANGED <<edges, matchL, matchR, dist, front, matching, gained, step>>

\* All calls return true: each gives its session the slot it was trying, which
\* is that of the next session for all but the last one.
Calls == 1..Len(path)
Tried(t, i) == IF i = Len(path) THEN t ELSE matchL[path[i + 1]]
Augment(t) ==
  /\ matchL' = [s \in Left |-> IF \E i \in Calls : path[i] = s
                               THEN Tried(t, CHOOSE i \in Calls : path[i] = s) ELSE matchL[s]]
  /\ matchR' = [u \in Right |-> IF \E i \in Calls : Tried(t, i) = u
                                THEN path[CHOOSE i \in Calls : Tried(t, i) = u] ELSE matchR[u]]
  /\ matching' = matching + 1 /\ gained' = TRUE /\ path' = <<>>

\* dfs: a slot that is free, one whose session may find another, or neither.
Try ==
  /\ step = "search" /\ path # <<>>
  /\ LET s == path[Len(path)] IN
     \E t \in left[s] :
       LET paired == matchR[t] IN
       \/ paired = Nobody /\ Augment(t) /\ UNCHANGED left
       \/ /\ paired # Nobody /\ dist[paired] = dist[s] + 1
          /\ path' = Append(path, paired)
          /\ left' = [left EXCEPT ![s] = @ \ {t}, ![paired] = edges[paired]]
          /\ UNCHANGED <<matchL, matchR, matching, gained>>
       \/ /\ paired # Nobody /\ dist[paired] # dist[s] + 1
          /\ left' = [left EXCEPT ![s] = @ \ {t}]
          /\ UNCHANGED <<matchL, matchR, matching, gained, path>>
  /\ UNCHANGED <<edges, dist, front, todo, step>>

\* dfs returns false; the session is in no layer any more.
Fail ==
  /\ step = "search" /\ path # <<>>
  /\ LET s == path[Len(path)] IN left[s] = {} /\ dist' = [dist EXCEPT ![s] = INF]
  /\ path' = SubSeq(path, 1, Len(path) - 1)
  /\ UNCHANGED <<edges, matchL, matchR, front, todo, left, matching, gained, step>>

\* The end of a round: bfs starts again from the unmatched sessions.
StartLayers ==
  /\ step = "search" /\ path = <<>> /\ todo = {}
  /\ dist' = [s \in Left |-> IF s \in Free THEN 0 ELSE INF]
  /\ front' = Free /\ step' = "layers"
  /\ UNCHANGED <<edges, matchL, matchR, todo, path, left, matching, gained>>

MatchingDone == step = "done" /\ UNCHANGED matchVars
MatchingNext == Layer \/ Layered \/ Visit \/ Try \/ Fail \/ StartLayers \/ MatchingDone
MatchingSpec == MatchingInit /\ [][MatchingNext]_matchVars

-----------------------------------------------------------------------------
(* Properties                                                              *)

Matched == Left \ Free

\* Hopcroft-Karp finds a matching, counts it, and no larger one exists.
MatchingIsMaximum ==
  /\ \A s \in Matched : matchL[s] \in edges[s] /\ matchR[matchL[s]] = s
  /\ matching = Cardinality(Matched)
  /\ step = "done" => AtMost(edges, matching)

\* A round that begins adds a session to the matching: the rounds come to an end.
RoundGains == step = "search" /\ path = <<>> /\ todo = {} => gained
=============================================================================
