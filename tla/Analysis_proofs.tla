--------------------------- MODULE Analysis_proofs ---------------------------
(***************************************************************************)
(* What holds of the static analysis, for any offerings, slots, rooms and  *)
(* lecturers: the matching it rests on is a largest one, and every round   *)
(* of the search adds to it.                                               *)
(***************************************************************************)
EXTENDS Pipeline, Matching, FiniteSetTheorems, FunctionTheorems, SequenceTheorems,
        WellFoundedInduction, TLAPS

-----------------------------------------------------------------------------
(***************************************************************************)
(* The matching. The pairs are one to one along edges; the calls of dfs    *)
(* under way are sessions of successive layers, each but the first the     *)
(* partner of a slot of the one before; the layers are closed under        *)
(* partners once the search for them has come to its end.                  *)
(***************************************************************************)

MatchTypeOK ==
  /\ edges \in [Left -> SUBSET Right]
  /\ matchL \in [Left -> Right \cup {Nobody}] /\ matchR \in [Right -> Left \cup {Nobody}]
  /\ dist \in [Left -> Nat \cup {INF}]
  /\ front \in SUBSET Left /\ todo \in SUBSET Left /\ path \in Seq(Left)
  /\ left \in [Left -> SUBSET Right] /\ (\A s \in Left : left[s] \subseteq edges[s])
  /\ matching \in Nat /\ gained \in BOOLEAN /\ step \in {"layers", "search", "done"}

OneToOne ==
  \A s \in Left, t \in Right : matchL[s] = t <=> matchR[t] = s
AlongEdges == \A s \in Left : matchL[s] # Nobody => matchL[s] \in edges[s]
CountIs == matching = Cardinality(Matched)

\* The calls of dfs.
CallsChain ==
  /\ path # <<>> => step = "search" /\ path[1] \in Free /\ path[1] \notin todo
  /\ \A i \in Calls : dist[path[i]] \in Nat /\ dist[path[i]] = dist[path[1]] + (i - 1)
  /\ \A i \in Calls : i > 1 => matchL[path[i]] \in edges[path[i - 1]] /\ path[i] \notin Free

\* The layers.
LayersClosed ==
  /\ step = "layers" => \A s \in Free : dist[s] # INF
  /\ step = "search" => \A s \in Free \cap todo : dist[s] # INF
  /\ (step # "layers" => front = {}) /\ \A s \in front : dist[s] # INF
  /\ step \in {"layers", "done"} =>
       \A s \in Left : dist[s] # INF /\ s \notin front =>
         \A t \in edges[s] : matchR[t] = Nobody \/ dist[matchR[t]] # INF
  /\ step = "done" => ~FoundAugmenting /\ \A s \in Free : dist[s] # INF

MatchInv == MatchTypeOK /\ OneToOne /\ AlongEdges /\ CountIs /\ CallsChain /\ LayersClosed

LEMMA LeftFinite == IsFiniteSet(Left) /\ \A S \in SUBSET Left : IsFiniteSet(S)
BY GraphAssumption, FS_Subset

LEMMA MatchInitially == MatchingInit => MatchInv
<1> SUFFICES ASSUME MatchingInit PROVE MatchInv
  OBVIOUS
<1> USE GraphAssumption DEF MatchingInit
<1>1. MatchTypeOK
  <2>1. path \in Seq(Left) OBVIOUS
  <2>2. dist \in [Left -> Nat \cup {INF}] OBVIOUS
  <2>3. /\ edges \in [Left -> SUBSET Right] /\ left \in [Left -> SUBSET Right]
        /\ \A s \in Left : left[s] \subseteq edges[s]
    OBVIOUS
  <2>4. matchL \in [Left -> Right \cup {Nobody}] /\ matchR \in [Right -> Left \cup {Nobody}]
    OBVIOUS
  <2> QED BY <2>1, <2>2, <2>3, <2>4 DEF MatchTypeOK
<1>2. OneToOne /\ AlongEdges BY DEF OneToOne, AlongEdges
<1>3. CountIs
  <2>1. Matched = {} BY DEF Matched, Free
  <2>2. Cardinality({}) = 0 BY FS_EmptySet
  <2> QED BY <2>1, <2>2 DEF CountIs
<1>4. CallsChain
  <2>1. Calls = {} BY DEF Calls
  <2> QED BY <2>1 DEF CallsChain
<1>5. LayersClosed BY DEF LayersClosed, INF, Free
<1> QED BY <1>1, <1>2, <1>3, <1>4, <1>5 DEF MatchInv

\* A search for layers that ends without a free slot: no matching is larger.
LEMMA Koenig ==
  ASSUME MatchInv, step = "done"
  PROVE  AtMost(edges, matching)
<1> DEFINE Layers == {s \in Left : dist[s] # INF}
<1>1. edges \in [Left -> SUBSET Right] /\ matchL \in [Left -> Right \cup {Nobody}]
      /\ matchR \in [Right -> Left \cup {Nobody}]
  BY DEF MatchInv, MatchTypeOK
<1>2. SUFFICES ASSUME NEW T \in SUBSET Left, Matchable(edges, T)
               PROVE  ~(Cardinality(T) > matching)
  BY <1>1 DEF AtMost
<1>3. PICK f \in [T -> UNION {edges[s] : s \in T}] :
        (\A s \in T : f[s] \in edges[s]) /\ (\A s, t \in T : f[s] = f[t] => s = t)
  BY <1>2 DEF Matchable
<1>4. \A s \in T : f[s] \in Right BY <1>1, <1>3
<1>5. \A s \in T \cap Layers : matchR[f[s]] # Nobody /\ matchR[f[s]] \in Layers
  <2> SUFFICES ASSUME NEW s \in T \cap Layers PROVE matchR[f[s]] # Nobody /\ matchR[f[s]] \in Layers
    OBVIOUS
  <2>1. f[s] \in edges[s] /\ f[s] \in Right BY <1>3, <1>4
  <2>2. matchR[f[s]] # Nobody BY <1>2, <2>1 DEF MatchInv, LayersClosed, FoundAugmenting
  <2>3. dist[matchR[f[s]]] # INF BY <1>2, <2>1, <2>2 DEF MatchInv, LayersClosed
  <2>4. matchR[f[s]] \in Left BY <1>1, <2>1, <2>2
  <2> QED BY <2>2, <2>3, <2>4
<1>6. \A s \in T \ Layers : s \in Matched
  BY DEF MatchInv, LayersClosed, Matched
<1> DEFINE g == [s \in T |-> IF s \in Layers THEN matchR[f[s]] ELSE s]
<1>7. g \in [T -> Matched]
  <2> SUFFICES ASSUME NEW s \in T PROVE g[s] \in Matched
    OBVIOUS
  <2>1. CASE s \notin Layers BY <2>1, <1>6
  <2>2. CASE s \in Layers
    <3>1. f[s] \in Right /\ matchR[f[s]] \in Left BY <2>2, <1>4, <1>5
    <3>2. matchL[matchR[f[s]]] = f[s] BY <3>1 DEF MatchInv, OneToOne
    <3>3. matchR[f[s]] \notin Free BY <3>1, <3>2, GraphAssumption DEF Free
    <3> QED BY <2>2, <3>1, <3>3 DEF Matched
  <2> QED BY <2>1, <2>2
<1>8. \A s, t \in T : g[s] = g[t] => s = t
  <2> SUFFICES ASSUME NEW s \in T, NEW t \in T, g[s] = g[t] PROVE s = t
    OBVIOUS
  <2>1. CASE s \in Layers /\ t \in Layers
    <3>1. matchR[f[s]] \in Left /\ matchR[f[s]] = matchR[f[t]] /\ f[s] \in Right /\ f[t] \in Right
      BY <2>1, <1>4, <1>5
    <3>2. f[s] = f[t] BY <3>1 DEF MatchInv, OneToOne
    <3> QED BY <3>2, <1>3
  <2>2. CASE s \in Layers /\ t \notin Layers BY <2>2, <1>5
  <2>3. CASE s \notin Layers /\ t \in Layers BY <2>3, <1>5
  <2>4. CASE s \notin Layers /\ t \notin Layers BY <2>4
  <2> QED BY <2>1, <2>2, <2>3, <2>4
<1> HIDE DEF g
<1>9. IsFiniteSet(Matched) BY LeftFinite DEF Matched
<1>10. g \in Injection(T, Matched) BY <1>7, <1>8 DEF Injection, IsInjective
<1>11. Cardinality(T) <= Cardinality(Matched) BY <1>9, <1>10, FS_Injection
<1>12. Cardinality(T) \in Nat /\ Cardinality(Matched) \in Nat
  BY <1>9, LeftFinite, FS_CardinalityType
<1> QED BY <1>11, <1>12 DEF MatchInv, CountIs

LEMMA LayerKeeps == MatchInv /\ Layer => MatchInv'
<1> SUFFICES ASSUME MatchInv, Layer PROVE MatchInv'
  OBVIOUS
<1> DEFINE next == {s \in Partners : dist[s] = INF}
           d == dist[CHOOSE s \in front : TRUE]
<1>1. /\ step = "layers" /\ front # {}
      /\ dist' = [s \in Left |-> IF s \in next THEN d + 1 ELSE dist[s]]
      /\ front' = next
      /\ UNCHANGED <<edges, matchL, matchR, todo, path, left, matching, gained, step>>
  BY DEF Layer
<1>2. d \in Nat
  <2>1. (CHOOSE s \in front : TRUE) \in front BY <1>1
  <2> QED BY <2>1 DEF MatchInv, LayersClosed, MatchTypeOK
<1>3. next \subseteq Left /\ (\A s \in front : \A t \in edges[s] : matchR[t] \in Left => matchR[t] \in Partners)
  BY GraphAssumption DEF Partners, MatchInv, MatchTypeOK
<1> HIDE DEF next, d
<1>4. d + 1 \in Nat /\ d + 1 # INF BY <1>2 DEF INF
<1>5. \A s \in Left : dist'[s] # INF <=> (dist[s] # INF \/ s \in next)
  BY <1>1, <1>4 DEF MatchInv, MatchTypeOK
<1>6. MatchTypeOK' BY <1>1, <1>3, <1>4 DEF MatchInv, MatchTypeOK
<1>7. OneToOne' /\ AlongEdges' BY <1>1 DEF MatchInv, OneToOne, AlongEdges
<1>8. CountIs' BY <1>1 DEF MatchInv, CountIs, Matched, Free
<1>9. CallsChain'
  <2>1. path = <<>> BY <1>1 DEF MatchInv, CallsChain
  <2>2. path' = <<>> /\ Calls' = {} BY <1>1, <2>1 DEF Calls
  <2> QED BY <2>2 DEF CallsChain
<1>10. LayersClosed'
  <2>1. Free' = Free /\ step' = "layers" BY <1>1 DEF Free
  <2>2. \A s \in Free : dist'[s] # INF BY <1>1, <1>5 DEF MatchInv, LayersClosed, Free
  <2>3. \A s \in front' : dist'[s] # INF BY <1>1, <1>3, <1>5
  <2>4. ASSUME NEW s \in Left, dist'[s] # INF, s \notin front', NEW t \in edges[s],
               matchR[t] # Nobody
        PROVE  dist'[matchR[t]] # INF
    <3>1. dist[s] # INF BY <2>4, <1>1, <1>5
    <3>2. matchR[t] \in Left BY <2>4 DEF MatchInv, MatchTypeOK
    <3>3. CASE s \notin front
      BY <3>1, <3>2, <3>3, <1>1, <1>5, <2>4 DEF MatchInv, LayersClosed
    <3>4. CASE s \in front
      <4>1. matchR[t] \in Partners BY <3>2, <3>4, <1>3
      <4>2. dist[matchR[t]] = INF => matchR[t] \in next BY <4>1 DEF next
      <4> QED BY <4>2, <3>2, <1>5
    <3> QED BY <3>3, <3>4
  <2> QED BY <1>1, <2>1, <2>2, <2>3, <2>4 DEF LayersClosed
<1> QED BY <1>6, <1>7, <1>8, <1>9, <1>10 DEF MatchInv

LEMMA LayeredKeeps == MatchInv /\ Layered => MatchInv'
<1> SUFFICES ASSUME MatchInv, Layered PROVE MatchInv'
  OBVIOUS
<1>1. /\ step = "layers" /\ front = {} /\ gained' = FALSE /\ step' \in {"search", "done"}
      /\ UNCHANGED <<edges, matchL, matchR, dist, front, path, left, matching>>
      /\ todo' \in SUBSET Left /\ (step' = "done" => ~FoundAugmenting)
  BY DEF Layered, MatchInv, MatchTypeOK
<1>2. MatchTypeOK' BY <1>1 DEF MatchInv, MatchTypeOK
<1>3. OneToOne' /\ AlongEdges' BY <1>1 DEF MatchInv, OneToOne, AlongEdges
<1>4. Free' = Free /\ (FoundAugmenting' <=> FoundAugmenting) BY <1>1 DEF Free, FoundAugmenting
<1>5. CountIs' BY <1>1, <1>4 DEF MatchInv, CountIs, Matched
<1>6. CallsChain'
  <2>1. path = <<>> BY <1>1 DEF MatchInv, CallsChain
  <2>2. path' = <<>> /\ Calls' = {} BY <1>1, <2>1 DEF Calls
  <2> QED BY <2>2 DEF CallsChain
<1>7. LayersClosed' BY <1>1, <1>4 DEF MatchInv, LayersClosed
<1> QED BY <1>2, <1>3, <1>5, <1>6, <1>7 DEF MatchInv

LEMMA VisitKeeps == MatchInv /\ Visit => MatchInv'
<1> SUFFICES ASSUME MatchInv, Visit PROVE MatchInv'
  OBVIOUS
<1>1. PICK s \in todo :
        /\ todo' = todo \ {s}
        /\ IF s \in Free THEN path' = <<s>> /\ left' = [left EXCEPT ![s] = edges[s]]
           ELSE UNCHANGED <<path, left>>
  BY DEF Visit
<1>2. /\ step = "search" /\ path = <<>> /\ s \in Left
      /\ UNCHANGED <<edges, matchL, matchR, dist, front, matching, gained, step>>
  BY DEF Visit, MatchInv, MatchTypeOK
<1>3. MatchTypeOK'
  <2>1. path' \in Seq(Left)
    <3>1. <<s>> \in Seq(Left) /\ path \in Seq(Left) BY <1>2 DEF MatchInv, MatchTypeOK
    <3> QED BY <3>1, <1>1
  <2>2. left' \in [Left -> SUBSET Right] /\ \A x \in Left : left'[x] \subseteq edges[x]
    BY <1>1, <1>2 DEF MatchInv, MatchTypeOK
  <2> QED BY <1>1, <1>2, <2>1, <2>2 DEF MatchInv, MatchTypeOK
<1>4. OneToOne' /\ AlongEdges' BY <1>2 DEF MatchInv, OneToOne, AlongEdges
<1>5. Free' = Free BY <1>2 DEF Free
<1>6. CountIs' BY <1>2, <1>5 DEF MatchInv, CountIs, Matched
<1>7. CallsChain'
  <2>1. CASE s \notin Free
    <3>1. path' = <<>> /\ Calls' = {} BY <2>1, <1>1, <1>2 DEF Calls
    <3> QED BY <3>1 DEF CallsChain
  <2>2. CASE s \in Free
    <3>1. path' = <<s>> /\ Calls' = {1}
      <4>1. path' = <<s>> /\ Len(<<s>>) = 1 BY <2>2, <1>1
      <4>2. Calls' = 1..1 BY <4>1 DEF Calls
      <4> QED BY <4>1, <4>2
    <3>2. path'[1] = s BY <3>1
    <3>3. dist[s] \in Nat BY <2>2, <1>1, <1>2 DEF MatchInv, LayersClosed, MatchTypeOK
    <3>4. path'[1] \in Free' /\ path'[1] \notin todo' /\ step' = "search"
      BY <3>2, <2>2, <1>1, <1>2, <1>5
    <3>5. \A i \in Calls' : i = 1 /\ path'[i] = s /\ dist'[path'[i]] = dist[s]
      BY <3>1, <3>2, <1>2
    <3>6. dist[s] = dist[s] + (1 - 1) BY <3>3
    <3> QED BY <3>3, <3>4, <3>5, <3>6 DEF CallsChain
  <2> QED BY <2>1, <2>2
<1>8. LayersClosed' BY <1>1, <1>2, <1>5 DEF MatchInv, LayersClosed
<1> QED BY <1>3, <1>4, <1>6, <1>7, <1>8 DEF MatchInv

LEMMA StartLayersKeeps == MatchInv /\ StartLayers => MatchInv'
<1> SUFFICES ASSUME MatchInv, StartLayers PROVE MatchInv'
  OBVIOUS
<1>1. /\ step = "search" /\ path = <<>>
      /\ dist' = [s \in Left |-> IF s \in Free THEN 0 ELSE INF]
      /\ front' = Free /\ step' = "layers"
      /\ UNCHANGED <<edges, matchL, matchR, todo, path, left, matching, gained>>
  BY DEF StartLayers
<1>2. Free' = Free /\ Free \subseteq Left BY <1>1 DEF Free
<1>3. MatchTypeOK' BY <1>1, <1>2 DEF MatchInv, MatchTypeOK
<1>4. OneToOne' /\ AlongEdges' BY <1>1 DEF MatchInv, OneToOne, AlongEdges
<1>5. CountIs' BY <1>1, <1>2 DEF MatchInv, CountIs, Matched
<1>6. CallsChain'
  <2>1. path' = <<>> /\ Calls' = {} BY <1>1 DEF Calls
  <2> QED BY <2>1 DEF CallsChain
<1>7. \A s \in Left : dist'[s] # INF <=> s \in Free BY <1>1, <1>2 DEF INF
<1>8. LayersClosed' BY <1>1, <1>2, <1>7 DEF LayersClosed
<1> QED BY <1>3, <1>4, <1>5, <1>6, <1>8 DEF MatchInv

\* The sessions of the calls differ, each by its layer.
LEMMA CallsDiffer ==
  ASSUME MatchInv
  PROVE  /\ \A i, j \in Calls : path[i] = path[j] => i = j
         /\ Len(path) \in Nat /\ Calls = 1..Len(path)
         /\ \A i \in Calls : path[i] \in Left
         /\ path # <<>> => 1 \in Calls /\ Len(path) \in Calls /\ step = "search"
<1>1. path \in Seq(Left) /\ Len(path) \in Nat BY DEF MatchInv, MatchTypeOK
<1>2. \A i \in Calls : path[i] \in Left BY <1>1 DEF Calls
<1>3. path # <<>> => Len(path) > 0 BY <1>1
<1>4. ASSUME NEW i \in Calls, NEW j \in Calls, path[i] = path[j] PROVE i = j
  <2>1. i \in Int /\ j \in Int /\ i \in 1..Len(path) BY <1>1 DEF Calls
  <2>2. 1 \in Calls BY <1>1, <2>1 DEF Calls
  <2>3. dist[path[1]] \in Nat /\ dist[path[i]] = dist[path[1]] + (i - 1)
        /\ dist[path[j]] = dist[path[1]] + (j - 1)
    BY <2>2 DEF MatchInv, CallsChain
  <2> QED BY <1>4, <2>1, <2>3
<1> QED BY <1>1, <1>2, <1>3, <1>4 DEF MatchInv, CallsChain, Calls

LEMMA Popping ==
  ASSUME NEW T, NEW q \in Seq(T), q # <<>>
  PROVE  /\ SubSeq(q, 1, Len(q) - 1) \in Seq(T) /\ Len(SubSeq(q, 1, Len(q) - 1)) = Len(q) - 1
         /\ Len(q) \in Nat /\ Len(q) > 0
         /\ \A i \in 1..(Len(q) - 1) : SubSeq(q, 1, Len(q) - 1)[i] = q[i]
<1> DEFINE m == Len(q)
<1>1. m \in Nat /\ m > 0 /\ \A i \in 1..m : q[i] \in T OBVIOUS
<1> HIDE DEF m
<1>2. m - 1 \in Int /\ (\A i \in 1..(m - 1) : q[i] \in T) BY <1>1
<1>3. /\ SubSeq(q, 1, m - 1) \in Seq(T)
      /\ Len(SubSeq(q, 1, m - 1)) = IF 1 <= m - 1 THEN m - 1 - 1 + 1 ELSE 0
      /\ \A i \in 1..(m - 1 - 1 + 1) : SubSeq(q, 1, m - 1)[i] = q[1 + i - 1]
  BY <1>2, SubSeqProperties
<1>4. m - 1 - 1 + 1 = m - 1 /\ (\A i \in 1..(m - 1) : 1 + i - 1 = i) /\ (1 <= m - 1 \/ m - 1 = 0)
  BY <1>1
<1>5. \A i \in 1..(m - 1) : SubSeq(q, 1, m - 1)[i] = q[i] BY <1>3, <1>4
<1> QED BY <1>1, <1>3, <1>4, <1>5 DEF m

LEMMA FailKeeps == MatchInv /\ Fail => MatchInv'
<1> SUFFICES ASSUME MatchInv, Fail PROVE MatchInv'
  OBVIOUS
<1> DEFINE n == Len(path)
           s == path[n]
<1>1. /\ step = "search" /\ path # <<>> /\ dist' = [dist EXCEPT ![s] = INF]
      /\ path' = SubSeq(path, 1, n - 1)
      /\ UNCHANGED <<edges, matchL, matchR, front, todo, left, matching, gained, step>>
  BY DEF Fail
<1>2. path \in Seq(Left) /\ n \in Calls /\ s \in Left BY <1>1, CallsDiffer DEF MatchInv, MatchTypeOK
<1>3. /\ path' \in Seq(Left) /\ Len(path') = n - 1 /\ n \in Nat /\ n > 0
      /\ \A i \in 1..(n - 1) : path'[i] = path[i]
  BY <1>1, <1>2, Popping
<1>4. /\ Calls' = 1..(n - 1) /\ Calls = 1..n /\ n \notin 1..(n - 1)
      /\ \A i \in Calls' : i \in Calls /\ i # n /\ (i > 1 => i - 1 \in Calls')
      /\ path' # <<>> => 1 \in Calls'
  <2>1. path' # <<>> => n - 1 > 0 BY <1>3
  <2>2. Calls' = 1..(n - 1) /\ Calls = 1..n BY <1>3 DEF Calls
  <2> HIDE DEF n
  <2> QED BY <1>3, <2>1, <2>2
<1>5. \A i \in Calls' : path'[i] # s /\ path'[i] = path[i] /\ dist'[path'[i]] = dist[path[i]]
  <2> SUFFICES ASSUME NEW i \in Calls'
               PROVE  path'[i] # s /\ path'[i] = path[i] /\ dist'[path'[i]] = dist[path[i]]
    OBVIOUS
  <2>1. i \in Calls /\ i # n /\ path'[i] = path[i] BY <1>3, <1>4
  <2>2. path[i] # s /\ path[i] \in Left BY <2>1, <1>2, CallsDiffer
  <2> HIDE DEF s
  <2>3. dist'[path[i]] = dist[path[i]] BY <1>1, <2>2 DEF MatchInv, MatchTypeOK
  <2> QED BY <2>1, <2>2, <2>3
<1>6. s \notin Free \/ s \notin todo
  <2>1. n = 1 \/ n > 1 BY <1>3
  <2> QED BY <2>1, <1>1, <1>2 DEF MatchInv, CallsChain
<1> HIDE DEF n, s
<1>7. MatchTypeOK' BY <1>1, <1>2, <1>3 DEF MatchInv, MatchTypeOK
<1>8. OneToOne' /\ AlongEdges' BY <1>1 DEF MatchInv, OneToOne, AlongEdges
<1>9. Free' = Free BY <1>1 DEF Free
<1>10. CountIs' BY <1>1, <1>9 DEF MatchInv, CountIs, Matched
<1>11. CallsChain'
  <2>1. path' # <<>> => step' = "search" /\ path'[1] \in Free' /\ path'[1] \notin todo'
    BY <1>1, <1>4, <1>5, <1>9 DEF MatchInv, CallsChain
  <2>2. \A i \in Calls' : dist'[path'[i]] \in Nat
    BY <1>4, <1>5 DEF MatchInv, CallsChain
  <2>3. \A i \in Calls' : dist'[path'[i]] = dist'[path'[1]] + (i - 1)
    <3> SUFFICES ASSUME NEW i \in Calls' PROVE dist'[path'[i]] = dist'[path'[1]] + (i - 1)
      OBVIOUS
    <3>1. 1 \in Calls' BY <1>3, <1>4
    <3>2. dist[path[i]] = dist[path[1]] + (i - 1) BY <1>4 DEF MatchInv, CallsChain
    <3> QED BY <3>1, <3>2, <1>5
  <2>4. \A i \in Calls' : i > 1 => matchL'[path'[i]] \in edges'[path'[i - 1]] /\ path'[i] \notin Free'
    <3> SUFFICES ASSUME NEW i \in Calls', i > 1
                 PROVE  matchL'[path'[i]] \in edges'[path'[i - 1]] /\ path'[i] \notin Free'
      OBVIOUS
    <3>1. i - 1 \in Calls' /\ path'[i - 1] = path[i - 1] /\ path'[i] = path[i] BY <1>4, <1>5
    <3>2. matchL[path[i]] \in edges[path[i - 1]] /\ path[i] \notin Free
      BY <1>4 DEF MatchInv, CallsChain
    <3> QED BY <3>1, <3>2, <1>1, <1>9
  <2> QED BY <2>1, <2>2, <2>3, <2>4 DEF CallsChain
<1>12. LayersClosed'
  <2>1. \A x \in Left : x # s => dist'[x] = dist[x] BY <1>1, <1>2 DEF MatchInv, MatchTypeOK
  <2>2. \A x \in Free' \cap todo' : dist'[x] # INF
    BY <2>1, <1>1, <1>6, <1>9 DEF MatchInv, LayersClosed, MatchTypeOK
  <2>3. front' = {} /\ step' = "search" BY <1>1 DEF MatchInv, LayersClosed
  <2> QED BY <2>2, <2>3 DEF LayersClosed
<1> QED BY <1>7, <1>8, <1>10, <1>11, <1>12 DEF MatchInv

LEMMA Pushing ==
  ASSUME NEW T, NEW q \in Seq(T), NEW x \in T
  PROVE  /\ Append(q, x) \in Seq(T) /\ Len(Append(q, x)) = Len(q) + 1 /\ Len(q) \in Nat
         /\ Append(q, x)[Len(q) + 1] = x
         /\ \A i \in 1..Len(q) : Append(q, x)[i] = q[i]
OBVIOUS

\* A slot whose session is in the next layer: dfs goes on with that session.
LEMMA DeeperKeeps ==
  ASSUME MatchInv, step = "search", path # <<>>,
         NEW t \in left[path[Len(path)]], matchR[t] # Nobody,
         dist[matchR[t]] = dist[path[Len(path)]] + 1,
         path' = Append(path, matchR[t]),
         left' = [left EXCEPT ![path[Len(path)]] = @ \ {t}, ![matchR[t]] = edges[matchR[t]]],
         UNCHANGED <<edges, matchL, matchR, dist, front, todo, matching, gained, step>>
  PROVE  MatchInv'
<1> DEFINE n == Len(path)
           s == path[n]
           p == matchR[t]
<1>1. path \in Seq(Left) /\ n \in Calls /\ s \in Left /\ n \in Nat /\ Calls = 1..n /\ 1 \in Calls
  BY CallsDiffer DEF MatchInv, MatchTypeOK
<1>2. t \in edges[s] /\ t \in Right /\ p \in Left /\ matchL[p] = t /\ matchL[p] \in edges[s]
  <2>1. t \in edges[s] /\ t \in Right BY <1>1 DEF MatchInv, MatchTypeOK
  <2>2. p \in Left BY <2>1 DEF MatchInv, MatchTypeOK
  <2> QED BY <2>1, <2>2 DEF MatchInv, OneToOne
<1>3. p \notin Free BY <1>2, GraphAssumption DEF Free
<1>4. dist[s] \in Nat /\ dist[s] = dist[path[1]] + (n - 1) /\ dist[path[1]] \in Nat
  BY <1>1 DEF MatchInv, CallsChain
<1>5. dist[p] = dist[s] + 1 OBVIOUS
<1>6. /\ path' \in Seq(Left) /\ Len(path') = n + 1
      /\ path'[n + 1] = p /\ \A i \in 1..n : path'[i] = path[i]
  <2> HIDE DEF p
  <2>1. path' = Append(path, p) BY DEF p
  <2> QED BY <2>1, <1>1, <1>2, Pushing DEF n
<1>7. left' \in [Left -> SUBSET Right] /\ \A x \in Left : left'[x] \subseteq edges[x]
  <2>1. edges[p] \in SUBSET Right /\ left[s] \ {t} \in SUBSET Right /\ left[s] \ {t} \subseteq edges[s]
    BY <1>1, <1>2 DEF MatchInv, MatchTypeOK
  <2> HIDE DEF p, s
  <2>2. left' = [left EXCEPT ![s] = @ \ {t}, ![p] = edges[p]] BY DEF p, s
  <2>3. left \in [Left -> SUBSET Right] /\ \A x \in Left : left[x] \subseteq edges[x]
    BY DEF MatchInv, MatchTypeOK
  <2>4. left' = [x \in Left |-> IF x = p THEN edges[p] ELSE IF x = s THEN left[s] \ {t} ELSE left[x]]
    BY <2>2, <2>3, <1>1
  <2> QED BY <2>1, <2>3, <2>4
<1> HIDE DEF n, s, p
<1>8. MatchTypeOK' BY <1>6, <1>7 DEF MatchInv, MatchTypeOK
<1>9. OneToOne' /\ AlongEdges' BY DEF MatchInv, OneToOne, AlongEdges
<1>10. Free' = Free BY DEF Free
<1>11. CountIs' BY <1>10 DEF MatchInv, CountIs, Matched
<1>12. /\ Calls' = 1..(n + 1) /\ path'[1] = path[1]
       /\ \A i \in Calls' : i \in Calls \/ i = n + 1
       /\ \A i \in Calls : path'[i] = path[i]
  <2>1. Calls' = 1..(n + 1) BY <1>6 DEF Calls
  <2> QED BY <2>1, <1>1, <1>6
<1>13. CallsChain'
  <2>1. step' = "search" /\ path'[1] \in Free' /\ path'[1] \notin todo'
    BY <1>10, <1>12 DEF MatchInv, CallsChain
  <2>2. ASSUME NEW i \in Calls'
        PROVE  /\ dist'[path'[i]] \in Nat /\ dist'[path'[i]] = dist'[path'[1]] + (i - 1)
               /\ i > 1 => matchL'[path'[i]] \in edges'[path'[i - 1]] /\ path'[i] \notin Free'
    <3>1. CASE i \in Calls
      <4>1. dist[path[i]] \in Nat /\ dist[path[i]] = dist[path[1]] + (i - 1)
        BY <3>1 DEF MatchInv, CallsChain
      <4>2. i > 1 => i - 1 \in Calls BY <3>1, <1>1
      <4>3. i > 1 => matchL[path[i]] \in edges[path[i - 1]] /\ path[i] \notin Free
        BY <3>1 DEF MatchInv, CallsChain
      <4> QED BY <3>1, <4>1, <4>2, <4>3, <1>10, <1>12
    <3>2. CASE i = n + 1
      <4>1. path'[i] = p /\ i - 1 = n /\ path'[n] = s
        BY <3>2, <1>1, <1>6, <1>12 DEF s
      <4>2. dist'[p] \in Nat /\ dist'[p] = dist'[path[1]] + n BY <1>1, <1>4, <1>5
      <4>3. matchL'[p] \in edges'[s] /\ p \notin Free' BY <1>2, <1>3, <1>10
      <4>4. path'[i - 1] = s BY <4>1, Zenon
      <4>5. i - 1 = n BY <4>1, Zenon
      <4> QED BY <3>2, <4>1, <4>2, <4>3, <4>4, <4>5, <1>12
    <3> QED BY <3>1, <3>2, <1>12
  <2> QED BY <2>1, <2>2 DEF CallsChain
<1>14. LayersClosed' BY <1>10 DEF MatchInv, LayersClosed
<1> QED BY <1>8, <1>9, <1>11, <1>13, <1>14 DEF MatchInv

\* A slot that leads nowhere: dfs goes on with the next one.
LEMMA SkipKeeps ==
  ASSUME MatchInv, step = "search", path # <<>>,
         NEW t \in left[path[Len(path)]],
         left' = [left EXCEPT ![path[Len(path)]] = @ \ {t}],
         UNCHANGED <<edges, matchL, matchR, dist, front, todo, path, matching, gained, step>>
  PROVE  MatchInv'
<1> DEFINE s == path[Len(path)]
<1>1. s \in Left BY CallsDiffer
<1>2. left' = [left EXCEPT ![s] = @ \ {t}] OBVIOUS
<1> HIDE DEF s
<1>3. MatchTypeOK' BY <1>1, <1>2 DEF MatchInv, MatchTypeOK
<1>4. OneToOne' /\ AlongEdges' BY DEF MatchInv, OneToOne, AlongEdges
<1>5. Free' = Free /\ Calls' = Calls BY DEF Free, Calls
<1>6. CountIs' BY <1>5 DEF MatchInv, CountIs, Matched
<1>7. CallsChain' BY <1>5 DEF MatchInv, CallsChain
<1>8. LayersClosed' BY <1>5 DEF MatchInv, LayersClosed
<1> QED BY <1>3, <1>4, <1>6, <1>7, <1>8 DEF MatchInv

\* A free slot: every call gives its session the slot it was trying.
LEMMA AugmentKeeps ==
  ASSUME MatchInv, step = "search", path # <<>>,
         NEW t \in left[path[Len(path)]], matchR[t] = Nobody, Augment(t),
         UNCHANGED <<edges, dist, front, todo, left, step>>
  PROVE  MatchInv'
<1> DEFINE n == Len(path)
           s == path[n]
<1>1. path \in Seq(Left) /\ n \in Calls /\ s \in Left /\ n \in Nat /\ Calls = 1..n /\ 1 \in Calls
      /\ (\A i \in Calls : path[i] \in Left) /\ \A i, j \in Calls : path[i] = path[j] => i = j
  BY CallsDiffer DEF MatchInv, MatchTypeOK
<1>2. t \in edges[s] /\ t \in Right BY <1>1 DEF MatchInv, MatchTypeOK
<1>3. /\ matchL' = [x \in Left |-> IF \E i \in Calls : path[i] = x
                                  THEN Tried(t, CHOOSE i \in Calls : path[i] = x) ELSE matchL[x]]
      /\ matchR' = [u \in Right |-> IF \E i \in Calls : Tried(t, i) = u
                                   THEN path[CHOOSE i \in Calls : Tried(t, i) = u] ELSE matchR[u]]
      /\ matching' = matching + 1 /\ gained' = TRUE /\ path' = <<>>
  BY DEF Augment
<1>4. \A i \in Calls : i # n => i + 1 \in Calls /\ i + 1 > 1 /\ Tried(t, i) = matchL[path[i + 1]]
  <2>1. \A i \in Calls : i # n => i + 1 \in Calls /\ i + 1 > 1
    <3> HIDE DEF n
    <3> QED BY <1>1
  <2> QED BY <2>1 DEF Tried
<1>5. Tried(t, n) = t BY DEF Tried
<1> HIDE DEF n
\* The slots tried lie on edges, and differ.
<1>6. \A i \in Calls : Tried(t, i) \in edges[path[i]] /\ Tried(t, i) \in Right
  <2> SUFFICES ASSUME NEW i \in Calls PROVE Tried(t, i) \in edges[path[i]] /\ Tried(t, i) \in Right
    OBVIOUS
  <2>1. Tried(t, i) \in edges[path[i]]
    <3>1. CASE i = n BY <3>1, <1>2, <1>5
    <3>2. CASE i # n
      <4>1. i + 1 \in Calls /\ i + 1 > 1 /\ Tried(t, i) = matchL[path[i + 1]] BY <3>2, <1>4
      <4>2. matchL[path[i + 1]] \in edges[path[(i + 1) - 1]] BY <4>1 DEF MatchInv, CallsChain
      <4>3. (i + 1) - 1 = i BY <1>1
      <4> QED BY <4>1, <4>2, <4>3
    <3> QED BY <3>1, <3>2
  <2> QED BY <2>1, <1>1 DEF MatchInv, MatchTypeOK
<1>7. \A i \in Calls : i # n => matchR[Tried(t, i)] = path[i + 1]
  BY <1>1, <1>4, <1>6 DEF MatchInv, OneToOne
<1>8. \A i \in Calls : i # n => matchR[Tried(t, i)] # Nobody /\ Tried(t, i) # t
  BY <1>1, <1>4, <1>7, GraphAssumption
<1>9. \A i, j \in Calls : Tried(t, i) = Tried(t, j) => i = j
  <2> SUFFICES ASSUME NEW i \in Calls, NEW j \in Calls, Tried(t, i) = Tried(t, j) PROVE i = j
    OBVIOUS
  <2>1. CASE i = n \/ j = n BY <2>1, <1>5, <1>8
  <2>2. CASE i # n /\ j # n
    <3>1. path[i + 1] = path[j + 1] /\ i + 1 \in Calls /\ j + 1 \in Calls BY <2>2, <1>4, <1>7
    <3>2. i + 1 = j + 1 BY <3>1, <1>1
    <3> QED BY <3>2, <1>1
  <2> QED BY <2>1, <2>2
\* What each session and each slot holds now.
<1>10. \A i \in Calls : matchL'[path[i]] = Tried(t, i)
  <2> SUFFICES ASSUME NEW i \in Calls PROVE matchL'[path[i]] = Tried(t, i)
    OBVIOUS
  <2>1. path[i] \in Left /\ (CHOOSE j \in Calls : path[j] = path[i]) = i BY <1>1
  <2> QED BY <2>1, <1>3
<1>11. \A x \in Left : (\A i \in Calls : path[i] # x) => matchL'[x] = matchL[x] BY <1>3
<1>12. \A i \in Calls : matchR'[Tried(t, i)] = path[i]
  <2> SUFFICES ASSUME NEW i \in Calls PROVE matchR'[Tried(t, i)] = path[i]
    OBVIOUS
  <2>1. Tried(t, i) \in Right /\ (CHOOSE j \in Calls : Tried(t, j) = Tried(t, i)) = i BY <1>6, <1>9
  <2> QED BY <2>1, <1>3
<1>13. \A u \in Right : (\A i \in Calls : Tried(t, i) # u) => matchR'[u] = matchR[u] BY <1>3
<1>14. matchL' \in [Left -> Right \cup {Nobody}]
  <2>1. ASSUME NEW x \in Left, NEW i \in Calls, path[i] = x PROVE matchL'[x] \in Right
    BY <2>1, <1>6, <1>10
  <2>2. \A x \in Left : matchL[x] \in Right \cup {Nobody} BY DEF MatchInv, MatchTypeOK
  <2>3. \A x \in Left : matchL'[x] \in Right \cup {Nobody} BY <2>1, <2>2, <1>11
  <2> QED BY <2>3, <1>3
<1>15. matchR' \in [Right -> Left \cup {Nobody}]
  <2>1. ASSUME NEW u \in Right, NEW i \in Calls, Tried(t, i) = u PROVE matchR'[u] \in Left
    BY <2>1, <1>1, <1>12
  <2>2. \A u \in Right : matchR[u] \in Left \cup {Nobody} BY DEF MatchInv, MatchTypeOK
  <2>3. \A u \in Right : matchR'[u] \in Left \cup {Nobody} BY <2>1, <2>2, <1>13
  <2> QED BY <2>3, <1>3
<1>16. MatchTypeOK'
  <2>1. path' \in Seq(Left) /\ matching' \in Nat BY <1>3 DEF MatchInv, MatchTypeOK
  <2> QED BY <2>1, <1>3, <1>14, <1>15 DEF MatchInv, MatchTypeOK
<1>17. OneToOne'
  <2> SUFFICES ASSUME NEW x \in Left, NEW u \in Right PROVE matchL'[x] = u <=> matchR'[u] = x
    BY DEF OneToOne
  <2>1. CASE \E i \in Calls : Tried(t, i) = u
    <3>1. PICK i \in Calls : Tried(t, i) = u BY <2>1
    <3>2. matchR'[u] = path[i] /\ matchL'[path[i]] = u BY <3>1, <1>10, <1>12
    <3>3. ASSUME matchL'[x] = u PROVE x = path[i]
      <4>1. CASE \E j \in Calls : path[j] = x
        <5>1. PICK j \in Calls : path[j] = x BY <4>1
        <5>2. Tried(t, j) = Tried(t, i) BY <5>1, <3>1, <3>3, <1>10
        <5> QED BY <5>1, <5>2, <1>9
      <4>2. CASE \A j \in Calls : path[j] # x
        <5>1. matchL[x] = u BY <4>2, <3>3, <1>11
        <5>2. matchR[u] = x BY <5>1 DEF MatchInv, OneToOne
        <5>3. i # n BY <5>2, <3>1, <1>5, GraphAssumption
        <5>4. x = path[i + 1] /\ i + 1 \in Calls BY <5>2, <5>3, <3>1, <1>4, <1>7
        <5> QED BY <5>4, <4>2
      <4> QED BY <4>1, <4>2
    <3> QED BY <3>2, <3>3
  <2>2. CASE \A i \in Calls : Tried(t, i) # u
    <3>1. matchR'[u] = matchR[u] BY <2>2, <1>13
    <3>2. matchR[u] = x <=> matchL[x] = u BY DEF MatchInv, OneToOne
    <3>3. CASE \A j \in Calls : path[j] # x BY <3>1, <3>2, <3>3, <1>11
    <3>4. CASE \E j \in Calls : path[j] = x
      <4>1. PICK j \in Calls : path[j] = x BY <3>4
      <4>2. matchL'[x] # u BY <4>1, <2>2, <1>10
      <4>3. matchL[x] # u
        <5>1. CASE j = 1
          <6>1. matchL[x] = Nobody BY <5>1, <4>1 DEF MatchInv, CallsChain, Free
          <6> QED BY <6>1, GraphAssumption
        <5>2. CASE j # 1
          <6>1. j - 1 \in Calls /\ j - 1 # n /\ (j - 1) + 1 = j BY <5>2, <1>1
          <6>2. Tried(t, j - 1) = matchL[x] BY <6>1, <4>1, <1>4
          <6> QED BY <6>1, <6>2, <2>2
        <5> QED BY <5>1, <5>2
      <4> QED BY <4>2, <4>3, <3>1, <3>2
    <3> QED BY <3>3, <3>4
  <2> QED BY <2>1, <2>2
<1>18. AlongEdges'
  <2> SUFFICES ASSUME NEW x \in Left, matchL'[x] # Nobody PROVE matchL'[x] \in edges[x]
    BY DEF AlongEdges
  <2>1. CASE \E j \in Calls : path[j] = x BY <2>1, <1>6, <1>10
  <2>2. CASE \A j \in Calls : path[j] # x BY <2>2, <1>11 DEF MatchInv, AlongEdges
  <2> QED BY <2>1, <2>2
<1>19. Matched' = Matched \cup {path[1]} /\ path[1] \in Left /\ path[1] \notin Matched
  <2>1. path[1] \in Left /\ path[1] \in Free BY <1>1 DEF MatchInv, CallsChain
  <2>2. \A x \in Left : matchL'[x] = Nobody <=> matchL[x] = Nobody /\ x # path[1]
    <3> SUFFICES ASSUME NEW x \in Left
                 PROVE  matchL'[x] = Nobody <=> matchL[x] = Nobody /\ x # path[1]
      OBVIOUS
    <3>1. CASE \A j \in Calls : path[j] # x BY <3>1, <1>1, <1>11
    <3>2. CASE \E j \in Calls : path[j] = x
      <4>1. PICK j \in Calls : path[j] = x BY <3>2
      <4>2. matchL'[x] # Nobody BY <4>1, <1>6, <1>10, GraphAssumption
      <4>3. j = 1 \/ j > 1 BY <1>1
      <4>4. j > 1 => x \notin Free BY <4>1 DEF MatchInv, CallsChain
      <4> QED BY <4>1, <4>2, <4>3, <4>4 DEF Free
    <3> QED BY <3>1, <3>2
  <2> QED BY <2>1, <2>2 DEF Matched, Free
<1>20. CountIs'
  <2>1. IsFiniteSet(Matched) BY LeftFinite DEF Matched
  <2>2. Cardinality(Matched') = Cardinality(Matched) + 1 BY <2>1, <1>19, FS_AddElement
  <2> QED BY <2>2, <1>3 DEF MatchInv, CountIs
<1>21. CallsChain'
  <2>1. path' = <<>> /\ Calls' = {} BY <1>3 DEF Calls
  <2> QED BY <2>1 DEF CallsChain
<1>22. LayersClosed'
  <2>1. Free' \subseteq Free BY <1>19 DEF Matched, Free
  <2>2. step' = "search" /\ front' = {} BY DEF MatchInv, LayersClosed
  <2>3. \A x \in Free' \cap todo' : dist'[x] # INF BY <2>1 DEF MatchInv, LayersClosed
  <2> QED BY <2>2, <2>3 DEF LayersClosed
<1> QED BY <1>16, <1>17, <1>18, <1>20, <1>21, <1>22 DEF MatchInv

LEMMA TryKeeps == MatchInv /\ Try => MatchInv'
<1> SUFFICES ASSUME MatchInv, Try PROVE MatchInv'
  OBVIOUS
<1> DEFINE s == path[Len(path)]
<1>1. PICK t \in left[s] :
        \/ matchR[t] = Nobody /\ Augment(t) /\ UNCHANGED left
        \/ /\ matchR[t] # Nobody /\ dist[matchR[t]] = dist[s] + 1
           /\ path' = Append(path, matchR[t])
           /\ left' = [left EXCEPT ![s] = @ \ {t}, ![matchR[t]] = edges[matchR[t]]]
           /\ UNCHANGED <<matchL, matchR, matching, gained>>
        \/ /\ matchR[t] # Nobody /\ dist[matchR[t]] # dist[s] + 1
           /\ left' = [left EXCEPT ![s] = @ \ {t}]
           /\ UNCHANGED <<matchL, matchR, matching, gained, path>>
  BY DEF Try
<1>2. step = "search" /\ path # <<>> /\ UNCHANGED <<edges, dist, front, todo, step>> BY DEF Try
<1>3. CASE matchR[t] = Nobody /\ Augment(t) /\ UNCHANGED left BY <1>2, <1>3, AugmentKeeps
<1>4. CASE /\ matchR[t] # Nobody /\ dist[matchR[t]] = dist[s] + 1
           /\ path' = Append(path, matchR[t])
           /\ left' = [left EXCEPT ![s] = @ \ {t}, ![matchR[t]] = edges[matchR[t]]]
           /\ UNCHANGED <<matchL, matchR, matching, gained>>
  BY <1>2, <1>4, DeeperKeeps
<1>5. CASE /\ matchR[t] # Nobody /\ dist[matchR[t]] # dist[s] + 1
           /\ left' = [left EXCEPT ![s] = @ \ {t}]
           /\ UNCHANGED <<matchL, matchR, matching, gained, path>>
  BY <1>2, <1>5, SkipKeeps
<1> QED BY <1>1, <1>3, <1>4, <1>5

LEMMA MatchStutter == MatchInv /\ UNCHANGED matchVars => MatchInv'
BY DEF matchVars, MatchInv, MatchTypeOK, OneToOne, AlongEdges, CountIs, Matched, Free, CallsChain,
       Calls, LayersClosed, FoundAugmenting

LEMMA MatchAlways == MatchingSpec => []MatchInv
<1>1. MatchInv /\ [MatchingNext]_matchVars => MatchInv'
  BY LayerKeeps, LayeredKeeps, VisitKeeps, TryKeeps, FailKeeps, StartLayersKeeps, MatchStutter
     DEF MatchingNext, MatchingDone
<1> QED BY MatchInitially, <1>1, PTL DEF MatchingSpec

LEMMA MaximumIs == MatchInv => MatchingIsMaximum
<1> SUFFICES ASSUME MatchInv PROVE MatchingIsMaximum
  OBVIOUS
<1>1. step = "done" => AtMost(edges, matching) BY Koenig
<1>2. \A s \in Matched : matchL[s] \in edges[s] /\ matchR[matchL[s]] = s
  <2> SUFFICES ASSUME NEW s \in Matched PROVE matchL[s] \in edges[s] /\ matchR[matchL[s]] = s
    OBVIOUS
  <2>1. s \in Left /\ matchL[s] # Nobody BY DEF Matched, Free
  <2>2. matchL[s] \in edges[s] /\ matchL[s] \in Right
    BY <2>1 DEF MatchInv, MatchTypeOK, AlongEdges
  <2> QED BY <2>1, <2>2 DEF MatchInv, OneToOne
<1> QED BY <1>1, <1>2 DEF MatchInv, CountIs, MatchingIsMaximum

\* Hopcroft-Karp finds a matching, counts it, and no larger one exists.
THEOREM MatchingIsMaximumCorrect == MatchingSpec => []MatchingIsMaximum
BY MatchAlways, MaximumIs, PTL

\* What Pipeline takes from the matching: the sessions that it matches can hold
\* distinct slots, and no larger set of sessions can.
ReportsLargest == step = "done" => Matchable(edges, Matched) /\ AtMost(edges, Cardinality(Matched))
THEOREM ReportsLargestCorrect == MatchingSpec => []ReportsLargest
<1>1. MatchInv => ReportsLargest
  <2> SUFFICES ASSUME MatchInv, step = "done"
               PROVE  Matchable(edges, Matched) /\ AtMost(edges, Cardinality(Matched))
    BY DEF ReportsLargest
  <2> DEFINE f == [s \in Matched |-> matchL[s]]
  <2>1. AtMost(edges, Cardinality(Matched)) BY Koenig DEF MatchInv, CountIs
  <2>2. \A s \in Matched : matchL[s] \in edges[s] /\ matchR[matchL[s]] = s
    BY MaximumIs DEF MatchingIsMaximum
  <2>3. /\ f \in [Matched -> UNION {edges[s] : s \in Matched}]
        /\ \A s \in Matched : f[s] \in edges[s]
        /\ \A s, t \in Matched : f[s] = f[t] => s = t
    BY <2>2
  <2>4. Matchable(edges, Matched) BY <2>3 DEF Matchable
  <2> QED BY <2>1, <2>4
<1> QED BY MatchAlways, <1>1, PTL

-----------------------------------------------------------------------------
(***************************************************************************)
(* A round of the matching. As long as it has gained nothing, the layers   *)
(* lead from an unmatched session to one with a free slot: only sessions   *)
(* all of whose slots were tried have left them.                           *)
(***************************************************************************)

\* Every session of a layer is unmatched or the partner of one of the layer before.
Layering ==
  \A x \in Left : dist[x] # INF =>
    \/ dist[x] = 0 /\ x \in Free
    \/ \E p \in Left : dist[p] # INF /\ dist[x] = dist[p] + 1 /\ matchL[x] \in edges[p]
\* What the calls under way have tried is neither free nor in the next layer,
\* but for the session of the next call.
TriedInVain ==
  \A i \in Calls : \A t \in edges[path[i]] \ left[path[i]] :
    /\ matchR[t] # Nobody
    /\ dist[matchR[t]] = dist[path[i]] + 1 => i + 1 \in Calls /\ matchR[t] = path[i + 1]
GainInv ==
  /\ step = "layers" => Layering /\ \A x, y \in front : dist[x] = dist[y]
  /\ step = "search" /\ ~gained =>
       /\ Layering /\ FoundAugmenting /\ TriedInVain
       /\ \A x \in Free \ todo : dist[x] = INF \/ (path # <<>> /\ x = path[1])

LEMMA GainInitially == MatchingInit => GainInv
BY DEF MatchingInit, GainInv, Layering, Free

LEMMA LayerGains == MatchInv /\ GainInv /\ Layer => GainInv'
<1> SUFFICES ASSUME MatchInv, GainInv, Layer PROVE GainInv'
  OBVIOUS
<1> DEFINE next == {s \in Partners : dist[s] = INF}
           d == dist[CHOOSE s \in front : TRUE]
<1>1. /\ step = "layers" /\ front # {}
      /\ dist' = [s \in Left |-> IF s \in next THEN d + 1 ELSE dist[s]]
      /\ front' = next /\ step' = "layers"
      /\ UNCHANGED <<edges, matchL, matchR>>
  BY DEF Layer
<1>2. d \in Nat /\ \A s \in front : dist[s] = d
  <2>1. (CHOOSE s \in front : TRUE) \in front BY <1>1
  <2> QED BY <2>1, <1>1 DEF MatchInv, LayersClosed, MatchTypeOK, GainInv
<1>3. \A x \in next : x \in Left /\ dist[x] = INF
        /\ \E s \in front : matchL[x] \in edges[s]
  <2> SUFFICES ASSUME NEW x \in next
               PROVE  x \in Left /\ dist[x] = INF /\ \E s \in front : matchL[x] \in edges[s]
    OBVIOUS
  <2>1. PICK s \in front : \E t \in edges[s] : matchR[t] = x BY DEF Partners
  <2>2. PICK t \in edges[s] : matchR[t] = x BY <2>1
  <2>3. x # Nobody /\ dist[x] = INF /\ s \in Left BY DEF Partners, MatchInv, MatchTypeOK
  <2>4. t \in Right BY <2>3 DEF MatchInv, MatchTypeOK
  <2>5. x \in Left BY <2>2, <2>3, <2>4 DEF MatchInv, MatchTypeOK
  <2>6. matchL[x] = t BY <2>2, <2>4, <2>5 DEF MatchInv, OneToOne
  <2> QED BY <2>1, <2>3, <2>5, <2>6
<1> HIDE DEF next, d
<1>4. \A x \in Left : x \in next => dist'[x] = d + 1 BY <1>1
<1>5. \A x \in Left : x \notin next => dist'[x] = dist[x] BY <1>1
<1>6. d + 1 # INF BY <1>2 DEF INF
<1>7. Free' = Free BY <1>1 DEF Free
<1>8. \A x \in Left : dist[x] # INF => dist'[x] = dist[x] BY <1>3, <1>5
<1>9. Layering'
  <2> SUFFICES ASSUME NEW x \in Left, dist'[x] # INF
               PROVE  \/ dist'[x] = 0 /\ x \in Free
                      \/ \E p \in Left : dist'[p] # INF /\ dist'[x] = dist'[p] + 1 /\ matchL[x] \in edges[p]
    BY <1>1, <1>7 DEF Layering
  <2>1. CASE x \in next
    <3>1. PICK s \in front : matchL[x] \in edges[s] BY <2>1, <1>3
    <3>2. s \in Left /\ dist[s] = d /\ dist[s] # INF
      BY <1>2 DEF MatchInv, MatchTypeOK, LayersClosed
    <3>3. dist'[s] = d /\ dist'[s] # INF BY <3>2, <1>8
    <3> QED BY <3>1, <3>2, <3>3, <2>1, <1>4
  <2>2. CASE x \notin next
    <3>1. dist[x] # INF /\ dist'[x] = dist[x] BY <2>2, <1>5
    <3>2. CASE dist[x] = 0 /\ x \in Free BY <3>1, <3>2
    <3>3. CASE \E p \in Left : dist[p] # INF /\ dist[x] = dist[p] + 1 /\ matchL[x] \in edges[p]
      BY <3>1, <3>3, <1>8
    <3> QED BY <3>1, <3>2, <3>3, <1>1 DEF GainInv, Layering
  <2> QED BY <2>1, <2>2
<1>10. \A x, y \in front' : dist'[x] = dist'[y] BY <1>1, <1>3, <1>4
<1> QED BY <1>1, <1>9, <1>10 DEF GainInv

LEMMA LayeredGains == MatchInv /\ GainInv /\ Layered => GainInv'
<1> SUFFICES ASSUME MatchInv, GainInv, Layered PROVE GainInv'
  OBVIOUS
<1>1. /\ step = "layers" /\ step' # "layers"
      /\ UNCHANGED <<edges, matchL, matchR, dist, path, left>>
      /\ step' = "search" => FoundAugmenting /\ todo' = Left
  BY DEF Layered
<1>2. Free' = Free /\ Free \subseteq Left /\ (FoundAugmenting' <=> FoundAugmenting)
  BY <1>1 DEF Free, FoundAugmenting
<1>3. Layering' BY <1>1, <1>2 DEF Layering, GainInv
<1>4. TriedInVain'
  <2>1. path = <<>> BY <1>1 DEF MatchInv, CallsChain
  <2>2. path' = <<>> /\ Calls' = {} BY <1>1, <2>1 DEF Calls
  <2> QED BY <2>2 DEF TriedInVain
<1> QED BY <1>1, <1>2, <1>3, <1>4 DEF GainInv

LEMMA VisitGains == MatchInv /\ GainInv /\ Visit => GainInv'
<1> SUFFICES ASSUME MatchInv, GainInv, Visit PROVE GainInv'
  OBVIOUS
<1>1. PICK s \in todo :
        /\ todo' = todo \ {s}
        /\ IF s \in Free THEN path' = <<s>> /\ left' = [left EXCEPT ![s] = edges[s]]
           ELSE UNCHANGED <<path, left>>
  BY DEF Visit
<1>2. /\ step = "search" /\ path = <<>> /\ s \in Left /\ step' = "search"
      /\ UNCHANGED <<edges, matchL, matchR, dist, gained>>
  BY DEF Visit, MatchInv, MatchTypeOK
<1>3. Free' = Free /\ (FoundAugmenting' <=> FoundAugmenting) BY <1>2 DEF Free, FoundAugmenting
<1>4. Layering' <=> Layering BY <1>2, <1>3 DEF Layering
<1>5. TriedInVain'
  <2>1. CASE s \notin Free
    <3>1. path' = <<>> /\ Calls' = {} BY <2>1, <1>1, <1>2 DEF Calls
    <3> QED BY <3>1 DEF TriedInVain
  <2>2. CASE s \in Free
    <3>1. path' = <<s>> /\ Len(<<s>>) = 1 BY <2>2, <1>1
    <3>2. Calls' = 1..1 BY <3>1 DEF Calls
    <3>3. \A i \in Calls' : path'[i] = s BY <3>1, <3>2
    <3>4. left'[s] = edges'[s] BY <2>2, <1>1, <1>2 DEF MatchInv, MatchTypeOK
    <3> QED BY <3>3, <3>4 DEF TriedInVain
  <2> QED BY <2>1, <2>2
<1>6. ASSUME ~gained, NEW x \in Free \ todo'
      PROVE  dist[x] = INF \/ (path' # <<>> /\ x = path'[1])
  <2>1. CASE x = s
    <3>1. path' = <<s>> BY <2>1, <1>1
    <3> QED BY <2>1, <3>1
  <2>2. CASE x # s
    <3>1. x \in Free \ todo BY <2>2, <1>1, <1>6
    <3> QED BY <3>1, <1>2, <1>6 DEF GainInv
  <2> QED BY <2>1, <2>2
<1> QED BY <1>2, <1>3, <1>4, <1>5, <1>6 DEF GainInv

LEMMA StartLayersGains == MatchInv /\ GainInv /\ StartLayers => GainInv'
<1> SUFFICES ASSUME StartLayers PROVE GainInv'
  OBVIOUS
<1>1. /\ dist' = [s \in Left |-> IF s \in Free THEN 0 ELSE INF]
      /\ front' = Free /\ step' = "layers" /\ matchL' = matchL
  BY DEF StartLayers
<1>2. Free' = Free /\ Free \subseteq Left BY <1>1 DEF Free
<1>3. Layering' BY <1>1, <1>2 DEF Layering
<1>4. \A x, y \in front' : dist'[x] = dist'[y] BY <1>1, <1>2
<1> QED BY <1>1, <1>3, <1>4 DEF GainInv

LEMMA FailGains == MatchInv /\ GainInv /\ Fail => GainInv'
<1> SUFFICES ASSUME MatchInv, GainInv, Fail PROVE GainInv'
  OBVIOUS
<1> DEFINE n == Len(path)
           s == path[n]
<1>1. /\ step = "search" /\ step' = "search" /\ path # <<>> /\ left[s] = {}
      /\ dist' = [dist EXCEPT ![s] = INF] /\ path' = SubSeq(path, 1, n - 1)
      /\ UNCHANGED <<edges, matchL, matchR, todo, left, gained>>
  BY DEF Fail
<1>2. SUFFICES ASSUME ~gained
               PROVE  /\ Layering' /\ FoundAugmenting' /\ TriedInVain'
                      /\ \A x \in Free' \ todo' : dist'[x] = INF \/ (path' # <<>> /\ x = path'[1])
  BY <1>1 DEF GainInv
<1>3. /\ path \in Seq(Left) /\ n \in Calls /\ s \in Left /\ n \in Nat /\ Calls = 1..n
      /\ (\A i \in Calls : path[i] \in Left) /\ \A i, j \in Calls : path[i] = path[j] => i = j
  BY <1>1, CallsDiffer DEF MatchInv, MatchTypeOK
<1>4. /\ Len(path') = n - 1 /\ n > 0 /\ \A i \in 1..(n - 1) : path'[i] = path[i]
  BY <1>1, <1>3, Popping
<1>5. Layering /\ FoundAugmenting /\ TriedInVain
      /\ \A x \in Free \ todo : dist[x] = INF \/ x = path[1]
  BY <1>1, <1>2 DEF GainInv
<1>6. dist[s] \in Nat /\ \A i \in Calls : dist[path[i]] \in Nat BY <1>3 DEF MatchInv, CallsChain
<1> HIDE DEF n
<1>7. Calls' = 1..(n - 1) /\ n + 1 \notin Calls BY <1>3, <1>4 DEF Calls
<1>8. \A t \in edges[s] : matchR[t] # Nobody /\ dist[matchR[t]] # dist[s] + 1
  BY <1>1, <1>3, <1>5, <1>7 DEF TriedInVain
<1> HIDE DEF s
<1>9. Free' = Free /\ dist'[s] = INF /\ \A x \in Left : x # s => dist'[x] = dist[x]
  BY <1>1, <1>3 DEF Free, MatchInv, MatchTypeOK
<1>10. FoundAugmenting'
  <2>1. PICK x \in Left : dist[x] # INF /\ \E t \in edges[x] : matchR[t] = Nobody
    BY <1>5 DEF FoundAugmenting
  <2>2. x # s BY <2>1, <1>8
  <2> QED BY <2>1, <2>2, <1>1, <1>9 DEF FoundAugmenting
<1>11. Layering'
  <2> SUFFICES ASSUME NEW x \in Left, dist'[x] # INF
               PROVE  \/ dist'[x] = 0 /\ x \in Free
                      \/ \E p \in Left : dist'[p] # INF /\ dist'[x] = dist'[p] + 1 /\ matchL[x] \in edges[p]
    BY <1>1, <1>9 DEF Layering
  <2>1. x # s /\ dist'[x] = dist[x] BY <1>9
  <2>2. CASE dist[x] = 0 /\ x \in Free BY <2>1, <2>2
  <2>3. CASE \E p \in Left : dist[p] # INF /\ dist[x] = dist[p] + 1 /\ matchL[x] \in edges[p]
    <3>1. PICK p \in Left : dist[p] # INF /\ dist[x] = dist[p] + 1 /\ matchL[x] \in edges[p] BY <2>3
    <3>2. matchL[x] \in Right BY <3>1 DEF MatchInv, MatchTypeOK
    <3>3. matchR[matchL[x]] = x BY <3>2 DEF MatchInv, OneToOne
    <3>4. p # s BY <3>1, <3>3, <1>8
    <3> QED BY <3>1, <3>4, <2>1, <1>9
  <2> QED BY <2>1, <2>2, <2>3, <1>5 DEF Layering
<1>12. TriedInVain'
  <2> SUFFICES ASSUME NEW i \in Calls', NEW t \in edges[path[i]] \ left[path[i]]
               PROVE  /\ matchR[t] # Nobody
                      /\ dist'[matchR[t]] = dist'[path[i]] + 1 => i + 1 \in Calls' /\ matchR[t] = path'[i + 1]
    <3>1. \A i \in Calls' : path'[i] = path[i] BY <1>4, <1>7
    <3>2. UNCHANGED <<edges, matchR, left>> BY <1>1
    <3> QED BY <3>1, <3>2 DEF TriedInVain
  <2>1. i \in Calls /\ i # n /\ i \in Nat BY <1>3, <1>7
  <2>2. path[i] # s /\ path[i] \in Left BY <2>1, <1>3 DEF s
  <2>3. dist'[path[i]] = dist[path[i]] /\ dist[path[i]] \in Nat BY <2>1, <2>2, <1>6, <1>9
  <2>4. matchR[t] # Nobody BY <2>1, <1>5 DEF TriedInVain
  <2>5. ASSUME dist'[matchR[t]] = dist'[path[i]] + 1
        PROVE  i + 1 \in Calls' /\ matchR[t] = path'[i + 1]
    <3>1. matchR[t] # s
      <4>1. dist[path[i]] + 1 # INF BY <2>3 DEF INF
      <4> QED BY <4>1, <2>3, <2>5, <1>9
    <3>2. matchR[t] \in Left BY <2>2, <2>4 DEF MatchInv, MatchTypeOK
    <3>3. dist[matchR[t]] = dist[path[i]] + 1 BY <3>1, <3>2, <2>3, <2>5, <1>9
    <3>4. i + 1 \in Calls /\ matchR[t] = path[i + 1] BY <3>3, <2>1, <1>5 DEF TriedInVain
    <3>5. i + 1 # n BY <3>1, <3>4 DEF s
    <3>6. i + 1 \in 1..(n - 1) BY <3>4, <3>5, <1>3
    <3> QED BY <3>4, <3>6, <1>4, <1>7
  <2> QED BY <2>4, <2>5
<1>13. \A x \in Free' \ todo' : dist'[x] = INF \/ (path' # <<>> /\ x = path'[1])
  <2> SUFFICES ASSUME NEW x \in Free \ todo
               PROVE  dist'[x] = INF \/ (path' # <<>> /\ x = path'[1])
    BY <1>1, <1>9
  <2>1. x \in Left BY DEF Free
  <2>2. CASE dist[x] = INF BY <2>1, <2>2, <1>9
  <2>3. CASE x = path[1]
    <3>1. CASE n = 1 BY <3>1, <2>3, <1>9 DEF s
    <3>2. CASE n # 1
      <4>1. 1 \in 1..(n - 1) BY <3>2, <1>3, <1>4
      <4>2. path'[1] = path[1] BY <4>1, <1>4
      <4>3. Len(path') # 0 BY <3>2, <1>3, <1>4
      <4>4. path' # <<>> BY <4>3
      <4> QED BY <2>3, <4>2, <4>4
    <3> QED BY <3>1, <3>2
  <2> QED BY <2>2, <2>3, <1>5
<1> QED BY <1>10, <1>11, <1>12, <1>13

LEMMA TryGains == MatchInv /\ GainInv /\ Try => GainInv'
<1> SUFFICES ASSUME MatchInv, GainInv, Try PROVE GainInv'
  OBVIOUS
<1> DEFINE n == Len(path)
           s == path[n]
<1>1. PICK t \in left[s] :
        \/ matchR[t] = Nobody /\ Augment(t) /\ UNCHANGED left
        \/ /\ matchR[t] # Nobody /\ dist[matchR[t]] = dist[s] + 1
           /\ path' = Append(path, matchR[t])
           /\ left' = [left EXCEPT ![s] = @ \ {t}, ![matchR[t]] = edges[matchR[t]]]
           /\ UNCHANGED <<matchL, matchR, matching, gained>>
        \/ /\ matchR[t] # Nobody /\ dist[matchR[t]] # dist[s] + 1
           /\ left' = [left EXCEPT ![s] = @ \ {t}]
           /\ UNCHANGED <<matchL, matchR, matching, gained, path>>
  BY DEF Try
<1>2. step = "search" /\ path # <<>> /\ UNCHANGED <<edges, dist, front, todo, step>> BY DEF Try
<1>3. CASE Augment(t) BY <1>2, <1>3 DEF Augment, GainInv
<1>4. SUFFICES ASSUME ~Augment(t), ~gained PROVE GainInv'
  <2>1. CASE gained
    <3>1. ~Augment(t) => gained' = gained BY <1>1
    <3> QED BY <2>1, <3>1, <1>2, <1>3 DEF GainInv
  <2> QED BY <1>3, <1>4, <2>1
<1>5. /\ path \in Seq(Left) /\ n \in Calls /\ s \in Left /\ n \in Nat /\ Calls = 1..n /\ 1 \in Calls
      /\ (\A i \in Calls : path[i] \in Left) /\ \A i, j \in Calls : path[i] = path[j] => i = j
  BY <1>2, CallsDiffer DEF MatchInv, MatchTypeOK
<1>6. matchR[t] # Nobody /\ UNCHANGED <<edges, matchL, matchR, dist, todo, step, gained>>
  BY <1>1, <1>2, <1>4
<1>7. /\ Layering /\ FoundAugmenting /\ TriedInVain
      /\ \A x \in Free \ todo : dist[x] = INF \/ x = path[1]
  BY <1>2, <1>4 DEF GainInv
<1>8. Free' = Free /\ Layering' /\ FoundAugmenting'
  BY <1>6, <1>7 DEF Free, Layering, FoundAugmenting
<1>9. t \in edges[s] /\ t \in Right /\ matchR[t] \in Left
  <2>1. t \in edges[s] /\ t \in Right BY <1>5 DEF MatchInv, MatchTypeOK
  <2> QED BY <2>1, <1>6 DEF MatchInv, MatchTypeOK
<1>10. \A i \in Calls : dist[path[i]] \in Nat /\ dist[path[i]] = dist[path[1]] + (i - 1)
  BY DEF MatchInv, CallsChain
<1>11. CASE dist[matchR[t]] = dist[s] + 1
  <2> DEFINE p == matchR[t]
  <2>1. /\ path' = Append(path, p)
        /\ left' = [left EXCEPT ![s] = @ \ {t}, ![p] = edges[p]]
    BY <1>1, <1>4, <1>6, <1>11
  <2>2. \A i \in Calls : path[i] # p
    <3> SUFFICES ASSUME NEW i \in Calls, path[i] = p PROVE FALSE
      OBVIOUS
    <3>1. dist[p] = dist[path[1]] + (i - 1) /\ dist[p] = dist[path[1]] + (n - 1) + 1
          /\ dist[path[1]] \in Nat
      BY <1>5, <1>10, <1>11
    <3> HIDE DEF n, p
    <3> QED BY <3>1, <1>5
  <2>3. p \in Left BY <1>9
  <2> HIDE DEF p
  <2>4. /\ path' \in Seq(Left) /\ Len(path') = n + 1
        /\ path'[n + 1] = p /\ \A i \in 1..n : path'[i] = path[i]
    BY <2>1, <2>3, <1>5, Pushing
  <2> HIDE DEF n, s
  <2>5. left' = [x \in Left |-> IF x = p THEN edges[p] ELSE IF x = s THEN left[s] \ {t} ELSE left[x]]
    BY <2>1, <2>3, <1>5 DEF MatchInv, MatchTypeOK
  <2>6. Calls' = 1..(n + 1) BY <2>4 DEF Calls
  <2>7. TriedInVain'
    <3> SUFFICES ASSUME NEW i \in Calls', NEW u \in edges[path'[i]] \ left'[path'[i]]
                 PROVE  /\ matchR[u] # Nobody
                        /\ dist[matchR[u]] = dist[path'[i]] + 1 => i + 1 \in Calls' /\ matchR[u] = path'[i + 1]
      BY <1>6 DEF TriedInVain
    <3>1. CASE i = n + 1
      <4>1. path'[i] = p BY <3>1, <2>4
      <4>2. left'[p] = edges[p] BY <2>3, <2>5
      <4> QED BY <4>1, <4>2
    <3>2. CASE i \in Calls
      <4>1. path'[i] = path[i] /\ path[i] \in Left /\ path[i] # p /\ i + 1 \in Calls'
        BY <3>2, <1>5, <2>2, <2>4, <2>6
      <4>2. left'[path[i]] = IF path[i] = s THEN left[s] \ {t} ELSE left[path[i]]
        BY <4>1, <2>5
      <4>3. CASE path[i] = s /\ u = t
        <5>1. i = n BY <4>3, <3>2, <1>5 DEF s
        <5>2. matchR[u] = p BY <4>3 DEF p
        <5> QED BY <5>1, <5>2, <4>1, <2>4, <1>6, <4>3
      <4>4. CASE ~(path[i] = s /\ u = t)
        <5>1. u \in edges[path[i]] \ left[path[i]] BY <4>1, <4>2, <4>4
        <5>2. /\ matchR[u] # Nobody
              /\ dist[matchR[u]] = dist[path[i]] + 1 => i + 1 \in Calls /\ matchR[u] = path[i + 1]
          BY <5>1, <3>2, <1>7 DEF TriedInVain
        <5>3. i + 1 \in Calls => path'[i + 1] = path[i + 1] BY <1>5, <2>4
        <5> QED BY <5>2, <5>3, <4>1
      <4> QED BY <4>3, <4>4
    <3>3. i = n + 1 \/ i \in Calls BY <2>6, <1>5
    <3> QED BY <3>1, <3>2, <3>3
  <2>8. path' # <<>> /\ path'[1] = path[1]
    <3>1. Len(path') # 0 BY <2>4, <1>5
    <3>2. path' # <<>> BY <3>1
    <3> QED BY <3>2, <2>4, <1>5
  <2> QED BY <1>2, <1>6, <1>7, <1>8, <2>7, <2>8 DEF GainInv
<1>12. CASE dist[matchR[t]] # dist[s] + 1
  <2>1. left' = [left EXCEPT ![s] = @ \ {t}] /\ path' = path BY <1>1, <1>4, <1>6, <1>12
  <2>2. Calls' = Calls BY <2>1 DEF Calls
  <2>3. \A x \in Left : left'[x] = IF x = s THEN left[s] \ {t} ELSE left[x]
    <3> HIDE DEF s
    <3> QED BY <2>1, <1>5 DEF MatchInv, MatchTypeOK
  <2>4. TriedInVain'
    <3> SUFFICES ASSUME NEW i \in Calls, NEW u \in edges[path[i]] \ left'[path[i]]
                 PROVE  /\ matchR[u] # Nobody
                        /\ dist[matchR[u]] = dist[path[i]] + 1 => i + 1 \in Calls /\ matchR[u] = path[i + 1]
      BY <1>6, <2>1, <2>2 DEF TriedInVain
    <3>1. CASE path[i] = s /\ u = t BY <3>1, <1>6, <1>12
    <3>2. CASE ~(path[i] = s /\ u = t)
      <4>1. u \in edges[path[i]] \ left[path[i]] BY <3>2, <2>3, <1>5
      <4> QED BY <4>1, <1>7 DEF TriedInVain
    <3> QED BY <3>1, <3>2
  <2> QED BY <1>2, <1>6, <1>7, <1>8, <2>1, <2>4 DEF GainInv
<1> QED BY <1>11, <1>12

LEMMA GainStutter == GainInv /\ UNCHANGED matchVars => GainInv'
BY DEF matchVars, GainInv, Layering, Free, TriedInVain, Calls, FoundAugmenting

LEMMA GainAlways == MatchingSpec => [](MatchInv /\ GainInv)
<1>1. MatchInv /\ GainInv /\ [MatchingNext]_matchVars => GainInv'
  BY LayerGains, LayeredGains, VisitGains, TryGains, FailGains, StartLayersGains, GainStutter
     DEF MatchingNext, MatchingDone
<1> QED BY MatchAlways, GainInitially, <1>1, PTL DEF MatchingSpec

Less == {p \in Nat \X Nat : p[1] < p[2]}
LEMMA LessWF == IsWellFoundedOn(Less, Nat)
  BY NatLessThanWellFounded DEF OpToRel, Less
LEMMA LeastNatural ==
  ASSUME NEW S \in SUBSET Nat, S # {}
  PROVE  \E n \in S : \A m \in S : n <= m
<1>1. PICK n \in S : \A m \in S : <<m, n>> \notin Less
  BY LessWF, WFMin
<1>2. ASSUME NEW m \in S PROVE n <= m
  <2>1. m \in Nat /\ n \in Nat /\ <<m, n>> \notin Less BY <1>1
  <2>2. ~(m < n) BY <2>1 DEF Less
  <2> QED BY <2>1, <2>2
<1> QED BY <1>2

\* At the end of a round in vain no unmatched session is in a layer, and the
\* session of the lowest layer would be one.
LEMMA GainsIs == MatchInv /\ GainInv => RoundGains
<1> SUFFICES ASSUME MatchInv, GainInv, step = "search", path = <<>>, todo = {}, ~gained PROVE FALSE
  BY DEF RoundGains
<1>1. Layering /\ FoundAugmenting /\ \A x \in Free : dist[x] = INF BY DEF GainInv
<1> DEFINE S == {dist[x] : x \in {y \in Left : dist[y] # INF}}
<1>2. S \in SUBSET Nat BY DEF MatchInv, MatchTypeOK
<1>3. S # {} BY <1>1 DEF FoundAugmenting
<1>4. PICK n \in S : \A m \in S : n <= m BY <1>2, <1>3, LeastNatural
<1>5. PICK x \in Left : dist[x] # INF /\ dist[x] = n BY <1>4
<1>6. PICK p \in Left : dist[p] # INF /\ dist[x] = dist[p] + 1 BY <1>1, <1>5 DEF Layering
<1>7. dist[p] \in S /\ dist[p] \in Nat /\ n = dist[p] + 1 BY <1>2, <1>5, <1>6
<1> HIDE DEF S
<1>8. n \in Nat /\ n <= dist[p] BY <1>2, <1>4, <1>7
<1> QED BY <1>7, <1>8

\* A round that begins adds a session to the matching: the rounds come to an end.
THEOREM RoundGainsCorrect == MatchingSpec => []RoundGains
BY GainAlways, GainsIs, PTL

-----------------------------------------------------------------------------
(***************************************************************************)
(* The candidates: what validation leaves has a room or may pick one, has  *)
(* times and lecturers, and is split over no more rooms than it may pick.  *)
(***************************************************************************)

LEMMA ImageFinite ==
  ASSUME NEW S, IsFiniteSet(S), NEW f, DOMAIN f = S
  PROVE  IsFiniteSet({f[x] : x \in S})
<1> DEFINE T == {f[x] : x \in S}
           h == [x \in S |-> f[x]]
<1>1. h \in [S -> T] /\ \A t \in T : \E x \in S : h[x] = t OBVIOUS
<1>2. h \in Surjection(S, T) BY <1>1 DEF Surjection
<1> HIDE DEF h, T
<1>3. IsFiniteSet(T) BY <1>2, FS_Surjection
<1> QED BY <1>3 DEF T

HasMost(S) == \E x \in S : \A y \in S : x >= y

LEMMA MaxIs ==
  ASSUME NEW S \in SUBSET Nat, S # {}, IsFiniteSet(S)
  PROVE  Max(S) \in S /\ \A x \in S : x <= Max(S)
<1> DEFINE Bad == {T \in SUBSET S : T # {} /\ ~HasMost(T)}
           B == {Cardinality(T) : T \in Bad}
<1>1. \A T \in SUBSET S : IsFiniteSet(T) /\ Cardinality(T) \in Nat
  BY FS_Subset, FS_CardinalityType
<1>2. Bad = {}
  <2> SUFFICES ASSUME Bad # {} PROVE FALSE
    OBVIOUS
  <2>1. B \in SUBSET Nat /\ B # {} BY <1>1
  <2>2. PICK n \in B : \A m \in B : n <= m BY <2>1, LeastNatural
  <2>3. PICK T \in Bad : n = Cardinality(T) BY <2>2
  <2>4. PICK x \in T : TRUE BY <2>3
  <2>5. T \ {x} \in SUBSET S /\ x \in Nat /\ IsFiniteSet(T) BY <1>1, <2>3, <2>4
  <2>6. Cardinality(T \ {x}) = Cardinality(T) - 1 BY <2>4, <2>5, FS_RemoveElement
  <2>7. T \ {x} \notin Bad
    <3> SUFFICES ASSUME T \ {x} \in Bad PROVE FALSE
      OBVIOUS
    <3>1. n <= Cardinality(T \ {x}) BY <2>2
    <3>2. n \in Nat BY <2>1
    <3> QED BY <3>1, <3>2, <2>3, <2>6
  <2>8. CASE T \ {x} = {}
    <3>1. \A y \in T : x >= y BY <2>4, <2>5, <2>8
    <3> QED BY <3>1, <2>3, <2>4 DEF HasMost
  <2>9. CASE T \ {x} # {}
    <3>1. PICK m \in T \ {x} : \A y \in T \ {x} : m >= y BY <2>5, <2>7, <2>9 DEF HasMost
    <3>2. m \in Nat /\ m \in T /\ \A y \in T : y \in Nat BY <2>3
    <3>3. CASE m >= x
      <4>1. \A y \in T : m >= y BY <3>1, <3>3
      <4> QED BY <4>1, <3>2, <2>3 DEF HasMost
    <3>4. CASE ~(m >= x)
      <4>1. \A y \in T : x >= y BY <3>1, <3>2, <3>4, <2>5
      <4> QED BY <4>1, <2>3, <2>4 DEF HasMost
    <3> QED BY <3>3, <3>4
  <2> QED BY <2>8, <2>9
<1>3. HasMost(S) BY <1>2
<1>4. Max(S) = CHOOSE x \in S : \A y \in S : x >= y BY DEF Max
<1>5. Max(S) \in S /\ \A y \in S : Max(S) >= y BY <1>3, <1>4 DEF HasMost
<1> QED BY <1>5

LEMMA MinIs ==
  ASSUME NEW S \in SUBSET Nat, S # {}
  PROVE  Min(S) \in S
<1>1. \E x \in S : \A y \in S : x <= y BY LeastNatural
<1>2. Min(S) = CHOOSE x \in S : \A y \in S : x =< y BY DEF Min
<1> QED BY <1>1, <1>2

LEMMA SplitIs ==
  ASSUME NEW n \in Nat, NEW seats \in Nat \ {0}
  PROVE  /\ Split(n, seats) \in Nat
         /\ n > 0 => Split(n, seats) >= 1
         /\ n > 0 /\ n <= seats => Split(n, seats) = 1
BY DEF Split

\* The room sizes an offering is split by.
Seats(o) == IF o.room # None THEN Capacity[o.room] ELSE Largest(Qualifying(o))

LEMMA QualifyingIs ==
  ASSUME NEW o \in Shapes
  PROVE  /\ Qualifying(o) \subseteq Rooms /\ IsFiniteSet(Qualifying(o))
         /\ Cardinality(Qualifying(o)) \in Nat
         /\ Qualifying(o) # {} => Cardinality(Qualifying(o)) >= 1
<1>1. Qualifying(o) \subseteq Rooms BY DEF Qualifying
<1>2. IsFiniteSet(Qualifying(o)) BY <1>1, CapacityAssumption, FS_Subset
<1>3. Cardinality(Qualifying(o)) \in Nat BY <1>2, FS_CardinalityType
<1>4. Qualifying(o) # {} => Cardinality(Qualifying(o)) # 0 BY <1>2, FS_EmptySet
<1> QED BY <1>1, <1>2, <1>3, <1>4

LEMMA LargestIs ==
  ASSUME NEW R \in SUBSET Rooms, R # {}
  PROVE  Largest(R) \in Nat \ {0} /\ \A r \in R : Capacity[r] <= Largest(R)
<1> DEFINE f == [r \in R |-> Capacity[r]]
           S == {Capacity[r] : r \in R}
<1>1. S \in SUBSET (Nat \ {0}) /\ S # {} BY CapacityAssumption
<1>2. IsFiniteSet(S)
  <2>1. IsFiniteSet(R) BY CapacityAssumption, FS_Subset
  <2>2. IsFiniteSet({f[r] : r \in R}) BY <2>1, ImageFinite
  <2>3. {f[r] : r \in R} = S OBVIOUS
  <2> QED BY <2>2, <2>3
<1>3. \A r \in R : Capacity[r] \in S OBVIOUS
<1>4. Largest(R) = Max(S) BY DEF Largest
<1> HIDE DEF S
<1>5. Max(S) \in S /\ \A x \in S : x <= Max(S) BY <1>1, <1>2, MaxIs
<1> QED BY <1>1, <1>3, <1>4, <1>5

LEMMA SeatsAre ==
  ASSUME NEW o \in Shapes, RoomsSuffice(o)
  PROVE  Seats(o) \in Nat \ {0} /\ (o.room = None => Qualifying(o) # {})
<1>1. CASE o.room # None BY <1>1, ShapesAssumption, CapacityAssumption DEF Seats
<1>2. CASE o.room = None
  <2>1. Qualifying(o) # {} BY <1>2 DEF RoomsSuffice, Pinned
  <2>2. Largest(Qualifying(o)) \in Nat \ {0} BY <2>1, QualifyingIs, LargestIs
  <2> QED BY <1>2, <2>1, <2>2 DEF Seats
<1> QED BY <1>1, <1>2

\* What validation accepts, and the candidates it makes of it.
Accepted == {i \in Offerings : Passes(offering[i]) /\ RoomsSuffice(offering[i])}
Courses == {offering[i].course : i \in Accepted}
Speaker(c) == Min(Cohort(Accepted, c))
Students(c) == Max({offering[i].students : i \in Cohort(Accepted, c)})

PreGAInv ==
  /\ offering \in [Offerings -> Shapes]
  /\ phase = "input" => candidates = {}
  /\ phase # "input" => candidates = {Tagged(Candidate(Accepted, c)) : c \in Courses}

LEMMA PreGAAlways == Spec => []PreGAInv
<1>1. Init => PreGAInv BY DEF Init, PreGAInv
<1>2. PreGAInv /\ [Next]_vars => PreGAInv'
  <2> SUFFICES ASSUME PreGAInv, [Next]_vars PROVE PreGAInv'
    OBVIOUS
  <2>1. CASE RunPreGA
    <3>1. Accepted' = Accepted /\ Courses' = Courses /\ offering' = offering /\ lock' = lock
      BY <2>1 DEF RunPreGA, Accepted, Courses
    <3>2. candidates' = {Tagged(Candidate(Accepted, c)) : c \in Courses}
      BY <2>1 DEF RunPreGA, Accepted, Courses
    <3>3. phase' # "input" BY <2>1 DEF RunPreGA
    <3>4. {Tagged(Candidate(Accepted, c)) : c \in Courses}' = {Tagged(Candidate(Accepted, c)) : c \in Courses}
      BY <3>1 DEF Tagged, Candidate, Cohort
    <3> QED BY <3>1, <3>2, <3>3, <3>4 DEF PreGAInv
  <2>2. CASE BuildGraph \/ Revise \/ MatchSessions \/ Done \/ UNCHANGED vars
    <3>1. UNCHANGED <<offering, lock, candidates>>
      BY <2>2 DEF BuildGraph, Revise, MatchSessions, Done, vars
    <3>2. phase' = "input" <=> phase = "input"
      BY <2>2 DEF BuildGraph, Revise, MatchSessions, Done, vars
    <3>3. Accepted' = Accepted /\ Courses' = Courses BY <3>1 DEF Accepted, Courses
    <3>4. {Tagged(Candidate(Accepted, c)) : c \in Courses}' = {Tagged(Candidate(Accepted, c)) : c \in Courses}
      BY <3>1, <3>3 DEF Tagged, Candidate, Cohort
    <3> QED BY <3>1, <3>2, <3>3, <3>4 DEF PreGAInv
  <2> QED BY <2>1, <2>2 DEF Next
<1> QED BY <1>1, <1>2, PTL DEF Spec

LEMMA CohortIs ==
  ASSUME offering \in [Offerings -> Shapes], NEW c \in Courses
  PROVE  /\ Cohort(Accepted, c) \subseteq Accepted
         /\ Speaker(c) \in Cohort(Accepted, c)
         /\ \A i \in Cohort(Accepted, c) :
              /\ offering[i] \in Shapes /\ offering[i].course = c
              /\ Passes(offering[i]) /\ RoomsSuffice(offering[i])
         /\ Students(c) \in Nat
         /\ \E i \in Cohort(Accepted, c) : Students(c) = offering[i].students
<1> DEFINE siblings == Cohort(Accepted, c)
           S == {offering[i].students : i \in siblings}
           f == [i \in siblings |-> offering[i].students]
<1>1. siblings \subseteq Accepted /\ siblings # {} BY DEF Cohort, Courses
<1>2. siblings \subseteq Offerings /\ \A i \in siblings : offering[i] \in Shapes
  BY <1>1 DEF Accepted
<1>3. \A i \in siblings : offering[i].course = c /\ Passes(offering[i]) /\ RoomsSuffice(offering[i])
  BY DEF Cohort, Accepted
<1>4. S \in SUBSET Nat /\ S # {} BY <1>1, <1>2, ShapesAssumption
<1>5. IsFiniteSet(S)
  <2>1. IsFiniteSet(siblings) BY <1>2, OfferingsAssumption, FS_Subset
  <2> HIDE DEF siblings
  <2>2. IsFiniteSet({f[i] : i \in siblings}) BY <2>1, ImageFinite
  <2>3. {f[i] : i \in siblings} = S OBVIOUS
  <2> QED BY <2>2, <2>3
<1>6. Speaker(c) \in siblings
  <2>1. siblings \in SUBSET Nat BY <1>2, OfferingsAssumption
  <2>2. Speaker(c) = Min(siblings) BY DEF Speaker
  <2> HIDE DEF siblings
  <2> QED BY <2>1, <2>2, <1>1, MinIs
<1>7. Students(c) \in S
  <2>1. Students(c) = Max(S) BY DEF Students
  <2> HIDE DEF S
  <2> QED BY <2>1, <1>4, <1>5, MaxIs
<1> QED BY <1>1, <1>2, <1>3, <1>4, <1>6, <1>7

\* The fields of a candidate.
LEMMA CandidateIs ==
  ASSUME NEW c \in Courses
  PROVE  LET o == offering[Speaker(c)]
             x == Tagged(Candidate(Accepted, c))
         IN /\ x.siblings = Cohort(Accepted, c)
            /\ x.count = Split(Students(c), Seats(o))
            /\ x.duration = Sks[c]
            /\ x.slots = IF o.isFixed THEN o.fixedSlots ELSE Slots
            /\ x.rooms = IF Pinned(o) THEN {} ELSE Qualifying(o)
            /\ x.room = IF lock[Speaker(c)] = None THEN o.room ELSE lock[Speaker(c)]
            /\ x.pool = UNION {offering[i].lecturers : i \in Cohort(Accepted, c)}
BY DEF Tagged, Candidate, Speaker, Students, Seats

LEMMA SeedableIs == PreGAInv => Seedable
<1> SUFFICES ASSUME PreGAInv, NEW x \in candidates
             PROVE  /\ x.room # None \/ x.rooms # {}
                    /\ x.pool # {} /\ x.slots # {}
                    /\ x.room = None /\ (\A i \in x.siblings : ~Pinned(offering[i])) =>
                         x.count <= Cardinality(x.rooms)
  BY DEF Seedable
<1>1. PICK c \in Courses : x = Tagged(Candidate(Accepted, c)) BY DEF PreGAInv
<1> DEFINE p == Speaker(c)
           o == offering[p]
           siblings == Cohort(Accepted, c)
<1>2. /\ x.siblings = siblings
      /\ x.count = Split(Students(c), Seats(o))
      /\ x.slots = IF o.isFixed THEN o.fixedSlots ELSE Slots
      /\ x.rooms = IF Pinned(o) THEN {} ELSE Qualifying(o)
      /\ x.room = IF lock[p] = None THEN o.room ELSE lock[p]
      /\ x.pool = UNION {offering[i].lecturers : i \in siblings}
  BY <1>1, CandidateIs
<1>3. /\ p \in siblings /\ o \in Shapes /\ Passes(o) /\ RoomsSuffice(o) /\ o.course = c
      /\ \A i \in siblings : offering[i] \in Shapes /\ offering[i].course = c
                             /\ Passes(offering[i]) /\ RoomsSuffice(offering[i])
      /\ Students(c) \in Nat /\ \E i \in siblings : Students(c) = offering[i].students
  BY CohortIs DEF PreGAInv
<1> HIDE DEF p, siblings
<1>4. o.room = None => ~Pinned(o) /\ Qualifying(o) # {} BY <1>3, SeatsAre DEF Pinned
<1>5. x.room # None \/ x.rooms # {} BY <1>2, <1>4
<1>6. x.pool # {}
  <2>1. o.lecturers # {} BY <1>3 DEF Passes, Integrity
  <2> QED BY <2>1, <1>2, <1>3
<1>7. x.slots # {}
  <2>1. CASE o.isFixed BY <2>1, <1>2, <1>3 DEF Passes, Policy
  <2>2. CASE ~o.isFixed
    <3>1. CASE o.room = None BY <3>1, <2>2, <1>2, <1>3 DEF Passes, Temporal
    <3>2. CASE o.room # None
      <4>1. Split(o.students, Capacity[o.room]) <= Cardinality(Slots) BY <3>2, <1>3 DEF Passes, Temporal
      <4>2. o.students \in Nat /\ o.students > 0 /\ Capacity[o.room] \in Nat \ {0}
        BY <3>2, <1>3, ShapesAssumption, CapacityAssumption DEF Passes, Integrity
      <4>3. Split(o.students, Capacity[o.room]) \in Nat /\ Split(o.students, Capacity[o.room]) >= 1
        BY <4>2, SplitIs
      <4>4. Slots # {}
        <5>1. Cardinality({}) = 0 BY FS_EmptySet
        <5> QED BY <5>1, <4>1, <4>3
      <4> QED BY <4>4, <2>2, <1>2
    <3> QED BY <3>1, <3>2
  <2> QED BY <2>1, <2>2
<1>8. ASSUME x.room = None, \A i \in x.siblings : ~Pinned(offering[i])
      PROVE  x.count <= Cardinality(x.rooms)
  <2>1. o.room = None BY <1>2, <1>8
  <2>2. x.rooms = Qualifying(o) /\ Qualifying(o) # {} BY <2>1, <1>2, <1>4
  <2>3. Qualifying(o) = {r \in Rooms : <<c, r>> \in Equipped} BY <2>1, <1>3 DEF Qualifying
  <2>4. Seats(o) = Largest(Qualifying(o)) BY <2>1 DEF Seats
  <2>5. PICK i \in siblings : Students(c) = offering[i].students BY <1>3
  <2> DEFINE n == offering[i].students
             q == offering[i]
             L == Largest(Qualifying(o))
  <2>6. q \in Shapes /\ q.course = c /\ RoomsSuffice(q) /\ ~Pinned(q) /\ n \in Nat /\ n > 0
    BY <1>2, <1>3, <1>8, ShapesAssumption DEF Passes, Integrity
  <2>7. L \in Nat \ {0} /\ \A r \in Qualifying(o) : Capacity[r] <= L
    BY <2>2, <1>3, QualifyingIs, LargestIs
  <2>8. x.count = Split(n, L) BY <1>2, <2>4, <2>5
  <2>9. CASE q.room = None
    <3>1. Qualifying(q) = Qualifying(o) BY <2>3, <2>6, <2>9 DEF Qualifying
    <3>2. Split(n, L) <= Cardinality(Qualifying(q)) BY <2>6, <2>9, <3>1 DEF RoomsSuffice
    <3> QED BY <3>1, <3>2, <2>2, <2>8
  <2>10. CASE q.room # None
    <3>1. Qualifying(q) # {} BY <2>6 DEF RoomsSuffice
    <3>2. PICK r \in Rooms : <<c, r>> \in Equipped /\ Capacity[r] >= n
      BY <3>1, <2>6, <2>10 DEF Qualifying
    <3>3. r \in Qualifying(o) BY <3>2, <2>3
    <3>4. Capacity[r] \in Nat /\ Capacity[r] <= L BY <3>3, <2>7, CapacityAssumption
    <3>5. n <= L BY <3>2, <3>4, <2>6, <2>7
    <3>6. Split(n, L) = 1 BY <3>5, <2>6, <2>7, SplitIs
    <3>7. Cardinality(Qualifying(o)) >= 1 BY <2>2, <1>3, QualifyingIs
    <3> QED BY <3>6, <3>7, <2>2, <2>8
  <2> QED BY <2>9, <2>10
<1> QED BY <1>5, <1>6, <1>7, <1>8

\* Every candidate that validation leaves can be seeded: it has a room or may
\* pick one, has times and lecturers, and each session of a split cohort can
\* have a room of its own unless a sibling is pinned to a room and times.
THEOREM SeedableCorrect == Spec => []Seedable
BY PreGAAlways, SeedableIs, PTL

-----------------------------------------------------------------------------
(***************************************************************************)
(* The verdict: propagation takes no value from a session that a full      *)
(* assignment might need, so the verdict is that of the block starts.      *)
(***************************************************************************)

Starts == [m \in Sessions |-> BlockStarts(m.of)]
\* An assignment of all sessions: distinct starts.
Assigns(f) ==
  /\ f \in [Sessions -> UNION {Starts[m] : m \in Sessions}]
  /\ \A m \in Sessions : f[m] \in Starts[m]
  /\ \A m, n \in Sessions : f[m] = f[n] => m = n
Assignable == \E f : Assigns(f)

GraphInv ==
  /\ phase = "propagating" =>
       /\ DOMAIN domain = Sessions
       /\ \A m \in Sessions : domain[m] \subseteq BlockStarts(m.of)
       /\ \A f : Assigns(f) => \A m \in Sessions : f[m] \in domain[m]
       /\ arcs \subseteq {a \in Sessions \X Sessions : a[1] # a[2]}
  /\ CampusIsOneRoom

\* Sessions are finitely many: each candidate has a number of them.
LEMMA SessionsFinite == PreGAInv => IsFiniteSet(Sessions)
<1> SUFFICES ASSUME PreGAInv PROVE IsFiniteSet(Sessions)
  OBVIOUS
<1> DEFINE Of(c) == {[of |-> c, index |-> i] : i \in 1..c.count}
           f == [c \in candidates |-> Of(c)]
<1>1. IsFiniteSet(candidates)
  <2>1. CASE phase = "input"
    <3>1. candidates = {} BY <2>1 DEF PreGAInv
    <3> QED BY <3>1, FS_EmptySet
  <2>2. CASE phase # "input"
    <3> DEFINE g == [i \in Accepted |-> Tagged(Candidate(Accepted, offering[i].course))]
    <3>1. candidates = {g[i] : i \in Accepted} BY <2>2 DEF PreGAInv, Courses
    <3>2. IsFiniteSet(Accepted)
      <4>1. Accepted \subseteq Offerings BY DEF Accepted
      <4> QED BY <4>1, OfferingsAssumption, FS_Subset
    <3>3. DOMAIN g = Accepted OBVIOUS
    <3> HIDE DEF g
    <3> QED BY <3>1, <3>2, <3>3, ImageFinite
  <2> QED BY <2>1, <2>2
<1>2. \A c \in candidates : c.count \in Int
  <2> SUFFICES ASSUME NEW x \in candidates PROVE x.count \in Int
    OBVIOUS
  <2>1. PICK c \in Courses : x = Tagged(Candidate(Accepted, c)) BY DEF PreGAInv
  <2>2. x.count = Split(Students(c), Seats(offering[Speaker(c)])) BY <2>1, CandidateIs
  <2>3. /\ Students(c) \in Nat /\ offering[Speaker(c)] \in Shapes
        /\ RoomsSuffice(offering[Speaker(c)])
    BY CohortIs DEF PreGAInv
  <2>4. Seats(offering[Speaker(c)]) \in Nat \ {0} BY <2>3, SeatsAre
  <2> QED BY <2>2, <2>3, <2>4, SplitIs
<1>3. \A c \in candidates : IsFiniteSet(f[c])
  <2> SUFFICES ASSUME NEW c \in candidates PROVE IsFiniteSet(Of(c))
    OBVIOUS
  <2> DEFINE I == 1..c.count
             g == [i \in I |-> [of |-> c, index |-> i]]
  <2>1. IsFiniteSet(I) BY <1>2, FS_Interval
  <2>2. {g[i] : i \in I} = Of(c) OBVIOUS
  <2>3. DOMAIN g = I OBVIOUS
  <2> HIDE DEF g, I
  <2>4. IsFiniteSet({g[i] : i \in I}) BY <2>1, <2>3, ImageFinite
  <2> QED BY <2>2, <2>4
<1>4. Sessions = UNION {f[c] : c \in candidates} BY DEF Sessions
<1>5. DOMAIN f = candidates OBVIOUS
<1> HIDE DEF f
<1>6. IsFiniteSet({f[c] : c \in candidates}) BY <1>1, <1>5, ImageFinite
<1>7. IsFiniteSet(UNION {f[c] : c \in candidates}) BY <1>3, <1>6, FS_UNION
<1> QED BY <1>4, <1>7

LEMMA MatchableIs == Matchable(Starts, Sessions) <=> Assignable
BY DEF Matchable, Assigns, Assignable

VerdictIsRight == (phase = "FEASIBLE" => Assignable) /\ (Infeasible => ~Assignable)
LEMMA CampusIs == CampusIsOneRoom <=> VerdictIsRight
BY MatchableIs DEF CampusIsOneRoom, Starts, VerdictIsRight
LEMMA CampusNext == CampusIsOneRoom' <=> VerdictIsRight'
BY CampusIs, PTL

\* The block starts of a candidate are slots.
LEMMA StartsFinite == PreGAInv => \A m \in Sessions : IsFiniteSet(BlockStarts(m.of))
<1> SUFFICES ASSUME PreGAInv, NEW m \in Sessions PROVE IsFiniteSet(BlockStarts(m.of))
  OBVIOUS
<1>1. PICK x \in candidates : m.of = x BY DEF Sessions
<1>2. phase # "input" BY <1>1 DEF PreGAInv
<1>3. PICK c \in Courses : x = Tagged(Candidate(Accepted, c)) BY <1>1, <1>2 DEF PreGAInv
<1> DEFINE o == offering[Speaker(c)]
           P == Pruned(x)
<1>4. x.slots = (IF o.isFixed THEN o.fixedSlots ELSE Slots) /\ x.duration = Sks[c] BY <1>3, CandidateIs
<1>5. o \in Shapes /\ o.course = c BY CohortIs DEF PreGAInv
<1>6. x.slots \subseteq Slots /\ x.duration \in Nat \ {0}
  BY <1>4, <1>5, ShapesAssumption
<1>7. P \subseteq Slots BY <1>6 DEF Pruned
<1>8. \A b \in Blocks(P, x.duration) : b[1] \in P
  <2> SUFFICES ASSUME NEW b \in Blocks(P, x.duration) PROVE b[1] \in P
    OBVIOUS
  <2> HIDE DEF P
  <2>1. b \in [1..x.duration -> P] BY DEF Blocks
  <2>2. 1 \in 1..x.duration BY <1>6
  <2> QED BY <2>1, <2>2
<1>9. BlockStarts(x) \subseteq P BY <1>8 DEF BlockStarts
<1> QED BY <1>1, <1>7, <1>9, SlotsAssumption, FS_Subset

LEMMA SameGraph ==
  ASSUME UNCHANGED candidates
  PROVE  /\ Sessions' = Sessions /\ Starts' = Starts
         /\ \A m \in Sessions : BlockStarts(m.of)' = BlockStarts(m.of)
         /\ (\A f : Assigns(f)' <=> Assigns(f)) /\ (Assignable' <=> Assignable)
<1>1. Sessions' = Sessions BY DEF Sessions
<1>2. \A m \in Sessions : BlockStarts(m.of)' = BlockStarts(m.of) BY DEF BlockStarts, Pruned
<1>3. Starts' = Starts BY <1>1, <1>2 DEF Starts
<1>4. \A f : Assigns(f)' <=> Assigns(f) BY <1>1, <1>3 DEF Assigns
<1> QED BY <1>1, <1>2, <1>3, <1>4 DEF Assignable

LEMMA GraphInitially == Init => GraphInv
BY DEF Init, GraphInv, CampusIsOneRoom, Infeasible

LEMMA BuildKeeps ==
  ASSUME BuildGraph
  PROVE  GraphInv'
<1>1. /\ UNCHANGED candidates /\ phase' = "propagating"
      /\ domain' = Starts
      /\ arcs' = {a \in Sessions \X Sessions : Rivals(a[1], a[2])}
  BY DEF BuildGraph, Starts
<1>2. /\ Sessions' = Sessions /\ \A m \in Sessions : BlockStarts(m.of)' = BlockStarts(m.of)
      /\ (\A f : Assigns(f)' <=> Assigns(f)) /\ (Assignable' <=> Assignable)
  BY <1>1, SameGraph
<1>3. DOMAIN Starts = Sessions /\ \A m \in Sessions : Starts[m] = BlockStarts(m.of) BY DEF Starts
<1>4. \A f : Assigns(f) => \A m \in Sessions : f[m] \in Starts[m] BY DEF Assigns
<1>5. arcs' \subseteq {a \in Sessions \X Sessions : a[1] # a[2]} BY <1>1 DEF Rivals
<1>6. CampusIsOneRoom' BY <1>1 DEF CampusIsOneRoom, Infeasible
<1> QED BY <1>1, <1>2, <1>3, <1>4, <1>5, <1>6 DEF GraphInv

\* A rival that is down to one start keeps it in every assignment.
LEMMA ReviseKeeps ==
  ASSUME PreGAInv, GraphInv, Revise
  PROVE  GraphInv'
<1>1. PICK a \in Productive :
        LET m == a[1]
            rest == domain[m] \ Inconsistent(m, a[2])
        IN /\ domain' = [domain EXCEPT ![m] = rest]
           /\ arcs' = (arcs \ {a}) \cup {b \in Sessions \X {m} : Rivals(b[1], m)}
           /\ phase' = IF rest = {} THEN "AC3_DOMAIN_EMPTY" ELSE phase
  BY DEF Revise
<1> DEFINE m == a[1]
           n == a[2]
           rest == domain[m] \ Inconsistent(m, n)
<1>2. phase = "propagating" /\ UNCHANGED candidates BY DEF Revise
<1>3. /\ DOMAIN domain = Sessions
      /\ \A x \in Sessions : domain[x] \subseteq BlockStarts(x.of)
      /\ \A f : Assigns(f) => \A x \in Sessions : f[x] \in domain[x]
      /\ arcs \subseteq {b \in Sessions \X Sessions : b[1] # b[2]}
  BY <1>2 DEF GraphInv
<1>4. m \in Sessions /\ n \in Sessions /\ m # n BY <1>3 DEF Productive
<1>5. /\ domain' = [domain EXCEPT ![m] = rest]
      /\ arcs' = (arcs \ {a}) \cup {b \in Sessions \X {m} : Rivals(b[1], m)}
      /\ phase' = IF rest = {} THEN "AC3_DOMAIN_EMPTY" ELSE phase
  BY <1>1
<1>6. \A f : Assigns(f) => f[m] \in rest
  <2> SUFFICES ASSUME NEW f, Assigns(f) PROVE f[m] \in rest
    OBVIOUS
  <2>1. f[m] \in domain[m] /\ f[n] \in domain[n] /\ f[m] # f[n]
    BY <1>3, <1>4 DEF Assigns
  <2>2. CASE Cardinality(domain[n]) = 1
    <3>1. IsFiniteSet(domain[n]) BY <1>3, <1>4, StartsFinite, FS_Subset
    <3>2. PICK v : domain[n] = {v} BY <3>1, <2>2, FS_Singleton
    <3> QED BY <3>2, <2>1, <2>2 DEF Inconsistent
  <2>3. CASE Cardinality(domain[n]) # 1 BY <2>1, <2>3 DEF Inconsistent
  <2> QED BY <2>2, <2>3
<1>7. rest \subseteq domain[m] OBVIOUS
<1> HIDE DEF m, n, rest
<1>8. /\ Sessions' = Sessions /\ \A x \in Sessions : BlockStarts(x.of)' = BlockStarts(x.of)
      /\ (\A f : Assigns(f)' <=> Assigns(f)) /\ (Assignable' <=> Assignable)
  BY <1>2, SameGraph
<1>9. DOMAIN domain' = Sessions /\ domain'[m] = rest /\ \A x \in Sessions : x # m => domain'[x] = domain[x]
  BY <1>3, <1>4, <1>5
<1>10. \A x \in Sessions : domain'[x] \subseteq BlockStarts(x.of) BY <1>3, <1>4, <1>7, <1>9
<1>11. \A f : Assigns(f) => \A x \in Sessions : f[x] \in domain'[x] BY <1>3, <1>6, <1>9
<1>12. arcs' \subseteq {b \in Sessions \X Sessions : b[1] # b[2]}
  <2>1. \A b \in Sessions \X {m} : Rivals(b[1], m) => b[1] # b[2] BY DEF Rivals
  <2> QED BY <2>1, <1>3, <1>4, <1>5
<1>13. CampusIsOneRoom'
  <2>1. phase' # "FEASIBLE" BY <1>2, <1>5
  <2>2. ASSUME Infeasible' PROVE ~Assignable
    <3>1. rest = {} BY <2>2, <1>2, <1>5 DEF Infeasible
    <3> QED BY <3>1, <1>6 DEF Assignable
  <2> QED BY <2>1, <2>2, <1>8, CampusNext DEF VerdictIsRight
<1> QED BY <1>8, <1>9, <1>10, <1>11, <1>12, <1>13 DEF GraphInv

LEMMA MatchSessionsKeeps ==
  ASSUME PreGAInv, GraphInv, MatchSessions
  PROVE  GraphInv'
<1>1. PICK T \in SUBSET DOMAIN domain :
        /\ Matchable(domain, T) /\ AtMost(domain, Cardinality(T))
        /\ phase' = IF T = DOMAIN domain THEN "FEASIBLE" ELSE "BIPARTITE_MATCHING_INSUFFICIENT"
  BY DEF MatchSessions
<1>2. phase = "propagating" /\ UNCHANGED candidates BY DEF MatchSessions
<1>3. /\ DOMAIN domain = Sessions
      /\ \A x \in Sessions : domain[x] \subseteq BlockStarts(x.of)
      /\ \A f : Assigns(f) => \A x \in Sessions : f[x] \in domain[x]
  BY <1>2 DEF GraphInv
<1>4. \A x \in Sessions : Starts[x] = BlockStarts(x.of) BY DEF Starts
<1>5. ASSUME T = Sessions PROVE Assignable
  <2>1. PICK f \in [Sessions -> UNION {domain[x] : x \in Sessions}] :
          (\A x \in Sessions : f[x] \in domain[x]) /\ \A x, y \in Sessions : f[x] = f[y] => x = y
    BY <1>1, <1>5 DEF Matchable
  <2>2. \A x \in Sessions : f[x] \in Starts[x] BY <2>1, <1>3, <1>4
  <2>3. f \in [Sessions -> UNION {Starts[x] : x \in Sessions}] BY <2>1, <2>2
  <2>4. Assigns(f) BY <2>1, <2>2, <2>3 DEF Assigns
  <2> QED BY <2>4 DEF Assignable
<1>6. ASSUME T # Sessions, NEW f, Assigns(f) PROVE FALSE
  <2>1. IsFiniteSet(Sessions) BY SessionsFinite
  <2>2. Cardinality(T) < Cardinality(Sessions) /\ Cardinality(T) \in Nat /\ Cardinality(Sessions) \in Nat
    <3>1. IsFiniteSet(T) /\ Cardinality(T) <= Cardinality(Sessions) /\ (Cardinality(T) = Cardinality(Sessions) => T = Sessions)
      BY <2>1, <1>1, <1>3, FS_Subset
    <3>2. Cardinality(T) \in Nat /\ Cardinality(Sessions) \in Nat BY <2>1, <3>1, FS_CardinalityType
    <3> QED BY <3>1, <3>2, <1>6
  <2>3. ~Matchable(domain, Sessions) BY <2>2, <1>1, <1>3 DEF AtMost
  <2>4. (\A x \in Sessions : f[x] \in domain[x]) /\ (\A x, y \in Sessions : f[x] = f[y] => x = y)
        /\ f \in [Sessions -> UNION {domain[x] : x \in Sessions}]
    BY <1>3, <1>6 DEF Assigns
  <2>5. Matchable(domain, Sessions) BY <2>4 DEF Matchable
  <2> QED BY <2>3, <2>5
<1>7. Assignable' <=> Assignable BY <1>2, SameGraph
<1>8. CASE T = Sessions
  <2>1. phase' = "FEASIBLE" BY <1>1, <1>3, <1>8
  <2>2. ~Infeasible' BY <2>1 DEF Infeasible
  <2> QED BY <2>1, <2>2, <1>5, <1>7, <1>8, CampusNext DEF GraphInv, VerdictIsRight
<1>9. CASE T # Sessions
  <2>1. phase' = "BIPARTITE_MATCHING_INSUFFICIENT" BY <1>1, <1>3, <1>9
  <2>2. ~Assignable BY <1>6, <1>9 DEF Assignable
  <2> QED BY <2>1, <2>2, <1>7, CampusNext DEF GraphInv, VerdictIsRight
<1> QED BY <1>8, <1>9

LEMMA GraphStutter ==
  ASSUME GraphInv, UNCHANGED vars
  PROVE  GraphInv'
<1>1. UNCHANGED <<candidates, phase, domain, arcs>> BY DEF vars
<1>2. /\ Sessions' = Sessions /\ \A m \in Sessions : BlockStarts(m.of)' = BlockStarts(m.of)
      /\ (\A f : Assigns(f)' <=> Assigns(f)) /\ (Assignable' <=> Assignable)
  BY <1>1, SameGraph
<1>3. CampusIsOneRoom' BY <1>1, <1>2, CampusIs, CampusNext DEF GraphInv, Infeasible, VerdictIsRight
<1> QED BY <1>1, <1>2, <1>3 DEF GraphInv

LEMMA GraphAlways == Spec => []GraphInv
<1>1. PreGAInv /\ GraphInv /\ [Next]_vars => GraphInv'
  <2> SUFFICES ASSUME PreGAInv, GraphInv, [Next]_vars PROVE GraphInv'
    OBVIOUS
  <2>1. CASE RunPreGA
    <3>1. phase' \in {"NO_FEASIBLE_CANDIDATES", "validated"} BY <2>1 DEF RunPreGA
    <3> QED BY <3>1 DEF GraphInv, CampusIsOneRoom, Infeasible
  <2>2. CASE BuildGraph BY <2>2, BuildKeeps
  <2>3. CASE Revise BY <2>3, ReviseKeeps
  <2>4. CASE MatchSessions BY <2>4, MatchSessionsKeeps
  <2>5. CASE UNCHANGED vars BY <2>5, GraphStutter
  <2> QED BY <2>1, <2>2, <2>3, <2>4, <2>5 DEF Next, Done
<1> QED BY PreGAAlways, GraphInitially, <1>1, PTL DEF Spec

\* Propagation decides nothing: whatever it removes or concludes, the verdict
\* is whether all sessions fit in distinct starts, as if in a single room.
THEOREM CampusIsOneRoomCorrect == Spec => []CampusIsOneRoom
<1>1. GraphInv => CampusIsOneRoom BY DEF GraphInv
<1> QED BY GraphAlways, <1>1, PTL
=============================================================================
