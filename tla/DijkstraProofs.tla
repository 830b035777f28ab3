-------------------------- MODULE DijkstraProofs --------------------------
(***************************************************************************)
(* Proofs about Dijkstra, for any number of nodes, any INF and any matrix  *)
(* of costs from 0 to INF.                                                 *)
(*                                                                         *)
(* The argument is the classic one: no node outside n is nearer than one   *)
(* in n (Nearer), so a round through the nearest of the others cannot      *)
(* better a node in n (NoGain), and all links out of n are accounted for   *)
(* (Relaxed).  After NNODE - 1 rounds n is all nodes.                      *)
(*                                                                         *)
(* That dist is then the cost of the cheapest way takes two more           *)
(* invariants: dist[j] is the cost of some way of at most node + 1 links,  *)
(* so the cheapest one cannot cost more (Short), and prev leads from each  *)
(* finished node to the root in at most node steps (Chained).  No way is   *)
(* cheaper, by induction over its length (NoneCheaper).                    *)
(***************************************************************************)
EXTENDS Dijkstra, SeqLemmas, FiniteSetTheorems

Counted == IsFiniteSet(n) /\ Cardinality(n) = node + 1
Rooted == root \in n /\ dist[root] = 0
Relaxed == \A i \in n, j \in Nodes : dist[j] <= dist[i] + linkcost[i][j]
Nearer == \A i \in n, j \in Nodes \ n : dist[i] <= dist[j]
Reached == \A j \in Nodes : prev[j] \in n /\ dist[j] = dist[prev[j]] + linkcost[prev[j]][j]
Diagonal == \A i \in Nodes : linkcost[i][i] = 0

Inv == TypeOK /\ Counted /\ Rooted /\ Relaxed /\ Nearer /\ Reached /\ Diagonal

\* What a call of djikstra() starts with.
Fresh ==
  /\ linkcost \in Matrices /\ Diagonal
  /\ root \in Nodes
  /\ n = {root}
  /\ node = 0
  /\ dist = linkcost[root]
  /\ prev = [i \in Nodes |-> root]

LEMMA FreshInv == Fresh => Inv
<1>. SUFFICES ASSUME Fresh PROVE Inv
  OBVIOUS
<1>1. NNODE \in Nat \ {0}
  BY DijkstraAssumption
<1>2. /\ linkcost[root] \in [Nodes -> 0 .. INF]
      /\ \A i, j \in Nodes : linkcost[i][j] \in 0 .. INF
  BY DEF Fresh, Matrices
<1>3. TypeOK
  BY <1>1, <1>2 DEF Fresh, TypeOK, Nodes
<1>4. Counted
  <2>1. IsFiniteSet({root}) /\ Cardinality({root}) = 1
    BY FS_Singleton
  <2>. QED
    BY <2>1 DEF Fresh, Counted
<1>5. Rooted /\ Relaxed /\ Nearer /\ Reached /\ Diagonal
  BY <1>1, <1>2, DijkstraAssumption DEF Fresh, Rooted, Relaxed, Nearer, Reached, Diagonal
<1>. QED
  BY <1>3, <1>4, <1>5 DEF Inv

\* A round through the nearest of the other nodes leaves those in n as they
\* are.
LEMMA NoGain ==
  ASSUME Inv, NEW m \in Rest, IsMin(m)
  PROVE  /\ \A i \in n \cup {m} : ~Better(m, i)
         /\ \A j \in Nodes : Through(m, j) \in Nat /\ dist[j] \in Nat /\ dist[m] \in Nat
<1>1. /\ m \in Nodes /\ n \subseteq Nodes
      /\ \A j \in Nodes : linkcost[m][j] \in 0 .. INF /\ dist[j] \in 0 .. INF
      /\ INF \in Nat
  BY DijkstraAssumption DEF Inv, TypeOK, Matrices, Rest
<1>2. ASSUME NEW i \in n PROVE ~Better(m, i)
  <2>1. dist[i] <= dist[m]
    BY DEF Inv, Nearer, Rest
  <2>. QED
    BY <2>1, <1>1 DEF Better, Through
<1>3. ~Better(m, m)
  BY <1>1 DEF Inv, Diagonal, Better, Through
<1>. QED
  BY <1>1, <1>2, <1>3 DEF Through

\* One round preserves the invariant and keeps the nodes in n.
LEMMA RoundInv ==
  ASSUME Inv, Round
  PROVE  Inv' /\ \A i \in n : dist'[i] = dist[i] /\ prev'[i] = prev[i]
<1>1. PICK m \in Rest :
        /\ IsMin(m)
        /\ dist' = [i \in Nodes |-> IF Better(m, i) THEN Through(m, i) ELSE dist[i]]
        /\ prev' = [i \in Nodes |-> Prev(m, i)]
        /\ n' = n \cup {m}
  BY DEF Round
<1>2. node < NNODE - 1 /\ node' = node + 1 /\ linkcost' = linkcost /\ root' = root
  BY DEF Round
<1>3. /\ \A i \in n \cup {m} : ~Better(m, i)
      /\ \A j \in Nodes : Through(m, j) \in Nat /\ dist[j] \in Nat /\ dist[m] \in Nat
  BY <1>1, NoGain
<1>4. /\ NNODE \in Nat /\ INF \in Nat
      /\ m \in Nodes \ n /\ n \subseteq Nodes /\ node \in Nodes
      /\ \A i, j \in Nodes : linkcost[i][j] \in 0 .. INF
      /\ \A j \in Nodes : dist[j] \in 0 .. INF /\ prev[j] \in Nodes
  BY DijkstraAssumption DEF Inv, TypeOK, Matrices, Rest
<1>5. \A i \in n \cup {m} : dist'[i] = dist[i] /\ prev'[i] = prev[i]
  BY <1>1, <1>3, <1>4 DEF Prev
<1>6. \A j \in Nodes : dist'[j] <= dist[j] /\ dist'[j] <= Through(m, j)
  BY <1>1, <1>3, <1>4 DEF Better
<1>7. TypeOK'
  <2>1. dist' \in [Nodes -> 0 .. INF]
    BY <1>1, <1>3, <1>4 DEF Better
  <2>2. prev' \in [Nodes -> Nodes] /\ n' \subseteq Nodes
    BY <1>1, <1>4 DEF Prev
  <2>3. node' \in Nodes
    BY <1>2, <1>4 DEF Nodes
  <2>. QED
    BY <1>2, <2>1, <2>2, <2>3 DEF Inv, TypeOK
<1>8. Counted'
  BY <1>1, <1>2, <1>4, FS_AddElement DEF Inv, Counted, Nodes
<1>9. Rooted' /\ Diagonal'
  BY <1>1, <1>2, <1>5 DEF Inv, Rooted, Diagonal
<1>10. Relaxed'
  <2>. SUFFICES ASSUME NEW i \in n \cup {m}, NEW j \in Nodes
                PROVE  dist'[j] <= dist'[i] + linkcost[i][j]
    BY <1>1, <1>2 DEF Relaxed
  <2>0. dist'[j] \in Int
    BY <1>1, <1>3
  <2>1. CASE i = m
    BY <2>0, <2>1, <1>3, <1>4, <1>5, <1>6 DEF Through
  <2>2. CASE i \in n
    <3>1. dist[j] <= dist[i] + linkcost[i][j]
      BY <2>2 DEF Inv, Relaxed
    <3>. QED
      BY <3>1, <2>0, <2>2, <1>4, <1>5, <1>6
  <2>. QED
    BY <2>1, <2>2
<1>11. Nearer'
  <2>. SUFFICES ASSUME NEW i \in n \cup {m}, NEW j \in Nodes \ (n \cup {m})
                PROVE  dist'[i] <= dist'[j]
    BY <1>1 DEF Nearer
  <2>1. dist[i] <= dist[m]
    BY <1>4 DEF Inv, Nearer
  <2>2. dist[m] <= dist[j]
    BY <1>1, <1>4 DEF IsMin, Rest
  <2>3. dist'[j] = dist[j] \/ dist'[j] = Through(m, j)
    BY <1>1
  <2>. QED
    BY <2>1, <2>2, <2>3, <1>4, <1>5 DEF Through
<1>12. Reached'
  <2>. SUFFICES ASSUME NEW j \in Nodes
                PROVE  /\ prev'[j] \in n \cup {m}
                       /\ dist'[j] = dist'[prev'[j]] + linkcost[prev'[j]][j]
    BY <1>1, <1>2 DEF Reached
  <2>1. CASE Better(m, j)
    <3>1. prev'[j] = m /\ dist'[j] = Through(m, j) /\ dist'[m] = dist[m]
      BY <2>1, <1>1, <1>5 DEF Prev
    <3>. QED
      BY <3>1, <1>4 DEF Through
  <2>2. CASE ~Better(m, j)
    <3>1. prev'[j] = prev[j] /\ dist'[j] = dist[j]
      BY <2>2, <1>1 DEF Prev
    <3>2. prev[j] \in n /\ dist[j] = dist[prev[j]] + linkcost[prev[j]][j]
      BY DEF Inv, Reached
    <3>. QED
      BY <3>1, <3>2, <1>5
  <2>. QED
    BY <2>1, <2>2
<1>. QED
  BY <1>5, <1>7, <1>8, <1>9, <1>10, <1>11, <1>12 DEF Inv

\* The first call of djikstra() starts where each call does.
THEOREM InitInv == Init => Inv
<1>. SUFFICES ASSUME Init PROVE Inv
  OBVIOUS
<1>1. 0 \in Nodes
  BY DijkstraAssumption DEF Nodes
<1>2. linkcost \in Matrices /\ \A i \in Nodes : linkcost[i][i] = 0
  BY DijkstraAssumption DEF Init
<1>. QED
  BY <1>1, <1>2, FreshInv DEF Init, Fresh, Diagonal

\* A round, or the return and the call for the next root, keeps the invariant.
THEOREM NextInv == Inv /\ [Next]_vars => Inv'
<1>. SUFFICES ASSUME Inv, [Next]_vars PROVE Inv'
  OBVIOUS
<1>1. CASE Round
  BY <1>1, RoundInv
<1>2. CASE NextRoot
  <2>1. Fresh'
    BY <1>2 DEF NextRoot, Inv, TypeOK, Diagonal, Fresh
  <2>. QED
    BY <2>1, FreshInv, PTL
<1>3. CASE UNCHANGED vars
  BY <1>3 DEF vars, Inv, TypeOK, Counted, Rooted, Relaxed, Nearer, Reached, Diagonal
<1>. QED
  BY <1>1, <1>2, <1>3 DEF Next

\* In every round finished nodes are not further away than the others, no link
\* from them leads to a shorter path, and dist is made of prev.
THEOREM Invariance == Spec => []Inv
  BY InitInv, NextInv, PTL DEF Spec

\* Every variable of dijkstra.c keeps its type: dist never exceeds INF, and
\* the rounds never go beyond the nodes.
THEOREM DijkstraTypeCorrect == Spec => []TypeOK
<1>1. Inv => TypeOK
  BY DEF Inv
<1>. QED
  BY <1>1, Invariance, PTL

LEMMA AllFinished == Inv /\ Done => n = Nodes
<1>. SUFFICES ASSUME Inv, Done PROVE n = Nodes
  OBVIOUS
<1>1. NNODE \in Nat \ {0}
  BY DijkstraAssumption
<1>2. IsFiniteSet(Nodes) /\ Cardinality(Nodes) = NNODE
  BY <1>1, FS_Interval DEF Nodes
<1>3. n \subseteq Nodes /\ Cardinality(n) = NNODE
  BY <1>1 DEF Inv, TypeOK, Counted, Done
<1>. QED
  BY <1>2, <1>3, FS_Subset

\* When djikstra() returns, dist satisfies the equations of shortest paths:
\* no link improves it, and each entry is the cost of a link from prev.
THEOREM Certified == Spec => []Certificate
<1>1. Inv => Certificate
  BY AllFinished DEF Inv, Certificate, Rooted, Relaxed, Reached
<1>. QED
  BY <1>1, Invariance, PTL

\* A node that is finished keeps its distance and the node before it, though
\* every later round looks at it again.
THEOREM FinishedStay == Spec => FinishedKeep
<1>1. Inv /\ [Next]_vars =>
        [root' = root => \A i \in n : dist'[i] = dist[i] /\ prev'[i] = prev[i]]_vars
  <2>. SUFFICES ASSUME Inv, Next, root' = root
                PROVE  \A i \in n : dist'[i] = dist[i] /\ prev'[i] = prev[i]
    OBVIOUS
  <2>1. CASE Round
    BY <2>1, RoundInv
  <2>2. CASE NextRoot
    BY <2>2 DEF NextRoot, Inv, TypeOK, Nodes
  <2>. QED
    BY <2>1, <2>2 DEF Next
<1>. QED
  BY <1>1, Invariance, PTL DEF Spec, FinishedKeep

-----------------------------------------------------------------------------
(***************************************************************************)
(* The costs that Cheapest is the last of.                                 *)
(***************************************************************************)
CostsOfNodes == [Nodes -> 0 .. INF]
Ways(c, j) == {c[j]} \cup {c[i] + linkcost[i][j] : i \in Linked(j)}
Longer == [c \in CostsOfNodes |-> [j \in Nodes |-> Min(Ways(c, j))]]

LEMMA WaysLeast ==
  ASSUME TypeOK, NEW c \in CostsOfNodes, NEW j \in Nodes
  PROVE  /\ Min(Ways(c, j)) \in 0 .. INF
         /\ Min(Ways(c, j)) <= c[j]
         /\ \A i \in Linked(j) : Min(Ways(c, j)) <= c[i] + linkcost[i][j]
         /\ Min(Ways(c, j)) \in Ways(c, j)
<1>1. /\ INF \in Nat
      /\ \A i \in Nodes : c[i] \in 0 .. INF /\ linkcost[i][j] \in 0 .. INF
      /\ Linked(j) \subseteq Nodes
  BY DijkstraAssumption DEF TypeOK, Matrices, CostsOfNodes, Linked
<1>2. Ways(c, j) \subseteq Nat /\ c[j] \in Ways(c, j)
  BY <1>1 DEF Ways
<1>3. /\ Min(Ways(c, j)) \in Ways(c, j)
      /\ \A w \in Ways(c, j) : Min(Ways(c, j)) <= w
  BY <1>2, MinProperties
<1>4. \A i \in Linked(j) : c[i] + linkcost[i][j] \in Ways(c, j)
  BY DEF Ways
<1>. QED
  BY <1>1, <1>2, <1>3, <1>4

\* Within is defined for every number of links.
LEMMA WithinDefined ==
  ASSUME TypeOK
  PROVE  /\ Within \in [Nat -> CostsOfNodes]
         /\ Within[0] = [j \in Nodes |-> IF j = root THEN 0 ELSE INF]
         /\ \A k \in Nat, j \in Nodes : Within[k + 1][j] = Min(Ways(Within[k], j))
<1>. DEFINE first == [j \in Nodes |-> IF j = root THEN 0 ELSE INF]
<1>1. first \in CostsOfNodes
  BY DijkstraAssumption DEF CostsOfNodes
<1>2. Longer \in [CostsOfNodes -> CostsOfNodes]
  <2>1. ASSUME NEW c \in CostsOfNodes
        PROVE  [j \in Nodes |-> Min(Ways(c, j))] \in CostsOfNodes
    BY WaysLeast DEF CostsOfNodes
  <2>. QED
    BY <2>1 DEF Longer
<1>. HIDE DEF first
<1>3. PICK g \in [Nat -> CostsOfNodes] :
        g = [k \in Nat |-> IF k = 0 THEN first ELSE Longer[g[k - 1]]]
  BY <1>1, <1>2, Iterates
<1>4. ASSUME NEW w, w = [k \in Nat |-> IF k = 0 THEN first
                           ELSE [j \in Nodes |-> Min(Ways(w[k - 1], j))]]
      PROVE  w \in [Nat -> CostsOfNodes]
  <2>. DEFINE I == {k \in Nat : w[k] \in CostsOfNodes}
  <2>1. 0 \in I
    BY <1>1, <1>4
  <2>2. ASSUME NEW k \in I PROVE k + 1 \in I
    <3>1. w[k] \in CostsOfNodes /\ k \in Nat
      OBVIOUS
    <3>2. w[k + 1] = [j \in Nodes |-> Min(Ways(w[k], j))]
      BY <3>1, <1>4
    <3>3. [j \in Nodes |-> Min(Ways(w[k], j))] \in CostsOfNodes
      BY <3>1, WaysLeast DEF CostsOfNodes
    <3>. QED
      BY <3>1, <3>2, <3>3
  <2>3. I = Nat
    <3>. HIDE DEF I
    <3>1. I \subseteq Nat
      BY DEF I
    <3>. QED
      BY <2>1, <2>2, <3>1, InductionOverSet
  <2>4. w = [k \in Nat |-> w[k]]
    BY <1>4
  <2>. QED
    BY <2>3, <2>4
<1>5. g = [k \in Nat |-> IF k = 0 THEN first
                         ELSE [j \in Nodes |-> Min(Ways(g[k - 1], j))]]
  <2>1. ASSUME NEW k \in Nat, k # 0
        PROVE  Longer[g[k - 1]] = [j \in Nodes |-> Min(Ways(g[k - 1], j))]
    <3>1. g[k - 1] \in CostsOfNodes
      BY <2>1
    <3>. QED
      BY <3>1 DEF Longer
  <2>. QED
    BY <1>3, <2>1
<1>6. Within = [k \in Nat |-> IF k = 0 THEN first
                              ELSE [j \in Nodes |-> Min(Ways(Within[k - 1], j))]]
  BY <1>5 DEF Within, Ways, first
<1>7. Within \in [Nat -> CostsOfNodes]
  BY <1>4, <1>6
<1>8. Within[0] = first
  BY <1>6
<1>9. ASSUME NEW k \in Nat, NEW j \in Nodes
      PROVE  Within[k + 1][j] = Min(Ways(Within[k], j))
  <2>1. k + 1 \in Nat /\ k + 1 # 0 /\ (k + 1) - 1 = k
    OBVIOUS
  <2>2. Within[k + 1] = [i \in Nodes |-> Min(Ways(Within[k], i))]
    BY <1>6, <2>1
  <2>. QED
    BY <2>2
<1>. QED
  BY <1>7, <1>8, <1>9 DEF first

LEMMA WithinLeast ==
  ASSUME TypeOK, NEW k \in Nat, NEW j \in Nodes
  PROVE  /\ Within[k][j] \in 0 .. INF
         /\ Within[k + 1][j] \in 0 .. INF
         /\ Within[k + 1][j] <= Within[k][j]
         /\ \A i \in Linked(j) : Within[k + 1][j] <= Within[k][i] + linkcost[i][j]
         /\ \/ Within[k + 1][j] = Within[k][j]
            \/ \E i \in Linked(j) : Within[k + 1][j] = Within[k][i] + linkcost[i][j]
<1>1. Within[k] \in CostsOfNodes /\ Within[k + 1][j] = Min(Ways(Within[k], j))
  BY WithinDefined
<1>2. Min(Ways(Within[k], j)) \in Ways(Within[k], j)
  BY <1>1, WaysLeast
<1>. QED
  BY <1>1, <1>2, WaysLeast DEF Ways, CostsOfNodes

-----------------------------------------------------------------------------
(***************************************************************************)
(* After k rounds the paths to the nodes in n have at most k links, those  *)
(* that dist knows at most one more.                                       *)
(***************************************************************************)
Short ==
  /\ \A j \in n : Within[node][j] <= dist[j]
  /\ \A j \in Nodes : Within[node + 1][j] <= dist[j]

LEMMA FreshShort == Fresh => Short
<1>. SUFFICES ASSUME Fresh PROVE Short
  OBVIOUS
<1>1. TypeOK /\ Rooted
  BY FreshInv DEF Inv
<1>2. /\ n = {root} /\ node = 0 /\ dist = linkcost[root] /\ root \in Nodes
      /\ INF \in Nat
      /\ \A j \in Nodes : linkcost[root][j] \in 0 .. INF
  BY DijkstraAssumption DEF Fresh, Matrices
<1>3. \A j \in Nodes : Within[0][j] = IF j = root THEN 0 ELSE INF
  BY <1>1, WithinDefined
<1>4. ASSUME NEW j \in Nodes PROVE Within[1][j] <= dist[j]
  <2>1. /\ Within[0 + 1][j] <= Within[0][j]
        /\ \A i \in Linked(j) : Within[0 + 1][j] <= Within[0][i] + linkcost[i][j]
        /\ Within[0][j] \in 0 .. INF /\ Within[0 + 1][j] \in 0 .. INF
    BY <1>1, WithinLeast
  <2>2. CASE linkcost[root][j] = INF
    BY <2>1, <2>2, <1>2
  <2>3. CASE linkcost[root][j] # INF
    <3>1. root \in Linked(j)
      BY <2>3, <1>2 DEF Linked
    <3>2. Within[0 + 1][j] <= Within[0][root] + linkcost[root][j]
      BY <2>1, <3>1
    <3>. QED
      BY <3>2, <1>2, <1>3
  <2>. QED
    BY <2>2, <2>3
<1>5. Within[0][root] <= dist[root]
  BY <1>1, <1>2, <1>3 DEF Rooted
<1>. QED
  BY <1>2, <1>4, <1>5 DEF Short

LEMMA RoundShort == ASSUME Inv, Short, Round PROVE Short'
<1>1. PICK m \in Rest :
        /\ IsMin(m)
        /\ dist' = [i \in Nodes |-> IF Better(m, i) THEN Through(m, i) ELSE dist[i]]
        /\ n' = n \cup {m}
  BY DEF Round
<1>2. node < NNODE - 1 /\ node' = node + 1 /\ linkcost' = linkcost /\ root' = root
  BY DEF Round
<1>3. Within' = Within
  BY <1>2 DEF Within, Linked
<1>4. /\ \A i \in n \cup {m} : ~Better(m, i)
      /\ \A j \in Nodes : Through(m, j) \in Nat /\ dist[j] \in Nat /\ dist[m] \in Nat
  BY <1>1, NoGain
<1>5. /\ m \in Nodes /\ n \subseteq Nodes /\ node \in Nat /\ INF \in Nat
      /\ \A i, j \in Nodes : linkcost[i][j] \in 0 .. INF
      /\ \A j \in Nodes : dist[j] \in 0 .. INF
      /\ TypeOK
  <2>1. node \in Nat
    BY DijkstraAssumption DEF Inv, TypeOK, Nodes
  <2>. QED
    BY <2>1, <1>1, DijkstraAssumption DEF Inv, TypeOK, Matrices, Rest
<1>6. ASSUME NEW j \in n \cup {m} PROVE Within[node + 1][j] <= dist'[j]
  BY <1>1, <1>4, <1>5 DEF Short
<1>7. ASSUME NEW j \in Nodes PROVE Within[(node + 1) + 1][j] <= dist'[j]
  <2>1. /\ Within[(node + 1) + 1][j] <= Within[node + 1][j]
        /\ \A i \in Linked(j) : Within[(node + 1) + 1][j] <= Within[node + 1][i] + linkcost[i][j]
        /\ Within[(node + 1) + 1][j] \in Nat /\ Within[node + 1][j] \in Nat
    <3>1. node + 1 \in Nat
      BY <1>5
    <3>. QED
      BY <1>5, <3>1, WithinLeast
  <2>2. Within[node + 1][j] <= dist[j] /\ Within[node + 1][m] <= dist[m]
    BY <1>5 DEF Short
  <2>3. CASE ~Better(m, j)
    BY <2>1, <2>2, <2>3, <1>1, <1>5
  <2>4. CASE Better(m, j)
    <3>1. dist'[j] = linkcost[m][j] + dist[m] /\ linkcost[m][j] # INF
      BY <2>4, <1>1, <1>5 DEF Better, Through
    <3>2. m \in Linked(j)
      BY <3>1, <1>5 DEF Linked
    <3>3. Within[(node + 1) + 1][j] <= Within[node + 1][m] + linkcost[m][j]
      BY <2>1, <3>2
    <3>4. Within[node + 1][m] \in Nat
      BY <1>5, WithinLeast
    <3>. QED
      BY <2>1, <2>2, <3>1, <3>3, <3>4, <1>5
  <2>. QED
    BY <2>3, <2>4
<1>. QED
  BY <1>1, <1>2, <1>3, <1>6, <1>7 DEF Short

\* dist is never less than the cost of the cheapest way that has no more links
\* than the rounds allow.
THEOREM ShortInvariance == Spec => []Short
<1>1. Init => Short
  <2>. SUFFICES ASSUME Init PROVE Short
    OBVIOUS
  <2>1. 0 \in Nodes /\ linkcost \in Matrices /\ \A i \in Nodes : linkcost[i][i] = 0
    BY DijkstraAssumption DEF Nodes, Init
  <2>. QED
    BY <2>1, FreshShort DEF Init, Fresh, Diagonal
<1>2. Inv /\ Short /\ [Next]_vars => Short'
  <2>. SUFFICES ASSUME Inv, Short, [Next]_vars PROVE Short'
    OBVIOUS
  <2>1. CASE Round
    BY <2>1, RoundShort
  <2>2. CASE NextRoot
    <3>1. Fresh'
      BY <2>2 DEF NextRoot, Inv, TypeOK, Diagonal, Fresh
    <3>. QED
      BY <3>1, FreshShort, PTL
  <2>3. CASE UNCHANGED vars
    <3>1. /\ linkcost' = linkcost /\ root' = root /\ n' = n
          /\ node' = node /\ dist' = dist
      BY <2>3 DEF vars
    <3>2. Within' = Within
      BY <3>1 DEF Within, Linked
    <3>. QED
      BY <3>1, <3>2 DEF Short
  <2>. QED
    BY <2>1, <2>2, <2>3 DEF Next
<1>. QED
  BY <1>1, <1>2, Invariance, PTL DEF Spec

\* No number of links makes a path cheaper than dist, once all nodes are
\* finished.
LEMMA NoneCheaper ==
  ASSUME TypeOK, Certificate, Done, NEW k \in Nat
  PROVE  \A j \in Nodes : dist[j] <= Within[k][j]
<1>. DEFINE I == {i \in Nat : \A j \in Nodes : dist[j] <= Within[i][j]}
<1>1. /\ dist[root] = 0 /\ INF \in Nat
      /\ \A i, j \in Nodes : dist[j] <= dist[i] + linkcost[i][j]
      /\ \A j \in Nodes : dist[j] \in 0 .. INF
      /\ \A i, j \in Nodes : linkcost[i][j] \in 0 .. INF
  BY DijkstraAssumption DEF Certificate, TypeOK, Matrices
<1>2. 0 \in I
  BY <1>1, WithinDefined
<1>3. ASSUME NEW i \in I PROVE i + 1 \in I
  <2>1. i \in Nat /\ \A j \in Nodes : dist[j] <= Within[i][j]
    OBVIOUS
  <2>2. ASSUME NEW j \in Nodes PROVE dist[j] <= Within[i + 1][j]
    <3>1. \/ Within[i + 1][j] = Within[i][j]
          \/ \E h \in Linked(j) : Within[i + 1][j] = Within[i][h] + linkcost[h][j]
      BY <2>1, WithinLeast
    <3>2. CASE Within[i + 1][j] = Within[i][j]
      BY <2>1, <3>2
    <3>3. ASSUME NEW h \in Linked(j), Within[i + 1][j] = Within[i][h] + linkcost[h][j]
          PROVE  dist[j] <= Within[i + 1][j]
      <4>1. h \in Nodes
        BY DEF Linked
      <4>2. Within[i][h] \in Nat
        BY <2>1, <4>1, WithinLeast
      <4>. QED
        BY <1>1, <2>1, <3>3, <4>1, <4>2
    <3>. QED
      BY <3>1, <3>2, <3>3
  <2>. QED
    BY <2>1, <2>2
<1>. HIDE DEF I
<1>4. I = Nat
  <2>1. I \subseteq Nat
    BY DEF I
  <2>. QED
    BY <1>2, <1>3, <2>1, InductionOverSet
<1>. QED
  BY <1>4 DEF I

\* When djikstra() returns, dist is the cost of the cheapest way from the
\* root to each node, over all ways that have at most NNODE - 1 links.
THEOREM PathsAreShortest == Spec => []ShortestPaths
<1>1. Inv /\ Short /\ Certificate => ShortestPaths
  <2>. SUFFICES ASSUME Inv, Short, Certificate, Done PROVE dist = Cheapest
    BY DEF ShortestPaths
  <2>1. n = Nodes
    BY AllFinished
  <2>2. NNODE - 1 \in Nat /\ node = NNODE - 1 /\ TypeOK /\ INF \in Nat
    BY DijkstraAssumption DEF Done, Inv
  <2>3. Cheapest \in CostsOfNodes /\ dist \in CostsOfNodes
    BY <2>2, WithinDefined DEF Cheapest, TypeOK, CostsOfNodes
  <2>4. ASSUME NEW j \in Nodes PROVE dist[j] = Cheapest[j]
    <3>1. Cheapest[j] <= dist[j]
      BY <2>1, <2>2 DEF Short, Cheapest
    <3>2. dist[j] <= Cheapest[j]
      BY <2>2, NoneCheaper DEF Cheapest
    <3>3. Cheapest[j] \in 0 .. INF /\ dist[j] \in 0 .. INF
      BY <2>3 DEF CostsOfNodes
    <3>. QED
      BY <3>1, <3>2, <3>3, <2>2
  <2>. QED
    BY <2>3, <2>4 DEF CostsOfNodes
<1>. QED
  BY <1>1, Invariance, ShortInvariance, Certified, PTL

-----------------------------------------------------------------------------
(***************************************************************************)
(* prev leads from each node in n to the root, over nodes in n.            *)
(***************************************************************************)
LeadsToRoot(j) ==
  \E k \in 0 .. node : \E h \in [0 .. k -> n] :
    h[0] = j /\ h[k] = root /\ \A i \in 1 .. k : h[i] = prev[h[i - 1]]
Chained == \A j \in n : LeadsToRoot(j)

LEMMA FreshChained == Fresh => Chained
<1>. SUFFICES ASSUME Fresh PROVE LeadsToRoot(root)
  BY DEF Fresh, Chained
<1>. DEFINE h == [i \in 0 .. 0 |-> root]
<1>1. /\ h \in [0 .. 0 -> n]
      /\ h[0] = root
      /\ \A i \in 1 .. 0 : h[i] = prev[h[i - 1]]
  BY DEF Fresh
<1>2. 0 \in 0 .. node
  BY DEF Fresh
<1>. QED
  BY <1>1, <1>2 DEF LeadsToRoot

LEMMA RoundChained == ASSUME Inv, Chained, Round PROVE Chained'
<1>1. PICK m \in Rest : n' = n \cup {m} /\ prev' = [i \in Nodes |-> Prev(m, i)] /\ IsMin(m)
  BY DEF Round
<1>2. node' = node + 1 /\ root' = root /\ node \in Nat /\ m \in Nodes /\ n \subseteq Nodes
  BY <1>1, DijkstraAssumption DEF Round, Inv, TypeOK, Nodes, Rest
<1>3. \A i \in n \cup {m} : prev'[i] = prev[i]
  BY <1>1, <1>2, NoGain DEF Prev
<1>4. ASSUME NEW j \in n PROVE LeadsToRoot(j)'
  <2>1. PICK k \in 0 .. node : \E h \in [0 .. k -> n] :
          h[0] = j /\ h[k] = root /\ \A i \in 1 .. k : h[i] = prev[h[i - 1]]
    BY DEF Chained, LeadsToRoot
  <2>2. PICK h \in [0 .. k -> n] :
          h[0] = j /\ h[k] = root /\ \A i \in 1 .. k : h[i] = prev[h[i - 1]]
    BY <2>1
  <2>3. k \in 0 .. node' /\ h \in [0 .. k -> n']
    BY <1>1, <1>2
  <2>4. \A i \in 1 .. k : i - 1 \in 0 .. k /\ h[i - 1] \in n
    BY <1>2
  <2>5. \A i \in 1 .. k : h[i] = prev'[h[i - 1]]
    BY <1>3, <2>2, <2>4
  <2>. QED
    BY <1>2, <2>2, <2>3, <2>5 DEF LeadsToRoot
<1>5. LeadsToRoot(m)'
  <2>1. prev[m] \in n
    BY <1>2 DEF Inv, Reached
  <2>2. PICK k \in 0 .. node : \E h \in [0 .. k -> n] :
          h[0] = prev[m] /\ h[k] = root /\ \A i \in 1 .. k : h[i] = prev[h[i - 1]]
    BY <2>1 DEF Chained, LeadsToRoot
  <2>3. PICK h \in [0 .. k -> n] :
          h[0] = prev[m] /\ h[k] = root /\ \A i \in 1 .. k : h[i] = prev[h[i - 1]]
    BY <2>2
  <2>. DEFINE e == [i \in 0 .. k + 1 |-> IF i = 0 THEN m ELSE h[i - 1]]
  <2>4. k \in Nat /\ k + 1 \in 0 .. node'
    BY <1>2
  <2>5. e \in [0 .. k + 1 -> n']
    <3>. SUFFICES ASSUME NEW i \in 0 .. k + 1, i # 0 PROVE h[i - 1] \in n
      BY <1>1
    <3>1. i - 1 \in 0 .. k
      BY <2>4
    <3>. QED
      BY <3>1
  <2>6. e[0] = m /\ e[k + 1] = root
    <3>1. 0 \in 0 .. k + 1 /\ k + 1 \in 0 .. k + 1 /\ k + 1 # 0 /\ (k + 1) - 1 = k
      BY <2>4
    <3>. QED
      BY <3>1, <2>3
  <2>7. ASSUME NEW i \in 1 .. k + 1 PROVE e[i] = prev'[e[i - 1]]
    <3>1. i \in 0 .. k + 1 /\ i - 1 \in 0 .. k + 1 /\ i - 1 \in 0 .. k /\ i # 0
      BY <2>4
    <3>2. e[i] = h[i - 1]
      BY <3>1
    <3>3. CASE i = 1
      <4>1. e[i - 1] = m /\ e[i] = prev[m]
        BY <2>3, <2>6, <3>2, <3>3
      <4>. QED
        BY <4>1, <1>3
    <3>4. CASE i # 1
      <4>1. i - 1 \in 1 .. k /\ i - 1 # 0 /\ (i - 1) - 1 \in 0 .. k
        BY <3>1, <3>4, <2>4
      <4>2. e[i - 1] = h[(i - 1) - 1] /\ h[(i - 1) - 1] \in n
        BY <3>1, <4>1
      <4>3. h[i - 1] = prev[h[(i - 1) - 1]]
        BY <2>3, <4>1
      <4>. QED
        BY <1>3, <3>2, <4>2, <4>3
    <3>. QED
      BY <3>3, <3>4
  <2>. HIDE DEF e
  <2>. QED
    BY <1>2, <2>4, <2>5, <2>6, <2>7 DEF LeadsToRoot
<1>. QED
  BY <1>1, <1>4, <1>5 DEF Chained

\* In every round prev leads from each finished node to the root.
THEOREM ChainInvariance == Spec => []Chained
<1>1. Init => Chained
  <2>. SUFFICES ASSUME Init PROVE Chained
    OBVIOUS
  <2>1. 0 \in Nodes /\ linkcost \in Matrices /\ \A i \in Nodes : linkcost[i][i] = 0
    BY DijkstraAssumption DEF Nodes, Init
  <2>. QED
    BY <2>1, FreshChained DEF Init, Fresh, Diagonal
<1>2. Inv /\ Chained /\ [Next]_vars => Chained'
  <2>. SUFFICES ASSUME Inv, Chained, [Next]_vars PROVE Chained'
    OBVIOUS
  <2>1. CASE Round
    BY <2>1, RoundChained
  <2>2. CASE NextRoot
    <3>1. Fresh'
      BY <2>2 DEF NextRoot, Inv, TypeOK, Diagonal, Fresh
    <3>. QED
      BY <3>1, FreshChained, PTL
  <2>3. CASE UNCHANGED vars
    <3>1. n' = n /\ node' = node /\ root' = root /\ prev' = prev
      BY <2>3 DEF vars
    <3>2. ASSUME NEW j PROVE LeadsToRoot(j)' <=> LeadsToRoot(j)
      BY <3>1 DEF LeadsToRoot
    <3>. QED
      BY <3>1, <3>2 DEF Chained
  <2>. QED
    BY <2>1, <2>2, <2>3 DEF Next
<1>. QED
  BY <1>1, <1>2, Invariance, PTL DEF Spec

\* Back(j) is defined, and stays among the nodes.
LEMMA BackDefined ==
  ASSUME TypeOK, NEW j \in Nodes
  PROVE  /\ Back(j) \in [Nat -> Nodes]
         /\ Back(j)[0] = j
         /\ \A k \in Nat \ {0} : Back(j)[k] = prev[Back(j)[k - 1]]
<1>1. prev \in [Nodes -> Nodes]
  BY DEF TypeOK
<1>2. PICK g \in [Nat -> Nodes] :
        g = [k \in Nat |-> IF k = 0 THEN j ELSE prev[g[k - 1]]]
  BY <1>1, Iterates
<1>3. Back(j) = [k \in Nat |-> IF k = 0 THEN j ELSE prev[Back(j)[k - 1]]]
  BY <1>2 DEF Back
<1>. DEFINE I == {k \in Nat : Back(j)[k] \in Nodes}
<1>4. 0 \in I
  BY <1>3
<1>5. ASSUME NEW k \in I PROVE k + 1 \in I
  <2>1. k \in Nat /\ Back(j)[k] \in Nodes /\ k + 1 \in Nat /\ k + 1 # 0 /\ (k + 1) - 1 = k
    OBVIOUS
  <2>2. Back(j)[k + 1] = prev[Back(j)[k]]
    BY <1>3, <2>1
  <2>. QED
    BY <1>1, <2>1, <2>2
<1>6. I = Nat
  <2>. HIDE DEF I
  <2>1. I \subseteq Nat
    BY DEF I
  <2>. QED
    BY <1>4, <1>5, <2>1, InductionOverSet
<1>7. Back(j) = [k \in Nat |-> Back(j)[k]]
  BY <1>3
<1>8. Back(j) \in [Nat -> Nodes]
  BY <1>6, <1>7
<1>9. Back(j)[0] = j /\ \A k \in Nat \ {0} : Back(j)[k] = prev[Back(j)[k - 1]]
  BY <1>3
<1>. QED
  BY <1>8, <1>9

\* When djikstra() is done, prev leads from every node back to the root, over
\* links that cost what dist says.
THEOREM RoutesLeadBack == Spec => []RouteBack
<1>1. Inv /\ Chained => RouteBack
  <2>. SUFFICES ASSUME Inv, Chained, Done, NEW j \in Nodes
                PROVE  /\ \E k \in Nodes : Back(j)[k] = root
                       /\ \A k \in 1 .. NNODE - 1 :
                            dist[Back(j)[k - 1]] =
                              dist[Back(j)[k]] + linkcost[Back(j)[k]][Back(j)[k - 1]]
    BY DEF RouteBack
  <2>1. n = Nodes /\ TypeOK /\ NNODE \in Nat \ {0} /\ node = NNODE - 1
    BY AllFinished, DijkstraAssumption DEF Inv, Done
  <2>2. /\ Back(j) \in [Nat -> Nodes] /\ Back(j)[0] = j
        /\ \A k \in Nat \ {0} : Back(j)[k] = prev[Back(j)[k - 1]]
    BY <2>1, BackDefined
  <2>3. \E k \in Nodes : Back(j)[k] = root
    <3>1. PICK k \in 0 .. node : \E h \in [0 .. k -> n] :
            h[0] = j /\ h[k] = root /\ \A i \in 1 .. k : h[i] = prev[h[i - 1]]
      BY <2>1 DEF Chained, LeadsToRoot
    <3>2. PICK h \in [0 .. k -> n] :
            h[0] = j /\ h[k] = root /\ \A i \in 1 .. k : h[i] = prev[h[i - 1]]
      BY <3>1
    <3>. DEFINE I == {i \in Nat : i <= k => Back(j)[i] = h[i]}
    <3>3. 0 \in I
      BY <2>2, <3>2
    <3>4. ASSUME NEW i \in I PROVE i + 1 \in I
      <4>. SUFFICES ASSUME i + 1 <= k PROVE Back(j)[i + 1] = h[i + 1]
        OBVIOUS
      <4>1. /\ i \in Nat /\ i + 1 \in Nat \ {0} /\ i + 1 \in 1 .. k
            /\ (i + 1) - 1 = i /\ i <= k
        BY <2>1
      <4>2. Back(j)[i] = h[i]
        BY <4>1
      <4>3. Back(j)[i + 1] = prev[Back(j)[(i + 1) - 1]] /\ h[i + 1] = prev[h[(i + 1) - 1]]
        BY <4>1, <2>2, <3>2
      <4>. QED
        BY <4>1, <4>2, <4>3
    <3>5. I = Nat
      <4>. HIDE DEF I
      <4>1. I \subseteq Nat
        BY DEF I
      <4>. QED
        BY <3>3, <3>4, <4>1, InductionOverSet
    <3>6. k \in Nat /\ k \in Nodes
      BY <2>1 DEF Nodes
    <3>7. Back(j)[k] = h[k]
      BY <3>5, <3>6
    <3>. QED
      BY <3>2, <3>6, <3>7
  <2>4. ASSUME NEW k \in 1 .. NNODE - 1
        PROVE  dist[Back(j)[k - 1]] =
                 dist[Back(j)[k]] + linkcost[Back(j)[k]][Back(j)[k - 1]]
    <3>1. k \in Nat \ {0} /\ k - 1 \in Nat
      BY <2>1
    <3>2. Back(j)[k - 1] \in Nodes /\ Back(j)[k] = prev[Back(j)[k - 1]]
      BY <2>2, <3>1
    <3>. QED
      BY <3>2 DEF Inv, Reached
  <2>. QED
    BY <2>3, <2>4
<1>. QED
  BY <1>1, Invariance, ChainInvariance, PTL
=============================================================================
