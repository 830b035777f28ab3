----------------------------- MODULE Dijkstra -----------------------------
(***************************************************************************)
(* The shortest paths of dijkstra/dijkstra.c: main() calls djikstra() for  *)
(* each root in turn, with the arrays dist and prev that it shares with    *)
(* print().                                                                *)
(*                                                                         *)
(* linkcost is any matrix of the instance.  INF stands for "no link" there *)
(* and for "no path" in dist, and is added to like any other cost.         *)
(***************************************************************************)
EXTENDS Integers, FiniteSetsExt

CONSTANTS
  NNODE,    \* the number of nodes
  INF,      \* infinity
  Costs     \* the matrices that linkcost may be

Nodes == 0 .. NNODE - 1
Matrices == [Nodes -> [Nodes -> 0 .. INF]]

ASSUME DijkstraAssumption ==
  /\ NNODE \in Nat \ {0}
  /\ INF \in Nat \ {0}
  /\ Costs \subseteq Matrices
  /\ \A c \in Costs, i \in Nodes : c[i][i] = 0

VARIABLES
  linkcost,   \* the matrix
  root,       \* the root of this call
  n,          \* the nodes that are finished
  node,       \* the rounds that are done
  dist,       \* the cost of the best path known to each node
  prev        \* the node before it on that path

vars == <<linkcost, root, n, node, dist, prev>>

TypeOK ==
  /\ linkcost \in Matrices
  /\ root \in Nodes
  /\ n \subseteq Nodes
  /\ node \in Nodes
  /\ dist \in [Nodes -> 0 .. INF]
  /\ prev \in [Nodes -> Nodes]

-----------------------------------------------------------------------------
\* What a call starts with: the root is finished, and each node is one link
\* away, or INF.
Init ==
  /\ linkcost \in Costs
  /\ root = 0
  /\ n = {root}
  /\ node = 0
  /\ dist = linkcost[root]
  /\ prev = [i \in Nodes |-> root]

Rest == Nodes \ n

\* Slip: the first node that is not finished is taken.
IsMinSlip(m) == \A i \in Rest : m <= i

\* min_s: the last one of the closest nodes that are not finished.
IsMin(m) == \A i \in Rest : dist[m] < dist[i] \/ (dist[m] = dist[i] /\ m >= i)

Through(m, i) == linkcost[m][i] + dist[m]

\* Slip: dist is compared the wrong way round.
BetterSlip(m, i) == dist[i] < Through(m, i)

Better(m, i) == dist[i] > Through(m, i)

\* Slip: prev is set again when the path is as long as the one known.
PrevSlip(m, i) == IF dist[i] >= Through(m, i) THEN m ELSE prev[i]

Prev(m, i) == IF Better(m, i) THEN m ELSE prev[i]

\* One round.  All nodes are looked at, finished ones too.
Round ==
  /\ node < NNODE - 1
  /\ \E m \in Rest :
       /\ IsMin(m)
       /\ dist' = [i \in Nodes |-> IF Better(m, i) THEN Through(m, i) ELSE dist[i]]
       /\ prev' = [i \in Nodes |-> Prev(m, i)]
       /\ n' = n \cup {m}
  /\ node' = node + 1
  /\ UNCHANGED <<linkcost, root>>

\* main() goes on with the next root, and ends after the last one.
Done == node = NNODE - 1

NextRoot ==
  /\ Done
  /\ root + 1 \in Nodes
  /\ root' = root + 1
  /\ n' = {root'}
  /\ node' = 0
  /\ dist' = linkcost[root']
  /\ prev' = [i \in Nodes |-> root']
  /\ UNCHANGED linkcost

Next == Round \/ NextRoot

Spec == Init /\ [][Next]_vars

-----------------------------------------------------------------------------
\* The cost of the cheapest way to each node that uses at most k links, INF
\* when there is none or when it costs that much.
Linked(j) == {i \in Nodes : linkcost[i][j] # INF}
Within[k \in Nat] ==
  IF k = 0
  THEN [j \in Nodes |-> IF j = root THEN 0 ELSE INF]
  ELSE [j \in Nodes |->
          Min({Within[k - 1][j]} \cup {Within[k - 1][i] + linkcost[i][j] : i \in Linked(j)})]

Cheapest == Within[NNODE - 1]

\* When djikstra() returns, dist is the cost of the shortest path from the
\* root to each node.
ShortestPaths == Done => dist = Cheapest

\* Following prev from any node leads to the root, over links (of cost INF too) that
\* cost what dist says.
Back(j) ==
  LET from[k \in Nat] == IF k = 0 THEN j ELSE prev[from[k - 1]] IN from

RouteBack ==
  Done =>
    \A j \in Nodes :
      /\ \E k \in Nodes : Back(j)[k] = root
      /\ \A k \in 1 .. NNODE - 1 :
           dist[Back(j)[k - 1]] = dist[Back(j)[k]] + linkcost[Back(j)[k]][Back(j)[k - 1]]

\* A round looks at finished nodes again, but never finds a shorter path to
\* one or another way to it.
FinishedKeep ==
  [][root' = root => \A i \in n : dist'[i] = dist[i] /\ prev'[i] = prev[i]]_vars

\* Why dist is right: no link leads to a shorter path, and each node is as far
\* away as the one before it on its path, and the link between them.
Certificate ==
  Done =>
    /\ dist[root] = 0
    /\ \A i, j \in Nodes : dist[j] <= dist[i] + linkcost[i][j]
    /\ \A j \in Nodes : dist[j] = dist[prev[j]] + linkcost[prev[j]][j]
=============================================================================
