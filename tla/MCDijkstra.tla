---------------------------- MODULE MCDijkstra ----------------------------
(***************************************************************************)
(* A small instance of Dijkstra: every network of NNODE nodes, with links  *)
(* as in the program the same both ways.                                   *)
(***************************************************************************)
EXTENDS Dijkstra

CONSTANT LinkCosts    \* what a link may cost

Pairs == {pair \in Nodes \X Nodes : pair[1] < pair[2]}
Between(c, i, j) ==
  CASE i = j -> 0 [] i < j -> c[<<i, j>>] [] i > j -> c[<<j, i>>]
Networks ==
  {[i \in Nodes |-> [j \in Nodes |-> Between(c, i, j)]] :
     c \in [Pairs -> LinkCosts \cup {INF}]}
=============================================================================
