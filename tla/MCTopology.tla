----------------------------- MODULE MCTopology -----------------------------
(***************************************************************************)
(* Topology files and changes files for TLC, for both programs of mp3.     *)
(***************************************************************************)
EXTENDS Topology

\* The graph with links E, link l costing cost[l].
GraphOf(E, cost) ==
  [u \in UNION E |-> [v \in {w \in UNION E : {u, w} \in E /\ w # u} |-> cost[{u, v}]]]

Pairs(ids) == {l \in SUBSET ids : Cardinality(l) = 2}

\* Every graph of up to three nodes with costs up to 3, and four-node rings
\* and rings with a chord (two equal ways round, a long way made short).
Triangles ==
  UNION {{GraphOf(E, cost) : cost \in [E -> 1..3]} : E \in SUBSET Pairs({1, 2, 3})}

Ring == {{1, 2}, {2, 3}, {3, 4}, {4, 1}}

MCTopologies ==
  Triangles \cup {GraphOf(Ring, cost) : cost \in [Ring -> {1, 2}]}
            \cup {GraphOf(Ring \cup {{1, 3}}, [l \in Ring \cup {{1, 3}} |->
                                    IF l = {1, 3} THEN 3 ELSE 1])}

\* A link made, made cheaper or dearer, and broken; one of a node never
\* heard of broken.
MCChanges ==
  {[node1 |-> 1, node2 |-> 2, cost |-> 3],
   [node1 |-> 1, node2 |-> 2, cost |-> Broken],
   [node1 |-> 3, node2 |-> 5, cost |-> Broken]}
=============================================================================
