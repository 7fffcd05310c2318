------------------------------ MODULE Topology ------------------------------
(***************************************************************************)
(* The network of mp3: the Graph that distvec.cpp and linkstate.cpp read   *)
(* from the topology file and alter, one line at a time, by the changes    *)
(* file; and, to compare their tables with, the lengths of its shortest    *)
(* paths.                                                                  *)
(*                                                                         *)
(* A Graph is an unordered_map of unordered_maps: a function from nodes to *)
(* rows, a row being a function from neighbours to costs.                  *)
(***************************************************************************)
EXTENDS Integers, FiniteSets, FiniteSetsExt

CONSTANTS
  Topologies,   \* graphs that topology files describe
  Changes       \* lines of changes files: records of node1, node2 and cost

VARIABLES
  graph,
  nodeIDs       \* the nodes that tables are printed for (a sorted vector)

INT_MAX == 2147483647
Broken == -999

\* Links have two ends, the same cost both ways, and costs are positive.  The
\* model adds them without overflow: paths are assumed to cost less than
\* INT_MAX, as the single links are.
Costs == 1..INT_MAX-1

IsTopology(g) ==
  /\ DOMAIN g \subseteq Nat /\ IsFiniteSet(DOMAIN g)
  /\ \A u \in DOMAIN g :
       /\ g[u] \in [DOMAIN g[u] -> Costs]
       /\ DOMAIN g[u] \subseteq DOMAIN g \ {u}
       /\ \A v \in DOMAIN g[u] : u \in DOMAIN g[v] /\ g[v][u] = g[u][v]

ASSUME TopologiesAssumption == \A g \in Topologies : IsTopology(g)
ASSUME ChangesAssumption ==
  \A c \in Changes : /\ c.node1 \in Nat /\ c.node2 \in Nat /\ c.node1 # c.node2
                     /\ c.cost \in Costs \/ c.cost = Broken

----------------------------------------------------------------------------
\* unordered_map: an assignment or a look-up through [] creates the key.

Assigned(m, k, x) == [j \in DOMAIN m \cup {k} |-> IF j = k THEN x ELSE m[j]]

Row(g, u) == IF u \in DOMAIN g THEN g[u] ELSE [v \in {} |-> 0]

PutLink(g, u, v, cost) == Assigned(g, u, Assigned(Row(g, u), v, cost))

EraseLink(g, u, v) ==
  Assigned(g, u, [w \in DOMAIN Row(g, u) \ {v} |-> Row(g, u)[w]])

\* Mutant of Changed: a link is broken in one direction.
BrokenOneWay(g, c) ==
  IF c.cost = Broken
  THEN EraseLink(g, c.node1, c.node2)
  ELSE PutLink(PutLink(g, c.node1, c.node2, c.cost), c.node2, c.node1, c.cost)

\* apply_changes.  Breaking a link of a node never heard of creates the node
\* in the graph, but not in the tables.
Changed(g, c) ==
  IF c.cost = Broken
  THEN EraseLink(EraseLink(g, c.node1, c.node2), c.node2, c.node1)
  ELSE PutLink(PutLink(g, c.node1, c.node2, c.cost), c.node2, c.node1, c.cost)

NamedBy(c) == IF c.cost = Broken THEN {} ELSE {c.node1, c.node2}

----------------------------------------------------------------------------
\* The least costs of ways of no link,
NoLink(g) ==
  [u \in DOMAIN g |-> [d \in DOMAIN g |-> IF u = d THEN 0 ELSE INT_MAX]]

\* and of ways of at most one link more than those that "shorter" is about.
OneLinkMore(g, shorter) ==
  [u \in DOMAIN g |-> [d \in DOMAIN g |->
     Min({shorter[u][d]} \cup
         {g[u][v] + shorter[v][d] :
            v \in {w \in DOMAIN g[u] : shorter[w][d] # INT_MAX}})]]

\* Shortest(g)[u][d]: the least cost of a path of g from u to d, INT_MAX when
\* there is none, from the least cost of paths of at most k links.
Shortest(g) ==
  LET within[k \in 0..Cardinality(DOMAIN g)] ==
        IF k = 0 THEN NoLink(g) ELSE OneLinkMore(g, within[k-1])
  IN  within[Cardinality(DOMAIN g)]
=============================================================================
