------------------------------ MODULE DistVec ------------------------------
(***************************************************************************)
(* mp3/distvec.cpp: distance-vector routing.  main computes the vectors of *)
(* the graph from nothing, prints tables and message paths, and does so    *)
(* again after each line of the changes file.                              *)
(*                                                                         *)
(* updateDistanceVectors visits the nodes, and the neighbours of each, in  *)
(* an order it shuffles anew in every call, and updates the vectors in     *)
(* place: a neighbour's vector may be of this round or of the last.  One   *)
(* action looks at one neighbour; it reads that neighbour's row and writes *)
(* its own, so the order of the destinations within it does not matter.    *)
(***************************************************************************)
EXTENDS Topology

VARIABLES
  pc,
  dv,             \* distanceVectors: a DistanceInfo for each node and destination
  unvisited,      \* nodes this round has yet to visit
  node,           \* the node being visited
  rest,           \* its neighbours yet to be looked at
  changed,
  noChangeCount

roundVars == <<unvisited, node, rest, changed, noChangeCount>>
vars == <<graph, nodeIDs, pc, dv, roundVars>>

Nodes == DOMAIN graph

DistanceInfo(distance, nextHop) == [distance |-> distance, nextHop |-> nextHop]

NoHop == -1

Vectors ==
  [Nodes -> [Nodes -> [distance : 0..INT_MAX, nextHop : Nodes \cup {NoHop}]]]

\* initializeDistanceVectors
InitialVectors ==
  [u \in Nodes |-> [d \in Nodes |->
     IF d = u THEN DistanceInfo(0, u)
     ELSE IF d \in DOMAIN graph[u] THEN DistanceInfo(graph[u][d], d)
     ELSE DistanceInfo(INT_MAX, NoHop)]]

Init ==
  /\ graph \in Topologies
  /\ nodeIDs = Nodes
  /\ pc = "update"
  /\ dv = InitialVectors
  /\ unvisited = Nodes
  /\ node = NoHop /\ rest = {}
  /\ changed = FALSE /\ noChangeCount = 0

----------------------------------------------------------------------------
\* updateDistanceVectors

\* Mutant of VisitNode: the neighbours of a node visited count as visited.
VisitNodeForAll ==
  /\ pc = "update" /\ rest = {}
  /\ \E u \in unvisited :
       /\ node' = u
       /\ rest' = DOMAIN graph[u]
       /\ unvisited' = unvisited \ ({u} \cup rest')
  /\ UNCHANGED <<graph, nodeIDs, pc, dv, changed, noChangeCount>>

\* for (int nodeID : nodeIDs)
VisitNode ==
  /\ pc = "update" /\ rest = {}
  /\ \E u \in unvisited :
       /\ node' = u
       /\ rest' = DOMAIN graph[u]
       /\ unvisited' = unvisited \ {u}
  /\ UNCHANGED <<graph, nodeIDs, pc, dv, changed, noChangeCount>>

\* The way to d over the neighbour v costs less, or as much and v is the
\* smaller neighbour.
NewDist(u, v, d) == graph[u][v] + dv[v][d].distance

\* Mutant of Better: of equal ways the first one found stays.
BetterOnlyShorter(u, v, d) ==
  dv[v][d].distance # INT_MAX /\ NewDist(u, v, d) < dv[u][d].distance

\* Mutant of Better: an equal way always replaces the one known.
BetterOrEqual(u, v, d) ==
  dv[v][d].distance # INT_MAX /\ NewDist(u, v, d) <= dv[u][d].distance

Better(u, v, d) ==
  /\ dv[v][d].distance # INT_MAX
  /\ \/ NewDist(u, v, d) < dv[u][d].distance
     \/ NewDist(u, v, d) = dv[u][d].distance /\ v < dv[u][d].nextHop

\* for (const auto& dest : distvec): u's vector after looking at that of v.
LookedAt(u, v) ==
  [d \in Nodes |-> IF Better(u, v, d) THEN DistanceInfo(NewDist(u, v, d), v)
                   ELSE dv[u][d]]

\* for (int neighborID : neighborIDs)
VisitNeighbor ==
  /\ pc = "update"
  /\ \E v \in rest :
       /\ rest' = rest \ {v}
       /\ dv' = [dv EXCEPT ![node] = LookedAt(node, v)]
       /\ changed' = (changed \/ \E d \in Nodes : Better(node, v, d))
  /\ UNCHANGED <<graph, nodeIDs, pc, unvisited, node, noChangeCount>>

\* do ... while (noChangeCount < 3), around updateDistanceVectors.
EndRound ==
  /\ pc = "update" /\ rest = {} /\ unvisited = {}
  /\ noChangeCount' = IF changed THEN 0 ELSE noChangeCount + 1
  /\ pc' = IF noChangeCount' < 3 THEN "update" ELSE "print"
  /\ unvisited' = Nodes
  /\ changed' = FALSE
  /\ UNCHANGED <<graph, nodeIDs, dv, node, rest>>

----------------------------------------------------------------------------
\* print_topology_entries: what is printed of each destination that can be
\* reached; a node is its own next hop.
TopologyEntries(u) ==
  [d \in {w \in nodeIDs : dv[u][w].distance # INT_MAX} |->
     DistanceInfo(dv[u][d].distance, IF d = u THEN u ELSE dv[u][d].nextHop)]

\* print_message_paths: the k-th hop of a message from s to d.
Hops(s, d) ==
  LET hop[k \in 0..Cardinality(Nodes)] ==
        IF k = 0 THEN s
        ELSE IF hop[k-1] = d THEN d
        ELSE dv[hop[k-1]][d].nextHop
  IN  hop

\* Tables and messages are printed from the vectors, which stay as they are.
PrintTables ==
  /\ pc = "print"
  /\ pc' = "changes"
  /\ UNCHANGED <<graph, nodeIDs, dv, roundVars>>

\* Mutant of ApplyChange: the vectors computed before are kept.
ApplyChangeToVectors ==
  /\ pc = "changes"
  /\ \E c \in Changes :
       /\ graph' = Changed(graph, c)
       /\ nodeIDs' = nodeIDs \cup NamedBy(c)
  /\ pc' = "update"
  /\ dv' = [u \in Nodes' |-> [d \in Nodes' |->
              IF {u, d} \subseteq Nodes THEN dv[u][d] ELSE InitialVectors'[u][d]]]
  /\ unvisited' = Nodes'
  /\ noChangeCount' = 0
  /\ UNCHANGED <<node, rest, changed>>

\* apply_changes, and everything computed afresh.
ApplyChange ==
  /\ pc = "changes"
  /\ \E c \in Changes :
       /\ graph' = Changed(graph, c)
       /\ nodeIDs' = nodeIDs \cup NamedBy(c)
  /\ pc' = "update"
  /\ dv' = InitialVectors'
  /\ unvisited' = Nodes'
  /\ noChangeCount' = 0
  /\ UNCHANGED <<node, rest, changed>>

\* The end of the changes file.
EndOfChanges ==
  /\ pc = "changes"
  /\ pc' = "done"
  /\ UNCHANGED <<graph, nodeIDs, dv, roundVars>>

Next ==
  \/ VisitNode \/ VisitNeighbor \/ EndRound
  \/ PrintTables \/ ApplyChange \/ EndOfChanges

Spec == Init /\ [][Next]_vars

\* The program runs on, and its files end.
FairSpec == Spec /\ WF_vars(Next)

----------------------------------------------------------------------------
\* Type correctness of main's variables.
DistVecTypeOK ==
  /\ IsTopology(graph)
  /\ nodeIDs \subseteq Nodes
  /\ pc \in {"update", "print", "changes", "done"}
  /\ dv \in Vectors
  /\ unvisited \subseteq Nodes
  /\ node \in Nodes \cup {NoHop}
  /\ rest \subseteq Nodes
  /\ rest # {} => node \in Nodes /\ rest \subseteq DOMAIN graph[node]
  /\ changed \in BOOLEAN
  /\ noChangeCount \in 0..3

Reachable(u, d) == dv[u][d].distance # INT_MAX

\* The next hop is a neighbour, nearer to the destination, at every moment of
\* every round, whichever vectors are of this round and whichever of the last:
\* tables never hold a forwarding loop (print_message_paths looks for one).
NextHopIsNearer ==
  \A u, d \in Nodes :
    u # d /\ Reachable(u, d) =>
      LET hop == dv[u][d].nextHop
      IN  /\ hop \in DOMAIN graph[u]
          /\ Reachable(hop, d)
          /\ dv[u][d].distance >= graph[u][hop] + dv[hop][d].distance

\* The table printed is the one the assignment asks for, in whatever order the
\* rounds went: an entry for every node that can be reached and for no other,
\* with the shortest distance and, of the neighbours on a shortest path, the one
\* with the lowest id.
TableIsShortest ==
  pc = "print" =>
    LET shortest == Shortest(graph)
        OnShortest(u, d) ==
          {v \in DOMAIN graph[u] : /\ shortest[v][d] # INT_MAX
                                   /\ graph[u][v] + shortest[v][d] = shortest[u][d]}
    IN  \A u \in nodeIDs :
          LET table == TopologyEntries(u)
          IN  /\ DOMAIN table = {d \in nodeIDs : shortest[u][d] # INT_MAX}
              /\ \A d \in DOMAIN table :
                   /\ table[d].distance = shortest[u][d]
                   /\ IF d = u THEN table[d].nextHop = u
                      ELSE /\ table[d].nextHop \in OnShortest(u, d)
                           /\ \A v \in OnShortest(u, d) : table[d].nextHop <= v

\* Three rounds without a change are more than enough: when the loop ends, no
\* neighbour offers any node anything better (each round looked at them all,
\* though in an order of its own and while other vectors could change).
Settled ==
  \A u \in Nodes : \A v \in DOMAIN graph[u] : \A d \in Nodes : ~Better(u, v, d)

PrintsSettled == pc = "print" => Settled

\* The hops that print_message_paths prints lead to the destination and cost
\* what it prints: "loop detected" is never printed.
MessagesArrive ==
  pc = "print" =>
    \A s, d \in Nodes :
      Reachable(s, d) =>
        LET hop == Hops(s, d)
        IN  /\ hop[Cardinality(Nodes)] = d
            /\ \A k \in 1..Cardinality(Nodes) :
                 hop[k-1] # d =>
                   /\ hop[k] \in DOMAIN graph[hop[k-1]]
                   /\ dv[hop[k-1]][d].distance
                        = graph[hop[k-1]][hop[k]] + dv[hop[k]][d].distance

\* Every computation ends: the rounds do not go on changing tables for ever.
RoundsEnd == pc = "update" ~> pc = "print"
=============================================================================
