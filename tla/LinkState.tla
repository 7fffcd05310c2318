----------------------------- MODULE LinkState -----------------------------
(***************************************************************************)
(* mp3/linkstate.cpp: link-state routing.  main runs dijkstra from every   *)
(* node of the graph, prints tables and message paths, and does so again   *)
(* after each line of the changes file.                                    *)
(*                                                                         *)
(* dijkstra keeps a priority_queue of (distance, node) without decreasing  *)
(* keys: a node may be in it several times, and an entry that is out of    *)
(* date is recognised when it comes up.  One action takes one entry; the   *)
(* neighbours of its node are relaxed together, as each relaxation writes  *)
(* only the neighbour's record.  graph[n][n] = 0, which this program adds  *)
(* for each node, relaxes nothing and is left out.                         *)
(***************************************************************************)
EXTENDS Topology, Sequences

VARIABLES
  pc,
  unrouted,     \* nodes that dijkstra has yet to be run from
  startNode,
  results,      \* distance and path of each node, from startNode
  queue,        \* nodeQueue; no pair is pushed twice
  allResults    \* results of the runs that are over

runVars == <<startNode, results, queue>>
vars == <<graph, nodeIDs, pc, unrouted, runVars, allResults>>

Nodes == DOMAIN graph
NoNode == -1

NodeInfo(distance, path) == [distance |-> distance, path |-> path]
DijkstraResult == [Nodes -> [distance : 0..INT_MAX, path : Seq(Nodes)]]

Init ==
  /\ graph \in Topologies
  /\ nodeIDs = Nodes
  /\ pc = "next"
  /\ unrouted = Nodes
  /\ startNode = NoNode /\ results = <<>> /\ queue = {}
  /\ allResults = <<>>

----------------------------------------------------------------------------
\* for (int nodeID : nodeIDs), which is sorted: enter dijkstra.
StartRun ==
  /\ pc = "next"
  /\ \E s \in unrouted :
       /\ \A u \in unrouted : s <= u
       /\ startNode' = s
       /\ unrouted' = unrouted \ {s}
       /\ results' = [n \in Nodes |->
                        NodeInfo(IF n = s THEN 0 ELSE INT_MAX, <<s>>)]
       /\ queue' = {<<0, s>>}
  /\ pc' = "dijkstra"
  /\ UNCHANGED <<graph, nodeIDs, allResults>>

\* Mutant of IsTop: the queue is ordered by node.
IsTopByNode(e) ==
  \A f \in queue : e[2] < f[2] \/ (e[2] = f[2] /\ e[1] <= f[1])

\* nodeQueue.top(): the least pair, by distance and then by node.
IsTop(e) ==
  \A f \in queue : e[1] < f[1] \/ (e[1] = f[1] /\ e[2] <= f[2])

\* An entry overtaken by a shorter path is skipped.
SkipStale ==
  /\ pc = "dijkstra"
  /\ \E e \in queue :
       /\ IsTop(e)
       /\ e[1] > results[e[2]].distance
       /\ queue' = queue \ {e}
  /\ UNCHANGED <<graph, nodeIDs, pc, unrouted, startNode, results, allResults>>

\* Mutant of Shorter: the link is compared without the path that leads to it.
ShorterLink(u, v) == graph[u][v] < results[v].distance

\* Mutant of Shorter: a path as long replaces the one known.
ShorterOrEqual(u, v) == results[u].distance + graph[u][v] <= results[v].distance

\* Only a strictly shorter path replaces the one known.
Shorter(u, v) == results[u].distance + graph[u][v] < results[v].distance

Relaxed(u) == {v \in DOMAIN graph[u] : Shorter(u, v)}

\* Mutant of Via: the path of the neighbour is continued.
ViaOwnPath(u, v) ==
  NodeInfo(results[u].distance + graph[u][v], Append(results[v].path, v))

Via(u, v) ==
  NodeInfo(results[u].distance + graph[u][v], Append(results[u].path, v))

Visit ==
  /\ pc = "dijkstra"
  /\ \E e \in queue :
       LET u == e[2]
       IN  /\ IsTop(e)
           /\ e[1] <= results[u].distance
           /\ results' = [v \in Nodes |->
                            IF v \in Relaxed(u) THEN Via(u, v) ELSE results[v]]
           /\ queue' = (queue \ {e})
                         \cup {<<Via(u, v).distance, v>> : v \in Relaxed(u)}
  /\ UNCHANGED <<graph, nodeIDs, pc, unrouted, startNode, allResults>>

\* dijkstra returns; tables are printed after the last run.
EndRun ==
  /\ pc = "dijkstra" /\ queue = {}
  /\ allResults' = Assigned(allResults, startNode, results)
  /\ pc' = IF unrouted = {} THEN "print" ELSE "next"
  /\ UNCHANGED <<graph, nodeIDs, unrouted, runVars>>

----------------------------------------------------------------------------
\* print_topology_entries: what is printed of each destination that can be
\* reached from s.  The next hop is path[1] of the code, which counts from 0.
TopologyEntries(s) ==
  [d \in {n \in nodeIDs : allResults[s][n].distance # INT_MAX} |->
     [distance |-> allResults[s][d].distance,
      next_hop |-> IF d = s THEN s ELSE allResults[s][d].path[2]]]

\* Tables and messages are printed from the results, which stay as they are.
\* With no node at all, there was no run.
PrintTables ==
  /\ pc = "print" \/ (pc = "next" /\ unrouted = {})
  /\ pc' = "changes"
  /\ UNCHANGED <<graph, nodeIDs, unrouted, runVars, allResults>>

\* apply_changes; every run is made afresh.
ApplyChange ==
  /\ pc = "changes"
  /\ \E c \in Changes :
       /\ graph' = Changed(graph, c)
       /\ nodeIDs' = nodeIDs \cup NamedBy(c)
  /\ unrouted' = nodeIDs'
  /\ allResults' = <<>>
  /\ pc' = "next"
  /\ UNCHANGED runVars

\* The end of the changes file.
EndOfChanges ==
  /\ pc = "changes"
  /\ pc' = "done"
  /\ UNCHANGED <<graph, nodeIDs, unrouted, runVars, allResults>>

Next ==
  \/ StartRun \/ SkipStale \/ Visit \/ EndRun
  \/ PrintTables \/ ApplyChange \/ EndOfChanges

Spec == Init /\ [][Next]_vars

----------------------------------------------------------------------------
\* Type correctness of main's and dijkstra's variables.
LinkStateTypeOK ==
  /\ IsTopology(graph)
  /\ nodeIDs \subseteq Nodes
  /\ pc \in {"next", "dijkstra", "print", "changes", "done"}
  /\ unrouted \subseteq nodeIDs
  /\ startNode \in Nodes \cup {NoNode}
  /\ queue \subseteq Nat \X Nodes
  /\ pc = "dijkstra" => results \in DijkstraResult
  /\ DOMAIN allResults \subseteq nodeIDs
  /\ \A s \in DOMAIN allResults : allResults[s] \in DijkstraResult

Reached(info) == info.distance # INT_MAX

\* The cost of following path p in the graph.
PathCost(p) ==
  LET cost[k \in 1..Len(p)] ==
        IF k = 1 THEN 0 ELSE cost[k-1] + graph[p[k-1]][p[k]]
  IN  cost[Len(p)]

\* Every path kept is a path of the graph from the start node to its node and
\* costs the distance kept with it, though paths are copied from a record
\* that may itself be replaced later; so a next hop can be read from path[1].
PathsMatchDistances ==
  pc = "dijkstra" =>
    \A n \in Nodes :
      Reached(results[n]) =>
        LET p == results[n].path
        IN  /\ p[1] = startNode /\ p[Len(p)] = n
            /\ \A k \in 2..Len(p) : p[k] \in DOMAIN graph[p[k-1]]
            /\ PathCost(p) = results[n].distance
            /\ n # startNode => Len(p) >= 2

\* An entry that comes up to date is final: a node visited once is never
\* reached by a shorter path nor visited again.
VisitedIsFinal ==
  [][\A n \in Nodes :
       /\ pc = "dijkstra" /\ pc' = "dijkstra"
       /\ Reached(results[n])
       /\ ~\E e \in queue : e[2] = n /\ e[1] = results[n].distance
       => /\ results'[n] = results[n]
          /\ ~\E e \in queue' : e[2] = n /\ e[1] = results'[n].distance]_vars

\* The distances printed are those of the shortest paths, also after changes,
\* those of unreachable nodes are infinite, and no table has an entry for them.
\* The next hop printed is the first node of a path, which ends long before the
\* table is printed: it is still on a shortest one.
DistancesAreShortest ==
  pc = "print" =>
    /\ DOMAIN allResults = nodeIDs
    /\ LET shortest == Shortest(graph)
       IN  /\ \A s \in nodeIDs, d \in Nodes :
                allResults[s][d].distance = shortest[s][d]
           /\ \A s \in nodeIDs :
                LET table == TopologyEntries(s)
                IN  /\ DOMAIN table = {d \in nodeIDs : shortest[s][d] # INT_MAX}
                    /\ \A d \in DOMAIN table \ {s} :
                         LET hop == table[d].next_hop
                         IN  /\ hop \in DOMAIN graph[s]
                             /\ graph[s][hop] + shortest[hop][d] = table[d].distance

\* The last node before d on the path printed, and those it could be.
LastBefore(s, d) ==
  LET p == allResults[s][d].path IN p[Len(p)-1]

Predecessors(s, d) ==
  {u \in Nodes : /\ Reached(allResults[s][u])
                 /\ d \in DOMAIN graph[u]
                 /\ allResults[s][u].distance + graph[u][d] = allResults[s][d].distance}

\* Which of several shortest paths is printed does not depend on the order of
\* the hash tables: it is the one over the predecessor nearest to the start,
\* and of two as near, over the one with the smaller id.
TieGoesToNearest ==
  pc = "print" =>
    \A s \in nodeIDs : \A d \in Nodes \ {s} :
      Reached(allResults[s][d]) =>
        /\ LastBefore(s, d) \in Predecessors(s, d)
        /\ \A u \in Predecessors(s, d) :
             LET near == allResults[s][LastBefore(s, d)].distance
             IN  \/ near < allResults[s][u].distance
                 \/ near = allResults[s][u].distance /\ LastBefore(s, d) <= u

\* MP3.pdf: of paths "equal in cost, choose the path whose last node before
\* the destination has the smaller ID".
TieGoesToSmallerID ==
  pc = "print" =>
    \A s \in nodeIDs : \A d \in Nodes \ {s} :
      Reached(allResults[s][d]) =>
        \A u \in Predecessors(s, d) : LastBefore(s, d) <= u
=============================================================================
