-------------------------- MODULE LinkStateProofs --------------------------
(***************************************************************************)
(* Theorems about linkstate.cpp, for every topology and every changes      *)
(* file.                                                                   *)
(***************************************************************************)
EXTENDS LinkState, TopologyProofs

USE DEF DijkstraResult

----------------------------------------------------------------------------
\* path leads from s to n through the graph g, and costs so much.
LeadsTo(g, s, path, n, cost) ==
  \E k \in Nat : \E p, spent :
    /\ IsWay(g, k, p, spent)
    /\ p[0] = s /\ p[k] = n /\ spent[k] = cost
    /\ Len(path) = k + 1
    /\ \A i \in 0..k : path[i+1] = p[i]

\* A node whose entry with its distance has come up.
Visited(n) ==
  /\ Reached(results[n])
  /\ ~\E e \in queue : e[2] = n /\ e[1] = results[n].distance

\* dijkstra's loop.  Its core is the last conjunct: nothing is left to gain over
\* a visited node, and the queue holds nothing nearer than one.
DijkstraInv ==
  pc = "dijkstra" =>
    /\ startNode \in nodeIDs
    /\ results[startNode].distance = 0
    /\ \A e \in queue : /\ e[1] \in 0..INT_MAX-1
                        /\ results[e[2]].distance <= e[1]
    /\ \A n \in Nodes : Reached(results[n]) =>
         LeadsTo(graph, startNode, results[n].path, n, results[n].distance)
    /\ \A n \in Nodes : Visited(n) =>
         /\ \A v \in DOMAIN graph[n] : ~Shorter(n, v)
         /\ \A f \in queue : results[n].distance <= f[1]

\* What a run from s returns.
IsSettledFrom(s, r) ==
  /\ r[s].distance = 0
  /\ \A n \in Nodes : Reached(r[n]) =>
       /\ LeadsTo(graph, s, r[n].path, n, r[n].distance)
       /\ \A v \in DOMAIN graph[n] : r[v].distance <= r[n].distance + graph[n][v]

LinkStateInv ==
  /\ LinkStateTypeOK
  /\ pc # "dijkstra" => queue = {}
  /\ DijkstraInv
  /\ \A s \in DOMAIN allResults : IsSettledFrom(s, allResults[s])
  /\ nodeIDs \subseteq DOMAIN allResults \cup unrouted
                         \cup (IF pc = "dijkstra" THEN {startNode} ELSE {})
  /\ pc = "print" => unrouted = {}

----------------------------------------------------------------------------
\* A node leads to itself.
LEMMA LeadsToSelf ==
  ASSUME NEW g, NEW s \in DOMAIN g
  PROVE  LeadsTo(g, s, <<s>>, s, 0)
<1> DEFINE p == [i \in 0..0 |-> s]
           spent == [i \in 0..0 |-> 0]
<1>1. p[0] = s /\ spent[0] = 0 /\ p \in [0..0 -> DOMAIN g] /\ spent \in [0..0 -> Nat]
  OBVIOUS
<1> HIDE DEF p, spent
<1>2. IsWay(g, 0, p, spent)
  BY <1>1 DEF IsWay
<1>3. Len(<<s>>) = 0 + 1 /\ \A i \in 0..0 : <<s>>[i+1] = p[i]
  BY <1>1
<1>4. QED
  BY <1>1, <1>2, <1>3 DEF LeadsTo

\* A path appended to leads a link farther.
LEMMA LeadsFarther ==
  ASSUME NEW g, IsTopology(g), NEW s, NEW path \in Seq(DOMAIN g),
         NEW u \in DOMAIN g, NEW cost, LeadsTo(g, s, path, u, cost),
         NEW v \in DOMAIN g[u]
  PROVE  LeadsTo(g, s, Append(path, v), v, cost + g[u][v])
<1>1. PICK k \in Nat : \E p, spent :
        /\ IsWay(g, k, p, spent)
        /\ p[0] = s /\ p[k] = u /\ spent[k] = cost
        /\ Len(path) = k + 1
        /\ \A i \in 0..k : path[i+1] = p[i]
  BY DEF LeadsTo
<1>2. PICK p, spent :
        /\ IsWay(g, k, p, spent)
        /\ p[0] = s /\ p[k] = u /\ spent[k] = cost
        /\ Len(path) = k + 1
        /\ \A i \in 0..k : path[i+1] = p[i]
  BY <1>1
<1>3. /\ p \in [0..k -> DOMAIN g] /\ spent \in [0..k -> Nat] /\ spent[0] = 0
      /\ \A i \in 0..k-1 : /\ p[i+1] \in DOMAIN g[p[i]]
                           /\ spent[i+1] = spent[i] + g[p[i]][p[i+1]]
  BY <1>2 DEF IsWay
<1>4. v \in DOMAIN g /\ g[u][v] \in Nat
  BY LinkCosts, Infinity
<1> DEFINE q == [i \in 0..k+1 |-> IF i = k+1 THEN v ELSE p[i]]
           paid == [i \in 0..k+1 |-> IF i = k+1 THEN cost + g[u][v] ELSE spent[i]]
<1>5. \A i \in 0..k : i \in 0..k+1 /\ i # k+1 /\ q[i] = p[i] /\ paid[i] = spent[i]
  OBVIOUS
<1>6. q[k+1] = v /\ paid[k+1] = cost + g[u][v]
  OBVIOUS
<1>7. q \in [0..k+1 -> DOMAIN g]
  BY <1>3, <1>4
<1>8. paid \in [0..k+1 -> Nat]
  <2>1. cost \in Nat
    BY <1>2, <1>3
  <2>2. QED
    BY <2>1, <1>3, <1>4
<1> HIDE DEF q, paid
<1>9. ASSUME NEW i \in 0..(k+1)-1
      PROVE  q[i+1] \in DOMAIN g[q[i]] /\ paid[i+1] = paid[i] + g[q[i]][q[i+1]]
  <2>1. CASE i = k
    BY <1>2, <1>5, <1>6, <2>1
  <2>2. CASE i # k
    <3>1. i \in 0..k-1 /\ i \in 0..k /\ i+1 \in 0..k
      BY <2>2
    <3>2. QED
      BY <1>3, <1>5, <3>1
  <2>3. QED
    BY <2>1, <2>2
<1>10. 0 \in 0..k
  OBVIOUS
<1>11. IsWay(g, k+1, q, paid)
  BY <1>3, <1>5, <1>7, <1>8, <1>9, <1>10 DEF IsWay
<1>12. /\ Len(Append(path, v)) = (k+1) + 1
       /\ Append(path, v)[(k+1)+1] = v
       /\ \A i \in 0..k : Append(path, v)[i+1] = path[i+1]
  BY <1>2, <1>4
<1>13. \A i \in 0..k+1 : Append(path, v)[i+1] = q[i]
  <2> TAKE i \in 0..k+1
  <2>1. CASE i = k+1
    BY <1>6, <1>12, <2>1
  <2>2. CASE i # k+1
    <3>1. i \in 0..k
      BY <2>2
    <3>2. QED
      BY <1>2, <1>5, <1>12, <3>1
  <2>3. QED
    BY <2>1, <2>2
<1>14. QED
  BY <1>2, <1>5, <1>6, <1>10, <1>11, <1>12, <1>13 DEF LeadsTo

----------------------------------------------------------------------------
\* The state before a step of dijkstra: types, and the invariant unfolded.
LEMMA InTheLoop ==
  ASSUME LinkStateInv, pc = "dijkstra"
  PROVE  /\ IsTopology(graph) /\ Nodes \subseteq Nat
         /\ results \in DijkstraResult /\ queue \subseteq Nat \X Nodes
         /\ \A n \in Nodes : /\ results[n].distance \in 0..INT_MAX
                             /\ results[n].path \in Seq(Nodes)
         /\ startNode \in Nodes /\ results[startNode].distance = 0
         /\ \A e \in queue : /\ e[1] \in 0..INT_MAX-1 /\ e[2] \in Nodes
                             /\ results[e[2]].distance <= e[1]
<1>1. /\ IsTopology(graph) /\ queue \subseteq Nat \X Nodes /\ results \in DijkstraResult
  BY DEF LinkStateInv, LinkStateTypeOK
<1>2. Nodes \subseteq Nat
  BY <1>1 DEF IsTopology, Nodes
<1>3. \A n \in Nodes : results[n].distance \in 0..INT_MAX /\ results[n].path \in Seq(Nodes)
  BY <1>1
<1>4. \A e \in queue : e[2] \in Nodes
  BY <1>1
<1>5. /\ startNode \in nodeIDs /\ nodeIDs \subseteq Nodes
      /\ results[startNode].distance = 0
      /\ \A e \in queue : e[1] \in 0..INT_MAX-1 /\ results[e[2]].distance <= e[1]
  BY DEF LinkStateInv, LinkStateTypeOK, DijkstraInv
<1>6. QED
  BY <1>1, <1>2, <1>3, <1>4, <1>5

\* dijkstra begins.
LEMMA StartRunKept ==
  LinkStateInv /\ StartRun => LinkStateInv'
<1> SUFFICES ASSUME LinkStateInv, StartRun PROVE LinkStateInv'
  OBVIOUS
<1>1. PICK s \in unrouted :
        /\ startNode' = s
        /\ unrouted' = unrouted \ {s}
        /\ results' = [n \in Nodes |-> NodeInfo(IF n = s THEN 0 ELSE INT_MAX, <<s>>)]
        /\ queue' = {<<0, s>>}
  BY DEF StartRun
<1>2. /\ pc = "next" /\ pc' = "dijkstra"
      /\ graph' = graph /\ nodeIDs' = nodeIDs /\ allResults' = allResults
      /\ Nodes' = Nodes
  BY DEF StartRun, Nodes
<1>3. s \in Nodes /\ s \in nodeIDs
  BY DEF LinkStateInv, LinkStateTypeOK
<1>4. \A n \in Nodes :
        /\ n = s => results'[n].distance = 0
        /\ n # s => results'[n].distance = INT_MAX
        /\ results'[n].path = <<s>>
  BY <1>1 DEF NodeInfo
<1>5. (results \in DijkstraResult)'
  <2>1. \A n \in Nodes : NodeInfo(IF n = s THEN 0 ELSE INT_MAX, <<s>>)
                           \in [distance : 0..INT_MAX, path : Seq(Nodes)]
    BY <1>3, Infinity DEF NodeInfo
  <2>2. results' \in [Nodes -> [distance : 0..INT_MAX, path : Seq(Nodes)]]
    BY <1>1, <2>1
  <2>3. QED
    BY <1>2, <2>2
<1>6. LinkStateTypeOK'
  <2>1. /\ IsTopology(graph) /\ nodeIDs \subseteq Nodes /\ unrouted \subseteq nodeIDs
        /\ DOMAIN allResults \subseteq nodeIDs
        /\ \A t \in DOMAIN allResults : allResults[t] \in DijkstraResult
    BY DEF LinkStateInv, LinkStateTypeOK
  <2>2. queue' \subseteq Nat \X Nodes
    BY <1>1, <1>3
  <2>3. unrouted' \subseteq nodeIDs /\ startNode' \in Nodes
    BY <1>1, <1>3, <2>1
  <2>4. QED
    BY <1>2, <1>5, <2>1, <2>2, <2>3 DEF LinkStateTypeOK
<1>7. DijkstraInv'
  <2>1. \A e \in queue' : e[1] \in 0..INT_MAX-1 /\ results'[e[2]].distance <= e[1]
    BY <1>1, <1>3, <1>4, Infinity
  <2>2. \A n \in Nodes : results'[n].distance # INT_MAX => n = s
    BY <1>4
  <2>3. LeadsTo(graph, s, results'[s].path, s, results'[s].distance)
    BY <1>3, <1>4, LeadsToSelf DEF Nodes
  <2>4. <<0, s>> \in queue' /\ <<0, s>>[2] = s /\ <<0, s>>[1] = results'[s].distance
    BY <1>1, <1>3, <1>4
  <2>5. \A n \in Nodes : results'[n].distance # INT_MAX =>
          \E e \in queue' : e[2] = n /\ e[1] = results'[n].distance
    BY <2>2, <2>4
  <2>6. \A n \in Nodes : ~(Visited(n))'
    BY <1>2, <2>5 DEF Visited, Reached
  <2>7. QED
    BY <1>1, <1>2, <1>3, <1>4, <2>1, <2>2, <2>3, <2>6 DEF DijkstraInv, Reached
<1>8. nodeIDs' \subseteq DOMAIN allResults' \cup unrouted'
                           \cup (IF pc' = "dijkstra" THEN {startNode'} ELSE {})
  BY <1>1, <1>2 DEF LinkStateInv
<1>9. \A t \in DOMAIN allResults' : IsSettledFrom(t, allResults[t])'
  BY <1>2 DEF LinkStateInv, IsSettledFrom, Reached
<1>10. QED
  BY <1>2, <1>6, <1>7, <1>8, <1>9 DEF LinkStateInv

\* An entry out of date is skipped: it is nobody's distance.
LEMMA SkipStaleKept ==
  LinkStateInv /\ SkipStale => LinkStateInv' /\ results' = results
                               /\ \A n \in Nodes : Visited(n)' <=> Visited(n)
<1> SUFFICES ASSUME LinkStateInv, SkipStale
             PROVE  LinkStateInv' /\ results' = results
                    /\ \A n \in Nodes : Visited(n)' <=> Visited(n)
  OBVIOUS
<1>1. PICK e \in queue : e[1] > results[e[2]].distance /\ queue' = queue \ {e}
  BY DEF SkipStale
<1>2. /\ pc = "dijkstra" /\ pc' = "dijkstra"
      /\ graph' = graph /\ nodeIDs' = nodeIDs /\ unrouted' = unrouted
      /\ startNode' = startNode /\ results' = results /\ allResults' = allResults
      /\ Nodes' = Nodes
  BY DEF SkipStale, Nodes
<1>3. \A f \in queue : f[1] \in Nat /\ f[2] \in Nodes
  BY <1>2, InTheLoop
<1>4. \A n \in Nodes : results[n].distance \in 0..INT_MAX
  BY <1>2, InTheLoop
<1>5. \A n \in Nodes : e[2] = n => e[1] # results[n].distance
  BY <1>1, <1>3, <1>4, Infinity
<1>6. \A n \in Nodes : Visited(n)' <=> Visited(n)
  BY <1>1, <1>2, <1>5 DEF Visited, Reached
<1>7. LinkStateTypeOK'
  BY <1>1, <1>2 DEF LinkStateInv, LinkStateTypeOK
<1>8. DijkstraInv'
  <2>1. \A n \in Nodes : \A v : Shorter(n, v)' <=> Shorter(n, v)
    BY <1>2 DEF Shorter
  <2>2. QED
    BY <1>1, <1>2, <1>6, <2>1 DEF LinkStateInv, DijkstraInv, Reached
<1>9. \A t \in DOMAIN allResults' : IsSettledFrom(t, allResults[t])'
  BY <1>2 DEF LinkStateInv, IsSettledFrom, Reached
<1>10. QED
  BY <1>2, <1>6, <1>7, <1>8, <1>9 DEF LinkStateInv

\* A node is visited: the entry that came up is its distance, and only nodes
\* not visited before come nearer.
VisitsBy(u, e) ==
  /\ e = <<results[u].distance, u>> /\ Reached(results[u])
  /\ IsTop(e) /\ \A f \in queue : e[1] <= f[1]
  /\ queue' = (queue \ {e}) \cup {<<Via(u, v).distance, v>> : v \in Relaxed(u)}
  /\ results' = [v \in Nodes |-> IF v \in Relaxed(u) THEN Via(u, v) ELSE results[v]]
  /\ \A v \in Relaxed(u) :
       /\ v \in Nodes \ {u, startNode} /\ v \in DOMAIN graph[u]
       /\ ~Visited(v)
       /\ Via(u, v).path = Append(results[u].path, v)
       /\ Via(u, v).distance = results[u].distance + graph[u][v]
       /\ Via(u, v).distance \in results[u].distance..INT_MAX-1
       /\ Via(u, v).distance < results[v].distance

LEMMA VisitSeen ==
  ASSUME LinkStateInv, Visit
  PROVE  \E u \in Nodes : \E e \in queue : VisitsBy(u, e)
<1>1. PICK e \in queue :
        /\ IsTop(e) /\ e[1] <= results[e[2]].distance
        /\ results' = [v \in Nodes |->
                         IF v \in Relaxed(e[2]) THEN Via(e[2], v) ELSE results[v]]
        /\ queue' = (queue \ {e})
                      \cup {<<Via(e[2], v).distance, v>> : v \in Relaxed(e[2])}
  BY DEF Visit
<1>2. pc = "dijkstra"
  BY DEF Visit
<1>3. /\ IsTopology(graph) /\ queue \subseteq Nat \X Nodes
      /\ \A n \in Nodes : results[n].distance \in 0..INT_MAX
      /\ startNode \in Nodes /\ results[startNode].distance = 0
      /\ \A f \in queue : /\ f[1] \in 0..INT_MAX-1 /\ f[2] \in Nodes
                          /\ results[f[2]].distance <= f[1]
  BY <1>2, InTheLoop
<1> DEFINE u == e[2]
<1>4. u \in Nodes /\ e[1] = results[u].distance /\ results[u].distance \in 0..INT_MAX-1
  BY <1>1, <1>3, Infinity
<1>5. e = <<results[u].distance, u>>
  BY <1>3, <1>4
<1>6. Reached(results[u])
  BY <1>4, Infinity DEF Reached
<1>7. \A f \in queue : e[1] <= f[1]
  BY <1>1, <1>3, Infinity DEF IsTop
<1> HIDE DEF u
<1>8. ASSUME NEW v \in Relaxed(u)
      PROVE  /\ v \in Nodes \ {u, startNode} /\ v \in DOMAIN graph[u]
             /\ ~Visited(v)
             /\ Via(u, v).path = Append(results[u].path, v)
             /\ Via(u, v).distance = results[u].distance + graph[u][v]
             /\ Via(u, v).distance \in results[u].distance..INT_MAX-1
             /\ Via(u, v).distance < results[v].distance
  <2>1. v \in DOMAIN graph[u] /\ results[u].distance + graph[u][v] < results[v].distance
    BY DEF Relaxed, Shorter
  <2>2. v \in Nodes /\ v # u /\ graph[u][v] \in 1..INT_MAX-1
    BY <1>3, <1>4, <2>1, LinkCosts DEF Nodes
  <2>3. /\ Via(u, v).path = Append(results[u].path, v)
        /\ Via(u, v).distance = results[u].distance + graph[u][v]
    BY DEF Via, NodeInfo
  <2>4. results[v].distance \in 0..INT_MAX
    BY <1>3, <2>2
  <2>5. v # startNode
    BY <1>3, <1>4, <2>1, <2>2, Infinity
  <2>6. Via(u, v).distance \in results[u].distance..INT_MAX-1
    BY <1>4, <2>1, <2>2, <2>3, <2>4, Infinity
  <2>7. ~Visited(v)
    <3>1. Visited(v) => results[v].distance <= e[1]
      BY <1>2, <2>2 DEF LinkStateInv, DijkstraInv
    <3>2. ~(results[v].distance <= e[1])
      BY <1>4, <2>1, <2>2, <2>4, Infinity
    <3>3. QED
      BY <3>1, <3>2
  <2>8. QED
    BY <2>1, <2>2, <2>3, <2>5, <2>6, <2>7
<1>9. /\ queue' = (queue \ {e}) \cup {<<Via(u, v).distance, v>> : v \in Relaxed(u)}
      /\ results' = [v \in Nodes |-> IF v \in Relaxed(u) THEN Via(u, v) ELSE results[v]]
  BY <1>1 DEF u
<1>10. VisitsBy(u, e)
  BY <1>1, <1>5, <1>6, <1>7, <1>8, <1>9 DEF VisitsBy
<1>11. QED
  BY <1>4, <1>10

\* Only that node becomes visited, and none ceases to be.
LEMMA VisitMarks ==
  ASSUME LinkStateInv, Visit, NEW u \in Nodes, NEW e \in queue, VisitsBy(u, e)
  PROVE  /\ \A n \in Nodes : Visited(n) => Visited(n)' /\ results'[n] = results[n]
         /\ \A n \in Nodes : Visited(n)' => n \notin Relaxed(u) /\ (Visited(n) \/ n = u)
<1>1. /\ e = <<results[u].distance, u>> /\ Reached(results[u])
      /\ IsTop(e) /\ \A f \in queue : e[1] <= f[1]
      /\ queue' = (queue \ {e}) \cup {<<Via(u, v).distance, v>> : v \in Relaxed(u)}
      /\ results' = [v \in Nodes |-> IF v \in Relaxed(u) THEN Via(u, v) ELSE results[v]]
      /\ \A v \in Relaxed(u) :
           /\ v \in Nodes \ {u, startNode} /\ v \in DOMAIN graph[u]
           /\ ~Visited(v)
           /\ Via(u, v).path = Append(results[u].path, v)
           /\ Via(u, v).distance = results[u].distance + graph[u][v]
           /\ Via(u, v).distance \in results[u].distance..INT_MAX-1
           /\ Via(u, v).distance < results[v].distance
  BY DEF VisitsBy
<1>2. \A n \in Nodes : /\ n \in Relaxed(u) => results'[n] = Via(u, n)
                       /\ n \notin Relaxed(u) => results'[n] = results[n]
  BY <1>1
<1>3. results'[u] = results[u] /\ e[1] = results[u].distance /\ e[2] = u
  BY <1>1, <1>2
\* What is in the queue now, and what was.
<1>4. ASSUME NEW f \in queue'
      PROVE  \/ f \in queue /\ f # e
             \/ f[2] \in Relaxed(u) /\ f[1] = Via(u, f[2]).distance
  BY <1>1
<1>5. \A v \in Relaxed(u) : \E f \in queue' : f[2] = v /\ f[1] = results'[v].distance
  <2> TAKE v \in Relaxed(u)
  <2>1. <<Via(u, v).distance, v>> \in queue'
    BY <1>1
  <2>2. results'[v].distance = Via(u, v).distance
    BY <1>1, <1>2
  <2>3. <<Via(u, v).distance, v>>[2] = v /\ <<Via(u, v).distance, v>>[1] = Via(u, v).distance
    OBVIOUS
  <2>4. QED
    BY <2>1, <2>2, <2>3
<1>6. \A n \in Nodes : Visited(n) => Visited(n)' /\ results'[n] = results[n]
  <2> SUFFICES ASSUME NEW n \in Nodes, Visited(n)
               PROVE  Visited(n)' /\ results'[n] = results[n]
    OBVIOUS
  <2>1. n \notin Relaxed(u) /\ results'[n] = results[n]
    BY <1>1, <1>2
  <2>2. ASSUME NEW f \in queue', f[2] = n PROVE f[1] # results[n].distance
    BY <1>4, <2>1, <2>2 DEF Visited
  <2>3. QED
    BY <2>1, <2>2 DEF Visited
<1>7. \A n \in Nodes : Visited(n)' => n \notin Relaxed(u) /\ (Visited(n) \/ n = u)
  <2> SUFFICES ASSUME NEW n \in Nodes, Visited(n)', n # u
               PROVE  n \notin Relaxed(u) /\ Visited(n)
    BY <1>1
  <2>1. n \notin Relaxed(u)
    BY <1>5 DEF Visited
  <2>2. results'[n] = results[n]
    BY <1>2, <2>1
  <2>3. \A f \in queue : f[2] = n => f \in queue'
    BY <1>1, <1>3
  <2>4. QED
    BY <2>1, <2>2, <2>3 DEF Visited
<1>8. QED
  BY <1>6, <1>7

\* Nothing is left to gain over the node visited, nor over those before it.
LEMMA VisitKept ==
  LinkStateInv /\ Visit =>
    LinkStateInv' /\ \A n \in Nodes : Visited(n) => Visited(n)' /\ results'[n] = results[n]
<1> SUFFICES ASSUME LinkStateInv, Visit
             PROVE  LinkStateInv' /\ \A n \in Nodes :
                      Visited(n) => Visited(n)' /\ results'[n] = results[n]
  OBVIOUS
<1>1. PICK u \in Nodes, e \in queue : VisitsBy(u, e)
  BY VisitSeen
<1>2. /\ e = <<results[u].distance, u>> /\ Reached(results[u])
      /\ IsTop(e) /\ \A f \in queue : e[1] <= f[1]
      /\ queue' = (queue \ {e}) \cup {<<Via(u, v).distance, v>> : v \in Relaxed(u)}
      /\ results' = [v \in Nodes |-> IF v \in Relaxed(u) THEN Via(u, v) ELSE results[v]]
      /\ \A v \in Relaxed(u) :
           /\ v \in Nodes \ {u, startNode} /\ v \in DOMAIN graph[u]
           /\ ~Visited(v)
           /\ Via(u, v).path = Append(results[u].path, v)
           /\ Via(u, v).distance = results[u].distance + graph[u][v]
           /\ Via(u, v).distance \in results[u].distance..INT_MAX-1
           /\ Via(u, v).distance < results[v].distance
  BY <1>1 DEF VisitsBy
<1>3. /\ pc = "dijkstra" /\ pc' = "dijkstra"
      /\ graph' = graph /\ nodeIDs' = nodeIDs /\ unrouted' = unrouted
      /\ startNode' = startNode /\ allResults' = allResults
      /\ Nodes' = Nodes
  BY DEF Visit, Nodes
<1>4. /\ IsTopology(graph) /\ queue \subseteq Nat \X Nodes
      /\ results \in DijkstraResult
      /\ \A n \in Nodes : /\ results[n].distance \in 0..INT_MAX
                          /\ results[n].path \in Seq(Nodes)
      /\ startNode \in Nodes /\ results[startNode].distance = 0
      /\ \A f \in queue : /\ f[1] \in 0..INT_MAX-1 /\ f[2] \in Nodes
                          /\ results[f[2]].distance <= f[1]
  BY <1>3, InTheLoop
<1>5. \A n \in Nodes : /\ n \in Relaxed(u) => results'[n] = Via(u, n)
                       /\ n \notin Relaxed(u) => results'[n] = results[n]
  BY <1>2
<1>6. \A n \in Nodes : /\ results'[n].distance \in 0..INT_MAX
                       /\ results'[n].distance <= results[n].distance
  <2> TAKE n \in Nodes
  <2>1. CASE n \in Relaxed(u)
    BY <1>2, <1>4, <1>5, <2>1, Infinity
  <2>2. CASE n \notin Relaxed(u)
    BY <1>4, <1>5, <2>2, Infinity
  <2>3. QED
    BY <2>1, <2>2
<1>7. results'[u] = results[u] /\ e[1] = results[u].distance /\ e[2] = u
  BY <1>2, <1>5
\* What is in the queue now, and what was.
<1>8. ASSUME NEW f \in queue'
      PROVE  \/ f \in queue /\ f # e
             \/ f[2] \in Relaxed(u) /\ f[1] = Via(u, f[2]).distance
  BY <1>2
<1>9. /\ \A n \in Nodes : Visited(n) => Visited(n)' /\ results'[n] = results[n]
      /\ \A n \in Nodes : Visited(n)' => n \notin Relaxed(u) /\ (Visited(n) \/ n = u)
  BY <1>1, VisitMarks
<1>10. LinkStateTypeOK'
  <2>1. results' \in DijkstraResult
    <3>1. \A v \in Relaxed(u) : Via(u, v) \in [distance : 0..INT_MAX, path : Seq(Nodes)]
      <4> TAKE v \in Relaxed(u)
      <4>1. Via(u, v).distance \in 0..INT_MAX
        BY <1>2, <1>4, Infinity
      <4>2. v \in Nodes /\ results[u].path \in Seq(Nodes)
        BY <1>2, <1>4
      <4>3. Append(results[u].path, v) \in Seq(Nodes)
        BY <4>2
      <4>4. QED
        BY <4>1, <4>3 DEF Via, NodeInfo
    <3>2. \A v \in Nodes : results[v] \in [distance : 0..INT_MAX, path : Seq(Nodes)]
      BY <1>4
    <3>3. QED
      BY <1>2, <3>1, <3>2
  <2>2. queue' \subseteq Nat \X Nodes
    BY <1>2, <1>4, Infinity
  <2>3. QED
    BY <1>3, <2>1, <2>2 DEF LinkStateInv, LinkStateTypeOK
<1>11. DijkstraInv'
  <2>1. results'[startNode].distance = 0
    BY <1>2, <1>4, <1>5
  <2>2. ASSUME NEW f \in queue'
        PROVE  /\ f[1] \in 0..INT_MAX-1 /\ results'[f[2]].distance <= f[1]
               /\ results[u].distance <= f[1]
    <3>1. CASE f \in queue
      BY <1>2, <1>4, <1>6, <1>7, <3>1, Infinity
    <3>2. CASE f[2] \in Relaxed(u) /\ f[1] = Via(u, f[2]).distance
      BY <1>2, <1>4, <1>5, <3>2, Infinity
    <3>3. QED
      BY <1>8, <3>1, <3>2
  <2>3. ASSUME NEW n \in Nodes, Reached(results'[n])
        PROVE  LeadsTo(graph, startNode, results'[n].path, n, results'[n].distance)
    <3>1. CASE n \in Relaxed(u)
      <4>1. LeadsTo(graph, startNode, results[u].path, u, results[u].distance)
        BY <1>2, <1>3 DEF LinkStateInv, DijkstraInv
      <4>2. /\ results'[n].path = Append(results[u].path, n)
            /\ results'[n].distance = results[u].distance + graph[u][n]
            /\ n \in DOMAIN graph[u]
        BY <1>2, <1>5, <3>1
      <4>3. QED
        BY <1>4, <4>1, <4>2, LeadsFarther DEF Nodes
    <3>2. CASE n \notin Relaxed(u)
      BY <1>3, <1>5, <2>3, <3>2 DEF LinkStateInv, DijkstraInv
    <3>3. QED
      BY <3>1, <3>2
  <2>4. ASSUME NEW n \in Nodes, Visited(n)'
        PROVE  /\ \A v \in DOMAIN graph[n] :
                    ~(results'[n].distance + graph[n][v] < results'[v].distance)
               /\ \A f \in queue' : results'[n].distance <= f[1]
    <3>1. results'[n] = results[n]
      BY <1>5, <1>9, <2>4
    <3>2. CASE n = u
      <4>1. ASSUME NEW v \in DOMAIN graph[u]
            PROVE  ~(results[u].distance + graph[u][v] < results'[v].distance)
        <5>1. v \in Nodes /\ graph[u][v] \in 1..INT_MAX-1
          BY <1>4, LinkCosts DEF Nodes
        <5>2. CASE v \in Relaxed(u)
          BY <1>2, <1>4, <1>5, <5>1, <5>2, Infinity
        <5>3. CASE v \notin Relaxed(u)
          BY <1>5, <5>1, <5>3 DEF Relaxed, Shorter
        <5>4. QED
          BY <5>2, <5>3
      <4>2. QED
        BY <2>2, <3>1, <3>2, <4>1
    <3>3. CASE Visited(n)
      <4>1. /\ \A v \in DOMAIN graph[n] :
                 ~(results[n].distance + graph[n][v] < results[v].distance)
            /\ \A f \in queue : results[n].distance <= f[1]
        BY <1>3, <3>3 DEF LinkStateInv, DijkstraInv, Shorter
      <4>2. ASSUME NEW v \in DOMAIN graph[n]
            PROVE  ~(results[n].distance + graph[n][v] < results'[v].distance)
        <5>1. v \in Nodes /\ graph[n][v] \in 1..INT_MAX-1
          BY <1>4, LinkCosts DEF Nodes
        <5>2. /\ results[n].distance \in Nat /\ results[v].distance \in Nat
              /\ results'[v].distance \in Nat
              /\ results'[v].distance <= results[v].distance
          BY <1>4, <1>6, <5>1, Infinity
        <5>3. QED
          BY <4>1, <5>1, <5>2
      <4>3. results[n].distance <= results[u].distance
        BY <1>7, <4>1
      <4>4. ASSUME NEW f \in queue' PROVE results[n].distance <= f[1]
        <5>1. results[u].distance <= f[1] /\ f[1] \in 0..INT_MAX-1
          BY <2>2
        <5>2. results[n].distance \in 0..INT_MAX /\ results[u].distance \in 0..INT_MAX
          BY <1>4
        <5>3. QED
          BY <4>3, <5>1, <5>2, Infinity
      <4>5. QED
        BY <3>1, <4>2, <4>4
    <3>4. QED
      BY <1>9, <2>4, <3>2, <3>3
  <2>5. \A n \in Nodes : Reached(results[n])' <=> Reached(results'[n])
    BY DEF Reached
  <2>6. \A n, v : Shorter(n, v)' <=>
                    results'[n].distance + graph[n][v] < results'[v].distance
    BY <1>3 DEF Shorter
  <2>7. startNode \in nodeIDs
    BY <1>3 DEF LinkStateInv, DijkstraInv
  <2>8. QED
    BY <1>3, <1>4, <2>1, <2>2, <2>3, <2>4, <2>5, <2>6, <2>7 DEF DijkstraInv
<1>12. \A t \in DOMAIN allResults' : IsSettledFrom(t, allResults[t])'
  BY <1>3 DEF LinkStateInv, IsSettledFrom, Reached
<1>13. QED
  BY <1>3, <1>9, <1>10, <1>11, <1>12 DEF LinkStateInv

\* dijkstra returns: the queue is empty, so every node reached was visited.
LEMMA EndRunKept ==
  LinkStateInv /\ EndRun => LinkStateInv'
<1> SUFFICES ASSUME LinkStateInv, EndRun PROVE LinkStateInv'
  OBVIOUS
<1>1. /\ pc = "dijkstra" /\ queue = {}
      /\ allResults' = Assigned(allResults, startNode, results)
      /\ pc' = IF unrouted = {} THEN "print" ELSE "next"
      /\ graph' = graph /\ nodeIDs' = nodeIDs /\ unrouted' = unrouted
      /\ startNode' = startNode /\ results' = results /\ queue' = queue
      /\ Nodes' = Nodes
  BY DEF EndRun, Nodes, runVars
<1>2. /\ IsTopology(graph) /\ results \in DijkstraResult
      /\ \A n \in Nodes : results[n].distance \in 0..INT_MAX
      /\ startNode \in Nodes /\ results[startNode].distance = 0
  BY <1>1, InTheLoop
<1>3. /\ DOMAIN allResults' = DOMAIN allResults \cup {startNode}
      /\ allResults'[startNode] = results
      /\ \A t \in DOMAIN allResults \ {startNode} : allResults'[t] = allResults[t]
  BY <1>1 DEF Assigned
<1>4. IsSettledFrom(startNode, results)
  <2> SUFFICES ASSUME NEW n \in Nodes, Reached(results[n])
               PROVE  /\ LeadsTo(graph, startNode, results[n].path, n, results[n].distance)
                      /\ \A v \in DOMAIN graph[n] :
                           results[v].distance <= results[n].distance + graph[n][v]
    BY <1>2 DEF IsSettledFrom
  <2>1. /\ LeadsTo(graph, startNode, results[n].path, n, results[n].distance)
        /\ \A v \in DOMAIN graph[n] : ~Shorter(n, v)
    BY <1>1 DEF LinkStateInv, DijkstraInv, Visited
  <2>2. ASSUME NEW v \in DOMAIN graph[n]
        PROVE  results[v].distance <= results[n].distance + graph[n][v]
    <3>1. v \in Nodes /\ graph[n][v] \in 1..INT_MAX-1
      BY <1>2, LinkCosts DEF Nodes
    <3>2. /\ results[v].distance \in Nat /\ results[n].distance \in Nat
          /\ graph[n][v] \in Nat
      BY <1>2, <3>1, Infinity
    <3>3. ~(results[n].distance + graph[n][v] < results[v].distance)
      BY <2>1 DEF Shorter
    <3>4. QED
      BY <3>2, <3>3
  <2>3. QED
    BY <2>1, <2>2
<1>5. \A t \in DOMAIN allResults' : IsSettledFrom(t, allResults'[t])
  BY <1>3, <1>4 DEF LinkStateInv
<1>6. \A t \in DOMAIN allResults' : IsSettledFrom(t, allResults[t])'
  BY <1>1, <1>5 DEF IsSettledFrom, Reached
<1>7. startNode \in nodeIDs
  BY <1>1 DEF LinkStateInv, DijkstraInv
<1>8. LinkStateTypeOK'
  <2>1. \A t \in DOMAIN allResults' : allResults'[t] \in DijkstraResult
    BY <1>2, <1>3 DEF LinkStateInv, LinkStateTypeOK
  <2>2. DOMAIN allResults' \subseteq nodeIDs
    BY <1>3, <1>7 DEF LinkStateInv, LinkStateTypeOK
  <2>3. pc' \in {"next", "print"}
    BY <1>1
  <2>4. QED
    BY <1>1, <1>2, <2>1, <2>2, <2>3 DEF LinkStateInv, LinkStateTypeOK
<1>9. nodeIDs' \subseteq DOMAIN allResults' \cup unrouted'
  BY <1>1, <1>3 DEF LinkStateInv
<1>10. pc' # "dijkstra" /\ (pc' = "print" => unrouted' = {})
  BY <1>1
<1>11. QED
  BY <1>1, <1>6, <1>8, <1>9, <1>10 DEF LinkStateInv, DijkstraInv

\* A line of the changes file: another topology, and no result is kept.
LEMMA ApplyChangeKept ==
  LinkStateInv /\ ApplyChange => LinkStateInv'
<1> SUFFICES ASSUME LinkStateInv, ApplyChange PROVE LinkStateInv'
  OBVIOUS
<1>1. PICK c \in Changes : graph' = Changed(graph, c) /\ nodeIDs' = nodeIDs \cup NamedBy(c)
  BY DEF ApplyChange
<1>2. /\ pc = "changes" /\ pc' = "next" /\ unrouted' = nodeIDs' /\ allResults' = <<>>
      /\ startNode' = startNode /\ results' = results /\ queue' = queue
  BY DEF ApplyChange, runVars
<1>3. /\ IsTopology(graph) /\ nodeIDs \subseteq Nodes /\ startNode \in Nodes \cup {NoNode}
      /\ queue = {}
  BY <1>2 DEF LinkStateInv, LinkStateTypeOK
<1>4. IsTopology(graph') /\ Nodes \subseteq Nodes' /\ NamedBy(c) \subseteq Nodes'
  BY <1>1, <1>3, ChangedIsTopology DEF Nodes
<1>5. DOMAIN allResults' = {}
  BY <1>2
<1>6. LinkStateTypeOK'
  <2>1. nodeIDs' \subseteq Nodes'
    BY <1>1, <1>3, <1>4
  <2>2. startNode' \in (Nodes \cup {NoNode})' /\ queue' = {}
    BY <1>2, <1>3, <1>4
  <2>3. QED
    BY <1>2, <1>4, <1>5, <2>1, <2>2 DEF LinkStateTypeOK
<1>7. QED
  BY <1>2, <1>3, <1>5, <1>6 DEF LinkStateInv, DijkstraInv

\* Printing and the end of the changes file leave the results alone.
LEMMA NothingRoutedKept ==
  LinkStateInv /\ (PrintTables \/ EndOfChanges \/ UNCHANGED vars) => LinkStateInv'
<1> SUFFICES ASSUME LinkStateInv, PrintTables \/ EndOfChanges \/ UNCHANGED vars
             PROVE  LinkStateInv'
  OBVIOUS
<1>1. /\ graph' = graph /\ nodeIDs' = nodeIDs /\ unrouted' = unrouted
      /\ startNode' = startNode /\ results' = results /\ queue' = queue
      /\ allResults' = allResults /\ Nodes' = Nodes
  BY DEF PrintTables, EndOfChanges, vars, runVars, Nodes
<1>2. \/ pc' = pc
      \/ pc' \in {"changes", "done"} /\ pc # "dijkstra"
  BY DEF PrintTables, EndOfChanges, vars
<1>3. LinkStateTypeOK'
  BY <1>1, <1>2 DEF LinkStateInv, LinkStateTypeOK
<1>4. \A t \in DOMAIN allResults' : IsSettledFrom(t, allResults[t])'
  BY <1>1 DEF LinkStateInv, IsSettledFrom, Reached
<1>5. DijkstraInv'
  <2>1. \A n \in Nodes : Visited(n)' <=> Visited(n)
    BY <1>1 DEF Visited, Reached
  <2>2. \A n, v : Shorter(n, v)' <=> Shorter(n, v)
    BY <1>1 DEF Shorter
  <2>3. \A n : Reached(results[n])' <=> Reached(results[n])
    BY <1>1 DEF Reached
  <2>4. CASE pc' = pc
    BY <1>1, <2>1, <2>2, <2>3, <2>4 DEF LinkStateInv, DijkstraInv
  <2>5. CASE pc' # pc
    BY <1>2, <2>5 DEF DijkstraInv
  <2>6. QED
    BY <2>4, <2>5
<1>6. QED
  BY <1>1, <1>2, <1>3, <1>4, <1>5 DEF LinkStateInv

----------------------------------------------------------------------------
LEMMA LinkStateInvInitially == Init => LinkStateInv
<1> SUFFICES ASSUME Init PROVE LinkStateInv
  OBVIOUS
<1>1. IsTopology(graph)
  BY TopologiesAssumption DEF Init
<1>2. DOMAIN allResults = {}
  BY DEF Init
<1>3. QED
  BY <1>1, <1>2 DEF Init, LinkStateInv, LinkStateTypeOK, DijkstraInv

LEMMA LinkStateInvKept == LinkStateInv /\ [Next]_vars => LinkStateInv'
<1> SUFFICES ASSUME LinkStateInv, [Next]_vars PROVE LinkStateInv'
  OBVIOUS
<1>1. CASE StartRun
  BY <1>1, StartRunKept
<1>2. CASE SkipStale
  BY <1>2, SkipStaleKept
<1>3. CASE Visit
  BY <1>3, VisitKept
<1>4. CASE EndRun
  BY <1>4, EndRunKept
<1>5. CASE ApplyChange
  BY <1>5, ApplyChangeKept
<1>6. CASE PrintTables \/ EndOfChanges \/ UNCHANGED vars
  BY <1>6, NothingRoutedKept
<1>7. QED
  BY <1>1, <1>2, <1>3, <1>4, <1>5, <1>6 DEF Next

\* main's and dijkstra's variables have their types, whatever the topology and
\* the changes: distances stay at most INT_MAX, paths name nodes of the graph.
THEOREM LinkStateTypeCorrect == Spec => []LinkStateTypeOK
<1>1. LinkStateInv => LinkStateTypeOK
  BY DEF LinkStateInv
<1>2. QED
  BY <1>1, LinkStateInvInitially, LinkStateInvKept, PTL DEF Spec

\* dijkstra never comes back to a node it has visited: its distance and its
\* path are final, though entries for it may still be in the queue.
THEOREM NeverRevisits == Spec => VisitedIsFinal
<1> DEFINE A == \A n \in Nodes :
                  /\ pc = "dijkstra" /\ pc' = "dijkstra"
                  /\ Reached(results[n])
                  /\ ~\E e \in queue : e[2] = n /\ e[1] = results[n].distance
                  => /\ results'[n] = results[n]
                     /\ ~\E e \in queue' : e[2] = n /\ e[1] = results'[n].distance
<1>1. LinkStateInv /\ [Next]_vars => [A]_vars
  <2> SUFFICES ASSUME LinkStateInv, Next PROVE A
    OBVIOUS
  <2>1. SUFFICES ASSUME pc = "dijkstra", pc' = "dijkstra", NEW n \in Nodes, Visited(n)
                 PROVE  results'[n] = results[n] /\ Visited(n)'
    BY DEF Visited
  <2>2. SkipStale \/ Visit
    BY <2>1 DEF Next, StartRun, EndRun, PrintTables, ApplyChange, EndOfChanges
  <2>3. CASE SkipStale
    BY <2>1, <2>3, SkipStaleKept
  <2>4. CASE Visit
    BY <2>1, <2>4, VisitKept
  <2>5. QED
    BY <2>2, <2>3, <2>4
<1>2. QED
  BY <1>1, LinkStateInvInitially, LinkStateInvKept, PTL DEF Spec, VisitedIsFinal

----------------------------------------------------------------------------
\* No way from s, of any length, is cheaper than a settled distance.
LEMMA NoWayIsCheaper ==
  ASSUME IsTopology(graph), NEW s, NEW r \in DijkstraResult, IsSettledFrom(s, r),
         NEW n \in Nat, NEW p, NEW spent, IsWay(graph, n, p, spent), p[0] = s
  PROVE  r[p[n]].distance <= spent[n]
<1> DEFINE Holds(k) == r[p[k]].distance <= spent[k]
           Fails == {j \in 0..n : ~Holds(j)}
<1>1. /\ p \in [0..n -> Nodes] /\ spent \in [0..n -> Nat] /\ spent[0] = 0
      /\ \A k \in 0..n-1 : /\ p[k+1] \in DOMAIN graph[p[k]]
                           /\ spent[k+1] = spent[k] + graph[p[k]][p[k+1]]
  BY DEF IsWay, Nodes
<1>2. \A k \in 0..n : p[k] \in Nodes /\ spent[k] \in Nat
  BY <1>1
<1>3. \A u \in Nodes : r[u].distance \in 0..INT_MAX
  OBVIOUS
<1>4. Holds(0)
  BY <1>1 DEF IsSettledFrom
<1>5. ASSUME NEW k \in 0..n-1, Holds(k) PROVE Holds(k+1)
  <2> DEFINE cost == graph[p[k]][p[k+1]]
             at == r[p[k]].distance
             next == r[p[k+1]].distance
  <2>1. k \in 0..n /\ k+1 \in 0..n
    OBVIOUS
  <2>2. p[k+1] \in DOMAIN graph[p[k]] /\ spent[k+1] = spent[k] + cost
    BY <1>1
  <2>3. cost \in Nat
    <3>1. p[k] \in DOMAIN graph
      BY <1>2, <2>1 DEF Nodes
    <3>2. cost \in 1..INT_MAX-1
      BY <2>2, <3>1, LinkCosts
    <3> HIDE DEF cost
    <3>3. QED
      BY <3>2, Infinity
  <2>4. at = INT_MAX \/ next <= at + cost
    BY <1>2, <2>1, <2>2 DEF IsSettledFrom, Reached
  <2>5. at \in 0..INT_MAX /\ next \in 0..INT_MAX /\ spent[k] \in Nat
    BY <1>2, <1>3, <2>1
  <2>6. at <= spent[k]
    BY <1>5
  <2> HIDE DEF at, next, cost
  <2>7. next <= spent[k+1]
    BY <2>2, <2>3, <2>4, <2>5, <2>6, Infinity
  <2>8. QED
    BY <2>7 DEF next
<1> HIDE DEF Holds
<1>6. Fails = {}
  <2> SUFFICES ASSUME Fails # {} PROVE FALSE
    OBVIOUS
  <2>1. PICK j \in Fails : \A i \in Fails : j <= i
    <3>1. Fails \subseteq Nat
      OBVIOUS
    <3>2. QED
      BY <3>1, NatLeast
  <2>2. j # 0
    BY <1>4
  <2>3. j-1 \in 0..n-1 /\ j-1 \notin Fails
    BY <2>1, <2>2
  <2>4. Holds(j-1) /\ (j-1)+1 = j
    BY <2>1, <2>3
  <2>5. QED
    BY <1>5, <2>1, <2>3, <2>4
<1>7. Holds(n)
  BY <1>6
<1>8. QED
  BY <1>7 DEF Holds

\* The tables printed are those of shortest paths: every node the tables are
\* for has one, the path printed is a way of the graph that costs the distance
\* printed with it, and no way of any length costs less; so a node printed as
\* unreachable is one no way of a cost an int can hold leads to.
PrintsShortestPaths ==
  pc = "print" =>
    \A s \in nodeIDs :
      /\ s \in DOMAIN allResults
      /\ \A d \in Nodes : Reached(allResults[s][d]) =>
           LeadsTo(graph, s, allResults[s][d].path, d, allResults[s][d].distance)
      /\ \A n \in Nat : \A p, spent :
           IsWay(graph, n, p, spent) /\ p[0] = s
             => allResults[s][p[n]].distance <= spent[n]

THEOREM PrintsTheShortest == Spec => []PrintsShortestPaths
<1>1. LinkStateInv => PrintsShortestPaths
  <2> SUFFICES ASSUME LinkStateInv, pc = "print", NEW s \in nodeIDs
               PROVE  /\ s \in DOMAIN allResults
                      /\ \A d \in Nodes : Reached(allResults[s][d]) =>
                           LeadsTo(graph, s, allResults[s][d].path, d,
                                   allResults[s][d].distance)
                      /\ \A n \in Nat : \A p, spent :
                           IsWay(graph, n, p, spent) /\ p[0] = s
                             => allResults[s][p[n]].distance <= spent[n]
    BY DEF PrintsShortestPaths
  <2>1. s \in DOMAIN allResults
    BY DEF LinkStateInv
  <2>2. /\ IsTopology(graph) /\ allResults[s] \in DijkstraResult
        /\ IsSettledFrom(s, allResults[s])
    BY <2>1 DEF LinkStateInv, LinkStateTypeOK
  <2>3. \A d \in Nodes : Reached(allResults[s][d]) =>
          LeadsTo(graph, s, allResults[s][d].path, d, allResults[s][d].distance)
    BY <2>2 DEF IsSettledFrom
  <2>4. \A n \in Nat : \A p, spent :
          IsWay(graph, n, p, spent) /\ p[0] = s
            => allResults[s][p[n]].distance <= spent[n]
    BY <2>2, NoWayIsCheaper
  <2>5. QED
    BY <2>1, <2>3, <2>4
<1>2. QED
  BY <1>1, LinkStateInvInitially, LinkStateInvKept, PTL DEF Spec

----------------------------------------------------------------------------
\* The recursion of PathCost has an answer, as a way has its costs.
LEMMA CostOfWay ==
  ASSUME NEW k \in Nat, NEW p, NEW spent, IsWay(graph, k, p, spent),
         NEW path, Len(path) = k + 1, \A i \in 0..k : path[i+1] = p[i]
  PROVE  PathCost(path) = spent[k]
<1> DEFINE paid(c) == [i \in 1..k+1 |->
                         IF i = 1 THEN 0 ELSE c[i-1] + graph[path[i-1]][path[i]]]
           best == [i \in 1..k+1 |-> spent[i-1]]
<1>1. /\ spent[0] = 0
      /\ \A i \in 0..k-1 : spent[i+1] = spent[i] + graph[p[i]][p[i+1]]
  BY DEF IsWay
<1>2. ASSUME NEW i \in 2..k+1
      PROVE  spent[i-1] = spent[(i-1)-1] + graph[path[i-1]][path[i]]
  <2>1. (i-1)-1 \in 0..k-1 /\ i-1 \in 0..k /\ (i-1)-1 \in 0..k
    OBVIOUS
  <2>2. ((i-1)-1)+1 = i-1 /\ (i-1)+1 = i
    OBVIOUS
  <2>3. path[i-1] = p[(i-1)-1] /\ path[i] = p[i-1]
    BY <2>1, <2>2
  <2>4. QED
    BY <1>1, <2>1, <2>2, <2>3
<1>3. best = paid(best)
  <2> DEFINE e == paid(best)
  <2>1. ASSUME NEW i \in 1..k+1 PROVE best[i] = e[i]
    <3>1. CASE i = 1
      BY <1>1, <3>1
    <3>2. CASE i # 1
      <4>1. i \in 2..k+1 /\ i-1 \in 1..k+1
        BY <3>2
      <4>2. best[i] = spent[i-1] /\ best[i-1] = spent[(i-1)-1]
        BY <4>1
      <4>3. e[i] = best[i-1] + graph[path[i-1]][path[i]]
        BY <3>2
      <4>4. QED
        BY <1>2, <4>1, <4>2, <4>3
    <3>3. QED
      BY <3>1, <3>2
  <2>2. best = [i \in 1..k+1 |-> best[i]] /\ e = [i \in 1..k+1 |-> e[i]]
    OBVIOUS
  <2> HIDE DEF best, e
  <2>3. best = e
    BY <2>1, <2>2
  <2>4. QED
    BY <2>3 DEF e
<1>4. PICK c : c = paid(c) /\ PathCost(path) = c[k+1]
  BY <1>3 DEF PathCost
<1>5. c[1] = 0 /\ \A i \in 2..k+1 : c[i] = c[i-1] + graph[path[i-1]][path[i]]
  <2>1. 1 \in 1..k+1 /\ \A i \in 2..k+1 : i \in 1..k+1 /\ i # 1
    OBVIOUS
  <2>2. QED
    BY <1>4, <2>1
<1> DEFINE Fails == {i \in 1..k+1 : c[i] # spent[i-1]}
<1>6. Fails = {}
  <2> SUFFICES ASSUME Fails # {} PROVE FALSE
    OBVIOUS
  <2>1. PICK i \in Fails : \A j \in Fails : i <= j
    <3>1. Fails \subseteq Nat
      OBVIOUS
    <3>2. QED
      BY <3>1, NatLeast
  <2>2. i # 1
    BY <1>1, <1>5, <2>1
  <2>3. i \in 2..k+1 /\ i-1 \in 1..k+1 /\ ~(i <= i-1)
    BY <2>1, <2>2
  <2>4. c[i-1] = spent[(i-1)-1]
    BY <2>1, <2>3
  <2>5. c[i] = spent[i-1]
    BY <1>2, <1>5, <2>3, <2>4
  <2>6. QED
    BY <2>1, <2>5
<1>7. QED
  <2>1. k+1 \in 1..k+1 /\ (k+1)-1 = k
    OBVIOUS
  <2>2. c[k+1] = spent[k]
    BY <1>6, <2>1
  <2>3. QED
    BY <1>4, <2>2

\* Every path dijkstra keeps is a way of the graph from its start, link by link,
\* that costs the distance kept with it.
THEOREM PathsAreWays == Spec => []PathsMatchDistances
<1>1. LinkStateInv => PathsMatchDistances
  <2> SUFFICES ASSUME LinkStateInv, pc = "dijkstra",
                      NEW n \in Nodes, Reached(results[n])
               PROVE  LET path == results[n].path
                      IN  /\ path[1] = startNode /\ path[Len(path)] = n
                          /\ \A i \in 2..Len(path) : path[i] \in DOMAIN graph[path[i-1]]
                          /\ PathCost(path) = results[n].distance
                          /\ n # startNode => Len(path) >= 2
    BY DEF PathsMatchDistances
  <2> DEFINE path == results[n].path
  <2>1. LeadsTo(graph, startNode, path, n, results[n].distance)
    BY DEF LinkStateInv, DijkstraInv
  <2> HIDE DEF path
  <2>2. PICK k \in Nat : \E p, spent :
          /\ IsWay(graph, k, p, spent)
          /\ p[0] = startNode /\ p[k] = n /\ spent[k] = results[n].distance
          /\ Len(path) = k + 1
          /\ \A i \in 0..k : path[i+1] = p[i]
    BY <2>1 DEF LeadsTo
  <2>3. PICK p, spent :
          /\ IsWay(graph, k, p, spent)
          /\ p[0] = startNode /\ p[k] = n /\ spent[k] = results[n].distance
          /\ Len(path) = k + 1
          /\ \A i \in 0..k : path[i+1] = p[i]
    BY <2>2
  <2>4. path[1] = startNode /\ path[Len(path)] = n
    <3>1. 0 \in 0..k /\ k \in 0..k /\ 0+1 = 1
      OBVIOUS
    <3>2. QED
      BY <2>3, <3>1
  <2>5. ASSUME NEW i \in 2..Len(path) PROVE path[i] \in DOMAIN graph[path[i-1]]
    <3>1. i-2 \in 0..k-1 /\ i-1 \in 0..k /\ i-2 \in 0..k
      BY <2>3
    <3>2. (i-2)+1 = i-1 /\ (i-1)+1 = i
      OBVIOUS
    <3>3. path[i-1] = p[i-2] /\ path[i] = p[i-1]
      BY <2>3, <3>1, <3>2
    <3>4. p[i-1] \in DOMAIN graph[p[i-2]]
      BY <2>3, <3>1, <3>2 DEF IsWay
    <3>5. QED
      BY <3>3, <3>4
  <2>6. PathCost(path) = results[n].distance
    BY <2>3, CostOfWay
  <2>7. n # startNode => Len(path) >= 2
    BY <2>3
  <2>8. QED
    BY <2>4, <2>5, <2>6, <2>7 DEF path
<1>2. QED
  BY <1>1, LinkStateInvInitially, LinkStateInvKept, PTL DEF Spec

----------------------------------------------------------------------------
\* The node before the last one of the path kept.
NextToLast(info) == info.path[Len(info.path)-1]

\* d's path goes over the node of S from which d is as near as it is known to
\* be; of several such nodes over the nearest, and of two as near over the
\* smaller.
OverNearest(g, r, d, S) ==
  LET last == NextToLast(r[d])
      Offers(u) == d \in DOMAIN g[u] /\ r[u].distance + g[u][d] = r[d].distance
  IN  /\ last \in S /\ Offers(last)
      /\ \A u \in S : Offers(u) =>
           \/ r[last].distance < r[u].distance
           \/ r[last].distance = r[u].distance /\ last <= u

VisitedNodes == {n \in Nodes : Visited(n)}

ReachedIn(g, r) == {n \in DOMAIN g : Reached(r[n])}

\* Why a tie goes to the nearest: what is in the queue comes, by distance and
\* then by number, after every node visited, and only a strictly shorter path
\* replaces one over a node visited earlier.
TieInv ==
  /\ pc = "dijkstra" =>
       /\ \A n \in VisitedNodes : \A f \in queue :
            \/ results[n].distance < f[1]
            \/ results[n].distance = f[1] /\ n <= f[2]
       /\ \A d \in Nodes \ {startNode} : Reached(results[d]) =>
            OverNearest(graph, results, d, VisitedNodes)
  /\ \A s \in DOMAIN allResults : \A d \in Nodes \ {s} : Reached(allResults[s][d]) =>
       OverNearest(graph, allResults[s], d, ReachedIn(graph, allResults[s]))

\* A run begins: only its start is reached.
LEMMA StartRunTies ==
  LinkStateInv /\ TieInv /\ StartRun => TieInv'
<1> SUFFICES ASSUME LinkStateInv, TieInv, StartRun PROVE TieInv'
  OBVIOUS
<1>1. PICK s \in unrouted :
        /\ startNode' = s
        /\ results' = [n \in Nodes |-> NodeInfo(IF n = s THEN 0 ELSE INT_MAX, <<s>>)]
        /\ queue' = {<<0, s>>}
  BY DEF StartRun
<1>2. graph' = graph /\ allResults' = allResults /\ Nodes' = Nodes
  BY DEF StartRun, Nodes
<1>3. s \in Nodes
  BY DEF LinkStateInv, LinkStateTypeOK
<1>4. \A n \in Nodes : results'[n].distance = IF n = s THEN 0 ELSE INT_MAX
  BY <1>1 DEF NodeInfo
<1>5. ASSUME NEW n \in Nodes PROVE ~Visited(n)'
  <2>1. CASE n = s
    <3>1. <<0, s>> \in queue' /\ <<0, s>>[2] = s /\ <<0, s>>[1] = results'[s].distance
      BY <1>1, <1>3, <1>4
    <3>2. QED
      BY <2>1, <3>1 DEF Visited
  <2>2. CASE n # s
    BY <1>4, <2>2 DEF Visited, Reached
  <2>3. QED
    BY <2>1, <2>2
<1>6. VisitedNodes' = {}
  BY <1>2, <1>5 DEF VisitedNodes
<1>7. \A d \in Nodes \ {startNode'} : ~Reached(results'[d])
  BY <1>1, <1>4 DEF Reached
<1>8. QED
  BY <1>2, <1>6, <1>7 DEF TieInv, Reached

\* An entry skipped changes neither the nodes visited nor their paths.
LEMMA SkipStaleTies ==
  LinkStateInv /\ TieInv /\ SkipStale => TieInv'
<1> SUFFICES ASSUME LinkStateInv, TieInv, SkipStale PROVE TieInv'
  OBVIOUS
<1>1. /\ pc = "dijkstra" /\ queue' \subseteq queue
      /\ graph' = graph /\ startNode' = startNode /\ allResults' = allResults
      /\ Nodes' = Nodes
  BY DEF SkipStale, Nodes
<1>2. results' = results /\ \A n \in Nodes : Visited(n)' <=> Visited(n)
  BY SkipStaleKept
<1>3. VisitedNodes' = VisitedNodes
  BY <1>1, <1>2 DEF VisitedNodes
<1>4. QED
  BY <1>1, <1>2, <1>3 DEF TieInv, Reached

\* A visit: what it brings nearer it brings nearer than any node visited before
\* does, and what it does not already goes over a node that came up earlier.
LEMMA VisitTies ==
  LinkStateInv /\ TieInv /\ Visit => TieInv'
<1> SUFFICES ASSUME LinkStateInv, TieInv, Visit PROVE TieInv'
  OBVIOUS
<1>0. PICK u \in Nodes, e \in queue : VisitsBy(u, e)
  BY VisitSeen
<1>1. /\ e = <<results[u].distance, u>> /\ Reached(results[u]) /\ IsTop(e)
      /\ queue' = (queue \ {e}) \cup {<<Via(u, v).distance, v>> : v \in Relaxed(u)}
      /\ results' = [v \in Nodes |-> IF v \in Relaxed(u) THEN Via(u, v) ELSE results[v]]
      /\ \A v \in Relaxed(u) :
           /\ v \in Nodes \ {u, startNode} /\ v \in DOMAIN graph[u]
           /\ ~Visited(v)
           /\ Via(u, v).path = Append(results[u].path, v)
           /\ Via(u, v).distance = results[u].distance + graph[u][v]
           /\ Via(u, v).distance < results[v].distance
  BY <1>0 DEF VisitsBy
<1>2. /\ pc = "dijkstra" /\ graph' = graph /\ startNode' = startNode
      /\ allResults' = allResults /\ Nodes' = Nodes
  BY DEF Visit, Nodes
<1>3. /\ IsTopology(graph) /\ Nodes \subseteq Nat
      /\ \A n \in Nodes : /\ results[n].distance \in 0..INT_MAX
                          /\ results[n].path \in Seq(Nodes)
      /\ \A f \in queue : f[1] \in 0..INT_MAX-1 /\ f[2] \in Nodes
  BY <1>2, InTheLoop
<1>4. \A v \in DOMAIN graph[u] : v \in Nodes /\ graph[u][v] \in 1..INT_MAX-1
  BY <1>3, LinkCosts DEF Nodes
<1>5. /\ \A n \in Nodes : Visited(n) => Visited(n)' /\ results'[n] = results[n]
      /\ \A n \in Nodes : Visited(n)' => n \notin Relaxed(u) /\ (Visited(n) \/ n = u)
  BY <1>0, VisitMarks
<1>6. \A n \in Nodes : /\ n \in Relaxed(u) => results'[n] = Via(u, n)
                       /\ n \notin Relaxed(u) => results'[n] = results[n]
  BY <1>1
<1>7. e[1] = results[u].distance /\ e[2] = u /\ results'[u] = results[u]
  BY <1>1, <1>6
\* The node visited comes after those visited before,
<1>8. \A n \in VisitedNodes : \/ results[n].distance < results[u].distance
                              \/ results[n].distance = results[u].distance /\ n <= u
  BY <1>2, <1>7 DEF TieInv
\* and before all that is left in the queue.
<1>9. \A f \in queue' : \/ results[u].distance < f[1]
                        \/ results[u].distance = f[1] /\ u <= f[2]
  <2> TAKE f \in queue'
  <2>1. CASE f \in queue
    BY <1>1, <1>7, <2>1 DEF IsTop
  <2>2. CASE f \notin queue
    <3>1. PICK v \in Relaxed(u) : f = <<Via(u, v).distance, v>>
      BY <1>1, <2>2
    <3>2. f[1] = results[u].distance + graph[u][v] /\ graph[u][v] \in 1..INT_MAX-1
      BY <1>1, <1>4, <3>1
    <3>3. QED
      BY <1>3, <3>2, Infinity
  <2>3. QED
    BY <2>1, <2>2
<1>10. VisitedNodes' = VisitedNodes \cup {u}
  <2>1. Visited(u)'
    <3>1. u \notin Relaxed(u)
      BY <1>1
    <3>2. ASSUME NEW f \in queue', f[2] = u, f[1] = results[u].distance PROVE FALSE
      <4>1. CASE f \in queue /\ f # e
        <5>1. f \in Nat \X Nodes
          BY <4>1 DEF LinkStateInv, LinkStateTypeOK
        <5>2. f = <<f[1], f[2]>>
          BY <5>1
        <5>3. f = <<results[u].distance, u>>
          BY <3>2, <5>2
        <5>4. f = e
          BY <1>1, <5>3
        <5>5. QED
          BY <4>1, <5>4
      <4>2. CASE f \in {<<Via(u, v).distance, v>> : v \in Relaxed(u)}
        BY <3>1, <3>2, <4>2
      <4>3. QED
        BY <1>1, <4>1, <4>2
    <3>3. QED
      BY <1>1, <1>7, <3>2 DEF Visited, Reached
  <2>2. QED
    BY <1>2, <1>5, <2>1 DEF VisitedNodes
<1>11. \A n \in VisitedNodes' : \A f \in queue' :
         \/ results'[n].distance < f[1]
         \/ results'[n].distance = f[1] /\ n <= f[2]
  <2> SUFFICES ASSUME NEW n \in VisitedNodes', NEW f \in queue'
               PROVE  \/ results[n].distance < f[1]
                      \/ results[n].distance = f[1] /\ n <= f[2]
    BY <1>5, <1>7, <1>10 DEF VisitedNodes
  <2>1. CASE n = u
    BY <1>9, <2>1
  <2>2. CASE n # u
    <3>1. n \in VisitedNodes /\ n \in Nodes
      BY <1>10, <2>2 DEF VisitedNodes
    <3>2. /\ \/ results[n].distance < results[u].distance
             \/ results[n].distance = results[u].distance /\ n <= u
          /\ \/ results[u].distance < f[1]
             \/ results[u].distance = f[1] /\ u <= f[2]
      BY <1>8, <1>9, <3>1
    <3>3. /\ results[n].distance \in Int /\ results[u].distance \in Int
          /\ n \in Int /\ u \in Int /\ f[1] \in Int /\ f[2] \in Int
      <4>1. (f \in queue) \/ \E v \in Relaxed(u) : f = <<Via(u, v).distance, v>>
        BY <1>1
      <4>2. \A v \in Relaxed(u) : Via(u, v).distance \in Int /\ v \in Nodes
        BY <1>1, <1>3, <1>4, Infinity
      <4>3. f[1] \in Int /\ f[2] \in Nodes
        BY <1>3, <4>1, <4>2, Infinity
      <4>4. n \in Nat /\ u \in Nat /\ f[2] \in Nat
        BY <1>3, <3>1, <4>3
      <4>5. results[n].distance \in 0..INT_MAX /\ results[u].distance \in 0..INT_MAX
        BY <1>3, <3>1
      <4>6. QED
        BY <4>3, <4>4, <4>5, Infinity
    <3>4. QED
      BY <3>2, <3>3
  <2>3. QED
    BY <2>1, <2>2
<1>12. ASSUME NEW d \in Nodes \ {startNode}, Reached(results'[d])
       PROVE  OverNearest(graph, results', d, VisitedNodes')
  <2> DEFINE last == NextToLast(results'[d])
             far == results'[d].distance
             Offers(w) == d \in DOMAIN graph[w] /\ results[w].distance + graph[w][d] = far
  <2>1. \A w \in VisitedNodes' : results'[w] = results[w] /\ w \in Nodes
    BY <1>5, <1>7, <1>10 DEF VisitedNodes
  <2>2. SUFFICES ASSUME TRUE
                 PROVE  /\ last \in VisitedNodes' /\ Offers(last)
                        /\ \A w \in VisitedNodes' : Offers(w) =>
                             \/ results[last].distance < results[w].distance
                             \/ results[last].distance = results[w].distance /\ last <= w
    BY <2>1 DEF OverNearest
  <2>3. CASE d \in Relaxed(u)
    <3>1. /\ results'[d].path = Append(results[u].path, d)
          /\ far = results[u].distance + graph[u][d] /\ d \in DOMAIN graph[u]
          /\ far < results[d].distance
      BY <1>1, <1>6, <2>3
    <3>2. last = u
      <4> DEFINE path == results[u].path
      <4>1. LeadsTo(graph, startNode, path, u, results[u].distance)
        BY <1>1, <1>2 DEF LinkStateInv, DijkstraInv
      <4>2. path \in Seq(Nodes)
        BY <1>3
      <4> HIDE DEF path
      <4>3. Len(path) \in Nat \ {0} /\ path[Len(path)] = u
        <5>1. PICK k \in Nat : \E p, spent :
                /\ p[k] = u /\ Len(path) = k + 1
                /\ \A i \in 0..k : path[i+1] = p[i]
          BY <4>1 DEF LeadsTo
        <5>2. k \in 0..k
          OBVIOUS
        <5>3. QED
          BY <5>1, <5>2
      <4>4. /\ Len(Append(path, d)) = Len(path) + 1
            /\ \A i \in 1..Len(path) : Append(path, d)[i] = path[i]
        BY <4>2
      <4>5. Append(path, d)[Len(Append(path, d))-1] = u
        BY <4>3, <4>4
      <4>6. QED
        BY <3>1, <4>5 DEF NextToLast, path
    <3>3. ASSUME NEW w \in VisitedNodes', Offers(w) PROVE w = u
      <4> SUFFICES ASSUME w # u PROVE FALSE
        OBVIOUS
      <4>1. w \in VisitedNodes /\ w \in Nodes /\ Visited(w)
        BY <1>10 DEF VisitedNodes
      <4>2. ~(results[w].distance + graph[w][d] < results[d].distance)
        BY <1>2, <3>3, <4>1 DEF LinkStateInv, DijkstraInv, Shorter
      <4>3. QED
        BY <3>1, <3>3, <4>2
    <3>4. results[u].distance \in Int /\ u \in Int
      BY <1>3, Infinity
    <3>5. QED
      BY <1>10, <3>1, <3>2, <3>3, <3>4
  <2>4. CASE d \notin Relaxed(u)
    <3>1. results'[d] = results[d]
      BY <1>6, <2>4
    <3>2. OverNearest(graph, results, d, VisitedNodes)
      BY <1>2, <1>12, <3>1 DEF TieInv
    <3>3. /\ last \in VisitedNodes /\ Offers(last)
          /\ \A w \in VisitedNodes : Offers(w) =>
               \/ results[last].distance < results[w].distance
               \/ results[last].distance = results[w].distance /\ last <= w
      BY <3>1, <3>2 DEF OverNearest
    <3>4. \/ results[last].distance < results[u].distance
          \/ results[last].distance = results[u].distance /\ last <= u
      BY <1>8, <3>3
    <3>5. QED
      BY <1>10, <3>3, <3>4
  <2>5. QED
    BY <2>3, <2>4
<1>13. QED
  BY <1>2, <1>11, <1>12 DEF TieInv, Reached

\* A run ends: the queue is empty, so the nodes visited are those reached.
LEMMA EndRunTies ==
  LinkStateInv /\ TieInv /\ EndRun => TieInv'
<1> SUFFICES ASSUME LinkStateInv, TieInv, EndRun PROVE TieInv'
  OBVIOUS
<1>1. /\ pc = "dijkstra" /\ pc' # "dijkstra" /\ queue = {}
      /\ allResults' = Assigned(allResults, startNode, results)
      /\ graph' = graph /\ Nodes' = Nodes
  BY DEF EndRun, Nodes
<1>2. /\ DOMAIN allResults' = DOMAIN allResults \cup {startNode}
      /\ allResults'[startNode] = results
      /\ \A t \in DOMAIN allResults \ {startNode} : allResults'[t] = allResults[t]
  BY <1>1 DEF Assigned
<1>3. VisitedNodes = ReachedIn(graph, results)
  BY <1>1 DEF VisitedNodes, Visited, ReachedIn, Nodes
<1>4. ASSUME NEW s \in DOMAIN allResults', NEW d \in Nodes \ {s}, Reached(allResults'[s][d])
      PROVE  OverNearest(graph, allResults'[s], d, ReachedIn(graph, allResults'[s]))
  <2>1. CASE s = startNode
    <3>1. Reached(results[d])
      BY <1>2, <1>4, <2>1
    <3>2. OverNearest(graph, results, d, ReachedIn(graph, results))
      BY <1>1, <1>3, <1>4, <2>1, <3>1 DEF TieInv
    <3>3. QED
      BY <1>2, <2>1, <3>2
  <2>2. CASE s # startNode
    <3>1. s \in DOMAIN allResults /\ allResults'[s] = allResults[s]
      BY <1>2, <2>2
    <3>2. Reached(allResults[s][d])
      BY <1>4, <3>1
    <3>3. OverNearest(graph, allResults[s], d, ReachedIn(graph, allResults[s]))
      BY <1>4, <3>1, <3>2 DEF TieInv
    <3>4. QED
      BY <3>1, <3>3
  <2>3. QED
    BY <2>1, <2>2
<1>5. QED
  BY <1>1, <1>4 DEF TieInv, Reached

LEMMA TieInvKept == LinkStateInv /\ TieInv /\ [Next]_vars => TieInv'
<1> SUFFICES ASSUME LinkStateInv, TieInv, [Next]_vars PROVE TieInv'
  OBVIOUS
<1>1. CASE StartRun
  BY <1>1, StartRunTies
<1>2. CASE SkipStale
  BY <1>2, SkipStaleTies
<1>3. CASE Visit
  BY <1>3, VisitTies
<1>4. CASE EndRun
  BY <1>4, EndRunTies
<1>5. CASE ApplyChange
  <2>1. pc' # "dijkstra" /\ allResults' = <<>>
    BY <1>5 DEF ApplyChange
  <2>2. DOMAIN allResults' = {}
    BY <2>1
  <2>3. QED
    BY <2>1, <2>2 DEF TieInv
<1>6. CASE PrintTables \/ EndOfChanges
  <2>1. /\ pc' # "dijkstra" /\ graph' = graph /\ allResults' = allResults
        /\ Nodes' = Nodes
    BY <1>6 DEF PrintTables, EndOfChanges, Nodes
  <2>2. QED
    BY <2>1 DEF TieInv, Reached
<1>7. CASE UNCHANGED vars
  <2>1. /\ graph' = graph /\ startNode' = startNode /\ pc' = pc
        /\ results' = results /\ queue' = queue /\ allResults' = allResults
        /\ Nodes' = Nodes
    BY <1>7 DEF vars, runVars, Nodes
  <2>2. VisitedNodes' = VisitedNodes
    BY <2>1 DEF VisitedNodes, Visited, Reached
  <2>3. QED
    BY <2>1, <2>2 DEF TieInv, Reached
<1>8. QED
  BY <1>1, <1>2, <1>3, <1>4, <1>5, <1>6, <1>7 DEF Next

LEMMA RoutedInvariant == Spec => [](LinkStateInv /\ TieInv)
<1>1. Init => TieInv
  <2> SUFFICES ASSUME Init PROVE TieInv
    OBVIOUS
  <2>1. pc # "dijkstra" /\ DOMAIN allResults = {}
    BY DEF Init
  <2>2. QED
    BY <2>1 DEF TieInv
<1>2. LinkStateInv /\ TieInv /\ [Next]_vars => (LinkStateInv /\ TieInv)'
  BY LinkStateInvKept, TieInvKept
<1>3. QED
  BY <1>1, <1>2, LinkStateInvInitially, PTL DEF Spec

\* Of several shortest paths the one printed goes over the predecessor nearest
\* to the start, and of two as near over the smaller, whatever the order in
\* which the hash tables list the neighbours.
THEOREM TiesGoToNearest == Spec => []TieGoesToNearest
<1>1. LinkStateInv /\ TieInv => TieGoesToNearest
  <2> SUFFICES ASSUME LinkStateInv, TieInv, pc = "print",
                      NEW s \in nodeIDs, NEW d \in Nodes \ {s}, Reached(allResults[s][d])
               PROVE  /\ LastBefore(s, d) \in Predecessors(s, d)
                      /\ \A u \in Predecessors(s, d) :
                           LET near == allResults[s][LastBefore(s, d)].distance
                           IN  \/ near < allResults[s][u].distance
                               \/ near = allResults[s][u].distance /\ LastBefore(s, d) <= u
    BY DEF TieGoesToNearest
  <2>1. s \in DOMAIN allResults
    BY DEF LinkStateInv
  <2>2. OverNearest(graph, allResults[s], d, ReachedIn(graph, allResults[s]))
    BY <2>1 DEF TieInv
  <2>3. LastBefore(s, d) = NextToLast(allResults[s][d])
    BY DEF LastBefore, NextToLast
  <2>4. QED
    BY <2>2, <2>3 DEF OverNearest, ReachedIn, Predecessors, Nodes
<1>2. QED
  BY <1>1, RoutedInvariant, PTL

\* The first node on a settled path is on the shortest one: what the way costs
\* from there on is what the run from its end found.
LEMMA FirstHopIsBest ==
  ASSUME IsTopology(graph), NEW s \in Nodes, NEW d \in Nodes, s # d,
         NEW r \in DijkstraResult, IsSettledFrom(d, r),
         NEW path, NEW cost, LeadsTo(graph, s, path, d, cost), r[s].distance = cost
  PROVE  /\ path[2] \in DOMAIN graph[s]
         /\ graph[s][path[2]] + r[path[2]].distance = cost
<1>0. PICK n \in Nat : \E p, spent :
        /\ IsWay(graph, n, p, spent)
        /\ p[0] = s /\ p[n] = d /\ spent[n] = cost
        /\ Len(path) = n + 1
        /\ \A i \in 0..n : path[i+1] = p[i]
  BY DEF LeadsTo
<1>1. PICK p, spent :
        /\ IsWay(graph, n, p, spent)
        /\ p[0] = s /\ p[n] = d /\ spent[n] = cost
        /\ Len(path) = n + 1
        /\ \A i \in 0..n : path[i+1] = p[i]
  BY <1>0
<1>2. /\ p \in [0..n -> Nodes] /\ spent \in [0..n -> Nat] /\ spent[0] = 0
      /\ \A k \in 0..n-1 : /\ p[k+1] \in DOMAIN graph[p[k]]
                           /\ spent[k+1] = spent[k] + graph[p[k]][p[k+1]]
  BY <1>1 DEF IsWay, Nodes
<1> DEFINE Left(k) == r[p[k]].distance + spent[k]
           Fails == {i \in 0..n : ~(Left(n-i) <= cost)}
<1>3. \A k \in 0..n : p[k] \in Nodes /\ r[p[k]].distance \in 0..INT_MAX /\ spent[k] \in Nat
  BY <1>2
<1>4. \A k \in 0..n-1 : /\ p[k] \in DOMAIN graph[p[k+1]]
                         /\ graph[p[k+1]][p[k]] = graph[p[k]][p[k+1]]
                         /\ graph[p[k]][p[k+1]] \in 1..INT_MAX-1
  <2> TAKE k \in 0..n-1
  <2>1. \A u \in DOMAIN graph : \A v \in DOMAIN graph[u] :
          /\ u \in DOMAIN graph[v] /\ graph[v][u] = graph[u][v]
          /\ graph[u][v] \in 1..INT_MAX-1
    BY LinkCosts DEF IsTopology
  <2>2. p[k] \in DOMAIN graph
    <3>1. k \in 0..n
      OBVIOUS
    <3>2. QED
      BY <1>3, <3>1 DEF Nodes
  <2>3. p[k+1] \in DOMAIN graph[p[k]]
    BY <1>2
  <2>4. QED
    BY <2>1, <2>2, <2>3
<1>5. ASSUME NEW k \in 0..n-1, Left(k+1) <= cost PROVE Left(k) <= cost
  <2> DEFINE link == graph[p[k]][p[k+1]]
             at == r[p[k+1]].distance
             before == r[p[k]].distance
  <2>1. k \in 0..n /\ k+1 \in 0..n
    OBVIOUS
  <2>2. spent[k+1] = spent[k] + link
    BY <1>2
  <2>3. link \in 1..INT_MAX-1
    BY <1>4
  <2>4. at = INT_MAX \/ before <= at + link
    BY <1>3, <1>4, <2>1 DEF IsSettledFrom, Reached
  <2>5. at \in 0..INT_MAX /\ before \in 0..INT_MAX /\ spent[k] \in Nat
    BY <1>3, <2>1
  <2>6. at + spent[k+1] <= cost
    BY <1>5
  <2>7. cost \in Nat
    BY <1>1, <1>3
  <2> HIDE DEF at, before, link
  <2>8. before + spent[k] <= cost
    BY <2>2, <2>3, <2>4, <2>5, <2>6, <2>7, Infinity
  <2>9. QED
    BY <2>8 DEF before
<1>6. Left(n) <= cost
  <2>1. r[p[n]].distance = 0 /\ spent[n] = cost /\ cost \in Nat
    BY <1>1, <1>2 DEF IsSettledFrom
  <2>2. QED
    BY <2>1
<1> HIDE DEF Left
<1>7. Fails = {}
  <2> SUFFICES ASSUME Fails # {} PROVE FALSE
    OBVIOUS
  <2>1. PICK i \in Fails : \A j \in Fails : i <= j
    <3>1. Fails \subseteq Nat
      OBVIOUS
    <3>2. QED
      BY <3>1, NatLeast
  <2>2. i # 0
    <3>1. n-0 = n /\ ~(Left(n-i) <= cost)
      BY <2>1
    <3>2. QED
      BY <1>6, <3>1
  <2>3. i-1 \in 0..n /\ n-i \in 0..n-1 /\ n-(i-1) = (n-i)+1 /\ ~(i <= i-1)
    <3>1. i \in 0..n
      OBVIOUS
    <3> HIDE DEF Fails
    <3>2. QED
      BY <2>2, <3>1
  <2>4. Left((n-i)+1) <= cost
    <3>1. i-1 \notin Fails
      BY <2>1, <2>3
    <3>2. Left(n-(i-1)) <= cost
      BY <2>3, <3>1
    <3>3. QED
      BY <2>3, <3>2
  <2>5. Left(n-i) <= cost
    BY <1>5, <2>3, <2>4
  <2>6. QED
    BY <2>1, <2>5
<1>8. 1 \in 0..n /\ n-1 \in 0..n /\ 0 \in 0..n-1
  <2>1. n # 0
    BY <1>1
  <2>2. QED
    BY <2>1
<1>9. Left(1) <= cost
  <2>1. n-(n-1) = 1
    OBVIOUS
  <2>2. Left(n-(n-1)) <= cost
    BY <1>7, <1>8
  <2>3. QED
    BY <2>1, <2>2
<1>10. path[2] = p[1] /\ p[1] \in DOMAIN graph[s]
  <2>1. path[1+1] = p[1] /\ p[0+1] \in DOMAIN graph[p[0]]
    BY <1>1, <1>2, <1>8
  <2>2. QED
    BY <1>1, <2>1
<1>11. graph[s][p[1]] + r[p[1]].distance = cost
  <2> DEFINE hop == p[1]
             link == graph[s][hop]
             at == r[hop].distance
  <2>1. spent[0+1] = spent[0] + graph[p[0]][p[0+1]]
    BY <1>2, <1>8
  <2>2. spent[1] = link
    <3>1. link \in 1..INT_MAX-1
      BY <1>1, <1>4, <1>8
    <3>2. spent[1] = 0 + link
      BY <1>1, <1>2, <2>1
    <3> HIDE DEF link
    <3>3. QED
      BY <3>1, <3>2, Infinity
  <2>3. at + link <= cost
    BY <1>9, <2>2 DEF Left
  <2>4. /\ hop \in Nodes /\ s \in DOMAIN graph[hop] /\ graph[hop][s] = link
        /\ link \in 1..INT_MAX-1
    <3>1. /\ p[0] \in DOMAIN graph[p[0+1]]
          /\ graph[p[0+1]][p[0]] = graph[p[0]][p[0+1]]
          /\ graph[p[0]][p[0+1]] \in 1..INT_MAX-1
      BY <1>4, <1>8
    <3>2. QED
      BY <1>1, <1>3, <1>8, <3>1
  <2>5. at = INT_MAX \/ cost <= at + link
    BY <2>4 DEF IsSettledFrom, Reached
  <2>6. at \in 0..INT_MAX /\ cost \in 0..INT_MAX
    BY <2>4
  <2> HIDE DEF at, link
  <2>7. link + at = cost
    BY <2>3, <2>4, <2>5, <2>6, Infinity
  <2>8. QED
    BY <2>7 DEF at, link
<1>12. QED
  BY <1>10, <1>11

\* The distances printed are the lengths of the shortest paths, also after any
\* number of changes, and infinite where there is none; the tables have an entry
\* for each node that can be reached, with a next hop on a shortest path.
THEOREM PrintsShortestDistances == Spec => []DistancesAreShortest
<1>1. LinkStateInv /\ TieInv => DistancesAreShortest
  <2> SUFFICES ASSUME LinkStateInv, TieInv, pc = "print" PROVE DistancesAreShortest
    BY DEF DistancesAreShortest
  <2>1. IsTopology(graph) /\ nodeIDs \subseteq Nodes /\ DOMAIN allResults = nodeIDs
    BY DEF LinkStateInv, LinkStateTypeOK
  <2>2. ASSUME NEW s \in nodeIDs, NEW d \in Nodes
        PROVE  allResults[s][d].distance = Shortest(graph)[s][d]
    <3> DEFINE r == allResults[s]
               cost == [u \in Nodes |-> r[u].distance]
    <3>1. r \in DijkstraResult /\ IsSettledFrom(s, r) /\ s \in Nodes
      BY <2>1 DEF LinkStateInv, LinkStateTypeOK
    <3>2. cost \in [Nodes -> 0..INT_MAX]
      BY <3>1
    <3>3. cost[s] = 0
      BY <3>1 DEF IsSettledFrom
    <3>4. ASSUME NEW u \in Nodes, NEW v \in DOMAIN graph[u]
          PROVE  /\ v \in Nodes /\ u \in DOMAIN graph[v] /\ graph[v][u] = graph[u][v]
                 /\ graph[u][v] \in 1..INT_MAX-1
      BY <2>1, LinkCosts DEF IsTopology, Nodes
    <3>5. ASSUME NEW u \in Nodes, NEW v \in DOMAIN graph[u], cost[v] # INT_MAX
          PROVE  cost[u] <= graph[u][v] + cost[v]
      <4>1. v \in Nodes /\ u \in DOMAIN graph[v] /\ graph[v][u] = graph[u][v]
        BY <3>4
      <4>2. r[u].distance <= r[v].distance + graph[v][u]
        BY <3>1, <3>5, <4>1 DEF IsSettledFrom, Reached
      <4>3. r[v].distance \in 0..INT_MAX /\ graph[u][v] \in 1..INT_MAX-1
        BY <3>1, <3>4, <4>1
      <4>4. QED
        BY <4>1, <4>2, <4>3, Infinity
    <3>6. ASSUME NEW u \in Nodes \ {s}, cost[u] # INT_MAX
          PROVE  \E v \in DOMAIN graph[u] : cost[v] # INT_MAX /\ cost[u] = graph[u][v] + cost[v]
      <4> DEFINE last == NextToLast(r[u])
      <4>1. OverNearest(graph, r, u, ReachedIn(graph, r))
        BY <2>1, <3>6 DEF TieInv, Reached
      <4>2. /\ last \in Nodes /\ r[last].distance # INT_MAX
            /\ u \in DOMAIN graph[last]
            /\ r[last].distance + graph[last][u] = r[u].distance
        BY <4>1 DEF OverNearest, ReachedIn, Reached, Nodes
      <4> HIDE DEF last
      <4>3. /\ last \in DOMAIN graph[u] /\ graph[u][last] = graph[last][u]
            /\ graph[u][last] \in 1..INT_MAX-1
        BY <3>4, <4>2
      <4>4. r[last].distance \in 0..INT_MAX
        BY <3>1, <4>2
      <4>5. r[u].distance = graph[u][last] + r[last].distance
        BY <4>2, <4>3, <4>4, Infinity
      <4>6. QED
        BY <4>2, <4>3, <4>5
    <3> HIDE DEF cost
    <3>7. \A u \in Nodes : Shortest(graph)[u][s] = cost[u]
      BY <2>1, <3>1, <3>2, <3>3, <3>5, <3>6, SettledIsShortest DEF Nodes
    <3>8. Shortest(graph)[s][d] = Shortest(graph)[d][s]
      BY <2>1, <3>1, ShortestIsSymmetric DEF Nodes
    <3>9. QED
      BY <3>7, <3>8 DEF cost
  <2>3. ASSUME NEW s \in nodeIDs, NEW d \in nodeIDs, d # s,
               allResults[s][d].distance # INT_MAX
        PROVE  LET hop == allResults[s][d].path[2]
               IN  /\ hop \in DOMAIN graph[s]
                   /\ graph[s][hop] + Shortest(graph)[hop][d] = allResults[s][d].distance
    <3> DEFINE hop == allResults[s][d].path[2]
               cost == allResults[s][d].distance
    <3>1. /\ s \in Nodes /\ d \in Nodes
          /\ s \in DOMAIN allResults /\ d \in DOMAIN allResults
      BY <2>1
    <3>2. /\ allResults[d] \in DijkstraResult /\ IsSettledFrom(d, allResults[d])
          /\ IsSettledFrom(s, allResults[s])
      BY <3>1 DEF LinkStateInv, LinkStateTypeOK
    <3>3. LeadsTo(graph, s, allResults[s][d].path, d, cost)
      BY <2>3, <3>1, <3>2 DEF IsSettledFrom, Reached
    <3>4. allResults[d][s].distance = cost
      BY <2>1, <2>2, <3>1, ShortestIsSymmetric DEF Nodes
    <3>5. hop \in DOMAIN graph[s] /\ graph[s][hop] + allResults[d][hop].distance = cost
      BY <2>1, <2>3, <3>1, <3>2, <3>3, <3>4, FirstHopIsBest
    <3>6. hop \in Nodes
      BY <2>1, <3>1, <3>5 DEF IsTopology, Nodes
    <3>7. allResults[d][hop].distance = Shortest(graph)[hop][d]
      BY <2>1, <2>2, <3>1, <3>6, ShortestIsSymmetric DEF Nodes
    <3>8. QED
      BY <3>5, <3>7
  <2>4. ASSUME NEW s \in nodeIDs
        PROVE  LET table == TopologyEntries(s)
               IN  /\ DOMAIN table = {d \in nodeIDs : Shortest(graph)[s][d] # INT_MAX}
                   /\ \A d \in DOMAIN table \ {s} :
                        LET hop == table[d].next_hop
                        IN  /\ hop \in DOMAIN graph[s]
                            /\ graph[s][hop] + Shortest(graph)[hop][d] = table[d].distance
    <3> DEFINE table == TopologyEntries(s)
    <3>1. /\ DOMAIN table = {d \in nodeIDs : allResults[s][d].distance # INT_MAX}
          /\ \A d \in DOMAIN table :
               /\ table[d].distance = allResults[s][d].distance
               /\ d # s => table[d].next_hop = allResults[s][d].path[2]
      BY DEF TopologyEntries
    <3> HIDE DEF table
    <3>2. DOMAIN table = {d \in nodeIDs : Shortest(graph)[s][d] # INT_MAX}
      BY <2>1, <2>2, <3>1
    <3>3. ASSUME NEW d \in DOMAIN table \ {s}
          PROVE  LET hop == table[d].next_hop
                 IN  /\ hop \in DOMAIN graph[s]
                     /\ graph[s][hop] + Shortest(graph)[hop][d] = table[d].distance
      BY <2>3, <3>1
    <3>4. QED
      BY <3>2, <3>3 DEF table
  <2>5. QED
    BY <2>1, <2>2, <2>4 DEF DistancesAreShortest
<1>2. QED
  BY <1>1, RoutedInvariant, PTL
====
