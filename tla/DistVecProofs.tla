---------------------------- MODULE DistVecProofs ----------------------------
(***************************************************************************)
(* Theorems about distvec.cpp, for every topology, every changes file and  *)
(* every order the rounds may shuffle.                                     *)
(***************************************************************************)
EXTENDS DistVec, TopologyProofs

USE DEF Vectors

----------------------------------------------------------------------------
\* A node knows the way to itself, and has a next hop only where it has a way.
WaysInv ==
  \A u, d \in Nodes : /\ dv[u][u] = DistanceInfo(0, u)
                      /\ ~Reachable(u, d) => dv[u][d].nextHop = NoHop

\* What a round without a change has shown so far: no neighbour looked at had
\* anything better to offer, and since no vector changed none has now.
RoundInv ==
  pc = "update" /\ ~changed =>
    \A u \in Nodes \ unvisited : \A v \in DOMAIN graph[u] :
      (u = node /\ v \in rest) \/ \A d \in Nodes : ~Better(u, v, d)

DistVecInv ==
  /\ DistVecTypeOK
  /\ pc = "update" => noChangeCount < 3
  /\ pc # "update" => rest = {}
  /\ WaysInv
  /\ NextHopIsNearer
  /\ RoundInv
  /\ PrintsSettled

\* initializeDistanceVectors, at the start and after a change.
VectorsInv ==
  /\ dv \in Vectors
  /\ WaysInv
  /\ NextHopIsNearer

LEMMA InitialVectorsRight ==
  IsTopology(graph) /\ dv = InitialVectors => VectorsInv
<1> SUFFICES ASSUME IsTopology(graph), dv = InitialVectors PROVE VectorsInv
  OBVIOUS
<1>1. \A u \in Nodes : /\ u \in Nat
                       /\ graph[u] \in [DOMAIN graph[u] -> Costs]
                       /\ DOMAIN graph[u] \subseteq Nodes \ {u}
  BY DEF IsTopology, Nodes
<1>2. \A u, d \in Nodes :
        dv[u][d] = IF d = u THEN DistanceInfo(0, u)
                   ELSE IF d \in DOMAIN graph[u] THEN DistanceInfo(graph[u][d], d)
                   ELSE DistanceInfo(INT_MAX, NoHop)
  BY DEF InitialVectors
<1>3. \A u, d \in Nodes :
        d \in DOMAIN graph[u] => graph[u][d] \in Costs
  BY <1>1
<1>4. \A u, d \in Nodes :
        /\ dv[u][d] \in [distance : 0..INT_MAX, nextHop : Nodes \cup {NoHop}]
        /\ ~Reachable(u, d) => dv[u][d].nextHop = NoHop
  <2> TAKE u, d \in Nodes
  <2>1. CASE d = u
    <3>1. dv[u][d] = DistanceInfo(0, u)
      BY <1>2, <2>1
    <3>2. QED
      BY <2>1, <3>1, Infinity DEF DistanceInfo, Reachable
  <2>2. CASE d # u /\ d \in DOMAIN graph[u]
    <3>1. dv[u][d] = DistanceInfo(graph[u][d], d)
      BY <1>2, <2>2
    <3>2. graph[u][d] \in 1..INT_MAX-1
      BY <1>3, <2>2 DEF Costs
    <3>3. QED
      BY <3>1, <3>2, Infinity DEF DistanceInfo, Reachable
  <2>3. CASE d # u /\ d \notin DOMAIN graph[u]
    <3>1. dv[u][d] = DistanceInfo(INT_MAX, NoHop)
      BY <1>2, <2>3
    <3>2. QED
      BY <3>1, Infinity DEF DistanceInfo
  <2>4. QED
    BY <2>1, <2>2, <2>3
<1>5. dv \in Vectors
  BY <1>4 DEF InitialVectors
<1>6. WaysInv
  BY <1>2, <1>4 DEF WaysInv
<1>7. NextHopIsNearer
  <2> SUFFICES ASSUME NEW u \in Nodes, NEW d \in Nodes, u # d, Reachable(u, d)
               PROVE  LET hop == dv[u][d].nextHop
                      IN  /\ hop \in DOMAIN graph[u]
                          /\ Reachable(hop, d)
                          /\ dv[u][d].distance >= graph[u][hop] + dv[hop][d].distance
    BY DEF NextHopIsNearer
  <2>1. d \in DOMAIN graph[u] /\ dv[u][d] = DistanceInfo(graph[u][d], d)
    <3>1. d \notin DOMAIN graph[u] => dv[u][d] = DistanceInfo(INT_MAX, NoHop)
      BY <1>2
    <3>2. dv[u][d] # DistanceInfo(INT_MAX, NoHop)
      BY DEF Reachable, DistanceInfo
    <3>3. QED
      BY <1>2, <3>1, <3>2
  <2>2. dv[d][d] = DistanceInfo(0, d)
    BY <1>2
  <2>3. QED
    BY <1>3, <2>1, <2>2, Infinity DEF Reachable, DistanceInfo, Costs
<1>8. QED
  BY <1>5, <1>6, <1>7 DEF VectorsInv

\* One neighbour looked at: only the visitor's row changes, every entry costs
\* no more than before, and those that change go over that neighbour.
LEMMA NeighbourSeen ==
  ASSUME DistVecInv, pc = "update", NEW v \in rest,
         dv' = [dv EXCEPT ![node] = LookedAt(node, v)]
  PROVE  /\ node \in Nodes /\ v \in Nodes \ {node} /\ v \in DOMAIN graph[node]
         /\ dv' \in Vectors
         /\ \A u \in Nodes \ {node} : dv'[u] = dv[u]
         /\ \A u, d \in Nodes : dv'[u][d].distance <= dv[u][d].distance
         /\ \A d \in Nodes :
              IF Better(node, v, d)
              THEN /\ dv'[node][d] = DistanceInfo(NewDist(node, v, d), v)
                   /\ d # node /\ Reachable(v, d)
                   /\ NewDist(node, v, d) \in 0..INT_MAX-1
              ELSE dv'[node][d] = dv[node][d]
<1>1. /\ IsTopology(graph) /\ WaysInv
      /\ dv \in Vectors
  BY DEF DistVecInv, DistVecTypeOK
<1>2. /\ node \in Nodes /\ v \in DOMAIN graph[node]
      /\ Nodes \subseteq Nat
      /\ graph[node] \in [DOMAIN graph[node] -> Costs]
      /\ DOMAIN graph[node] \subseteq Nodes \ {node}
  BY <1>1 DEF DistVecInv, DistVecTypeOK, IsTopology, Nodes
<1>3. v \in Nodes \ {node} /\ graph[node][v] \in 1..INT_MAX-1
  BY <1>2 DEF Costs
<1>4. \A u, d \in Nodes :
        /\ dv[u][d].distance \in 0..INT_MAX
        /\ dv[u][d].nextHop \in Nodes \cup {NoHop}
  BY <1>1
<1>5. /\ \A u \in Nodes : dv[u][u].distance = 0
      /\ \A u, d \in Nodes : dv[u][d].distance = INT_MAX => dv[u][d].nextHop = NoHop
  <2>1. WaysInv
    BY <1>1
  <2>2. \A u \in Nodes : dv[u][u] = DistanceInfo(0, u)
    BY <2>1 DEF WaysInv
  <2>3. \A u \in Nodes : dv[u][u].distance = 0
    <3> TAKE u \in Nodes
    <3>1. dv[u][u] = DistanceInfo(0, u)
      BY <2>2
    <3>2. DistanceInfo(0, u).distance = 0
      BY DEF DistanceInfo
    <3>3. QED
      BY <3>1, <3>2
  <2>4. \A u, d \in Nodes : dv[u][d].distance = INT_MAX => dv[u][d].nextHop = NoHop
    BY <2>1 DEF WaysInv, Reachable
  <2>5. QED
    BY <2>3, <2>4
<1>6. ASSUME NEW d \in Nodes, Better(node, v, d)
      PROVE  /\ d # node /\ Reachable(v, d)
             /\ NewDist(node, v, d) \in 0..INT_MAX-1
             /\ NewDist(node, v, d) <= dv[node][d].distance
  <2> DEFINE new == NewDist(node, v, d)
             old == dv[node][d].distance
             far == dv[v][d].distance
             cost == graph[node][v]
  <2>1. /\ new = cost + far
        /\ far # INT_MAX
        /\ new < old \/ (new = old /\ v < dv[node][d].nextHop)
    BY <1>6 DEF Better, NewDist
  <2>2. /\ old \in 0..INT_MAX /\ far \in 0..INT_MAX
        /\ cost \in 1..INT_MAX-1
    BY <1>2, <1>3, <1>4
  <2>3. d = node => old = 0
    BY <1>1, <1>2, <1>5
  <2>4. old = INT_MAX => ~(v < dv[node][d].nextHop)
    <3>1. old = INT_MAX => dv[node][d].nextHop = NoHop
      BY <1>2, <1>5
    <3>2. v \in Nat
      BY <1>2, <1>3
    <3>3. QED
      BY <3>1, <3>2 DEF NoHop
  <2>5. far # INT_MAX => Reachable(v, d)
    BY DEF Reachable
  <2> HIDE DEF new, old, far, cost
  <2>6. new \in Nat \ {0} /\ new <= old
    BY <2>1, <2>2, Infinity
  <2>7. new # INT_MAX
    BY <2>1, <2>2, <2>4, <2>6, Infinity
  <2>8. new \in 0..INT_MAX-1 /\ d # node
    BY <2>2, <2>3, <2>6, <2>7, Infinity
  <2>9. QED
    BY <2>1, <2>5, <2>6, <2>8 DEF new, old
<1> DEFINE row == LookedAt(node, v)
<1>7. /\ DOMAIN row = Nodes /\ row = [d \in Nodes |-> row[d]]
      /\ \A d \in Nodes : row[d] = IF Better(node, v, d)
                                   THEN DistanceInfo(NewDist(node, v, d), v)
                                   ELSE dv[node][d]
  BY DEF LookedAt
<1> HIDE DEF row
<1>8. row \in [Nodes -> [distance : 0..INT_MAX, nextHop : Nodes \cup {NoHop}]]
  <2> SUFFICES ASSUME NEW d \in Nodes
               PROVE  row[d] \in [distance : 0..INT_MAX, nextHop : Nodes \cup {NoHop}]
    BY <1>7
  <2>1. CASE Better(node, v, d)
    <3>1. NewDist(node, v, d) \in 0..INT_MAX
      BY <1>6, <2>1, Infinity
    <3>2. row[d] = DistanceInfo(NewDist(node, v, d), v)
      BY <1>7, <2>1
    <3>3. QED
      BY <1>3, <3>1, <3>2 DEF DistanceInfo
  <2>2. CASE ~Better(node, v, d)
    BY <1>7, <1>1, <1>2, <2>2
  <2>3. QED
    BY <2>1, <2>2
<1>9. /\ dv'[node] = row
      /\ \A u \in Nodes \ {node} : dv'[u] = dv[u]
      /\ DOMAIN dv' = Nodes
  BY <1>1, <1>2 DEF row
<1>10. dv' \in Vectors
  BY <1>1, <1>2, <1>8, <1>9 DEF row
<1>11. \A d \in Nodes : IF Better(node, v, d)
                       THEN dv'[node][d] = DistanceInfo(NewDist(node, v, d), v)
                       ELSE dv'[node][d] = dv[node][d]
  BY <1>7, <1>9
<1>12. \A u, d \in Nodes : dv'[u][d].distance <= dv[u][d].distance
  <2> TAKE u, d \in Nodes
  <2>1. CASE u = node /\ Better(node, v, d)
    <3>1. dv'[u][d] = DistanceInfo(NewDist(node, v, d), v)
      BY <1>11, <2>1
    <3>2. dv'[u][d].distance = NewDist(node, v, d)
      BY <3>1 DEF DistanceInfo
    <3>3. QED
      BY <1>6, <2>1, <3>2
  <2>2. CASE ~(u = node /\ Better(node, v, d))
    <3>1. dv'[u][d] = dv[u][d]
      BY <1>9, <1>11, <2>2
    <3>2. QED
      BY <1>4, <3>1
  <2>3. QED
    BY <2>1, <2>2
<1>13. QED
  BY <1>2, <1>3, <1>6, <1>9, <1>10, <1>11, <1>12

\* So no next hop points away from its destination, whichever entries are new.
LEMMA NeighbourKeepsNearer ==
  ASSUME DistVecInv, pc = "update", VisitNeighbor
  PROVE  WaysInv' /\ NextHopIsNearer'
<1>1. PICK v \in rest : dv' = [dv EXCEPT ![node] = LookedAt(node, v)]
  BY DEF VisitNeighbor
<1>2. graph' = graph /\ Nodes' = Nodes
  BY DEF VisitNeighbor, Nodes
<1>3. /\ node \in Nodes /\ v \in Nodes \ {node} /\ v \in DOMAIN graph[node]
      /\ \A u \in Nodes \ {node} : dv'[u] = dv[u]
      /\ \A u, d \in Nodes : dv'[u][d].distance <= dv[u][d].distance
      /\ \A d \in Nodes :
           Better(node, v, d) =>
             /\ dv'[node][d] = DistanceInfo(NewDist(node, v, d), v)
             /\ d # node /\ Reachable(v, d)
             /\ NewDist(node, v, d) \in 0..INT_MAX-1
      /\ \A d \in Nodes : ~Better(node, v, d) => dv'[node][d] = dv[node][d]
  BY <1>1, NeighbourSeen
<1>4. /\ \A u, d \in Nodes : dv[u][d].distance \in 0..INT_MAX
      /\ \A u, d \in Nodes : dv'[u][d].distance \in 0..INT_MAX
  <2>1. dv' \in Vectors
    BY <1>1, NeighbourSeen
  <2>2. dv \in Vectors
    BY DEF DistVecInv, DistVecTypeOK
  <2>3. QED
    BY <2>1, <2>2
<1>5. \A u \in Nodes : /\ DOMAIN graph[u] \subseteq Nodes \ {u}
                       /\ \A w \in DOMAIN graph[u] : graph[u][w] \in Nat \ {0}
  BY Infinity DEF DistVecInv, DistVecTypeOK, IsTopology, Nodes, Costs
<1>6. ASSUME NEW u \in Nodes, NEW d \in Nodes
      PROVE  \/ dv'[u][d] = dv[u][d]
             \/ /\ u = node /\ Better(node, v, d)
                /\ dv'[u][d] = DistanceInfo(NewDist(node, v, d), v)
  BY <1>3
<1>7. ASSUME NEW u \in Nodes, NEW d \in Nodes, Reachable(u, d)
      PROVE  dv'[u][d].distance # INT_MAX
  BY <1>3, <1>4, <1>7, Infinity DEF Reachable
<1>8. WaysInv'
  <2> SUFFICES ASSUME NEW u \in Nodes, NEW d \in Nodes
               PROVE  /\ dv'[u][u] = DistanceInfo(0, u)
                      /\ dv'[u][d].distance = INT_MAX => dv'[u][d].nextHop = NoHop
    BY <1>2 DEF WaysInv, Reachable
  <2>1. /\ dv[u][u] = DistanceInfo(0, u)
        /\ dv[u][d].distance = INT_MAX => dv[u][d].nextHop = NoHop
    BY DEF DistVecInv, WaysInv, Reachable
  <2>2. dv'[u][u] = dv[u][u]
    BY <1>3, <1>6
  <2>3. CASE dv'[u][d] = dv[u][d]
    BY <2>1, <2>2, <2>3
  <2>4. CASE /\ u = node /\ Better(node, v, d)
             /\ dv'[u][d] = DistanceInfo(NewDist(node, v, d), v)
    <3>1. dv'[u][d].distance = NewDist(node, v, d)
      BY <2>4 DEF DistanceInfo
    <3>2. NewDist(node, v, d) # INT_MAX
      BY <1>3, <2>4, Infinity
    <3>3. QED
      BY <2>1, <2>2, <3>1, <3>2
  <2>5. QED
    BY <1>6, <2>3, <2>4
<1>9. NextHopIsNearer'
  <2> SUFFICES ASSUME NEW u \in Nodes, NEW d \in Nodes, u # d,
                      dv'[u][d].distance # INT_MAX
               PROVE  LET hop == dv'[u][d].nextHop
                      IN  /\ hop \in DOMAIN graph[u]
                          /\ dv'[hop][d].distance # INT_MAX
                          /\ dv'[u][d].distance >= graph[u][hop] + dv'[hop][d].distance
    BY <1>2 DEF NextHopIsNearer, Reachable
  <2>1. CASE dv'[u][d] = dv[u][d]
    <3> DEFINE hop == dv[u][d].nextHop
    <3>1. /\ hop \in DOMAIN graph[u]
          /\ Reachable(hop, d)
          /\ dv[u][d].distance >= graph[u][hop] + dv[hop][d].distance
      BY <2>1 DEF DistVecInv, NextHopIsNearer, Reachable
    <3> HIDE DEF hop
    <3>2. /\ hop \in Nodes /\ graph[u][hop] \in Nat
          /\ dv'[hop][d].distance # INT_MAX
          /\ dv'[hop][d].distance <= dv[hop][d].distance
      BY <1>3, <1>5, <1>7, <3>1
    <3>3. dv[u][d].distance >= graph[u][hop] + dv'[hop][d].distance
      BY <1>4, <3>1, <3>2, Infinity
    <3>4. QED
      BY <2>1, <3>1, <3>2, <3>3 DEF hop
  <2>2. CASE /\ u = node /\ Better(node, v, d)
             /\ dv'[u][d] = DistanceInfo(NewDist(node, v, d), v)
    <3>1. /\ dv'[u][d].distance = graph[u][v] + dv[v][d].distance
          /\ dv'[u][d].nextHop = v
      BY <2>2 DEF DistanceInfo, NewDist
    <3>2. dv'[v] = dv[v] /\ Reachable(v, d) /\ v \in DOMAIN graph[u]
      BY <1>3, <2>2
    <3>3. /\ graph[u][v] \in Nat /\ dv[v][d].distance \in Nat
      BY <1>3, <1>4, <1>5, <3>2, Infinity
    <3>4. QED
      BY <3>1, <3>2, <3>3 DEF Reachable
  <2>3. QED
    BY <1>6, <2>1, <2>2
<1>10. QED
  BY <1>8, <1>9

----------------------------------------------------------------------------
\* main establishes the invariant,
LEMMA DistVecInvInitially == Init => DistVecInv
<1> SUFFICES ASSUME Init PROVE DistVecInv
  OBVIOUS
<1>1. /\ IsTopology(graph) /\ nodeIDs = Nodes /\ pc = "update"
      /\ dv = InitialVectors /\ unvisited = Nodes
      /\ node = NoHop /\ rest = {} /\ changed = FALSE /\ noChangeCount = 0
  BY TopologiesAssumption DEF Init
<1>2. VectorsInv
  BY <1>1, InitialVectorsRight
<1>3. DistVecTypeOK
  <2>1. rest = {} => rest \subseteq Nodes
    OBVIOUS
  <2>2. noChangeCount \in 0..3
    BY <1>1
  <2>3. changed \in BOOLEAN
    BY <1>1, Zenon
  <2>4. QED
    BY <1>1, <1>2, <2>1, <2>2, <2>3, Zenon DEF DistVecTypeOK, VectorsInv
<1>4. QED
  BY <1>1, <1>2, <1>3 DEF DistVecInv, VectorsInv, RoundInv, PrintsSettled

\* and every step of it keeps it.
LEMMA DistVecInvKept == DistVecInv /\ [Next]_vars => DistVecInv'
<1> SUFFICES ASSUME DistVecInv, [Next]_vars PROVE DistVecInv'
  OBVIOUS
<1>1. CASE UNCHANGED vars
  <2>1. /\ UNCHANGED <<graph, nodeIDs, pc, dv, unvisited, node, rest, changed, noChangeCount>>
        /\ Nodes' = Nodes
    BY <1>1 DEF vars, roundVars, Nodes
  <2>2. DistVecTypeOK' /\ WaysInv' /\ NextHopIsNearer'
    BY <2>1 DEF DistVecInv, DistVecTypeOK, WaysInv, NextHopIsNearer, Reachable
  <2>3. RoundInv' /\ PrintsSettled'
    BY <2>1 DEF DistVecInv, RoundInv, PrintsSettled, Settled, Better, NewDist
  <2>4. QED
    BY <2>1, <2>2, <2>3 DEF DistVecInv
<1>2. CASE VisitNode
  <2>1. PICK u \in unvisited : /\ node' = u /\ rest' = DOMAIN graph[u]
                               /\ unvisited' = unvisited \ {u}
    BY <1>2 DEF VisitNode
  <2>2. /\ pc = "update" /\ rest = {}
        /\ UNCHANGED <<graph, nodeIDs, pc, dv, changed, noChangeCount>>
    BY <1>2 DEF VisitNode
  <2>3. u \in Nodes /\ DOMAIN graph[u] \subseteq Nodes
    BY DEF DistVecInv, DistVecTypeOK, IsTopology, Nodes
  <2>4. DistVecTypeOK'
    BY <2>1, <2>2, <2>3 DEF DistVecInv, DistVecTypeOK, Nodes
  <2>5. WaysInv' /\ NextHopIsNearer'
    BY <2>2 DEF DistVecInv, WaysInv, NextHopIsNearer, Reachable, Nodes
  <2>6. RoundInv'
    BY <2>1, <2>2, <2>3 DEF DistVecInv, RoundInv, Better, NewDist, Nodes
  <2>7. QED
    BY <2>2, <2>4, <2>5, <2>6 DEF DistVecInv, PrintsSettled
<1>3. CASE VisitNeighbor
  <2>1. PICK v \in rest :
          /\ rest' = rest \ {v}
          /\ dv' = [dv EXCEPT ![node] = LookedAt(node, v)]
          /\ changed' = (changed \/ \E d \in Nodes : Better(node, v, d))
    BY <1>3 DEF VisitNeighbor
  <2>2. /\ pc = "update"
        /\ UNCHANGED <<graph, nodeIDs, pc, unvisited, node, noChangeCount>>
        /\ Nodes' = Nodes
    BY <1>3 DEF VisitNeighbor, Nodes
  <2>3. /\ dv' \in Vectors
        /\ \A d \in Nodes : ~Better(node, v, d) => dv'[node][d] = dv[node][d]
        /\ \A u \in Nodes \ {node} : dv'[u] = dv[u]
    BY <2>1, <2>2, NeighbourSeen
  <2>4. DistVecTypeOK'
    BY <2>1, <2>2, <2>3 DEF DistVecInv, DistVecTypeOK
  <2>5. WaysInv' /\ NextHopIsNearer'
    BY <1>3, <2>2, NeighbourKeepsNearer
  <2>6. RoundInv'
    <3> SUFFICES ASSUME ~changed',
                        NEW u \in Nodes \ unvisited, NEW w \in DOMAIN graph[u],
                        ~(u = node /\ w \in rest')
                 PROVE  \A d \in Nodes : ~Better(u, w, d)'
      BY <2>2 DEF RoundInv
    <3>1. ~changed /\ \A d \in Nodes : ~Better(node, v, d)
      BY <2>1
    <3>2. w \in Nodes
      BY DEF DistVecInv, DistVecTypeOK, IsTopology, Nodes
    <3>3. \A x, d \in Nodes : dv'[x][d] = dv[x][d]
      BY <2>3, <3>1
    <3>4. \A d \in Nodes : Better(u, w, d)' = Better(u, w, d)
      BY <2>2, <3>2, <3>3 DEF Better, NewDist
    <3>5. CASE u = node /\ w = v
      BY <3>1, <3>4, <3>5
    <3>6. CASE ~(u = node /\ w = v)
      BY <2>1, <2>2, <3>1, <3>4, <3>6 DEF DistVecInv, RoundInv
    <3>7. QED
      BY <3>5, <3>6
  <2>7. QED
    BY <2>2, <2>4, <2>5, <2>6 DEF DistVecInv, PrintsSettled
<1>4. CASE EndRound
  <2>1. /\ pc = "update" /\ rest = {} /\ unvisited = {}
        /\ noChangeCount' = IF changed THEN 0 ELSE noChangeCount + 1
        /\ pc' = IF noChangeCount' < 3 THEN "update" ELSE "print"
        /\ unvisited' = Nodes /\ changed' = FALSE
        /\ UNCHANGED <<graph, nodeIDs, dv, node, rest>>
        /\ Nodes' = Nodes
    BY <1>4 DEF EndRound, Nodes
  <2>2. /\ noChangeCount \in 0..2 /\ noChangeCount' \in 0..3
        /\ pc' = "update" => noChangeCount' < 3
        /\ pc' = "print" => ~changed
    BY <2>1 DEF DistVecInv, DistVecTypeOK
  <2>3. DistVecTypeOK'
    BY <2>1, <2>2 DEF DistVecInv, DistVecTypeOK
  <2>4. WaysInv' /\ NextHopIsNearer' /\ RoundInv'
    BY <2>1 DEF DistVecInv, WaysInv, NextHopIsNearer, RoundInv, Reachable
  <2>5. PrintsSettled'
    <3> SUFFICES ASSUME pc' = "print" PROVE Settled'
      BY DEF PrintsSettled
    <3>1. Settled
      BY <2>1, <2>2 DEF DistVecInv, RoundInv, Settled
    <3>2. QED
      BY <2>1, <3>1 DEF Settled, Better, NewDist
  <2>6. QED
    BY <2>1, <2>2, <2>3, <2>4, <2>5 DEF DistVecInv
<1>5. CASE PrintTables \/ EndOfChanges
  <2>1. /\ pc # "update" /\ pc' \in {"changes", "done"}
        /\ UNCHANGED <<graph, nodeIDs, dv, roundVars>>
        /\ Nodes' = Nodes
    BY <1>5 DEF PrintTables, EndOfChanges, Nodes
  <2>2. QED
    BY <2>1 DEF roundVars, DistVecInv, DistVecTypeOK, WaysInv, NextHopIsNearer,
         RoundInv, PrintsSettled, Reachable
<1>6. CASE ApplyChange
  <2>1. PICK c \in Changes : /\ graph' = Changed(graph, c)
                             /\ nodeIDs' = nodeIDs \cup NamedBy(c)
    BY <1>6 DEF ApplyChange
  <2>2. /\ pc = "changes" /\ pc' = "update" /\ dv' = InitialVectors'
        /\ unvisited' = Nodes' /\ noChangeCount' = 0
        /\ UNCHANGED <<node, rest, changed>>
    BY <1>6 DEF ApplyChange
  <2>3. /\ IsTopology(graph)' /\ Nodes \subseteq Nodes'
        /\ nodeIDs' \subseteq Nodes'
    BY <2>1, ChangedIsTopology DEF DistVecInv, DistVecTypeOK, Nodes
  <2>4. VectorsInv'
    <3>1. (IsTopology(graph) /\ dv = InitialVectors => VectorsInv)'
      BY InitialVectorsRight, PTL
    <3>2. QED
      BY <2>2, <2>3, <3>1
  <2>5. DistVecTypeOK'
    BY <2>2, <2>3, <2>4 DEF DistVecInv, DistVecTypeOK, VectorsInv
  <2>6. QED
    BY <2>2, <2>4, <2>5 DEF DistVecInv, VectorsInv, RoundInv, PrintsSettled
<1>7. QED
  BY <1>1, <1>2, <1>3, <1>4, <1>5, <1>6 DEF Next

----------------------------------------------------------------------------
\* The vectors keep their types through every round and every change: every
\* distance known is below INT_MAX and every row has an entry for every node.
THEOREM DistVecTypeCorrect == Spec => []DistVecTypeOK
<1>1. DistVecInv => DistVecTypeOK
  BY DEF DistVecInv
<1>2. QED
  BY <1>1, DistVecInvInitially, DistVecInvKept, PTL DEF Spec

\* Next hops never lead away from their destination, in the middle of a round
\* as much as at its end, so the tables hold no forwarding loop.
THEOREM NeverLoops == Spec => []NextHopIsNearer
<1>1. DistVecInv => NextHopIsNearer
  BY DEF DistVecInv
<1>2. QED
  BY <1>1, DistVecInvInitially, DistVecInvKept, PTL DEF Spec

\* When the loop of main ends there is nothing left to improve.
THEOREM EndsSettled == Spec => []PrintsSettled
<1>1. DistVecInv => PrintsSettled
  BY DEF DistVecInv
<1>2. QED
  BY <1>1, DistVecInvInitially, DistVecInvKept, PTL DEF Spec

----------------------------------------------------------------------------
\* Where no neighbour has anything better to offer no way is cheaper than what
\* the vectors say, however long it is: by induction from its end.
LEMMA NoWayIsCheaper ==
  ASSUME DistVecInv, Settled, NEW n \in Nat, NEW p, NEW spent, IsWay(graph, n, p, spent)
  PROVE  dv[p[0]][p[n]].distance <= spent[n]
<1> DEFINE d == p[n]
           left(k) == dv[p[k]][d].distance
           Holds(k) == left(k) + spent[k] <= spent[n]
           Fails == {j \in 0..n : ~Holds(n-j)}
<1>1. /\ p \in [0..n -> Nodes] /\ spent \in [0..n -> Nat] /\ spent[0] = 0
      /\ \A k \in 0..n-1 : /\ p[k+1] \in DOMAIN graph[p[k]]
                           /\ spent[k+1] = spent[k] + graph[p[k]][p[k+1]]
  BY DEF IsWay, Nodes
<1>2. d \in Nodes /\ \A k \in 0..n : p[k] \in Nodes /\ spent[k] \in Nat
  BY <1>1
<1>3. \A u, v \in Nodes : dv[u][v].distance \in 0..INT_MAX
  BY DEF DistVecInv, DistVecTypeOK
<1>4. \A k \in 0..n : left(k) \in 0..INT_MAX
  BY <1>2, <1>3
<1>5. Holds(n)
  <2>1. dv[d][d] = DistanceInfo(0, d)
    BY <1>2 DEF DistVecInv, WaysInv
  <2>2. left(n) = 0
    BY <2>1 DEF DistanceInfo
  <2>3. QED
    BY <1>2, <2>2
<1>6. ASSUME NEW k \in 0..n-1, Holds(k+1) PROVE Holds(k)
  <2> DEFINE cost == graph[p[k]][p[k+1]]
  <2>1. k \in 0..n /\ k+1 \in 0..n
    OBVIOUS
  <2>2. p[k+1] \in DOMAIN graph[p[k]] /\ spent[k+1] = spent[k] + cost
    BY <1>1
  <2>3. cost \in Nat
    <3>1. graph[p[k]] \in [DOMAIN graph[p[k]] -> Costs]
      BY <1>2, <2>1 DEF DistVecInv, DistVecTypeOK, IsTopology, Nodes
    <3>2. QED
      BY <2>2, <3>1, Infinity DEF Costs
  <2>4. left(k+1) = INT_MAX \/ left(k) <= cost + left(k+1)
    <3>1. ~Better(p[k], p[k+1], d)
      BY <1>2, <2>1, <2>2 DEF Settled
    <3>2. left(k+1) = INT_MAX \/ ~(cost + left(k+1) < left(k))
      BY <3>1 DEF Better, NewDist
    <3>3. QED
      BY <1>4, <2>1, <2>3, <3>2, Infinity
  <2>5. /\ left(k) \in 0..INT_MAX /\ left(k+1) \in 0..INT_MAX
        /\ spent[k] \in Nat /\ spent[k+1] \in Nat /\ spent[n] \in Nat
    BY <1>2, <1>4, <2>1
  <2>6. left(k+1) + spent[k+1] <= spent[n]
    BY <1>6
  <2> HIDE DEF left, cost
  <2>7. left(k) + spent[k] <= spent[n]
    BY <2>2, <2>3, <2>4, <2>5, <2>6, Infinity
  <2>8. QED
    BY <2>7
<1> HIDE DEF Holds
<1>7. Fails = {}
  <2> SUFFICES ASSUME Fails # {} PROVE FALSE
    OBVIOUS
  <2>1. PICK j \in Fails : \A i \in Fails : j <= i
    <3>1. Fails \subseteq Nat
      OBVIOUS
    <3>2. QED
      BY <3>1, NatLeast
  <2>2. j # 0
    BY <1>5
  <2>3. j-1 \in 0..n /\ j-1 \notin Fails
    BY <2>1, <2>2
  <2>4. Holds((n-j)+1)
    BY <2>3
  <2>5. QED
    BY <1>6, <2>1, <2>2, <2>4
<1>8. Holds(0)
  BY <1>7
<1>9. QED
  BY <1>1, <1>4, <1>8 DEF Holds

\* A settled table names a neighbour at the cost of the table, and of those it
\* could name the one with the smallest number.
LEMMA BestNextHop ==
  ASSUME DistVecInv, Settled, NEW u \in Nodes, NEW d \in Nodes, u # d, Reachable(u, d)
  PROVE  LET hop == dv[u][d].nextHop
         IN  /\ hop \in DOMAIN graph[u] /\ Reachable(hop, d)
             /\ dv[u][d].distance = NewDist(u, hop, d)
             /\ \A v \in DOMAIN graph[u] :
                  NewDist(u, v, d) = dv[u][d].distance => hop <= v
<1> DEFINE hop == dv[u][d].nextHop
<1>1. /\ hop \in DOMAIN graph[u] /\ Reachable(hop, d)
      /\ dv[u][d].distance >= NewDist(u, hop, d)
  BY DEF DistVecInv, NextHopIsNearer, NewDist
<1> HIDE DEF hop
<1>2. /\ Nodes \subseteq Nat /\ DOMAIN graph[u] \subseteq Nodes
      /\ graph[u] \in [DOMAIN graph[u] -> Costs]
  BY DEF DistVecInv, DistVecTypeOK, IsTopology, Nodes
<1>3. \A v \in Nodes : dv[v][d].distance \in 0..INT_MAX
  BY DEF DistVecInv, DistVecTypeOK
<1>4. \A v \in DOMAIN graph[u] : NewDist(u, v, d) \in Nat
  <2> TAKE v \in DOMAIN graph[u]
  <2>1. graph[u][v] \in Costs /\ v \in Nodes
    BY <1>2
  <2>2. dv[v][d].distance \in 0..INT_MAX
    BY <1>3, <2>1
  <2>3. QED
    BY <2>1, <2>2, Infinity DEF NewDist, Costs
<1>5. ~(NewDist(u, hop, d) < dv[u][d].distance)
  <2>1. ~Better(u, hop, d)
    BY <1>1 DEF Settled
  <2>2. QED
    BY <1>1, <2>1 DEF Better, Reachable
<1>6. dv[u][d].distance \in Nat
  BY <1>3, Infinity
<1>7. dv[u][d].distance = NewDist(u, hop, d)
  BY <1>1, <1>4, <1>5, <1>6
<1>8. ASSUME NEW v \in DOMAIN graph[u], NewDist(u, v, d) = dv[u][d].distance
      PROVE  hop <= v
  <2>1. Reachable(v, d)
    <3>1. /\ NewDist(u, v, d) = graph[u][v] + dv[v][d].distance
          /\ graph[u][v] \in 1..INT_MAX-1 /\ dv[v][d].distance \in 0..INT_MAX
          /\ dv[u][d].distance \in 0..INT_MAX
      BY <1>2, <1>3 DEF NewDist, Costs
    <3>2. dv[v][d].distance # INT_MAX
      BY <1>8, <3>1, Infinity
    <3>3. QED
      BY <3>2 DEF Reachable
  <2>2. ~(v < hop)
    <3>1. ~Better(u, v, d)
      BY DEF Settled
    <3>2. QED
      BY <1>8, <2>1, <3>1 DEF Better, Reachable, hop
  <2>3. v \in Nat /\ hop \in Nat
    BY <1>1, <1>2
  <2>4. QED
    BY <2>2, <2>3
<1>9. QED
  BY <1>1, <1>7, <1>8 DEF hop

\* A settled table holds the lengths of the shortest paths.
LEMMA SettledTableIsShortest ==
  ASSUME DistVecInv, Settled
  PROVE  \A u, d \in Nodes : dv[u][d].distance = Shortest(graph)[u][d]
<1> SUFFICES ASSUME NEW d \in Nodes
             PROVE  \A u \in Nodes : dv[u][d].distance = Shortest(graph)[u][d]
  OBVIOUS
<1> DEFINE cost == [u \in Nodes |-> dv[u][d].distance]
<1>1. IsTopology(graph) /\ \A u \in Nodes : DOMAIN graph[u] \subseteq Nodes
  BY DEF DistVecInv, DistVecTypeOK, IsTopology, Nodes
<1>2. cost \in [Nodes -> 0..INT_MAX]
  BY DEF DistVecInv, DistVecTypeOK
<1>3. cost[d] = 0
  <2>1. dv[d][d] = DistanceInfo(0, d)
    BY DEF DistVecInv, WaysInv
  <2>2. QED
    BY <2>1 DEF DistanceInfo
<1>4. ASSUME NEW u \in Nodes, NEW v \in DOMAIN graph[u], cost[v] # INT_MAX
      PROVE  cost[u] <= graph[u][v] + cost[v]
  <2>1. v \in Nodes /\ graph[u][v] \in 1..INT_MAX-1
    BY <1>1, LinkCosts DEF Nodes
  <2>2. ~(graph[u][v] + cost[v] < cost[u])
    BY <1>4, <2>1 DEF Settled, Better, NewDist
  <2>3. cost[u] \in Int /\ cost[v] \in Int
    BY <1>2, <2>1, Infinity
  <2> HIDE DEF cost
  <2>4. QED
    BY <2>1, <2>2, <2>3
<1>5. ASSUME NEW u \in Nodes \ {d}, cost[u] # INT_MAX
      PROVE  \E v \in DOMAIN graph[u] : cost[v] # INT_MAX /\ cost[u] = graph[u][v] + cost[v]
  <2>1. Reachable(u, d)
    BY <1>5 DEF Reachable
  <2>2. PICK v \in DOMAIN graph[u] : Reachable(v, d) /\ dv[u][d].distance = NewDist(u, v, d)
    BY <2>1, BestNextHop
  <2>3. QED
    BY <1>1, <2>2 DEF Reachable, NewDist
<1> HIDE DEF cost
<1>6. \A u \in Nodes : Shortest(graph)[u][d] = cost[u]
  BY <1>1, <1>2, <1>3, <1>4, <1>5, SettledIsShortest DEF Nodes
<1>7. QED
  BY <1>6 DEF cost

\* The tables printed are those the assignment asks for: no way through the
\* network costs less than what they say, each cost is that of the link to the
\* next hop and what that node says, and no smaller neighbour does as well.
PrintsBestWays ==
  pc = "print" =>
    /\ \A n \in Nat : \A p, spent :
         IsWay(graph, n, p, spent) => dv[p[0]][p[n]].distance <= spent[n]
    /\ \A u, d \in Nodes : u # d /\ Reachable(u, d) =>
         LET hop == dv[u][d].nextHop
         IN  /\ hop \in DOMAIN graph[u]
             /\ dv[u][d].distance = NewDist(u, hop, d)
             /\ \A v \in DOMAIN graph[u] :
                  NewDist(u, v, d) = dv[u][d].distance => hop <= v

THEOREM PrintsTheBest == Spec => []PrintsBestWays
<1>1. DistVecInv => PrintsBestWays
  <2> SUFFICES ASSUME DistVecInv, pc = "print" PROVE PrintsBestWays
    BY DEF PrintsBestWays
  <2>1. Settled
    BY DEF DistVecInv, PrintsSettled
  <2>2. \A n \in Nat : \A p, spent :
          IsWay(graph, n, p, spent) => dv[p[0]][p[n]].distance <= spent[n]
    BY <2>1, NoWayIsCheaper
  <2>3. ASSUME NEW u \in Nodes, NEW d \in Nodes, u # d, Reachable(u, d)
        PROVE  LET hop == dv[u][d].nextHop
               IN  /\ hop \in DOMAIN graph[u]
                   /\ dv[u][d].distance = NewDist(u, hop, d)
                   /\ \A v \in DOMAIN graph[u] :
                        NewDist(u, v, d) = dv[u][d].distance => hop <= v
    BY <2>1, <2>3, BestNextHop
  <2>4. QED
    BY <2>2, <2>3 DEF PrintsBestWays
<1>2. QED
  BY <1>1, DistVecInvInitially, DistVecInvKept, PTL DEF Spec

\* The same compared with the recursion that computes shortest paths: the table
\* has an entry for each node that can be reached, with the least cost and, of the neighbours on a path of that cost, the one
\* with the smallest number, whatever order the rounds went in.
THEOREM PrintsShortestTable == Spec => []TableIsShortest
<1>1. DistVecInv => TableIsShortest
  <2> SUFFICES ASSUME DistVecInv, pc = "print" PROVE TableIsShortest
    BY DEF TableIsShortest
  <2> DEFINE OnShortest(u, d) ==
               {v \in DOMAIN graph[u] :
                  /\ Shortest(graph)[v][d] # INT_MAX
                  /\ graph[u][v] + Shortest(graph)[v][d] = Shortest(graph)[u][d]}
  <2>1. Settled
    BY DEF DistVecInv, PrintsSettled
  <2>2. \A u, d \in Nodes : dv[u][d].distance = Shortest(graph)[u][d]
    BY <2>1, SettledTableIsShortest
  <2>3. \A u \in Nodes : DOMAIN graph[u] \subseteq Nodes
    BY DEF DistVecInv, DistVecTypeOK, IsTopology, Nodes
  <2>4. ASSUME NEW u \in Nodes, NEW d \in Nodes, u # d, Reachable(u, d)
        PROVE  /\ dv[u][d].nextHop \in OnShortest(u, d)
               /\ \A v \in OnShortest(u, d) : dv[u][d].nextHop <= v
    <3> DEFINE hop == dv[u][d].nextHop
    <3>1. /\ hop \in DOMAIN graph[u] /\ Reachable(hop, d)
          /\ dv[u][d].distance = NewDist(u, hop, d)
          /\ \A v \in DOMAIN graph[u] : NewDist(u, v, d) = dv[u][d].distance => hop <= v
      BY <2>1, <2>4, BestNextHop
    <3> HIDE DEF hop
    <3>2. \A v \in DOMAIN graph[u] : NewDist(u, v, d) = graph[u][v] + Shortest(graph)[v][d]
      BY <2>2, <2>3 DEF NewDist
    <3>3. hop \in OnShortest(u, d)
      BY <2>2, <2>3, <3>1, <3>2 DEF Reachable
    <3>4. \A v \in OnShortest(u, d) : hop <= v
      BY <2>2, <3>1, <3>2
    <3>5. QED
      BY <3>3, <3>4 DEF hop
  <2>5. nodeIDs \subseteq Nodes
    BY DEF DistVecInv, DistVecTypeOK
  <2>6. ASSUME NEW u \in nodeIDs
        PROVE  LET table == TopologyEntries(u)
               IN  /\ DOMAIN table = {d \in nodeIDs : Shortest(graph)[u][d] # INT_MAX}
                   /\ \A d \in DOMAIN table :
                        /\ table[d].distance = Shortest(graph)[u][d]
                        /\ IF d = u THEN table[d].nextHop = u
                           ELSE /\ table[d].nextHop \in OnShortest(u, d)
                                /\ \A v \in OnShortest(u, d) : table[d].nextHop <= v
    <3> DEFINE table == TopologyEntries(u)
    <3>1. /\ DOMAIN table = {d \in nodeIDs : dv[u][d].distance # INT_MAX}
          /\ \A d \in DOMAIN table :
               /\ table[d].distance = dv[u][d].distance
               /\ table[d].nextHop = IF d = u THEN u ELSE dv[u][d].nextHop
      BY DEF TopologyEntries, DistanceInfo
    <3> HIDE DEF table, OnShortest
    <3>2. DOMAIN table = {d \in nodeIDs : Shortest(graph)[u][d] # INT_MAX}
      BY <2>2, <2>5, <3>1
    <3>3. ASSUME NEW d \in DOMAIN table, d # u
          PROVE  /\ table[d].nextHop \in OnShortest(u, d)
                 /\ \A v \in OnShortest(u, d) : table[d].nextHop <= v
      <4>1. u \in Nodes /\ d \in Nodes /\ Reachable(u, d)
        BY <2>5, <3>1, <3>3 DEF Reachable
      <4>2. table[d].nextHop = dv[u][d].nextHop
        BY <3>1, <3>3
      <4>3. QED
        BY <2>4, <3>3, <4>1, <4>2
    <3>4. \A d \in DOMAIN table : table[d].distance = Shortest(graph)[u][d]
      BY <2>2, <2>5, <3>1
    <3>5. QED
      BY <3>1, <3>2, <3>3, <3>4 DEF table
  <2>7. QED
    BY <2>6 DEF TableIsShortest
<1>2. QED
  BY <1>1, DistVecInvInitially, DistVecInvKept, PTL DEF Spec

----------------------------------------------------------------------------
\* The recursion of print_message_paths' hops has an answer, and never leaves
\* the nodes that know a way.
LEMMA HopsExist ==
  ASSUME DistVecInv, NEW s \in Nodes, NEW d \in Nodes, Reachable(s, d)
  PROVE  LET hop == Hops(s, d)
             N == Cardinality(Nodes)
         IN  /\ N \in Nat
             /\ hop[0] = s
             /\ \A k \in 0..N : hop[k] \in Nodes /\ Reachable(hop[k], d)
             /\ \A k \in 1..N : hop[k] = IF hop[k-1] = d THEN d
                                         ELSE dv[hop[k-1]][d].nextHop
<1> DEFINE N == Cardinality(Nodes)
           Known == {u \in Nodes : Reachable(u, d)}
           after(u) == IF u = d THEN d ELSE dv[u][d].nextHop
           path(h) == [k \in 0..N |-> IF k = 0 THEN s ELSE after(h[k-1])]
           step == [u \in Known |-> after(u)]
<1>1. N \in Nat
  BY FS_CardinalityType DEF DistVecInv, DistVecTypeOK, IsTopology, Nodes
<1> HIDE DEF N
<1>2. \A u \in Known : after(u) \in Known
  <2> TAKE u \in Known
  <2>1. \A v \in Nodes : DOMAIN graph[v] \subseteq Nodes
    BY DEF DistVecInv, DistVecTypeOK, IsTopology, Nodes
  <2>2. dv[d][d].distance = 0
    <3>1. dv[d][d] = DistanceInfo(0, d)
      BY DEF DistVecInv, WaysInv
    <3>2. QED
      BY <3>1 DEF DistanceInfo
  <2>3. CASE u = d
    BY <2>2, <2>3, Infinity DEF Reachable
  <2>4. CASE u # d
    BY <2>1, <2>4 DEF DistVecInv, NextHopIsNearer
  <2>5. QED
    BY <2>3, <2>4
<1>3. s \in Known /\ step \in [Known -> Known]
  BY <1>2
<1>4. PICK h : Iterates(h, Known, s, step, N)
  <2> HIDE DEF Known, step
  <2>1. QED
    BY <1>1, <1>3, IterationExists
<1>5. h = path(h)
  <2> DEFINE e == path(h)
  <2>1. ASSUME NEW k \in 0..N PROVE h[k] = e[k]
    <3>1. CASE k = 0
      BY <1>4, <3>1 DEF Iterates
    <3>2. CASE k # 0
      <4>1. k \in 1..N /\ k-1 \in 0..N
        BY <1>1, <3>2
      <4>2. h[k-1] \in Known /\ h[k] = step[h[k-1]]
        BY <1>4, <4>1 DEF Iterates
      <4>3. h[k] = after(h[k-1])
        BY <4>2
      <4>4. QED
        BY <3>2, <4>3
    <3>3. QED
      BY <3>1, <3>2
  <2>2. h = [k \in 0..N |-> h[k]] /\ e = [k \in 0..N |-> e[k]]
    BY <1>4 DEF Iterates
  <2> HIDE DEF e
  <2>3. h = e
    BY <2>1, <2>2
  <2>4. QED
    BY <2>3 DEF e
<1> DEFINE hop == Hops(s, d)
<1>6. hop = path(hop)
  BY <1>5 DEF Hops, N
<1> HIDE DEF hop
<1>7. hop[0] = s /\ \A k \in 1..N : hop[k] = after(hop[k-1])
  <2>1. 0 \in 0..N /\ \A k \in 1..N : k \in 0..N /\ k # 0
    BY <1>1
  <2>2. QED
    BY <1>6, <2>1
<1>8. \A k \in 0..N : hop[k] \in Known
  <2> DEFINE Fails == {k \in 0..N : hop[k] \notin Known}
  <2> SUFFICES ASSUME Fails # {} PROVE FALSE
    OBVIOUS
  <2>1. PICK k \in Fails : \A j \in Fails : k <= j
    <3>1. Fails \subseteq Nat
      OBVIOUS
    <3>2. QED
      BY <3>1, NatLeast
  <2>2. k # 0
    BY <1>3, <1>7, <2>1
  <2>3. k \in 1..N /\ k-1 \in 0..N /\ ~(k <= k-1)
    BY <1>1, <2>1, <2>2
  <2>4. hop[k-1] \in Known
    BY <2>1, <2>3
  <2>5. hop[k] \in Known
    BY <1>2, <1>7, <2>3, <2>4
  <2>6. QED
    BY <2>1, <2>5
<1>9. QED
  BY <1>1, <1>7, <1>8 DEF N, hop

\* Each hop printed leaves fewer nodes nearer to the destination, so there are
\* never more hops than nodes and the last one is the destination.
THEOREM MessagesGetThrough == Spec => []MessagesArrive
<1>1. DistVecInv => MessagesArrive
  <2> SUFFICES ASSUME DistVecInv, pc = "print",
                      NEW s \in Nodes, NEW d \in Nodes, Reachable(s, d)
               PROVE  LET hop == Hops(s, d)
                      IN  /\ hop[Cardinality(Nodes)] = d
                          /\ \A k \in 1..Cardinality(Nodes) :
                               hop[k-1] # d =>
                                 /\ hop[k] \in DOMAIN graph[hop[k-1]]
                                 /\ dv[hop[k-1]][d].distance
                                      = graph[hop[k-1]][hop[k]] + dv[hop[k]][d].distance
    BY DEF MessagesArrive
  <2> DEFINE N == Cardinality(Nodes)
             hop == Hops(s, d)
             cost == [u \in Nodes |-> dv[u][d].distance]
             left(k) == Cardinality(Nearer(cost, hop[k]))
  <2>1. Settled
    BY DEF DistVecInv, PrintsSettled
  <2>2. /\ N \in Nat /\ hop[0] = s
        /\ \A k \in 0..N : hop[k] \in Nodes /\ Reachable(hop[k], d)
        /\ \A k \in 1..N : hop[k] = IF hop[k-1] = d THEN d ELSE dv[hop[k-1]][d].nextHop
    BY HopsExist
  <2>3. cost \in [Nodes -> Nat] /\ IsFiniteSet(Nodes)
    BY Infinity DEF DistVecInv, DistVecTypeOK, IsTopology, Nodes
  <2>4. /\ \A u \in Nodes : Cardinality(Nearer(cost, u)) \in 0..N-1
        /\ \A u, v \in Nodes : cost[v] < cost[u] =>
             Cardinality(Nearer(cost, v)) < Cardinality(Nearer(cost, u))
    <3> HIDE DEF cost
    <3>1. QED
      BY <2>3, FewerAreNearer
  <2> HIDE DEF N, hop
  <2>5. ASSUME NEW k \in 1..N, hop[k-1] # d
        PROVE  /\ hop[k] \in DOMAIN graph[hop[k-1]]
               /\ dv[hop[k-1]][d].distance
                    = graph[hop[k-1]][hop[k]] + dv[hop[k]][d].distance
    <3>1. k-1 \in 0..N
      BY <2>2
    <3>2. /\ hop[k-1] \in Nodes /\ Reachable(hop[k-1], d)
          /\ hop[k] = dv[hop[k-1]][d].nextHop
      BY <2>2, <2>5, <3>1
    <3>3. QED
      BY <2>1, <2>5, <3>2, BestNextHop DEF NewDist
  <2>6. ASSUME NEW k \in 1..N, hop[k-1] # d PROVE left(k) < left(k-1)
    <3>1. k-1 \in 0..N /\ k \in 0..N
      BY <2>2
    <3>2. hop[k-1] \in Nodes /\ hop[k] \in Nodes
      BY <2>2, <3>1
    <3>3. hop[k] \in DOMAIN graph[hop[k-1]]
      BY <2>5, <2>6
    <3>4. graph[hop[k-1]][hop[k]] \in 1..INT_MAX-1
      BY <3>2, <3>3, LinkCosts DEF DistVecInv, DistVecTypeOK, Nodes
    <3>5. cost[hop[k-1]] = graph[hop[k-1]][hop[k]] + cost[hop[k]]
      BY <2>5, <2>6, <3>2
    <3>6. cost[hop[k]] < cost[hop[k-1]]
      BY <2>3, <3>2, <3>4, <3>5, Infinity
    <3>7. QED
      BY <2>4, <3>2, <3>6
  <2>7. ASSUME hop[N] # d PROVE FALSE
    <3> DEFINE Slow == {k \in 0..N : hop[k] # d /\ ~(left(k) <= N-1-k)}
    <3>1. Slow = {}
      <4> SUFFICES ASSUME Slow # {} PROVE FALSE
        OBVIOUS
      <4>1. PICK k \in Slow : \A j \in Slow : k <= j
        <5>1. Slow \subseteq Nat
          OBVIOUS
        <5>2. QED
          BY <5>1, NatLeast
      <4>2. k # 0
        <5>1. left(0) \in 0..N-1
          BY <2>2, <2>4
        <5> HIDE DEF left
        <5>2. left(0) <= N-1-0
          BY <2>2, <5>1
        <5>3. QED
          BY <4>1, <5>2
      <4>3. k \in 1..N /\ k-1 \in 0..N /\ k \in 0..N /\ ~(k <= k-1)
        BY <2>2, <4>1, <4>2
      <4>4. left(k) \in Int /\ left(k-1) \in Int
        BY <2>2, <2>4, <4>3
      <4>5. left(k-1) <= N-1-(k-1) /\ hop[k-1] # d
        BY <2>2, <4>1, <4>3
      <4>6. left(k) < left(k-1)
        BY <2>6, <4>3, <4>5
      <4> HIDE DEF left
      <4>7. left(k) <= N-1-k
        BY <2>2, <4>3, <4>4, <4>5, <4>6
      <4>8. QED
        BY <4>1, <4>7
    <3>2. left(N) \in 0..N-1
      BY <2>2, <2>4
    <3> HIDE DEF left
    <3>3. left(N) <= N-1-N
      BY <2>2, <2>7, <3>1
    <3>4. QED
      BY <2>2, <3>2, <3>3
  <2>8. QED
    BY <2>5, <2>7 DEF N, hop
<1>2. QED
  BY <1>1, DistVecInvInitially, DistVecInvKept, PTL DEF Spec
=============================================================================
