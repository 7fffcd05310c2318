--------------------------- MODULE TopologyProofs ---------------------------
(***************************************************************************)
(* What the proofs about both routing programs need of their graphs.       *)
(***************************************************************************)
EXTENDS Topology, FiniteSetTheorems, WellFoundedInduction, TLAPS

\* The form in which the proofs use induction: they look at the least number
\* for which a claim fails.
LEMMA NatLeast ==
  ASSUME NEW T, T \subseteq Nat, T # {}
  PROVE  \E x \in T : \A y \in T : x <= y
<1> DEFINE R == OpToRel(<, Nat)
<1>1. IsWellFoundedOn(R, Nat)
  BY NatLessThanWellFounded
<1>2. ASSUME NEW x \in Nat, NEW y \in Nat, x < y
      PROVE  <<x, y>> \in R
  BY <1>2 DEF R, OpToRel
<1> HIDE DEF R
<1>3. PICK x \in T : \A y \in T : ~ (<<y, x>> \in R)
  BY <1>1, WFMin
<1>4. ASSUME NEW y \in T PROVE x <= y
  <2>1. ~(y < x)
    BY <1>2, <1>3
  <2>2. x \in Nat /\ y \in Nat
    OBVIOUS
  <2>3. QED
    BY <2>1, <2>2
<1>5. QED
  BY <1>4

\* All that is used of INT_MAX.
LEMMA Infinity == INT_MAX \in Nat /\ INT_MAX > 1
BY SMT DEF INT_MAX

\* A link leads to another node and costs less than infinity.
LEMMA LinkCosts ==
  ASSUME NEW g, IsTopology(g)
  PROVE  \A u \in DOMAIN g : \A v \in DOMAIN g[u] :
           /\ v \in DOMAIN g /\ v # u
           /\ g[u][v] \in 1..INT_MAX-1
<1> TAKE u \in DOMAIN g
<1> TAKE v \in DOMAIN g[u]
<1>1. g[u] \in [DOMAIN g[u] -> Costs] /\ DOMAIN g[u] \subseteq DOMAIN g \ {u}
  BY DEF IsTopology
<1>2. g[u][v] \in Costs /\ v \in DOMAIN g \ {u}
  BY <1>1
<1>3. QED
  BY <1>2 DEF Costs


\* A way of n links through the graph g: the nodes it passes, and what it has
\* cost when it gets to each.
IsWay(g, n, p, spent) ==
  /\ p \in [0..n -> DOMAIN g] /\ spent \in [0..n -> Nat] /\ spent[0] = 0
  /\ \A k \in 0..n-1 : /\ p[k+1] \in DOMAIN g[p[k]]
                       /\ spent[k+1] = spent[k] + g[p[k]][p[k+1]]

\* What apply_changes leaves of a graph: two rows replaced, the rest as it was.
LEMMA ChangedRows ==
  ASSUME NEW g, IsTopology(g), NEW c \in Changes
  PROVE  LET h == Changed(g, c)
             a == c.node1
             b == c.node2
         IN  /\ DOMAIN h = DOMAIN g \cup {a, b}
             /\ \A w \in DOMAIN g \ {a, b} : h[w] = g[w]
             /\ c.cost = Broken =>
                  /\ h[a] = [w \in DOMAIN Row(g, a) \ {b} |-> Row(g, a)[w]]
                  /\ h[b] = [w \in DOMAIN Row(g, b) \ {a} |-> Row(g, b)[w]]
             /\ c.cost # Broken =>
                  /\ h[a] = Assigned(Row(g, a), b, c.cost)
                  /\ h[b] = Assigned(Row(g, b), a, c.cost)
<1> DEFINE a == c.node1
           b == c.node2
<1>1. a # b
  BY ChangesAssumption
<1>2. CASE c.cost = Broken
  <2> DEFINE k == EraseLink(g, a, b)
  <2>1. /\ DOMAIN k = DOMAIN g \cup {a}
        /\ k[a] = [w \in DOMAIN Row(g, a) \ {b} |-> Row(g, a)[w]]
        /\ \A w \in DOMAIN g \ {a} : k[w] = g[w]
    BY DEF EraseLink, Assigned
  <2>2. Row(k, b) = Row(g, b)
    BY <1>1, <2>1 DEF Row
  <2>3. Changed(g, c) = EraseLink(k, b, a)
    BY <1>2 DEF Changed
  <2> HIDE DEF k
  <2>4. /\ DOMAIN EraseLink(k, b, a) = DOMAIN k \cup {b}
        /\ EraseLink(k, b, a)[b] = [w \in DOMAIN Row(k, b) \ {a} |-> Row(k, b)[w]]
        /\ \A w \in DOMAIN k \ {b} : EraseLink(k, b, a)[w] = k[w]
    BY DEF EraseLink, Assigned
  <2>5. QED
    BY <1>1, <1>2, <2>1, <2>2, <2>3, <2>4
<1>3. CASE c.cost # Broken
  <2> DEFINE k == PutLink(g, a, b, c.cost)
  <2>1. /\ DOMAIN k = DOMAIN g \cup {a}
        /\ k[a] = Assigned(Row(g, a), b, c.cost)
        /\ \A w \in DOMAIN g \ {a} : k[w] = g[w]
    <3> DEFINE r == Assigned(Row(g, a), b, c.cost)
    <3>1. k = Assigned(g, a, r)
      BY DEF PutLink
    <3> HIDE DEF r, k
    <3>2. QED
      BY <3>1 DEF Assigned, r
  <2>2. Row(k, b) = Row(g, b)
    BY <1>1, <2>1 DEF Row
  <2>3. Changed(g, c) = PutLink(k, b, a, c.cost)
    BY <1>3 DEF Changed
  <2> HIDE DEF k
  <2>4. /\ DOMAIN PutLink(k, b, a, c.cost) = DOMAIN k \cup {b}
        /\ PutLink(k, b, a, c.cost)[b] = Assigned(Row(k, b), a, c.cost)
        /\ \A w \in DOMAIN k \ {b} : PutLink(k, b, a, c.cost)[w] = k[w]
    <3> DEFINE r == Assigned(Row(k, b), a, c.cost)
               h == PutLink(k, b, a, c.cost)
    <3>1. h = Assigned(k, b, r)
      BY DEF PutLink
    <3> HIDE DEF r, h
    <3>2. DOMAIN h = DOMAIN k \cup {b} /\ h[b] = r /\ \A w \in DOMAIN k \ {b} : h[w] = k[w]
      BY <3>1 DEF Assigned
    <3>3. QED
      BY <3>2 DEF h, r
  <2>5. QED
    BY <1>1, <1>3, <2>1, <2>2, <2>3, <2>4
<1>4. QED
  BY <1>2, <1>3

\* A change of a topology leaves a topology: links keep their two ends.
LEMMA ChangedIsTopology ==
  ASSUME NEW g, IsTopology(g), NEW c \in Changes
  PROVE  /\ IsTopology(Changed(g, c))
         /\ DOMAIN g \subseteq DOMAIN Changed(g, c)
         /\ NamedBy(c) \subseteq DOMAIN Changed(g, c)
<1> DEFINE h == Changed(g, c)
           a == c.node1
           b == c.node2
<1>1. /\ a # b /\ a \in Nat /\ b \in Nat
      /\ c.cost = Broken \/ c.cost \in Costs
  BY ChangesAssumption
<1>2. /\ DOMAIN h = DOMAIN g \cup {a, b}
      /\ \A w \in DOMAIN g \ {a, b} : h[w] = g[w]
      /\ c.cost = Broken =>
           /\ h[a] = [w \in DOMAIN Row(g, a) \ {b} |-> Row(g, a)[w]]
           /\ h[b] = [w \in DOMAIN Row(g, b) \ {a} |-> Row(g, b)[w]]
      /\ c.cost # Broken =>
           /\ h[a] = Assigned(Row(g, a), b, c.cost)
           /\ h[b] = Assigned(Row(g, b), a, c.cost)
  BY ChangedRows
<1> HIDE DEF h
<1>3. /\ DOMAIN g \subseteq Nat /\ IsFiniteSet(DOMAIN g)
      /\ \A u \in DOMAIN g :
           /\ g[u] \in [DOMAIN g[u] -> Costs]
           /\ DOMAIN g[u] \subseteq DOMAIN g \ {u}
           /\ \A v \in DOMAIN g[u] : u \in DOMAIN g[v] /\ g[v][u] = g[u][v]
  BY DEF IsTopology
<1>4. DOMAIN h \subseteq Nat /\ IsFiniteSet(DOMAIN h)
  <2>1. DOMAIN h = (DOMAIN g \cup {a}) \cup {b}
    BY <1>2
  <2>2. IsFiniteSet(DOMAIN h)
    <3>1. IsFiniteSet(DOMAIN g \cup {a})
      BY <1>3, FS_AddElement
    <3>2. QED
      BY <2>1, <3>1, FS_AddElement
  <2>3. QED
    BY <1>1, <1>2, <1>3, <2>2
<1>5. \A u \in {a, b} :
        /\ Row(g, u) \in [DOMAIN Row(g, u) -> Costs]
        /\ DOMAIN Row(g, u) \subseteq DOMAIN g \ {u}
        /\ \A v \in DOMAIN Row(g, u) : u \in DOMAIN g /\ g[u] = Row(g, u)
  <2> TAKE u \in {a, b}
  <2>1. CASE u \in DOMAIN g
    BY <1>3, <2>1 DEF Row
  <2>2. CASE u \notin DOMAIN g
    BY <2>2 DEF Row
  <2>3. QED
    BY <2>1, <2>2
<1>6. ASSUME NEW u \in DOMAIN h
      PROVE  /\ h[u] \in [DOMAIN h[u] -> Costs]
             /\ DOMAIN h[u] \subseteq DOMAIN h \ {u}
  <2>1. CASE u \notin {a, b}
    BY <1>2, <1>3, <2>1
  <2>2. CASE u = a
    <3>1. CASE c.cost = Broken
      BY <1>1, <1>2, <1>5, <2>2, <3>1
    <3>2. CASE c.cost # Broken
      BY <1>1, <1>2, <1>5, <2>2, <3>2 DEF Assigned
    <3>3. QED
      BY <3>1, <3>2
  <2>3. CASE u = b
    <3>1. CASE c.cost = Broken
      BY <1>1, <1>2, <1>5, <2>3, <3>1
    <3>2. CASE c.cost # Broken
      BY <1>1, <1>2, <1>5, <2>3, <3>2 DEF Assigned
    <3>3. QED
      BY <3>1, <3>2
  <2>4. QED
    BY <2>1, <2>2, <2>3
\* The cost of each link of the graph changed, whichever its ends are.
<1>7. ASSUME NEW u \in DOMAIN h, NEW v
      PROVE  /\ {u, v} # {a, b} =>
                  /\ v \in DOMAIN h[u] <=> u \in DOMAIN g /\ v \in DOMAIN g[u]
                  /\ v \in DOMAIN h[u] => h[u][v] = g[u][v]
             /\ {u, v} = {a, b} =>
                  /\ v \in DOMAIN h[u] <=> c.cost # Broken
                  /\ v \in DOMAIN h[u] => h[u][v] = c.cost
  <2>1. CASE u \notin {a, b}
    BY <1>2, <2>1
  <2>2. CASE u = a
    <3>1. CASE v = b
      BY <1>1, <1>2, <2>2, <3>1 DEF Assigned
    <3>2. CASE v # b
      BY <1>1, <1>2, <2>2, <3>2 DEF Assigned, Row
    <3>3. QED
      BY <3>1, <3>2
  <2>3. CASE u = b
    <3>1. CASE v = a
      BY <1>1, <1>2, <2>3, <3>1 DEF Assigned
    <3>2. CASE v # a
      BY <1>1, <1>2, <2>3, <3>2 DEF Assigned, Row
    <3>3. QED
      BY <3>1, <3>2
  <2>4. QED
    BY <2>1, <2>2, <2>3
<1>8. ASSUME NEW u \in DOMAIN h, NEW v \in DOMAIN h[u]
      PROVE  u \in DOMAIN h[v] /\ h[v][u] = h[u][v]
  <2>1. v \in DOMAIN h
    BY <1>6
  <2>2. CASE {u, v} = {a, b}
    BY <1>7, <2>1, <2>2
  <2>3. CASE {u, v} # {a, b}
    <3>1. u \in DOMAIN g /\ v \in DOMAIN g[u] /\ h[u][v] = g[u][v]
      BY <1>7, <2>3
    <3>2. u \in DOMAIN g[v] /\ g[v][u] = g[u][v] /\ v \in DOMAIN g
      BY <1>3, <3>1
    <3>3. {v, u} # {a, b}
      BY <2>3
    <3>4. u \in DOMAIN h[v] /\ h[v][u] = g[v][u]
      BY <1>7, <2>1, <3>2, <3>3
    <3>5. QED
      BY <3>1, <3>2, <3>4
  <2>4. QED
    BY <2>2, <2>3, Zenon
<1>9. IsTopology(h)
  BY <1>4, <1>6, <1>8 DEF IsTopology
<1>10. QED
  BY <1>2, <1>9 DEF NamedBy, h

----------------------------------------------------------------------------
\* f holds what step makes of a when it is applied up to n times.
Iterates(f, X, a, step, n) ==
  f \in [0..n -> X] /\ f[0] = a /\ \A k \in 1..n : f[k] = step[f[k-1]]

LEMMA IterationExists ==
  ASSUME NEW X, NEW a \in X, NEW step \in [X -> X], NEW N \in Nat
  PROVE  \E f : Iterates(f, X, a, step, N)
<1> DEFINE Fails == {n \in Nat : ~\E f : Iterates(f, X, a, step, n)}
<1>1. Fails = {}
  <2> SUFFICES ASSUME Fails # {} PROVE FALSE
    OBVIOUS
  <2>1. PICK n \in Fails : \A j \in Fails : n <= j
    <3>1. Fails \subseteq Nat
      OBVIOUS
    <3>2. QED
      BY <3>1, NatLeast
  <2>2. CASE n = 0
    <3> DEFINE f == [k \in 0..0 |-> a]
    <3>1. Iterates(f, X, a, step, 0)
      BY DEF Iterates
    <3>2. QED
      BY <2>1, <2>2, <3>1
  <2>3. CASE n # 0
    <3>1. n-1 \in Nat /\ n-1 \notin Fails
      <4>1. n \in Nat
        OBVIOUS
      <4>2. n-1 \in Nat /\ ~(n <= n-1)
        BY <2>3, <4>1
      <4> HIDE DEF Fails
      <4>3. QED
        BY <2>1, <4>2
    <3>2. PICK f : Iterates(f, X, a, step, n-1)
      BY <3>1
    <3> DEFINE h == [k \in 0..n |-> IF k = n THEN step[f[n-1]] ELSE f[k]]
    <3>3. n-1 \in 0..n-1 /\ f[n-1] \in X
      BY <3>1, <3>2 DEF Iterates
    <3>4. /\ \A k \in 0..n-1 : k \in 0..n /\ h[k] = f[k]
          /\ h[n] = step[f[n-1]]
      BY <3>1
    <3>5. h \in [0..n -> X]
      <4>1. \A k \in 0..n : k # n => k \in 0..n-1
        BY <3>1
      <4>2. QED
        BY <3>2, <3>3, <4>1 DEF Iterates
    <3> HIDE DEF h
    <3>6. ASSUME NEW k \in 1..n PROVE h[k] = step[h[k-1]]
      <4>1. CASE k = n
        BY <3>3, <3>4, <4>1
      <4>2. CASE k # n
        <5>1. k \in 1..n-1 /\ k \in 0..n-1 /\ k-1 \in 0..n-1
          BY <3>1, <4>2
        <5>2. QED
          BY <3>2, <3>4, <5>1 DEF Iterates
      <4>3. QED
        BY <4>1, <4>2
    <3>7. h[0] = a
      BY <3>1, <3>2, <3>4 DEF Iterates
    <3>8. Iterates(h, X, a, step, n)
      BY <3>5, <3>6, <3>7 DEF Iterates
    <3>9. QED
      BY <2>1, <3>8
  <2>4. QED
    BY <2>2, <2>3
<1>2. QED
  BY <1>1

----------------------------------------------------------------------------
\* Nodes with a cost below that of u.  The induction along paths of decreasing
\* cost is about how many of them there are.
Nearer(cost, u) == {w \in DOMAIN cost : cost[w] < cost[u]}

LEMMA FewerAreNearer ==
  ASSUME NEW S, IsFiniteSet(S), NEW cost \in [S -> Nat]
  PROVE  /\ Cardinality(S) \in Nat
         /\ \A u \in S : Cardinality(Nearer(cost, u)) \in 0..Cardinality(S)-1
         /\ \A u, v \in S : cost[v] < cost[u] =>
              Cardinality(Nearer(cost, v)) < Cardinality(Nearer(cost, u))
<1> DEFINE N == Cardinality(S)
<1>1. N \in Nat
  BY FS_CardinalityType
<1>2. ASSUME NEW u \in S
      PROVE  /\ IsFiniteSet(Nearer(cost, u)) /\ Cardinality(Nearer(cost, u)) \in Nat
             /\ Cardinality(Nearer(cost, u)) <= N - 1
  <2> DEFINE near == Nearer(cost, u)
  <2>1. near \in SUBSET S /\ u \notin near
    BY DEF Nearer
  <2> HIDE DEF near
  <2>2. /\ IsFiniteSet(near) /\ Cardinality(near) <= N
        /\ N = Cardinality(near) => S = near
    BY <2>1, FS_Subset
  <2>3. Cardinality(near) \in Nat
    BY <2>2, FS_CardinalityType
  <2>4. N # Cardinality(near)
    BY <2>1, <2>2
  <2> HIDE DEF N
  <2>5. Cardinality(near) <= N - 1
    BY <1>1, <2>2, <2>3, <2>4
  <2>6. QED
    BY <2>2, <2>3, <2>5 DEF near
<1>3. ASSUME NEW u \in S, NEW v \in S, cost[v] < cost[u]
      PROVE  Cardinality(Nearer(cost, v)) < Cardinality(Nearer(cost, u))
  <2> DEFINE near == Nearer(cost, u)
             nearer == Nearer(cost, v)
  <2>1. \A w \in S : cost[w] \in Nat
    OBVIOUS
  <2>2. nearer \in SUBSET near /\ v \in near /\ v \notin nearer
    BY <1>3, <2>1 DEF Nearer
  <2>3. /\ IsFiniteSet(near) /\ Cardinality(near) \in Nat
        /\ IsFiniteSet(nearer) /\ Cardinality(nearer) \in Nat
    BY <1>2
  <2> HIDE DEF near, nearer
  <2>4. /\ Cardinality(nearer) <= Cardinality(near)
        /\ Cardinality(near) = Cardinality(nearer) => near = nearer
    BY <2>2, <2>3, FS_Subset
  <2>5. Cardinality(nearer) < Cardinality(near)
    BY <2>2, <2>3, <2>4
  <2>6. QED
    BY <2>5 DEF near, nearer
<1> HIDE DEF N
<1>4. \A u \in S : Cardinality(Nearer(cost, u)) \in 0..N-1
  BY <1>1, <1>2
<1>5. QED
  BY <1>1, <1>3, <1>4 DEF N

----------------------------------------------------------------------------
\* Costs of ways between any two nodes of a graph, INT_MAX when there is none.
CostTables(g) == [DOMAIN g -> [DOMAIN g -> 0..INT_MAX]]

\* What a further link saves: each entry of OneLinkMore is one it had or goes over
\* a neighbour, and is the least of those.
LEMMA OneLinkMoreIsLeast ==
  ASSUME NEW g, IsTopology(g), NEW w \in CostTables(g)
  PROVE  /\ OneLinkMore(g, w) \in CostTables(g)
         /\ \A u, d \in DOMAIN g :
              LET least == OneLinkMore(g, w)[u][d]
              IN  /\ least <= w[u][d]
                  /\ \A v \in DOMAIN g[u] : w[v][d] # INT_MAX =>
                       least <= g[u][v] + w[v][d]
                  /\ \/ least = w[u][d]
                     \/ \E v \in DOMAIN g[u] : /\ w[v][d] # INT_MAX
                                               /\ least = g[u][v] + w[v][d]
<1> DEFINE Over(u, d) == {v \in DOMAIN g[u] : w[v][d] # INT_MAX}
           Offers(u, d) == {w[u][d]} \cup {g[u][v] + w[v][d] : v \in Over(u, d)}
           more == OneLinkMore(g, w)
<1>1. \A u, d \in DOMAIN g : w[u][d] \in 0..INT_MAX
  BY DEF CostTables
<1>2. \A u \in DOMAIN g : \A v \in DOMAIN g[u] : v \in DOMAIN g /\ g[u][v] \in Nat
  <2> TAKE u \in DOMAIN g
  <2> TAKE v \in DOMAIN g[u]
  <2>1. g[u] \in [DOMAIN g[u] -> Costs] /\ DOMAIN g[u] \subseteq DOMAIN g \ {u}
    BY DEF IsTopology
  <2>2. QED
    BY <2>1, Infinity DEF Costs
<1>3. ASSUME NEW u \in DOMAIN g, NEW d \in DOMAIN g
      PROVE  /\ more[u][d] \in Offers(u, d)
             /\ \A x \in Offers(u, d) : more[u][d] <= x
  <2>1. Offers(u, d) \subseteq Nat
    <3>1. \A v \in Over(u, d) : g[u][v] + w[v][d] \in Nat
      BY <1>1, <1>2, Infinity
    <3>2. QED
      BY <1>1, <3>1, Infinity
  <2>2. more[u][d] = Min(Offers(u, d))
    BY DEF OneLinkMore
  <2> HIDE DEF Offers, more
  <2>3. Offers(u, d) # {}
    BY DEF Offers
  <2>4. PICK x \in Offers(u, d) : \A y \in Offers(u, d) : x <= y
    BY <2>1, <2>3, NatLeast
  <2>5. QED
    BY <2>2, <2>4 DEF Min
<1>4. ASSUME NEW u \in DOMAIN g, NEW d \in DOMAIN g
      PROVE  /\ more[u][d] <= w[u][d] /\ more[u][d] \in 0..INT_MAX
             /\ \A v \in DOMAIN g[u] : w[v][d] # INT_MAX => more[u][d] <= g[u][v] + w[v][d]
             /\ \/ more[u][d] = w[u][d]
                \/ \E v \in DOMAIN g[u] : /\ w[v][d] # INT_MAX
                                          /\ more[u][d] = g[u][v] + w[v][d]
  <2> HIDE DEF more
  <2>1. /\ more[u][d] \in Offers(u, d) /\ w[u][d] \in Offers(u, d)
        /\ \A v \in Over(u, d) : g[u][v] + w[v][d] \in Offers(u, d)
    BY <1>3
  <2>2. /\ more[u][d] <= w[u][d]
        /\ \A v \in Over(u, d) : more[u][d] <= g[u][v] + w[v][d]
    BY <1>3, <2>1
  <2>3. \/ more[u][d] = w[u][d]
        \/ \E v \in Over(u, d) : more[u][d] = g[u][v] + w[v][d]
    BY <2>1
  <2>4. more[u][d] \in Nat
    <3>1. CASE more[u][d] = w[u][d]
      BY <1>1, <3>1
    <3>2. CASE \E v \in Over(u, d) : more[u][d] = g[u][v] + w[v][d]
      BY <1>1, <1>2, <3>2, Infinity
    <3>3. QED
      BY <2>3, <3>1, <3>2
  <2>5. more[u][d] \in 0..INT_MAX
    <3>1. w[u][d] \in 0..INT_MAX
      BY <1>1
    <3>2. QED
      BY <2>2, <2>4, <3>1, Infinity
  <2>6. QED
    BY <2>2, <2>3, <2>5
<1>5. more \in CostTables(g)
  <2>1. more = [u \in DOMAIN g |-> [d \in DOMAIN g |-> more[u][d]]]
    BY DEF OneLinkMore
  <2> HIDE DEF more
  <2>2. QED
    BY <1>4, <2>1 DEF CostTables
<1>6. QED
  BY <1>4, <1>5

\* W[k] is what is within k links.
IsWithin(g, W) ==
  /\ W \in [0..Cardinality(DOMAIN g) -> CostTables(g)]
  /\ W[0] = NoLink(g)
  /\ \A k \in 1..Cardinality(DOMAIN g) : W[k] = OneLinkMore(g, W[k-1])

\* The recursion of Shortest has an answer: it is what its last step returns.
LEMMA ShortestExists ==
  ASSUME NEW g, IsTopology(g)
  PROVE  /\ Cardinality(DOMAIN g) \in Nat
         /\ \E W : IsWithin(g, W) /\ Shortest(g) = W[Cardinality(DOMAIN g)]
<1> DEFINE N == Cardinality(DOMAIN g)
           within(W) == [k \in 0..N |-> IF k = 0 THEN NoLink(g) ELSE OneLinkMore(g, W[k-1])]
<1>1. N \in Nat
  BY FS_CardinalityType DEF IsTopology
<1> HIDE DEF N
<1>2. NoLink(g) \in CostTables(g)
  BY Infinity DEF NoLink, CostTables
<1> DEFINE step == [w \in CostTables(g) |-> OneLinkMore(g, w)]
<1>3. step \in [CostTables(g) -> CostTables(g)]
  BY OneLinkMoreIsLeast
<1>4. PICK W : Iterates(W, CostTables(g), NoLink(g), step, N)
  <2> HIDE DEF step
  <2>1. QED
    BY <1>1, <1>2, <1>3, IterationExists
<1>5. \A k \in 1..N : k \in 0..N /\ k-1 \in 0..N /\ W[k] = OneLinkMore(g, W[k-1])
  <2> TAKE k \in 1..N
  <2>1. k \in 0..N /\ k-1 \in 0..N
    BY <1>1
  <2>2. W[k] = step[W[k-1]]
    BY <1>4 DEF Iterates
  <2>3. W[k-1] \in CostTables(g)
    BY <1>4, <2>1 DEF Iterates
  <2>4. QED
    BY <2>1, <2>2, <2>3
<1>6. W = within(W)
  <2> DEFINE e == within(W)
  <2>1. \A k \in 0..N : W[k] = e[k]
    <3> TAKE k \in 0..N
    <3>1. CASE k = 0
      BY <1>4, <3>1 DEF Iterates
    <3>2. CASE k # 0
      <4>1. k \in 1..N
        BY <1>1, <3>2
      <4>2. QED
        BY <1>5, <3>2, <4>1
    <3>3. QED
      BY <3>1, <3>2
  <2>2. W = [k \in 0..N |-> W[k]] /\ e = [k \in 0..N |-> e[k]]
    BY <1>4 DEF Iterates
  <2> HIDE DEF e
  <2>3. W = e
    BY <2>1, <2>2
  <2>4. QED
    BY <2>3 DEF e
<1>7. PICK V : V = within(V) /\ Shortest(g) = V[N]
  BY <1>6 DEF Shortest, N
<1>8. V[0] = NoLink(g) /\ \A k \in 1..N : V[k] = OneLinkMore(g, V[k-1])
  <2>1. 0 \in 0..N /\ \A k \in 1..N : k \in 0..N /\ k # 0
    BY <1>1
  <2>2. QED
    BY <1>7, <2>1
<1>9. \A k \in 0..N : V[k] \in CostTables(g)
  <2> DEFINE Fails == {k \in 0..N : V[k] \notin CostTables(g)}
  <2> SUFFICES ASSUME Fails # {} PROVE FALSE
    OBVIOUS
  <2>1. PICK k \in Fails : \A j \in Fails : k <= j
    <3>1. Fails \subseteq Nat
      OBVIOUS
    <3>2. QED
      BY <3>1, NatLeast
  <2>2. k # 0
    BY <1>2, <1>8, <2>1
  <2>3. k \in 1..N /\ k-1 \in 0..N /\ k-1 \notin Fails
    BY <1>1, <2>1, <2>2
  <2>4. QED
    BY <1>8, <2>1, <2>3, OneLinkMoreIsLeast
<1>10. V \in [0..N -> CostTables(g)]
  <2>1. V = [k \in 0..N |-> V[k]]
    BY <1>7
  <2>2. QED
    BY <1>9, <2>1
<1>11. QED
  BY <1>1, <1>7, <1>8, <1>10 DEF IsWithin, N

\* The same entry by entry: what one link more can save, and cannot.
LEMMA WithinSteps ==
  ASSUME NEW g, IsTopology(g), NEW W, IsWithin(g, W)
  PROVE  /\ \A k \in 0..Cardinality(DOMAIN g) : \A u, d \in DOMAIN g :
              W[k][u][d] \in 0..INT_MAX
         /\ \A u, d \in DOMAIN g : W[0][u][d] = IF u = d THEN 0 ELSE INT_MAX
         /\ \A k \in 1..Cardinality(DOMAIN g) : \A u, d \in DOMAIN g :
              /\ W[k][u][d] <= W[k-1][u][d]
              /\ \A v \in DOMAIN g[u] : W[k][u][d] <= g[u][v] + W[k-1][v][d]
              /\ \/ W[k][u][d] = W[k-1][u][d]
                 \/ \E v \in DOMAIN g[u] : W[k][u][d] = g[u][v] + W[k-1][v][d]
<1> DEFINE N == Cardinality(DOMAIN g)
<1>1. N \in Nat
  BY ShortestExists
<1> HIDE DEF N
<1>2. /\ W \in [0..N -> CostTables(g)]
      /\ W[0] = NoLink(g)
      /\ \A k \in 1..N : W[k] = OneLinkMore(g, W[k-1])
  BY DEF IsWithin, N
<1>3. ASSUME NEW k \in 0..N, NEW u \in DOMAIN g, NEW d \in DOMAIN g
      PROVE  W[k][u][d] \in 0..INT_MAX
  BY <1>2 DEF CostTables
<1>4. \A u, d \in DOMAIN g : W[0][u][d] = IF u = d THEN 0 ELSE INT_MAX
  BY <1>2 DEF NoLink
<1>5. ASSUME NEW k \in 1..N, NEW u \in DOMAIN g, NEW d \in DOMAIN g
      PROVE  /\ W[k][u][d] <= W[k-1][u][d]
             /\ \A v \in DOMAIN g[u] : W[k][u][d] <= g[u][v] + W[k-1][v][d]
             /\ \/ W[k][u][d] = W[k-1][u][d]
                \/ \E v \in DOMAIN g[u] : W[k][u][d] = g[u][v] + W[k-1][v][d]
  <2> DEFINE w == W[k-1]
             least == W[k][u][d]
  <2>1. k \in 0..N /\ k-1 \in 0..N
    BY <1>1
  <2>2. w \in CostTables(g) /\ least = OneLinkMore(g, w)[u][d]
    BY <1>2, <2>1
  <2>3. least \in 0..INT_MAX /\ \A v \in DOMAIN g : w[v][d] \in 0..INT_MAX
    BY <1>3, <2>1
  <2> HIDE DEF w, least
  <2>4. /\ least <= w[u][d]
        /\ \A v \in DOMAIN g[u] : w[v][d] # INT_MAX => least <= g[u][v] + w[v][d]
        /\ \/ least = w[u][d]
           \/ \E v \in DOMAIN g[u] : /\ w[v][d] # INT_MAX
                                     /\ least = g[u][v] + w[v][d]
    BY <2>2, OneLinkMoreIsLeast
  <2>5. ASSUME NEW v \in DOMAIN g[u] PROVE least <= g[u][v] + w[v][d]
    <3>1. v \in DOMAIN g /\ g[u][v] \in 1..INT_MAX-1
      BY LinkCosts
    <3>2. w[v][d] \in 0..INT_MAX
      BY <2>3, <3>1
    <3>3. QED
      BY <2>3, <2>4, <3>1, <3>2, Infinity
  <2>6. QED
    BY <2>4, <2>5 DEF w, least
<1>6. QED
  BY <1>3, <1>4, <1>5 DEF N

\* A way may as well be made longer by a link at its end.
LEMMA LastLink ==
  ASSUME NEW g, IsTopology(g), NEW W, IsWithin(g, W),
         NEW k \in 1..Cardinality(DOMAIN g),
         NEW u \in DOMAIN g, NEW v \in DOMAIN g, NEW d \in DOMAIN g[v]
  PROVE  W[k][u][d] <= W[k-1][u][v] + g[v][d]
<1> DEFINE N == Cardinality(DOMAIN g)
           Holds(i, x) == W[i][x][d] <= W[i-1][x][v] + g[v][d]
           Fails == {i \in 1..N : \E x \in DOMAIN g : ~Holds(i, x)}
<1>1. N \in Nat
  BY ShortestExists
<1> HIDE DEF N
<1>2. /\ \A i \in 0..N : \A x, y \in DOMAIN g : W[i][x][y] \in 0..INT_MAX
      /\ \A x, y \in DOMAIN g : W[0][x][y] = IF x = y THEN 0 ELSE INT_MAX
      /\ \A i \in 1..N : \A x, y \in DOMAIN g :
           /\ W[i][x][y] <= W[i-1][x][y]
           /\ \A z \in DOMAIN g[x] : W[i][x][y] <= g[x][z] + W[i-1][z][y]
           /\ \/ W[i][x][y] = W[i-1][x][y]
              \/ \E z \in DOMAIN g[x] : W[i][x][y] = g[x][z] + W[i-1][z][y]
  BY WithinSteps DEF N
<1>3. d \in DOMAIN g /\ g[v][d] \in 1..INT_MAX-1
  BY LinkCosts
<1>4. Fails = {}
  <2> SUFFICES ASSUME Fails # {} PROVE FALSE
    OBVIOUS
  <2>1. PICK i \in Fails : \A j \in Fails : i <= j
    <3>1. Fails \subseteq Nat
      OBVIOUS
    <3>2. QED
      BY <3>1, NatLeast
  <2>2. PICK x \in DOMAIN g : ~Holds(i, x)
    BY <2>1
  <2>3. i \in 1..N /\ i \in 0..N /\ i-1 \in 0..N
    BY <1>1, <2>1
  <2>4. /\ W[i][x][d] \in 0..INT_MAX /\ W[i-1][x][d] \in 0..INT_MAX
        /\ W[i-1][x][v] \in 0..INT_MAX
    BY <1>2, <1>3, <2>3
  <2>5. CASE i = 1
    <3>1. CASE x = v
      <4>1. W[1][v][d] <= g[v][d] + W[0][d][d]
        BY <1>2, <1>3, <2>3, <2>5
      <4>2. W[0][d][d] = 0 /\ W[0][v][v] = 0
        BY <1>2, <1>3
      <4>3. Holds(1, v)
        <5>1. 1-1 = 0
          OBVIOUS
        <5>2. QED
          BY <1>3, <4>1, <4>2, <5>1
      <4>4. QED
        BY <2>2, <2>5, <3>1, <4>3
    <3>2. CASE x # v
      <4>1. W[i-1][x][v] = INT_MAX
        <5>1. i-1 = 0
          BY <2>5
        <5>2. QED
          BY <1>2, <3>2, <5>1
      <4>2. Holds(i, x)
        BY <1>3, <2>4, <4>1, Infinity
      <4>3. QED
        BY <2>2, <4>2
    <3>3. QED
      BY <3>1, <3>2
  <2>6. CASE i # 1
    <3>1. i-1 \in 1..N /\ (i-1)-1 \in 0..N
      BY <1>1, <2>3, <2>6
    <3>2. \A y \in DOMAIN g : Holds(i-1, y)
      <4>1. ~(i <= i-1)
        BY <2>3
      <4>2. i-1 \notin Fails
        BY <2>1, <4>1
      <4>3. QED
        BY <3>1, <4>2
    <3>3. CASE W[i-1][x][v] = W[(i-1)-1][x][v]
      <4>1. W[i-1][x][d] <= W[(i-1)-1][x][v] + g[v][d]
        BY <3>2
      <4>2. W[i][x][d] <= W[i-1][x][d]
        BY <1>2, <1>3, <2>3
      <4>3. Holds(i, x)
        BY <1>3, <2>4, <3>3, <4>1, <4>2, Infinity
      <4>4. QED
        BY <2>2, <4>3
    <3>4. CASE \E z \in DOMAIN g[x] : W[i-1][x][v] = g[x][z] + W[(i-1)-1][z][v]
      <4>1. PICK z \in DOMAIN g[x] : W[i-1][x][v] = g[x][z] + W[(i-1)-1][z][v]
        BY <3>4
      <4>2. z \in DOMAIN g /\ g[x][z] \in 1..INT_MAX-1
        BY LinkCosts
      <4>3. W[i-1][z][d] <= W[(i-1)-1][z][v] + g[v][d]
        BY <3>2, <4>2
      <4>4. W[i][x][d] <= g[x][z] + W[i-1][z][d]
        BY <1>2, <1>3, <2>3
      <4>5. W[i-1][z][d] \in 0..INT_MAX /\ W[(i-1)-1][z][v] \in 0..INT_MAX
        BY <1>2, <1>3, <2>3, <3>1, <4>2
      <4>6. Holds(i, x)
        BY <1>3, <2>4, <4>1, <4>2, <4>3, <4>4, <4>5, Infinity
      <4>7. QED
        BY <2>2, <4>6
    <3>5. QED
      BY <1>2, <3>1, <3>3, <3>4
  <2>7. QED
    BY <2>5, <2>6
<1>5. Holds(k, u)
  BY <1>4 DEF N
<1>6. QED
  BY <1>5

\* Links have two ends, so the way back costs no more.
LEMMA ShortestIsSymmetric ==
  ASSUME NEW g, IsTopology(g), NEW a \in DOMAIN g, NEW b \in DOMAIN g
  PROVE  Shortest(g)[a][b] = Shortest(g)[b][a]
<1> DEFINE N == Cardinality(DOMAIN g)
<1>1. PICK W : IsWithin(g, W) /\ Shortest(g) = W[N]
  BY ShortestExists
<1> DEFINE Holds(i, u, d) == W[i][u][d] <= W[i][d][u]
           Fails == {i \in 0..N : \E u, d \in DOMAIN g : ~Holds(i, u, d)}
<1>2. N \in Nat
  BY ShortestExists
<1>3. /\ \A i \in 0..N : \A x, y \in DOMAIN g : W[i][x][y] \in 0..INT_MAX
      /\ \A x, y \in DOMAIN g : W[0][x][y] = IF x = y THEN 0 ELSE INT_MAX
      /\ \A i \in 1..N : \A x, y \in DOMAIN g :
           /\ W[i][x][y] <= W[i-1][x][y]
           /\ \/ W[i][x][y] = W[i-1][x][y]
              \/ \E z \in DOMAIN g[x] : W[i][x][y] = g[x][z] + W[i-1][z][y]
      /\ \A i \in 1..N : \A u, v \in DOMAIN g : \A d \in DOMAIN g[v] :
           W[i][u][d] <= W[i-1][u][v] + g[v][d]
  BY <1>1, WithinSteps, LastLink
<1> HIDE DEF N
<1>4. Fails = {}
  <2> SUFFICES ASSUME Fails # {} PROVE FALSE
    OBVIOUS
  <2>1. PICK i \in Fails : \A j \in Fails : i <= j
    <3>1. Fails \subseteq Nat
      OBVIOUS
    <3>2. QED
      BY <3>1, NatLeast
  <2>2. PICK u \in DOMAIN g, d \in DOMAIN g : ~Holds(i, u, d)
    BY <2>1
  <2>3. i # 0
    <3>1. W[0][u][d] = W[0][d][u] /\ W[0][u][d] \in Int
      BY <1>3, Infinity
    <3>2. Holds(0, u, d)
      BY <3>1
    <3>3. QED
      BY <2>2, <3>2
  <2>4. i \in 1..N /\ i \in 0..N /\ i-1 \in 0..N
    BY <1>2, <2>1, <2>3
  <2>5. \A x, y \in DOMAIN g : Holds(i-1, x, y)
    <3>1. ~(i <= i-1)
      BY <2>4
    <3>2. i-1 \notin Fails
      BY <2>1, <3>1
    <3>3. QED
      BY <2>4, <3>2
  <2>6. /\ W[i][u][d] \in 0..INT_MAX /\ W[i-1][u][d] \in 0..INT_MAX
        /\ W[i-1][d][u] \in 0..INT_MAX /\ W[i][u][d] <= W[i-1][u][d]
        /\ W[i-1][u][d] <= W[i-1][d][u]
    BY <1>3, <2>4, <2>5
  <2>7. CASE W[i][d][u] = W[i-1][d][u]
    <3>1. Holds(i, u, d)
      BY <2>6, <2>7, Infinity
    <3>2. QED
      BY <2>2, <3>1
  <2>8. CASE \E z \in DOMAIN g[d] : W[i][d][u] = g[d][z] + W[i-1][z][u]
    <3>1. PICK z \in DOMAIN g[d] : W[i][d][u] = g[d][z] + W[i-1][z][u]
      BY <2>8
    <3>2. z \in DOMAIN g /\ g[d][z] \in 1..INT_MAX-1
      BY LinkCosts
    <3>3. d \in DOMAIN g[z] /\ g[z][d] = g[d][z]
      BY DEF IsTopology
    <3>4. W[i][u][d] <= W[i-1][u][z] + g[z][d]
      BY <1>3, <2>4, <3>2, <3>3
    <3>5. W[i-1][u][z] <= W[i-1][z][u]
      BY <2>5, <3>2
    <3>6. W[i-1][u][z] \in 0..INT_MAX /\ W[i-1][z][u] \in 0..INT_MAX
      BY <1>3, <2>4, <3>2
    <3>7. Holds(i, u, d)
      BY <2>6, <3>1, <3>2, <3>3, <3>4, <3>5, <3>6, Infinity
    <3>8. QED
      BY <2>2, <3>7
  <2>9. QED
    BY <1>3, <2>4, <2>7, <2>8
<1>5. Holds(N, a, b) /\ Holds(N, b, a)
  BY <1>2, <1>4
<1>6. W[N][a][b] \in Int /\ W[N][b][a] \in Int
  BY <1>2, <1>3
<1>7. QED
  BY <1>1, <1>5, <1>6 DEF N

\* Costs to d that no neighbour can better, and that each node has from one of
\* its neighbours, are the least costs of paths: the induction that shows it is
\* about how many nodes are nearer to d.
LEMMA SettledIsShortest ==
  ASSUME NEW g, IsTopology(g), NEW d \in DOMAIN g,
         NEW cost \in [DOMAIN g -> 0..INT_MAX], cost[d] = 0,
         \A u \in DOMAIN g : \A v \in DOMAIN g[u] :
           cost[v] # INT_MAX => cost[u] <= g[u][v] + cost[v],
         \A u \in DOMAIN g \ {d} : cost[u] # INT_MAX =>
           \E v \in DOMAIN g[u] : cost[v] # INT_MAX /\ cost[u] = g[u][v] + cost[v]
  PROVE  \A u \in DOMAIN g : Shortest(g)[u][d] = cost[u]
<1> DEFINE N == Cardinality(DOMAIN g)
<1>1. PICK W : IsWithin(g, W) /\ Shortest(g) = W[N]
  BY ShortestExists
<1>2. N \in Nat
  BY ShortestExists
<1>3. /\ \A i \in 0..N : \A x, y \in DOMAIN g : W[i][x][y] \in 0..INT_MAX
      /\ \A x, y \in DOMAIN g : W[0][x][y] = IF x = y THEN 0 ELSE INT_MAX
      /\ \A i \in 1..N : \A x, y \in DOMAIN g :
           /\ W[i][x][y] <= W[i-1][x][y]
           /\ \A z \in DOMAIN g[x] : W[i][x][y] <= g[x][z] + W[i-1][z][y]
           /\ \/ W[i][x][y] = W[i-1][x][y]
              \/ \E z \in DOMAIN g[x] : W[i][x][y] = g[x][z] + W[i-1][z][y]
  BY <1>1, WithinSteps
<1>4. \A u \in DOMAIN g : cost[u] \in 0..INT_MAX
  OBVIOUS
<1> DEFINE NoLess(i, u) == cost[u] <= W[i][u][d]
           Cheaper == {i \in 0..N : \E u \in DOMAIN g : ~NoLess(i, u)}
<1>5. Cheaper = {}
  <2> HIDE DEF N
  <2> SUFFICES ASSUME Cheaper # {} PROVE FALSE
    OBVIOUS
  <2>1. PICK i \in Cheaper : \A j \in Cheaper : i <= j
    <3>1. Cheaper \subseteq Nat
      OBVIOUS
    <3>2. QED
      BY <3>1, NatLeast
  <2>2. PICK u \in DOMAIN g : ~NoLess(i, u)
    BY <2>1
  <2>3. i # 0
    <3>1. cost[u] <= W[0][u][d]
      <4>1. CASE u = d
        BY <1>3, <4>1
      <4>2. CASE u # d
        BY <1>3, <1>4, <4>2, Infinity
      <4>3. QED
        BY <4>1, <4>2
    <3>2. QED
      BY <2>2, <3>1
  <2>4. i \in 1..N /\ i \in 0..N /\ i-1 \in 0..N
    BY <1>2, <2>1, <2>3
  <2>5. \A x \in DOMAIN g : NoLess(i-1, x)
    <3>1. ~(i <= i-1)
      BY <2>4
    <3>2. i-1 \notin Cheaper
      BY <2>1, <3>1
    <3>3. QED
      BY <2>4, <3>2
  <2>6. CASE W[i][u][d] = W[i-1][u][d]
    BY <2>2, <2>5, <2>6
  <2>7. CASE \E z \in DOMAIN g[u] : W[i][u][d] = g[u][z] + W[i-1][z][d]
    <3>1. PICK z \in DOMAIN g[u] : W[i][u][d] = g[u][z] + W[i-1][z][d]
      BY <2>7
    <3>2. z \in DOMAIN g /\ g[u][z] \in 1..INT_MAX-1
      BY LinkCosts
    <3>3. cost[z] <= W[i-1][z][d]
      BY <2>5, <3>2
    <3>4. W[i-1][z][d] \in 0..INT_MAX /\ cost[z] \in 0..INT_MAX /\ cost[u] \in 0..INT_MAX
      BY <1>3, <1>4, <2>4, <3>2
    <3>5. cost[z] # INT_MAX => cost[u] <= g[u][z] + cost[z]
      OBVIOUS
    <3>6. NoLess(i, u)
      BY <3>1, <3>2, <3>3, <3>4, <3>5, Infinity
    <3>7. QED
      BY <2>2, <3>6
  <2>8. QED
    BY <1>3, <2>4, <2>6, <2>7
<1> DEFINE nearer(u) == Cardinality(Nearer(cost, u))
           InTime(i, u) == nearer(u) <= i /\ cost[u] # INT_MAX => W[i][u][d] <= cost[u]
           Late == {i \in 0..N : \E u \in DOMAIN g : ~InTime(i, u)}
<1>6. /\ \A u \in DOMAIN g : nearer(u) \in 0..N-1
      /\ \A u, v \in DOMAIN g : cost[v] < cost[u] => nearer(v) < nearer(u)
  <2>1. IsFiniteSet(DOMAIN g) /\ cost \in [DOMAIN g -> Nat]
    BY <1>4, Infinity DEF IsTopology
  <2>2. QED
    BY <2>1, FewerAreNearer
<1>7. Late = {}
  <2> HIDE DEF N, nearer
  <2> SUFFICES ASSUME Late # {} PROVE FALSE
    OBVIOUS
  <2>1. PICK i \in Late : \A j \in Late : i <= j
    <3>1. Late \subseteq Nat
      OBVIOUS
    <3>2. QED
      BY <3>1, NatLeast
  <2>2. PICK u \in DOMAIN g : ~InTime(i, u)
    BY <2>1
  <2>3. /\ i \in 0..N /\ nearer(u) <= i /\ cost[u] # INT_MAX
        /\ ~(W[i][u][d] <= cost[u])
    BY <2>1, <2>2
  <2>4. CASE u = d
    <3> DEFINE Above == {j \in 0..N : W[j][d][d] # 0}
    <3>1. Above = {}
      <4> SUFFICES ASSUME Above # {} PROVE FALSE
        OBVIOUS
      <4>1. PICK j \in Above : \A l \in Above : j <= l
        <5>1. Above \subseteq Nat
          OBVIOUS
        <5>2. QED
          BY <5>1, NatLeast
      <4>2. j # 0
        BY <1>3, <4>1
      <4>3. j \in 1..N /\ j-1 \in 0..N /\ j \in 0..N
        BY <1>2, <4>1, <4>2
      <4>4. j-1 \notin Above
        <5>1. ~(j <= j-1)
          BY <4>3
        <5>2. QED
          BY <4>1, <5>1
      <4>5. W[j-1][d][d] = 0
        BY <4>3, <4>4
      <4>6. W[j][d][d] <= 0 /\ W[j][d][d] \in Nat
        BY <1>3, <4>3, <4>5, Infinity
      <4>7. QED
        BY <4>1, <4>6
    <3>2. W[i][d][d] = 0
      BY <2>3, <3>1
    <3>3. QED
      BY <2>3, <2>4, <3>2
  <2>5. CASE u # d
    <3>1. PICK v \in DOMAIN g[u] : cost[v] # INT_MAX /\ cost[u] = g[u][v] + cost[v]
      BY <2>3, <2>5
    <3>2. v \in DOMAIN g /\ g[u][v] \in 1..INT_MAX-1
      BY LinkCosts
    <3>3. cost[v] < cost[u]
      BY <1>4, <3>1, <3>2, Infinity
    <3>4. nearer(v) < nearer(u)
      BY <1>6, <3>2, <3>3
    <3>5. nearer(v) \in Nat /\ nearer(u) \in Nat
      BY <1>2, <1>6, <3>2
    <3>6. i \in 1..N /\ i-1 \in 0..N /\ nearer(v) <= i-1
      BY <1>2, <2>3, <3>4, <3>5
    <3>7. W[i-1][v][d] <= cost[v]
      <4>1. i-1 \notin Late
        <5>1. ~(i <= i-1)
          BY <3>6
        <5>2. QED
          BY <2>1, <5>1
      <4>2. InTime(i-1, v)
        BY <3>2, <3>6, <4>1
      <4>3. QED
        BY <3>1, <3>6, <4>2
    <3>8. W[i][u][d] <= g[u][v] + W[i-1][v][d]
      BY <1>3, <3>6
    <3>9. W[i][u][d] \in 0..INT_MAX /\ W[i-1][v][d] \in 0..INT_MAX
      BY <1>3, <2>3, <3>2, <3>6
    <3>10. W[i][u][d] <= cost[u]
      BY <1>4, <3>1, <3>2, <3>7, <3>8, <3>9, Infinity
    <3>11. QED
      BY <2>3, <3>10
  <2>6. QED
    BY <2>4, <2>5
<1>8. ASSUME NEW u \in DOMAIN g PROVE W[N][u][d] = cost[u]
  <2>1. W[N][u][d] \in 0..INT_MAX /\ cost[u] \in 0..INT_MAX
    BY <1>2, <1>3, <1>4
  <2>2. cost[u] <= W[N][u][d]
    BY <1>2, <1>5
  <2>3. cost[u] # INT_MAX => W[N][u][d] <= cost[u]
    <3>1. InTime(N, u)
      <4> HIDE DEF InTime
      <4>1. QED
        BY <1>2, <1>7
    <3>2. nearer(u) <= N
      <4>1. nearer(u) \in 0..N-1
        BY <1>6
      <4> HIDE DEF N, nearer
      <4>2. QED
        BY <1>2, <4>1
    <3>3. QED
      BY <3>1, <3>2
  <2> HIDE DEF N
  <2>4. QED
    BY <2>1, <2>2, <2>3, Infinity
<1>9. QED
  BY <1>1, <1>8
=============================================================================
