----------------------------- MODULE CsmaProofs -----------------------------
(***************************************************************************)
(* Theorems about the CSMA simulator of mp4, for every input file: any     *)
(* number of nodes, packets of any length, any gears and ranges.           *)
(*                                                                         *)
(* The loop that engages nodes is a recursive function (Joined); what it   *)
(* computes is found by looking at the least tick of the loop at which a   *)
(* claim would fail.  The invariant (CsmaInv) says in which of four states *)
(* the channel is: free with nobody engaged, jammed, or busy with one job. *)
(***************************************************************************)
EXTENDS Csma, SequenceTheorems, WellFoundedInduction, TLAPS

\* A set of numbers that is not empty has a least one.
LEMMA LeastOf ==
  ASSUME NEW S \in SUBSET Nat, S # {}
  PROVE  \E k \in S : \A j \in Nat : j < k => j \notin S
<1>1. \A x, y \in Nat : x < y => <<x, y>> \in OpToRel(<, Nat)
  BY DEF OpToRel
<1>2. PICK k \in S : \A y \in S : ~(<<y, k>> \in OpToRel(<, Nat))
  BY NatLessThanWellFounded, WFMin
<1>3. \A y \in S : ~(y < k)
  BY <1>1, <1>2, Zenon
<1>4. QED
  BY <1>3

----------------------------------------------------------------------------
\* One turn of the loop over the nodes, given what the turns before engaged.
Turn(prior, n) == IF Ready(n - 1) THEN Append(prior, n - 1) ELSE prior

\* The loop computes something: the recursion of Joined is well founded.
LEMMA JoinedExists ==
  ASSUME input.N \in Nat
  PROVE  /\ Joined[0] = engaged
         /\ \A n \in 1..input.N : Joined[n] = Turn(Joined[n - 1], n)
<1> DEFINE Loop(g, n) ==
             g = [i \in 0..n |-> IF i = 0 THEN engaged ELSE Turn(g[i - 1], i)]
           Bad == {n \in Nat : ~\E g : Loop(g, n)}
<1>1. Bad = {}
  <2> SUFFICES ASSUME Bad # {} PROVE FALSE
    OBVIOUS
  <2>1. PICK n \in Bad : \A j \in Nat : j < n => j \notin Bad
    BY LeastOf
  <2>2. n \in Nat /\ ~\E g : Loop(g, n)
    BY <2>1
  <2>3. CASE n = 0
    <3> DEFINE h == [i \in 0..0 |-> engaged]
    <3>1. h = [i \in 0..0 |-> IF i = 0 THEN engaged ELSE Turn(h[i - 1], i)]
      OBVIOUS
    <3>2. QED
      BY <2>2, <2>3, <3>1
  <2>4. CASE n # 0
    <3>1. n - 1 \in Nat /\ n - 1 < n
      BY <2>2, <2>4
    <3>2. PICK g : Loop(g, n - 1)
      BY <2>1, <3>1
    <3> DEFINE h == [i \in 0..n |-> IF i = n THEN Turn(g[n - 1], n) ELSE g[i]]
    <3>3. ASSUME NEW i \in 0..n
          PROVE  h[i] = IF i = 0 THEN engaged ELSE Turn(h[i - 1], i)
      <4>1. CASE i = n
        <5>1. h[i] = Turn(g[n - 1], n) /\ h[n - 1] = g[n - 1]
          BY <2>2, <2>4, <4>1
        <5>2. QED
          BY <2>4, <4>1, <5>1
      <4>2. CASE i # n
        <5>1. i \in 0..n-1 /\ h[i] = g[i]
          BY <2>2, <4>2
        <5>2. g[i] = IF i = 0 THEN engaged ELSE Turn(g[i - 1], i)
          BY <3>2, <5>1
        <5>3. i # 0 => h[i - 1] = g[i - 1]
          BY <2>2, <5>1
        <5>4. QED
          BY <5>1, <5>2, <5>3
      <4>3. QED
        BY <4>1, <4>2
    <3>4. h = [i \in 0..n |-> IF i = 0 THEN engaged ELSE Turn(h[i - 1], i)]
      <4> DEFINE e == [i \in 0..n |-> IF i = 0 THEN engaged ELSE Turn(h[i - 1], i)]
      <4>1. \A i \in 0..n : h[i] = e[i]
        BY <3>3
      <4>2. h = [i \in 0..n |-> h[i]] /\ e = [i \in 0..n |-> e[i]]
        OBVIOUS
      <4> HIDE DEF h, e
      <4>3. h = e
        BY <4>1, <4>2
      <4>4. QED
        BY <4>3 DEF e
    <3>5. QED
      BY <2>2, <3>4
  <2>5. QED
    BY <2>3, <2>4
<1>2. \E g : Loop(g, input.N)
  BY <1>1
<1>3. Joined = CHOOSE g : Loop(g, input.N)
  BY DEF Joined, Turn
<1>4. Loop(Joined, input.N)
  BY <1>2, <1>3
<1>5. QED
  BY <1>4

\* With nobody ready the loop engages nobody.
LEMMA JoinedNobody ==
  ASSUME input.N \in Nat, \A id \in Nodes : ~Ready(id)
  PROVE  Joined[input.N] = engaged
<1> DEFINE Bad == {n \in 0..input.N : Joined[n] # engaged}
<1>1. Bad = {}
  <2> SUFFICES ASSUME Bad # {} PROVE FALSE
    OBVIOUS
  <2>1. PICK n \in Bad : \A j \in Nat : j < n => j \notin Bad
    <3>1. Bad \in SUBSET Nat
      OBVIOUS
    <3> HIDE DEF Bad
    <3>2. QED
      BY <3>1, LeastOf
  <2>2. n \in 0..input.N /\ Joined[n] # engaged
    BY <2>1
  <2>3. n # 0
    BY <2>2, JoinedExists
  <2>4. Joined[n - 1] = engaged
    BY <2>1, <2>2, <2>3
  <2>5. ~Ready(n - 1)
    BY <2>2, <2>3 DEF Nodes
  <2>6. QED
    BY <2>2, <2>3, <2>4, <2>5, JoinedExists DEF Turn
<1>2. QED
  BY <1>1

\* With nobody engaged it engages the nodes that are ready, each once.
Found(s, n) ==
  /\ s \in Seq(0..n-1) /\ Len(s) <= n
  /\ \A i, j \in 1..Len(s) : s[i] = s[j] => i = j
  /\ \A id \in 0..n-1 : Ready(id) <=> \E i \in 1..Len(s) : s[i] = id

\* A turn finds the node it looks at.
LEMMA TurnFinds ==
  ASSUME NEW n \in Nat \ {0}, NEW s, Found(s, n - 1)
  PROVE  Found(Turn(s, n), n)
<1>0. /\ s \in Seq(0..n-1) /\ Len(s) \in Nat /\ Len(s) <= n - 1
      /\ \A i \in 1..Len(s) : s[i] \in 0..n-2
      /\ \A i, j \in 1..Len(s) : s[i] = s[j] => i = j
      /\ \A id \in 0..n-2 : Ready(id) <=> \E i \in 1..Len(s) : s[i] = id
  <2>1. s \in Seq(0..n-2) /\ Len(s) <= n - 1 /\ n - 1 - 1 = n - 2
    BY DEF Found
  <2>2. 0..n-2 \subseteq 0..n-1
    OBVIOUS
  <2>3. QED
    BY <2>1, <2>2 DEF Found
<1>1. CASE Ready(n - 1)
  <2> DEFINE t == Append(s, n - 1)
  <2>1. /\ t \in Seq(0..n-1) /\ Len(t) = Len(s) + 1
        /\ \A i \in 1..Len(s) : t[i] = s[i]
        /\ t[Len(s) + 1] = n - 1
    BY <1>0
  <2> HIDE DEF t
  <2>2. \A i, j \in 1..Len(t) : t[i] = t[j] => i = j
    <3> SUFFICES ASSUME NEW i \in 1..Len(t), NEW j \in 1..Len(t), t[i] = t[j], i # j
                 PROVE  FALSE
      OBVIOUS
    <3>1. CASE i \in 1..Len(s) /\ j \in 1..Len(s)
      BY <1>0, <2>1, <3>1
    <3>2. CASE i = Len(s) + 1 /\ j \in 1..Len(s)
      BY <1>0, <2>1, <3>2
    <3>3. CASE j = Len(s) + 1 /\ i \in 1..Len(s)
      BY <1>0, <2>1, <3>3
    <3>4. QED
      BY <1>0, <2>1, <3>1, <3>2, <3>3
  <2>3. ASSUME NEW id \in 0..n-1
        PROVE  Ready(id) <=> \E i \in 1..Len(t) : t[i] = id
    <3>1. CASE id = n - 1
      BY <1>0, <1>1, <2>1, <3>1
    <3>2. CASE id # n - 1
      <4>1. id \in 0..n-2
        BY <3>2
      <4>2. ASSUME NEW i \in 1..Len(s), s[i] = id
            PROVE  \E k \in 1..Len(t) : t[k] = id
        <5>1. t[i] = s[i] /\ Len(t) = Len(s) + 1
          BY <2>1
        <5>2. Len(s) \in Nat
          BY <1>0
        <5>3. i \in 1..Len(t)
          BY <5>1, <5>2
        <5>4. QED
          BY <4>2, <5>1, <5>3
      <4>3. ASSUME NEW k \in 1..Len(t), t[k] = id
            PROVE  \E i \in 1..Len(s) : s[i] = id
        <5>1. k \in 1..Len(s) /\ s[k] = id
          BY <1>0, <2>1, <3>2, <4>3
        <5>2. QED
          BY <5>1
      <4>4. QED
        BY <1>0, <4>1, <4>2, <4>3
    <3>3. QED
      BY <3>1, <3>2
  <2>4. Turn(s, n) = t
    BY <1>1 DEF Turn, t
  <2>5. QED
    BY <1>0, <2>1, <2>2, <2>3, <2>4 DEF Found
<1>2. CASE ~Ready(n - 1)
  <2>1. Turn(s, n) = s
    BY <1>2 DEF Turn
  <2>2. ASSUME NEW id \in 0..n-1
        PROVE  Ready(id) <=> \E i \in 1..Len(s) : s[i] = id
    <3>1. CASE id = n - 1
      BY <1>0, <1>2, <3>1
    <3>2. CASE id # n - 1
      BY <1>0, <3>2
    <3>3. QED
      BY <3>1, <3>2
  <2>3. QED
    BY <1>0, <2>1, <2>2 DEF Found
<1>3. QED
  BY <1>1, <1>2

LEMMA JoinedFinds ==
  ASSUME input.N \in Nat, engaged = <<>>
  PROVE  Found(Joined[input.N], input.N)
<1> DEFINE Bad == {n \in 0..input.N : ~Found(Joined[n], n)}
<1>1. Bad = {}
  <2> SUFFICES ASSUME Bad # {} PROVE FALSE
    OBVIOUS
  <2>1. PICK n \in Bad : \A j \in Nat : j < n => j \notin Bad
    <3>1. Bad \in SUBSET Nat
      OBVIOUS
    <3> HIDE DEF Bad
    <3>2. QED
      BY <3>1, LeastOf
  <2>2. n \in 0..input.N /\ ~Found(Joined[n], n)
    BY <2>1
  <2>3. n # 0
    <3>1. Joined[0] = <<>>
      BY JoinedExists
    <3>2. Found(<<>>, 0)
      BY DEF Found
    <3>3. QED
      BY <2>2, <3>1, <3>2
  <2>4. Found(Joined[n - 1], n - 1)
    BY <2>1, <2>2, <2>3
  <2>5. Joined[n] = Turn(Joined[n - 1], n)
    BY <2>2, <2>3, JoinedExists
  <2>6. n \in Nat \ {0}
    BY <2>2, <2>3
  <2>7. Found(Turn(Joined[n - 1], n), n)
    BY <2>4, <2>6, TurnFinds
  <2>8. QED
    BY <2>2, <2>5, <2>7
<1>2. QED
  BY <1>1

----------------------------------------------------------------------------
\* What the utilisation counts: whole packets and what the job has had.
TicksOfJob == IF channel_idle THEN 0 ELSE input.L - valid_job_time_left + 1

WholePackets ==
  \E k \in Nat : utilization_time_count = k * input.L + TicksOfJob

\* A channel is free with nobody engaged and nobody to draw again, jammed by
\* nodes that all have to, or busy with the job of the one node engaged.
CsmaInv ==
  /\ CsmaTypeOK
  /\ EngagedFitsArray
  /\ BusyMeansOneSender
  /\ channel_idle => Len(engaged) # 1
  /\ engaged = <<>> \/ ~channel_idle => \A id \in Nodes : ~need_reload_countdown[id]
  /\ \A i \in 1..Len(engaged) : countdown[engaged[i]] = 0
  /\ Len(engaged) > 1 => \A id \in Nodes : ~Ready(id)
  /\ WholePackets

\* A count of whole packets is one of them times L.
LEMMA Multiples ==
  ASSUME NEW L \in Nat \ {0}, NEW k \in Nat
  PROVE  (k * L) % L = 0 /\ k * L \in Nat /\ (k + 1) * L = k * L + L
<1>1. k * L \in Nat /\ (k + 1) * L = k * L + L
  OBVIOUS
<1> DEFINE q == (k * L) \div L
           r == (k * L) % L
<1>2. k * L = L * q + r /\ r \in 0..L-1 /\ q \in Int
  BY <1>1
<1> HIDE DEF q, r
<1>3. q = k
  <2>1. CASE q < k
    <3>1. PICK d \in Nat : k = q + 1 + d
      BY <1>2, <2>1
    <3>2. k * L = q * L + L + d * L /\ d * L >= 0 /\ q * L = L * q
      BY <1>2, <3>1
    <3>3. QED
      BY <1>2, <3>2
  <2>2. CASE q > k
    <3>1. PICK d \in Nat : q = k + 1 + d
      BY <1>2, <2>2
    <3>2. L * q = k * L + L + d * L /\ d * L >= 0
      BY <1>2, <3>1
    <3>3. QED
      BY <1>2, <3>2
  <2>3. QED
    BY <1>2, <2>1, <2>2
<1>4. r = 0
  BY <1>2, <1>3
<1>5. QED
  BY <1>1, <1>4 DEF r

\* What the input file gives.
LEMMA InputTypes ==
  ASSUME input \in Inputs
  PROVE  /\ input.N \in Nat \ {0} /\ input.L \in Nat \ {0}
         /\ input.M \in Nat \ {0} /\ input.T \in Nat
         /\ input.R \in Seq(Nat \ {0}) /\ Len(input.R) >= input.M
         /\ Nodes = 0..input.N-1 /\ 0 \in Nodes
         /\ tick_time \in Nat => \A id \in Nodes, gear \in 0..input.M-1 : BackOff(id, gear) \in Nat
<1>1. /\ input.N \in Nat \ {0} /\ input.L \in Nat \ {0}
      /\ input.M \in Nat \ {0} /\ input.T \in Nat
      /\ input.R \in Seq(Nat \ {0}) /\ Len(input.R) >= input.M
  BY InputsAssumption
<1>2. ASSUME tick_time \in Nat, NEW id \in Nodes, NEW gear \in 0..input.M-1
      PROVE  BackOff(id, gear) \in Nat
  <2>1. gear + 1 \in 1..Len(input.R) /\ id \in Nat
    BY <1>1, <1>2 DEF Nodes
  <2>2. input.R[gear + 1] \in Nat \ {0}
    BY <1>1, <2>1
  <2>3. QED
    BY <1>2, <2>1, <2>2 DEF BackOff
<1>3. QED
  BY <1>1, <1>2 DEF Nodes

\* Whom a tick finds engaged, in each of the states of the channel.
LEMMA SensedIs ==
  ASSUME CsmaInv
  PROVE  \/ channel_idle /\ engaged = <<>> /\ Found(Sensed, input.N)
         \/ channel_idle /\ Len(engaged) > 1 /\ Sensed = engaged
         \/ ~channel_idle /\ ~JobEnds /\ Len(engaged) = 1 /\ Sensed = engaged
         \/ ~channel_idle /\ JobEnds /\ Sensed = <<>>
<1>0. input.N \in Nat \ {0} /\ engaged \in Seq(Nodes) /\ channel_idle \in BOOLEAN
  BY InputTypes DEF CsmaInv, CsmaTypeOK
<1>1. CASE channel_idle /\ engaged = <<>>
  BY <1>0, <1>1, JoinedFinds DEF Sensed
<1>2. CASE channel_idle /\ engaged # <<>>
  <2>1. Len(engaged) > 1
    <3>1. Len(engaged) # 1
      BY <1>2 DEF CsmaInv
    <3>2. Len(engaged) \in Nat /\ Len(engaged) # 0
      BY <1>0, <1>2
    <3>3. QED
      BY <3>1, <3>2
  <2>2. \A id \in Nodes : ~Ready(id)
    BY <2>1 DEF CsmaInv
  <2>3. QED
    BY <1>0, <1>2, <2>1, <2>2, JoinedNobody DEF Sensed
<1>3. CASE ~channel_idle
  <2>1. Len(engaged) = 1
    BY <1>3 DEF CsmaInv, BusyMeansOneSender
  <2>2. QED
    BY <1>3, <2>1 DEF Sensed, JobEnds
<1>4. QED
  BY <1>0, <1>1, <1>2, <1>3

LEMMA CsmaInvInitially == Init => CsmaInv
<1> SUFFICES ASSUME Init PROVE CsmaInv
  OBVIOUS
<1>1. /\ input \in Inputs /\ tick_time = 0
      /\ countdown = [id \in Nodes |-> BackOff(id, 0)]
      /\ gear_R = [id \in Nodes |-> 0]
      /\ need_reload_countdown = [id \in Nodes |-> FALSE]
      /\ channel_idle = TRUE /\ engaged = <<>>
      /\ valid_job_node_id = 0 /\ valid_job_time_left = 0
      /\ utilization_time_count = 0
  BY DEF Init
<1>2. /\ input.N \in Nat \ {0} /\ input.L \in Nat \ {0}
      /\ input.M \in Nat \ {0} /\ input.T \in Nat /\ 0 \in Nodes
      /\ \A id \in Nodes, gear \in 0..input.M-1 : BackOff(id, gear) \in Nat
  BY <1>1, InputTypes
<1>3. CsmaTypeOK
  BY <1>1, <1>2 DEF CsmaTypeOK
<1>4. EngagedFitsArray /\ BusyMeansOneSender
  BY <1>1, <1>2 DEF EngagedFitsArray, BusyMeansOneSender
<1>5. WholePackets
  <2>1. utilization_time_count = 0 * input.L + TicksOfJob
    BY <1>1, <1>2 DEF TicksOfJob
  <2>2. QED
    BY <2>1 DEF WholePackets
<1>6. QED
  BY <1>1, <1>3, <1>4, <1>5 DEF CsmaInv
\* What the invariant and the input file give a step.
LEMMA StepTypes ==
  ASSUME CsmaInv
  PROVE  /\ input \in Inputs /\ input.N \in Nat \ {0} /\ input.L \in Nat \ {0}
         /\ input.M \in Nat \ {0} /\ input.T \in Nat /\ Nodes = 0..input.N-1
         /\ tick_time \in 0..input.T
         /\ countdown \in [Nodes -> Int] /\ gear_R \in [Nodes -> 0..input.M-1]
         /\ need_reload_countdown \in [Nodes -> BOOLEAN] /\ channel_idle \in BOOLEAN
         /\ engaged \in Seq(Nodes) /\ valid_job_node_id \in Nodes
         /\ valid_job_time_left \in 0..input.L
         /\ utilization_time_count \in 0..tick_time
         /\ \A id \in Nodes : BackOff(id, gear_R[id]) \in Nat
<1>1. CsmaTypeOK
  BY DEF CsmaInv
<1>2. input \in Inputs /\ tick_time \in 0..input.T
  BY <1>1 DEF CsmaTypeOK
<1>3. /\ input.N \in Nat \ {0} /\ input.L \in Nat \ {0} /\ input.M \in Nat \ {0}
      /\ input.T \in Nat /\ Nodes = 0..input.N-1 /\ tick_time \in Nat
      /\ \A id \in Nodes, gear \in 0..input.M-1 : BackOff(id, gear) \in Nat
  <2>1. input.T \in Nat
    BY <1>2, InputTypes
  <2>2. tick_time \in Nat
    BY <1>2, <2>1
  <2>3. QED
    BY <1>2, <2>2, InputTypes
<1>4. QED
  BY <1>1, <1>2, <1>3 DEF CsmaTypeOK

\* The types of a step that are the same for every tick.
Tick ==
  /\ tick_time < input.T
  /\ tick_time' = tick_time + 1
  /\ input' = input

LEMMA TickTypes ==
  ASSUME CsmaInv, Tick
  PROVE  /\ input' \in Inputs /\ Nodes' = Nodes
         /\ tick_time' \in 0..input.T
         /\ utilization_time_count \in 0..tick_time'
         /\ utilization_time_count + 1 \in 0..tick_time'
<1> DEFINE t == tick_time + 1
<1>1. /\ t \in 0..input.T /\ utilization_time_count \in 0..t
      /\ utilization_time_count + 1 \in 0..t
  <2>1. /\ tick_time \in Nat /\ tick_time < input.T /\ input.T \in Nat
        /\ utilization_time_count \in 0..tick_time
    BY StepTypes DEF Tick
  <2>2. QED
    BY <2>1
<1>2. tick_time' = t /\ input' = input
  BY DEF Tick
<1> HIDE DEF t
<1>3. QED
  BY <1>1, <1>2, StepTypes DEF Nodes

\* Nodes that are ready in one tick collide, in every tick from there.
LEMMA CollideKeeps ==
  ASSUME CsmaInv, Tick, Collide
  PROVE  /\ CsmaTypeOK' /\ EngagedFitsArray' /\ BusyMeansOneSender'
         /\ channel_idle /\ channel_idle' /\ Len(engaged') > 1
         /\ \A i \in 1..Len(engaged') : countdown'[engaged'[i]] = 0
         /\ \A id \in Nodes : ~Ready(id)'
         /\ Len(engaged) > 1 => engaged' = engaged
         /\ UNCHANGED <<countdown, jobVars>>
<1>0. /\ Len(Sensed) > 1 /\ engaged' = Sensed /\ channel_idle' = TRUE
      /\ gear_R' = [id \in Nodes |->
                      IF id \in SensedNodes THEN NextGear(gear_R[id]) ELSE gear_R[id]]
      /\ need_reload_countdown' =
           [id \in Nodes |-> MustReload(id) \/ id \in SensedNodes]
      /\ UNCHANGED <<countdown, jobVars>>
  BY DEF Collide
<1>1. /\ channel_idle
      /\ \/ engaged = <<>> /\ Found(Sensed, input.N)
         \/ Len(engaged) > 1 /\ Sensed = engaged
  <2>1. CASE Sensed = <<>>
    <3>1. Len(<<>>) = 0
      OBVIOUS
    <3>2. QED
      BY <1>0, <2>1, <3>1
  <2>2. CASE Len(engaged) = 1 /\ Sensed = engaged
    <3>1. Len(Sensed) = 1
      BY <2>2
    <3>2. QED
      BY <1>0, <3>1
  <2>3. QED
    BY <2>1, <2>2, SensedIs, Zenon
<1>2. /\ Sensed \in Seq(Nodes) /\ Len(Sensed) <= input.N
      /\ \A i, j \in 1..Len(Sensed) : Sensed[i] = Sensed[j] => i = j
  BY <1>1, StepTypes DEF Found, CsmaInv, EngagedFitsArray
<1>3. \A i \in 1..Len(Sensed) : countdown[Sensed[i]] = 0
  <2>1. CASE Found(Sensed, input.N)
    <3>1. \A i \in 1..Len(Sensed) : Sensed[i] \in 0..input.N-1
      <4>1. Sensed \in Seq(0..input.N-1)
        BY <2>1 DEF Found
      <4>2. QED
        BY <4>1, ElementOfSeq, Zenon
    <3>2. \A i \in 1..Len(Sensed) : Ready(Sensed[i])
      <4>1. \A id \in 0..input.N-1 :
              (\E i \in 1..Len(Sensed) : Sensed[i] = id) => Ready(id)
        BY <2>1 DEF Found
      <4>2. QED
        BY <3>1, <4>1, Zenon
    <3>3. QED
      BY <3>2 DEF Ready
  <2>2. CASE Sensed = engaged
    BY <2>2 DEF CsmaInv
  <2>3. QED
    BY <1>1, <2>1, <2>2
<1>4. ASSUME NEW id \in Nodes
      PROVE  ~Ready(id)'
  <2> SUFFICES ASSUME ~need_reload_countdown'[id], countdown'[id] = 0
               PROVE  FALSE
    BY DEF Ready
  <2>1. ~need_reload_countdown[id] /\ id \notin SensedNodes /\ countdown[id] = 0
    BY <1>0 DEF MustReload
  <2>2. Ready(id)
    BY <2>1 DEF Ready
  <2>3. CASE Found(Sensed, input.N)
    <3>1. \E i \in 1..Len(Sensed) : Sensed[i] = id
      BY <2>2, <2>3, StepTypes DEF Found
    <3>2. QED
      BY <2>1, <3>1 DEF SensedNodes
  <2>4. CASE Len(engaged) > 1
    BY <2>2, <2>4 DEF CsmaInv
  <2>5. QED
    BY <1>1, <2>3, <2>4
<1>5. gear_R' \in [Nodes -> 0..input.M-1]
  <2>1. ASSUME NEW id \in Nodes PROVE NextGear(gear_R[id]) \in 0..input.M-1
    <3>1. gear_R[id] \in Nat /\ input.M \in Nat \ {0}
      BY StepTypes
    <3>2. QED
      BY <3>1 DEF NextGear
  <2>2. QED
    BY <1>0, <2>1, StepTypes
<1>6. need_reload_countdown' \in [Nodes -> BOOLEAN]
  BY <1>0, StepTypes DEF MustReload
<1>7. CsmaTypeOK'
  <2>1. UNCHANGED <<countdown, valid_job_node_id, valid_job_time_left, utilization_time_count>>
    BY <1>0 DEF jobVars
  <2>2. /\ input' = input /\ Nodes' = Nodes /\ input \in Inputs
        /\ countdown' \in [Nodes -> Int] /\ engaged' \in Seq(Nodes) /\ channel_idle' \in BOOLEAN
        /\ valid_job_node_id' \in Nodes /\ valid_job_time_left' \in 0..input.L
    BY <1>0, <1>2, <2>1, StepTypes, TickTypes DEF Tick
  <2>3. utilization_time_count' \in 0..tick_time' /\ tick_time' \in 0..input.T
    BY <2>1, TickTypes
  <2>4. QED
    BY <1>5, <1>6, <2>2, <2>3 DEF CsmaTypeOK
<1>8. EngagedFitsArray' /\ BusyMeansOneSender'
  BY <1>0, <1>2 DEF EngagedFitsArray, BusyMeansOneSender, Tick
<1>9. Len(engaged) > 1 => engaged' = engaged
  BY <1>0, <1>1
<1>10. QED
  BY <1>0, <1>1, <1>3, <1>4, <1>7, <1>8, <1>9
\* One node ready, or the job going on.
LEMMA TransmitKeeps ==
  ASSUME CsmaInv, Tick, Transmit
  PROVE  /\ CsmaTypeOK' /\ EngagedFitsArray' /\ BusyMeansOneSender'
         /\ ~channel_idle' /\ Len(engaged') = 1 /\ Len(engaged) <= 1
         /\ \A i \in 1..Len(engaged') : countdown'[engaged'[i]] = 0
         /\ \A id \in Nodes : ~need_reload_countdown'[id]
         /\ UNCHANGED nodeVars
         /\ valid_job_time_left' = IF channel_idle THEN input.L ELSE valid_job_time_left - 1
         /\ utilization_time_count' = utilization_time_count + 1
<1>0. /\ Len(Sensed) = 1 /\ engaged' = Sensed /\ valid_job_node_id' = Sensed[1]
      /\ valid_job_time_left' = IF channel_idle THEN input.L ELSE valid_job_time_left - 1
      /\ channel_idle' = FALSE
      /\ utilization_time_count' = utilization_time_count + 1
      /\ UNCHANGED nodeVars
  BY DEF Transmit
<1>1. \/ channel_idle /\ engaged = <<>> /\ Found(Sensed, input.N)
      \/ ~channel_idle /\ ~JobEnds /\ Len(engaged) = 1 /\ Sensed = engaged
  <2>1. CASE Sensed = <<>>
    <3>1. Len(<<>>) = 0
      OBVIOUS
    <3>2. QED
      BY <1>0, <2>1, <3>1
  <2>2. CASE Len(engaged) > 1 /\ Sensed = engaged
    <3>1. Len(engaged) = 1
      BY <1>0, <2>2
    <3>2. QED
      BY <2>2, <3>1
  <2>3. QED
    BY <2>1, <2>2, SensedIs, Zenon
<1>2. Len(engaged) <= 1
  <2>1. Len(<<>>) <= 1
    OBVIOUS
  <2>2. CASE engaged = <<>>
    BY <2>1, <2>2
  <2>3. CASE Len(engaged) = 1
    BY <2>3
  <2>4. QED
    BY <1>1, <2>2, <2>3
<1>3. /\ Sensed \in Seq(Nodes) /\ Sensed[1] \in Nodes /\ Sensed = <<Sensed[1]>>
  <2>1. Sensed \in Seq(Nodes)
    BY <1>1, StepTypes DEF Found
  <2>2. QED
    BY <1>0, <2>1
<1>4. \A id \in Nodes : ~need_reload_countdown[id]
  BY <1>1 DEF CsmaInv
<1>5. \A id \in Nodes : countdown[id] = 0 <=> id = Sensed[1]
  <2> SUFFICES ASSUME NEW id \in Nodes PROVE countdown[id] = 0 <=> id = Sensed[1]
    OBVIOUS
  <2>1. CASE Found(Sensed, input.N)
    <3>1. Ready(id) <=> \E i \in 1..Len(Sensed) : Sensed[i] = id
      BY <2>1, StepTypes DEF Found
    <3>2. (\E i \in 1..Len(Sensed) : Sensed[i] = id) <=> id = Sensed[1]
      BY <1>0
    <3>3. QED
      BY <1>4, <3>1, <3>2 DEF Ready
  <2>2. CASE ~channel_idle /\ Sensed = engaged
    <3>1. engaged = <<valid_job_node_id>> /\ {k \in Nodes : countdown[k] = 0} = {valid_job_node_id}
      BY <2>2 DEF CsmaInv, BusyMeansOneSender
    <3>2. Sensed[1] = valid_job_node_id
      BY <2>2, <3>1
    <3>3. QED
      BY <3>1, <3>2
  <2>3. QED
    BY <1>1, <2>1, <2>2
<1>6. valid_job_time_left' \in 1..input.L
  <2>1. CASE channel_idle
    BY <1>0, <2>1, StepTypes
  <2>2. CASE ~channel_idle
    <3>1. valid_job_time_left \in 1..input.L /\ valid_job_time_left # 1
      BY <1>1, <2>2 DEF CsmaInv, BusyMeansOneSender, JobEnds
    <3>2. input.L \in Nat
      BY StepTypes
    <3> DEFINE left == valid_job_time_left - 1
    <3>3. left \in 1..input.L
      BY <3>1, <3>2
    <3>4. valid_job_time_left' = left
      BY <1>0, <2>2
    <3> HIDE DEF left
    <3>5. QED
      BY <3>3, <3>4
  <2>3. QED
    BY <2>1, <2>2
<1>7. UNCHANGED <<countdown, gear_R, need_reload_countdown, input>> /\ Nodes' = Nodes
  BY <1>0, TickTypes DEF nodeVars, Tick
<1>8. CsmaTypeOK'
  <2>1. /\ input' \in Inputs /\ tick_time' \in 0..input.T
        /\ utilization_time_count' \in 0..tick_time'
    BY <1>0, TickTypes
  <2>2. /\ countdown' \in [Nodes -> Int] /\ gear_R' \in [Nodes -> 0..input.M-1]
        /\ need_reload_countdown' \in [Nodes -> BOOLEAN]
    BY <1>7, StepTypes
  <2>3. valid_job_time_left' \in 0..input.L
    BY <1>6, StepTypes
  <2>4. QED
    BY <1>0, <1>3, <1>7, <2>1, <2>2, <2>3 DEF CsmaTypeOK
<1>9. BusyMeansOneSender'
  <2>1. engaged' = <<valid_job_node_id'>>
    BY <1>0, <1>3
  <2>2. {id \in Nodes : countdown[id] = 0} = {Sensed[1]}
    BY <1>3, <1>5
  <2>3. QED
    BY <1>0, <1>6, <1>7, <2>1, <2>2 DEF BusyMeansOneSender
<1>10. EngagedFitsArray'
  <2>1. input.N >= 1 /\ \A i, j \in 1..Len(Sensed) : i = j
    BY <1>0, StepTypes
  <2>2. QED
    BY <1>0, <1>7, <2>1 DEF EngagedFitsArray
<1>11. \A i \in 1..Len(engaged') : countdown'[engaged'[i]] = 0
  <2>1. \A i \in 1..Len(Sensed) : countdown[Sensed[i]] = 0
    <3>1. \A i \in 1..Len(Sensed) : i = 1
      BY <1>0
    <3>2. countdown[Sensed[1]] = 0
      BY <1>3, <1>5
    <3>3. QED
      BY <3>1, <3>2
  <2>2. QED
    BY <1>0, <1>7, <2>1
<1>12. QED
  BY <1>0, <1>2, <1>4, <1>7, <1>8, <1>9, <1>10, <1>11

\* Nobody ready, or the job just over: nodes draw again and all count down.
LEMMA CountDownKeeps ==
  ASSUME CsmaInv, Tick, CountDown
  PROVE  /\ CsmaTypeOK' /\ EngagedFitsArray' /\ BusyMeansOneSender'
         /\ channel_idle' /\ engaged' = <<>> /\ Len(engaged) <= 1
         /\ \A id \in Nodes : ~need_reload_countdown'[id]
         /\ channel_idle \/ JobEnds
         /\ \A id \in Nodes : countdown[id] < 0 => countdown'[id] < 0
         /\ utilization_time_count' = utilization_time_count
<1>0. /\ Len(Sensed) = 0 /\ engaged' = <<>>
      /\ countdown' = [id \in Nodes |->
           (IF MustReload(id) THEN BackOff(id, gear_R[id]) ELSE countdown[id]) - 1]
      /\ need_reload_countdown' = [id \in Nodes |-> FALSE]
      /\ valid_job_time_left' =
           IF channel_idle THEN valid_job_time_left ELSE valid_job_time_left - 1
      /\ channel_idle' = TRUE
      /\ UNCHANGED <<gear_R, valid_job_node_id, utilization_time_count>>
  BY DEF CountDown
<1>1. \/ channel_idle /\ engaged = <<>>
      \/ ~channel_idle /\ JobEnds
  <2>1. CASE Len(engaged) > 1 /\ Sensed = engaged
    BY <1>0, <2>1
  <2>2. CASE Len(engaged) = 1 /\ Sensed = engaged
    <3>1. Len(Sensed) = 1
      BY <2>2
    <3>2. QED
      BY <1>0, <3>1
  <2>3. QED
    BY <2>1, <2>2, SensedIs, Zenon
<1>2. Len(engaged) <= 1
  <2>1. Len(<<>>) <= 1
    OBVIOUS
  <2>2. CASE engaged = <<>>
    BY <2>1, <2>2
  <2>3. CASE ~channel_idle
    <3>1. engaged = <<valid_job_node_id>>
      BY <2>3 DEF CsmaInv, BusyMeansOneSender
    <3>2. Len(<<valid_job_node_id>>) = 1
      OBVIOUS
    <3>3. QED
      BY <3>1, <3>2
  <2>4. QED
    BY <1>1, <2>2, <2>3
<1>3. \A id \in Nodes : ~need_reload_countdown[id]
  BY <1>1 DEF CsmaInv
<1>4. ASSUME NEW id \in Nodes, countdown[id] < 0
      PROVE  ~MustReload(id)
  <2>1. ~channel_idle => countdown[valid_job_node_id] = 0
    BY StepTypes DEF CsmaInv, BusyMeansOneSender
  <2>2. JobEnds => ~channel_idle
    BY DEF JobEnds
  <2>3. QED
    BY <1>3, <1>4, <2>1, <2>2 DEF MustReload
<1>5. \A id \in Nodes : countdown[id] < 0 => countdown'[id] < 0
  BY <1>0, <1>4, StepTypes
<1>6. UNCHANGED <<gear_R, valid_job_node_id, utilization_time_count, input>> /\ Nodes' = Nodes
  BY <1>0, TickTypes DEF Tick
<1>7. valid_job_time_left' \in 0..input.L
  <2>1. CASE channel_idle
    BY <1>0, <2>1, StepTypes
  <2>2. CASE ~channel_idle
    <3>1. valid_job_time_left = 1
      BY <1>1, <2>2 DEF JobEnds
    <3>2. QED
      BY <1>0, <2>2, <3>1, StepTypes
  <2>3. QED
    BY <2>1, <2>2
<1>8. CsmaTypeOK'
  <2>1. /\ input' \in Inputs /\ tick_time' \in 0..input.T
        /\ utilization_time_count' \in 0..tick_time'
    BY <1>6, TickTypes
  <2>2. countdown' \in [Nodes -> Int]
    BY <1>0, StepTypes
  <2>3. /\ gear_R' \in [Nodes -> 0..input.M-1] /\ valid_job_node_id' \in Nodes
        /\ need_reload_countdown' \in [Nodes -> BOOLEAN]
    BY <1>0, <1>6, StepTypes
  <2>4. QED
    BY <1>0, <1>6, <1>7, <2>1, <2>2, <2>3 DEF CsmaTypeOK
<1>9. BusyMeansOneSender'
  BY <1>0 DEF BusyMeansOneSender
<1>10. EngagedFitsArray'
  <2>1. Len(<<>>) = 0 /\ input.N >= 0
    BY StepTypes
  <2>2. QED
    BY <1>0, <1>6, <2>1 DEF EngagedFitsArray
<1>11. QED
  BY <1>0, <1>1, <1>2, <1>5, <1>8, <1>9, <1>10
\* The utilisation goes on counting whole packets: a tick of transmission is
\* one more of the job, and the job ends after L of them.
LEMMA WholePacketsKept ==
  ASSUME CsmaInv, Tick, Collide \/ Transmit \/ CountDown
  PROVE  WholePackets'
<1>1. PICK k \in Nat : utilization_time_count = k * input.L + TicksOfJob
  BY DEF CsmaInv, WholePackets
<1>2. /\ input.L \in Nat \ {0} /\ valid_job_time_left \in 0..input.L /\ input' = input
      /\ utilization_time_count \in Nat
  BY StepTypes, TickTypes DEF Tick
<1> DEFINE L == input.L
           old == utilization_time_count
           new == utilization_time_count'
<1>3. k * L \in Nat /\ (k + 1) * L = k * L + L
  BY <1>2, Multiples
<1>4. CASE Collide
  <2>1. /\ channel_idle /\ channel_idle' /\ new = old
    BY <1>4, CollideKeeps DEF jobVars
  <2>2. TicksOfJob = 0 /\ TicksOfJob' = 0
    BY <2>1 DEF TicksOfJob
  <2>3. new = k * input.L' + TicksOfJob'
    BY <1>1, <1>2, <2>1, <2>2
  <2>4. QED
    BY <2>3 DEF WholePackets
<1>5. CASE Transmit
  <2>1. /\ ~channel_idle' /\ new = old + 1
        /\ valid_job_time_left' = IF channel_idle THEN L ELSE valid_job_time_left - 1
    BY <1>5, TransmitKeeps
  <2>2. TicksOfJob' = TicksOfJob + 1 /\ TicksOfJob \in Int
    <3>1. TicksOfJob' = L - valid_job_time_left' + 1
      BY <1>2, <2>1 DEF TicksOfJob
    <3>2. CASE channel_idle
      BY <1>2, <2>1, <3>1, <3>2 DEF TicksOfJob
    <3>3. CASE ~channel_idle
      BY <1>2, <2>1, <3>1, <3>3 DEF TicksOfJob
    <3>4. QED
      BY <3>2, <3>3
  <2> DEFINE t == TicksOfJob
             u == TicksOfJob'
  <2>3. u = t + 1 /\ t \in Int /\ new = old + 1 /\ old = k * L + t
    BY <1>1, <2>1, <2>2
  <2> HIDE DEF u, t, new, old
  <2>4. new = k * L + u
    BY <1>3, <2>3
  <2>5. new = k * input.L' + TicksOfJob'
    BY <1>2, <2>4 DEF u
  <2>6. QED
    BY <2>5 DEF WholePackets, new
<1>6. CASE CountDown
  <2>1. channel_idle' /\ new = old /\ (channel_idle \/ JobEnds)
    BY <1>6, CountDownKeeps
  <2>2. TicksOfJob' = 0
    BY <2>1 DEF TicksOfJob
  <2>3. TicksOfJob \in {0, L}
    <3>1. CASE channel_idle
      BY <3>1 DEF TicksOfJob
    <3>2. CASE JobEnds
      BY <1>2, <3>2 DEF TicksOfJob, JobEnds
    <3>3. QED
      BY <2>1, <3>1, <3>2
  <2>4. \E m \in Nat : old = m * L
    <3>1. old = k * L \/ old = (k + 1) * L
      BY <1>1, <1>3, <2>3
    <3>2. k + 1 \in Nat
      OBVIOUS
    <3>3. QED
      BY <3>1, <3>2
  <2>5. PICK m \in Nat : old = m * L
    BY <2>4
  <2>6. m * L \in Nat
    BY <1>2, Multiples
  <2>7. new = m * input.L' + TicksOfJob'
    BY <1>2, <2>1, <2>2, <2>5, <2>6
  <2>8. QED
    BY <2>7 DEF WholePackets
<1>7. QED
  BY <1>4, <1>5, <1>6

LEMMA CsmaInvKept ==
  ASSUME CsmaInv, [Next]_vars
  PROVE  CsmaInv'
<1>1. CASE UNCHANGED vars
  BY <1>1 DEF vars, nodeVars, jobVars, CsmaInv, CsmaTypeOK, EngagedFitsArray,
              BusyMeansOneSender, WholePackets, TicksOfJob, Nodes, Ready
<1>2. CASE Next
  <2>1. Tick /\ (Collide \/ Transmit \/ CountDown)
    BY <1>2 DEF Next, Tick
  <2>2. WholePackets' /\ Nodes' = Nodes
    BY <2>1, WholePacketsKept, TickTypes
  <2>3. CASE Collide
    <3>1. /\ CsmaTypeOK' /\ EngagedFitsArray' /\ BusyMeansOneSender'
          /\ channel_idle' /\ Len(engaged') > 1
          /\ \A i \in 1..Len(engaged') : countdown'[engaged'[i]] = 0
          /\ \A id \in Nodes : ~Ready(id)'
      BY <2>1, <2>3, CollideKeeps
    <3>2. Len(engaged') # 1
      BY <3>1
    <3>3. engaged' # <<>>
      <4>1. Len(<<>>) = 0
        OBVIOUS
      <4>2. QED
        BY <3>1, <4>1
    <3>4. QED
      BY <2>2, <3>1, <3>2, <3>3 DEF CsmaInv
  <2>4. CASE Transmit
    <3>1. /\ CsmaTypeOK' /\ EngagedFitsArray' /\ BusyMeansOneSender'
          /\ ~channel_idle' /\ Len(engaged') = 1
          /\ \A i \in 1..Len(engaged') : countdown'[engaged'[i]] = 0
          /\ \A id \in Nodes : ~need_reload_countdown'[id]
      BY <2>1, <2>4, TransmitKeeps
    <3>2. ~(Len(engaged') > 1)
      BY <3>1
    <3>3. QED
      BY <2>2, <3>1, <3>2 DEF CsmaInv
  <2>5. CASE CountDown
    <3>1. /\ CsmaTypeOK' /\ EngagedFitsArray' /\ BusyMeansOneSender'
          /\ channel_idle' /\ engaged' = <<>>
          /\ \A id \in Nodes : ~need_reload_countdown'[id]
      BY <2>1, <2>5, CountDownKeeps
    <3>2. Len(<<>>) = 0
      OBVIOUS
    <3>3. Len(engaged') # 1 /\ ~(Len(engaged') > 1) /\ 1..Len(engaged') = {}
      BY <3>1, <3>2
    <3>4. QED
      BY <2>2, <3>1, <3>3 DEF CsmaInv
  <2>6. QED
    BY <2>1, <2>3, <2>4, <2>5
<1>3. QED
  BY <1>1, <1>2

LEMMA CsmaInvariant == Spec => []CsmaInv
BY CsmaInvInitially, CsmaInvKept, PTL DEF Spec

----------------------------------------------------------------------------
\* The variables of main keep to their types for every input file, gear_R to
\* the gears the file gives ranges for.
THEOREM CsmaTypeCorrect == Spec => []CsmaTypeOK
<1>1. CsmaInv => CsmaTypeOK
  BY DEF CsmaInv
<1>2. QED
  BY <1>1, CsmaInvariant, PTL

\* While a packet is on the channel exactly its sender is engaged and at 0,
\* whatever the number of nodes and the length of the packet.
THEOREM BusyHasOneSender == Spec => []BusyMeansOneSender
<1>1. CsmaInv => BusyMeansOneSender
  BY DEF CsmaInv
<1>2. QED
  BY <1>1, CsmaInvariant, PTL

\* engaged_nodes_id never overflows, although it is appended to unchecked and
\* survives every collision.
THEOREM EngagedNeverOverflows == Spec => []EngagedFitsArray
<1>1. CsmaInv => EngagedFitsArray
  BY DEF CsmaInv
<1>2. QED
  BY <1>1, CsmaInvariant, PTL

\* The utilisation counts the ticks of whole packets, for every packet length.
THEOREM UtilizationCountsPackets == Spec => []UtilizationIsWholePackets
<1>1. CsmaInv => UtilizationIsWholePackets
  <2> SUFFICES ASSUME CsmaInv PROVE UtilizationIsWholePackets
    OBVIOUS
  <2>1. PICK k \in Nat : utilization_time_count = k * input.L + TicksOfJob
    BY DEF CsmaInv, WholePackets
  <2>2. /\ input.L \in Nat \ {0} /\ valid_job_time_left \in 0..input.L
        /\ utilization_time_count \in Int
    BY StepTypes
  <2>3. TicksOfJob \in Int
    BY <2>2 DEF TicksOfJob
  <2>4. (k * input.L) % input.L = 0 /\ k * input.L \in Nat
    BY <2>2, Multiples
  <2>5. /\ TicksOfJob <= utilization_time_count
        /\ utilization_time_count - TicksOfJob = k * input.L
    BY <2>1, <2>2, <2>3, <2>4
  <2>6. QED
    BY <2>4, <2>5 DEF UtilizationIsWholePackets, TicksOfJob
<1>2. QED
  BY <1>1, CsmaInvariant, PTL

\* Once two nodes collide, every later tick is the same collision.
THEOREM CollisionIsForEver == Spec => CollisionJamsChannel
<1> DEFINE Step ==
      Len(engaged) > 1 => /\ Collide
                          /\ UNCHANGED <<engaged, countdown, utilization_time_count>>
<1>1. CsmaInv /\ [Next]_vars => [Step]_vars
  <2> SUFFICES ASSUME CsmaInv, Next, Len(engaged) > 1
               PROVE  Collide /\ UNCHANGED <<engaged, countdown, utilization_time_count>>
    OBVIOUS
  <2>1. Tick /\ (Collide \/ Transmit \/ CountDown)
    BY DEF Next, Tick
  <2>2. Len(engaged) \in Nat
    BY StepTypes
  <2>3. ~Transmit /\ ~CountDown
    <3>1. Transmit \/ CountDown => Len(engaged) <= 1
      BY <2>1, TransmitKeeps, CountDownKeeps
    <3>2. QED
      BY <2>2, <3>1
  <2>4. QED
    BY <2>1, <2>3, CollideKeeps DEF jobVars
<1>2. QED
  BY <1>1, CsmaInvariant, PTL DEF Spec, CollisionJamsChannel

\* A node that drew 0, and so counted past it, never takes part again.
THEOREM MissedZeroIsForEver == Spec => MissedZeroStarves
<1> DEFINE Step ==
      \A id \in DOMAIN countdown :
        countdown[id] < 0 => /\ countdown'[id] < 0
                             /\ \A i \in 1..Len(engaged') : engaged'[i] # id
<1>1. CsmaInv /\ [Next]_vars => [Step]_vars
  <2> SUFFICES ASSUME CsmaInv, Next, NEW id \in DOMAIN countdown, countdown[id] < 0
               PROVE  /\ countdown'[id] < 0
                      /\ \A i \in 1..Len(engaged') : engaged'[i] # id
    OBVIOUS
  <2>1. /\ Tick /\ (Collide \/ Transmit \/ CountDown)
        /\ id \in Nodes /\ CsmaInv'
    BY CsmaInvKept, StepTypes DEF Next, Tick
  <2>2. countdown'[id] < 0
    <3>1. CASE Collide \/ Transmit
      <4>1. countdown' = countdown
        BY <3>1 DEF Collide, Transmit, nodeVars
      <4>2. QED
        BY <4>1
    <3>2. CASE CountDown
      BY <2>1, <3>2, CountDownKeeps
    <3>3. QED
      BY <2>1, <3>1, <3>2
  <2>3. \A i \in 1..Len(engaged') : countdown'[engaged'[i]] = 0
    BY <2>1 DEF CsmaInv
  <2>4. QED
    BY <2>2, <2>3
<1>2. QED
  BY <1>1, CsmaInvariant, PTL DEF Spec, MissedZeroStarves
=============================================================================
