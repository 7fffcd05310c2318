------------------------------ MODULE RttProofs -----------------------------
(***************************************************************************)
(* Theorems about the sender's RTT estimator, for ints of every width and  *)
(* every sequence of samples.                                              *)
(***************************************************************************)
EXTENDS RttEstimator, TLAPS

\* A number that fits in an int stays as it is.
LEMMA WrapFits ==
  ASSUME NEW n \in -INT_MAX-1..INT_MAX
  PROVE  Wrap(n) = n
<1> DEFINE a == n + INT_MAX + 1
<1>1. /\ INT_MAX \in Nat /\ n \in Int /\ a \in Nat /\ Width \in Nat \ {0}
      /\ 0 <= a /\ a < Width
  BY IntMaxAssumption DEF Width
<1> HIDE DEF a
<1>2. a % Width = a
  BY <1>1
<1>3. QED
  BY <1>1, <1>2 DEF a, Wrap

\* What is left of any number fits.
LEMMA WrapTypes ==
  ASSUME NEW n \in Int
  PROVE  Wrap(n) \in -INT_MAX-1..INT_MAX
<1> DEFINE a == n + INT_MAX + 1
<1>1. /\ INT_MAX \in Nat /\ a \in Int /\ Width \in Nat \ {0}
  BY IntMaxAssumption DEF Width
<1> HIDE DEF a
<1>2. a % Width \in 0..Width-1
  BY <1>1
<1>3. QED
  BY <1>1, <1>2 DEF a, Wrap, Width

\* Truncation towards 0, at the two divisors of update_RTT: the result lies
\* between 0 and the quotient, less than 1 away from it.
LEMMA TruncEighth ==
  ASSUME NEW n \in Int
  PROVE  /\ Trunc(n, 8) \in Int
         /\ n >= 0 => Trunc(n, 8) >= 0 /\ 8 * Trunc(n, 8) <= n /\ n <= 8 * Trunc(n, 8) + 7
         /\ n < 0 => Trunc(n, 8) <= 0 /\ n <= 8 * Trunc(n, 8) /\ 8 * Trunc(n, 8) - 7 <= n
BY DEF Trunc

LEMMA TruncFourth ==
  ASSUME NEW n \in Int
  PROVE  /\ Trunc(n, 4) \in Int
         /\ n >= 0 => Trunc(n, 4) >= 0 /\ 4 * Trunc(n, 4) <= n /\ n <= 4 * Trunc(n, 4) + 3
         /\ n < 0 => Trunc(n, 4) <= 0 /\ n <= 4 * Trunc(n, 4) /\ 4 * Trunc(n, 4) - 3 <= n
BY DEF Trunc

----------------------------------------------------------------------------
\* The inductive invariant, of the longest duration L and the four variables.
\* While nothing overflows the estimates stay within L, and the deviation,
\* which a change of sign may double, within twice that.
Covered(L, sample, estimate, deviation, interval) ==
  9 * L <= INT_MAX =>
    /\ sample \in -L..L /\ estimate \in -L..L
    /\ deviation \in 0..2 * L
    /\ interval >= sample - 3

\* With no duration negative they do not become negative either.
Usable(L, sample, estimate, deviation, interval) ==
  5 * L <= INT_MAX =>
    /\ sample \in 0..L /\ estimate \in 0..L
    /\ deviation \in 0..L
    /\ interval \in 0..5 * L

CoverInv == Covered(longest, SampleRTT, EstimatedRTT, DevRTT, TimeoutInterval)

UsableInv ==
  ~setBack => Usable(longest, SampleRTT, EstimatedRTT, DevRTT, TimeoutInterval)

RttInv == RttTypeOK /\ CoverInv /\ UsableInv

Ints == -INT_MAX-1..INT_MAX

\* One update computes ints.
LEMMA UpdateTypes ==
  ASSUME RttTypeOK, NEW sample \in Ints,
         NEW e, e = NewEstimate(sample),
         NEW d, d = NewDeviation(sample, e),
         NEW t, t = Timeout(e, d)
  PROVE  e \in Ints /\ d \in Ints /\ t \in Ints
<1>1. INT_MAX \in Nat /\ EstimatedRTT \in Ints /\ DevRTT \in Ints
  BY IntMaxAssumption DEF RttTypeOK, Ints
<1>2. e \in Ints
  <2> DEFINE n == 7 * EstimatedRTT + sample
  <2>1. n \in Int /\ -8 * INT_MAX - 8 <= n /\ n <= 8 * INT_MAX
    BY <1>1 DEF Ints
  <2>2. e = Trunc(n, 8)
    BY DEF NewEstimate
  <2> HIDE DEF n
  <2>3. /\ e \in Int
        /\ n >= 0 => e >= 0 /\ 8 * e <= n /\ n <= 8 * e + 7
        /\ n < 0 => e <= 0 /\ n <= 8 * e /\ 8 * e - 7 <= n
    BY <2>1, <2>2, TruncEighth
  <2>4. QED
    BY <1>1, <2>1, <2>3 DEF Ints
<1>3. d \in Ints
  <2> DEFINE w == Wrap(Abs(Wrap(sample - e)))
             n == 3 * DevRTT + w
  <2>1. Wrap(sample - e) \in Int
    BY <1>1, <1>2, WrapTypes DEF Ints
  <2>2. Abs(Wrap(sample - e)) \in Int
    BY <2>1 DEF Abs
  <2>3. w \in Ints
    BY <2>2, WrapTypes DEF Ints
  <2>4. d = Trunc(n, 4)
    BY DEF NewDeviation
  <2> HIDE DEF w
  <2>5. n \in Int /\ -4 * INT_MAX - 4 <= n /\ n <= 4 * INT_MAX
    BY <1>1, <2>3 DEF Ints
  <2> HIDE DEF n
  <2>6. /\ d \in Int
        /\ n >= 0 => d >= 0 /\ 4 * d <= n /\ n <= 4 * d + 3
        /\ n < 0 => d <= 0 /\ n <= 4 * d /\ 4 * d - 3 <= n
    BY <2>4, <2>5, TruncFourth
  <2>7. QED
    BY <1>1, <2>5, <2>6 DEF Ints
<1>4. t \in Ints
  <2>1. 4 * d \in Int
    BY <1>1, <1>3 DEF Ints
  <2>2. Wrap(4 * d) \in Int
    BY <1>1, <2>1, WrapTypes
  <2>3. e + Wrap(4 * d) \in Int
    BY <1>1, <1>2, <2>2 DEF Ints
  <2>4. QED
    BY <2>3, WrapTypes DEF Timeout, Ints
<1>5. QED
  BY <1>2, <1>3, <1>4

\* An update whose numbers are small does not overflow: it is the textbook's,
\* but for the truncation.
LEMMA UpdateCovers ==
  ASSUME NEW L \in Nat, 9 * L <= INT_MAX, NEW sample \in -L..L,
         EstimatedRTT \in -L..L, DevRTT \in 0..2 * L,
         NEW e, e = NewEstimate(sample),
         NEW d, d = NewDeviation(sample, e),
         NEW t, t = Timeout(e, d)
  PROVE  e \in -L..L /\ d \in 0..2 * L /\ t >= sample - 3
<1>1. INT_MAX \in Nat
  BY IntMaxAssumption
<1>2. e \in -L..L
  <2> DEFINE n == 7 * EstimatedRTT + sample
  <2>1. n \in Int /\ -8 * L <= n /\ n <= 8 * L
    OBVIOUS
  <2>2. e = Trunc(n, 8)
    BY DEF NewEstimate
  <2> HIDE DEF n
  <2>3. /\ e \in Int
        /\ n >= 0 => e >= 0 /\ 8 * e <= n /\ n <= 8 * e + 7
        /\ n < 0 => e <= 0 /\ n <= 8 * e /\ 8 * e - 7 <= n
    BY <2>1, <2>2, TruncEighth
  <2>4. QED
    BY <2>1, <2>3
<1> DEFINE diff == sample - e
           n == 3 * DevRTT + Abs(diff)
<1>3. /\ diff \in -INT_MAX-1..INT_MAX
      /\ Abs(diff) \in 0..2 * L /\ Abs(diff) >= diff
      /\ Abs(diff) \in -INT_MAX-1..INT_MAX
  BY <1>1, <1>2 DEF Abs
<1>4. d = Trunc(n, 4)
  BY <1>3, WrapFits DEF NewDeviation
<1>5. n \in Nat /\ n <= 8 * L /\ n >= diff
  BY <1>3
<1>6. d \in 0..2 * L /\ n <= 4 * d + 3
  <2> HIDE DEF n
  <2>1. QED
    BY <1>4, <1>5, TruncFourth
<1>7. /\ 4 * d \in -INT_MAX-1..INT_MAX
      /\ e + 4 * d \in -INT_MAX-1..INT_MAX
  BY <1>1, <1>2, <1>6
<1>8. t = e + 4 * d
  BY <1>7, WrapFits DEF Timeout
<1>9. QED
  BY <1>2, <1>5, <1>6, <1>8

\* With nothing negative there is room for longer durations.
LEMMA UpdateUsable ==
  ASSUME NEW L \in Nat, 5 * L <= INT_MAX, NEW sample \in 0..L,
         EstimatedRTT \in 0..L, DevRTT \in 0..L,
         NEW e, e = NewEstimate(sample),
         NEW d, d = NewDeviation(sample, e),
         NEW t, t = Timeout(e, d)
  PROVE  e \in 0..L /\ d \in 0..L /\ t \in 0..5 * L
<1>1. INT_MAX \in Nat
  BY IntMaxAssumption
<1>2. e \in 0..L
  <2> DEFINE n == 7 * EstimatedRTT + sample
  <2>1. n \in Nat /\ n <= 8 * L
    OBVIOUS
  <2>2. e = Trunc(n, 8)
    BY DEF NewEstimate
  <2> HIDE DEF n
  <2>3. /\ e \in Int
        /\ n >= 0 => e >= 0 /\ 8 * e <= n /\ n <= 8 * e + 7
        /\ n < 0 => e <= 0 /\ n <= 8 * e /\ 8 * e - 7 <= n
    BY <2>1, <2>2, TruncEighth
  <2>4. QED
    BY <2>1, <2>3
<1> DEFINE diff == sample - e
           n == 3 * DevRTT + Abs(diff)
<1>3. /\ diff \in -INT_MAX-1..INT_MAX
      /\ Abs(diff) \in 0..L
      /\ Abs(diff) \in -INT_MAX-1..INT_MAX
  BY <1>1, <1>2 DEF Abs
<1>4. d = Trunc(n, 4)
  BY <1>3, WrapFits DEF NewDeviation
<1>5. n \in Nat /\ n <= 4 * L
  BY <1>3
<1>6. d \in 0..L
  <2> HIDE DEF n
  <2>1. QED
    BY <1>4, <1>5, TruncFourth
<1>7. /\ 4 * d \in -INT_MAX-1..INT_MAX
      /\ e + 4 * d \in -INT_MAX-1..INT_MAX
  BY <1>1, <1>2, <1>6
<1>8. t = e + 4 * d
  BY <1>7, WrapFits DEF Timeout
<1>9. QED
  BY <1>2, <1>6, <1>8

LEMMA RttInitially == RttInit => RttInv
<1> SUFFICES ASSUME RttInit PROVE RttInv
  OBVIOUS
<1>1. /\ SampleRTT = 0 /\ EstimatedRTT = 0 /\ DevRTT = 0 /\ TimeoutInterval = 0
      /\ longest = 0 /\ setBack = FALSE /\ INT_MAX \in Nat
  BY IntMaxAssumption DEF RttInit
<1>2. Covered(0, 0, 0, 0, 0) /\ Usable(0, 0, 0, 0, 0)
  BY DEF Covered, Usable
<1>3. 0 \in -INT_MAX-1..INT_MAX
  BY <1>1
<1>4. RttTypeOK
  BY <1>1, <1>3 DEF RttTypeOK
<1>5. CoverInv /\ UsableInv
  BY <1>1, <1>2 DEF CoverInv, UsableInv
<1>6. QED
  BY <1>4, <1>5 DEF RttInv

LEMMA SampleKept == RttInv /\ Sample => RttInv'
<1> SUFFICES ASSUME RttInv, Sample PROVE RttInv'
  OBVIOUS
<1>1. PICK duration \in Durations :
        /\ update_RTT(calculateRTT(duration))
        /\ longest' = IF Abs(duration) > longest THEN Abs(duration) ELSE longest
        /\ setBack' = (setBack \/ duration < 0)
  BY DEF Sample
<1> DEFINE sample == calculateRTT(duration)
           L == IF Abs(duration) > longest THEN Abs(duration) ELSE longest
           e == NewEstimate(sample)
           d == NewDeviation(sample, e)
           t == Timeout(e, d)
<1>2. /\ INT_MAX \in Nat /\ duration \in Int /\ longest \in Nat /\ setBack \in BOOLEAN
      /\ RttTypeOK
  BY IntMaxAssumption, DurationsAssumption DEF RttInv, RttTypeOK
<1>3. L \in Nat /\ longest <= L /\ duration \in -L..L
  BY <1>2 DEF Abs
<1>4. /\ SampleRTT' = sample /\ EstimatedRTT' = e /\ DevRTT' = d
      /\ TimeoutInterval' = t /\ longest' = L
  BY <1>1 DEF update_RTT
<1>5. sample \in Ints
  BY <1>2, WrapTypes DEF calculateRTT, Ints
<1>6. duration \in Ints => sample = duration
  BY <1>2, WrapFits DEF calculateRTT, Ints
<1>7. e \in Ints /\ d \in Ints /\ t \in Ints
  <2> HIDE DEF sample, e, d, t
  <2>1. QED
    BY <1>2, <1>5, UpdateTypes DEF e, d, t
<1> HIDE DEF L, sample, e, d, t
<1>8. RttTypeOK'
  BY <1>1, <1>2, <1>3, <1>4, <1>5, <1>7 DEF RttTypeOK, Ints
<1>9. Covered(L, sample, e, d, t)
  <2> SUFFICES ASSUME 9 * L <= INT_MAX
               PROVE  /\ sample \in -L..L /\ e \in -L..L
                      /\ d \in 0..2 * L /\ t >= sample - 3
    BY DEF Covered
  <2>1. sample = duration /\ sample \in -L..L
    BY <1>2, <1>3, <1>6 DEF Ints
  <2>2. EstimatedRTT \in -L..L /\ DevRTT \in 0..2 * L
    BY <1>2, <1>3 DEF RttInv, CoverInv, Covered
  <2>3. QED
    BY <1>3, <2>1, <2>2, UpdateCovers DEF e, d, t
<1>10. ~setBack' => Usable(L, sample, e, d, t)
  <2> SUFFICES ASSUME ~setBack', 5 * L <= INT_MAX
               PROVE  /\ sample \in 0..L /\ e \in 0..L
                      /\ d \in 0..L /\ t \in 0..5 * L
    BY DEF Usable
  <2>1. duration >= 0 /\ ~setBack
    <3>1. ~(duration < 0) /\ ~setBack
      BY <1>1
    <3>2. QED
      BY <1>2, <3>1
  <2>2. sample = duration /\ sample \in 0..L
    BY <1>2, <1>3, <1>6, <2>1 DEF Ints
  <2>3. EstimatedRTT \in 0..L /\ DevRTT \in 0..L
    BY <1>2, <1>3, <2>1 DEF RttInv, UsableInv, Usable
  <2>4. QED
    BY <1>3, <2>2, <2>3, UpdateUsable DEF e, d, t
<1>11. CoverInv' /\ UsableInv'
  BY <1>4, <1>9, <1>10 DEF CoverInv, UsableInv
<1>12. QED
  BY <1>8, <1>11 DEF RttInv

LEMMA RttInvariant == RttSpec => []RttInv
<1>1. RttInv /\ UNCHANGED rttVars => RttInv'
  BY DEF RttInv, RttTypeOK, CoverInv, UsableInv, rttVars
<1>2. RttInv /\ [RttNext]_rttVars => RttInv'
  BY <1>1, SampleKept DEF RttNext
<1>3. QED
  BY <1>2, RttInitially, PTL DEF RttSpec

----------------------------------------------------------------------------
\* For ints of every width and samples of any duration: the timeout covers
\* the round trip just measured, but for 3 microseconds, as long as nothing
\* is so long that it could overflow (update_RTT).
THEOREM TimeoutCovers == RttSpec => []TimeoutCoversSample
<1>1. RttInv => TimeoutCoversSample
  BY DEF RttInv, CoverInv, Covered, TimeoutCoversSample
<1>2. QED
  BY <1>1, RttInvariant, PTL

\* For ints of every width: as long as the clock is not set back and nothing
\* takes longer than a fifth of INT_MAX, the timeout given to select is one
\* it accepts (sender_main.cpp:363).
THEOREM TimeoutStaysUsable == RttSpec => []TimeoutUsable
<1>1. RttInv => TimeoutUsable
  BY DEF RttInv, UsableInv, Usable, TimeoutUsable
<1>2. QED
  BY <1>1, RttInvariant, PTL
=============================================================================
