---------------------------- MODULE RttEstimator ----------------------------
(***************************************************************************)
(* The sender's estimate of the round-trip time and the timeout it gives   *)
(* select: calculateRTT and update_RTT of mp2's sender_main.cpp, in ints   *)
(* of the width of INT_MAX.  A sample can be of any duration: old ACKs are *)
(* taken for new ones (newest_seq_num is never assigned), and the clock,   *)
(* which is the system's, may be set back.                                 *)
(***************************************************************************)
EXTENDS Integers

CONSTANTS
  INT_MAX,
  Durations     \* microseconds between a send and the ACK, as the clock says

ASSUME IntMaxAssumption == INT_MAX \in Nat \ {0}
ASSUME DurationsAssumption == Durations \subseteq Int

VARIABLES
  SampleRTT, EstimatedRTT, DevRTT, TimeoutInterval,
  longest,      \* history: the longest duration so far, in either direction,
  setBack       \* and whether some duration was negative

rttVars == <<SampleRTT, EstimatedRTT, DevRTT, TimeoutInterval, longest, setBack>>

Width == 2 * INT_MAX + 2

\* What is left of n in an int, in two's complement.
Wrap(n) == ((n + INT_MAX + 1) % Width) - INT_MAX - 1

\* n / d, as static_cast<int> truncates it; the doubles are exact.
Trunc(n, d) == IF n >= 0 THEN n \div d ELSE -((-n) \div d)

Abs(n) == IF n >= 0 THEN n ELSE -n

RttInit ==
  /\ SampleRTT = 0 /\ EstimatedRTT = 0 /\ DevRTT = 0 /\ TimeoutInterval = 0
  /\ longest = 0 /\ setBack = FALSE

\* calculateRTT: too long a duration becomes INT_MAX, too short a one wraps.
calculateRTT(duration) ==
  IF duration > INT_MAX THEN INT_MAX ELSE Wrap(duration)

\* Mutant of NewDeviation: std::abs forgotten.
NewDeviationSigned(sample, estimate) == Trunc(3 * DevRTT + Wrap(sample - estimate), 4)

NewEstimate(sample) == Trunc(7 * EstimatedRTT + sample, 8)

\* std::abs of the least int is that int.
NewDeviation(sample, estimate) ==
  Trunc(3 * DevRTT + Wrap(Abs(Wrap(sample - estimate))), 4)

\* Mutant of Timeout: one deviation is allowed for instead of four.
TimeoutOneDeviation(estimate, deviation) == Wrap(estimate + deviation)

Timeout(estimate, deviation) == Wrap(estimate + Wrap(4 * deviation))

\* update_RTT
update_RTT(sample) ==
  /\ SampleRTT' = sample
  /\ EstimatedRTT' = NewEstimate(sample)
  /\ DevRTT' = NewDeviation(sample, EstimatedRTT')
  /\ TimeoutInterval' = Timeout(EstimatedRTT', DevRTT')

\* A new ACK of a packet sent once.  With a negative timeout select fails, no
\* ACK is read any more and the interval stays as it is.
Sample ==
  /\ TimeoutInterval >= 0
  /\ \E duration \in Durations :
       /\ update_RTT(calculateRTT(duration))
       /\ longest' = IF Abs(duration) > longest THEN Abs(duration) ELSE longest
       /\ setBack' = (setBack \/ duration < 0)

RttNext == Sample

RttSpec == RttInit /\ [][RttNext]_rttVars

----------------------------------------------------------------------------
\* Type correctness: the estimates are ints.
RttTypeOK ==
  /\ {SampleRTT, EstimatedRTT, DevRTT, TimeoutInterval} \subseteq -INT_MAX-1..INT_MAX
  /\ longest \in Nat /\ setBack \in BOOLEAN

\* The timeout is never shorter than the round trip just measured by more
\* than the 3 microseconds that truncation may take, so a path that does not
\* get slower does not time out: although both estimates are rounded down at
\* every sample, and even if a clock set back has made some sample negative.
TimeoutCoversSample ==
  9 * longest <= INT_MAX => TimeoutInterval >= SampleRTT - 3

\* With a clock that is never set back and no round trip of more than a fifth
\* of INT_MAX (seven minutes), nothing overflows: the timeout is one that
\* select accepts, and no more than five times the longest round trip.
TimeoutUsable ==
  ~setBack /\ 5 * longest <= INT_MAX => TimeoutInterval \in 0..5 * longest
=============================================================================
