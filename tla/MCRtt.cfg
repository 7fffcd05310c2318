SPECIFICATION RttSpec
CONSTANTS
  INT_MAX = 255
  Durations <- MCDurations
INVARIANTS
  TimeoutCoversSample
  TimeoutUsable
\* No sample is taken any more once the timeout is negative.
CHECK_DEADLOCK FALSE
