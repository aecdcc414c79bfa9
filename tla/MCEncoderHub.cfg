\* The screen hub: two devices and a size request, at most two encoder goroutines not
\* yet reaped: a start waits while both slots are taken. No symmetry, which would be
\* unsound for liveness.
SPECIFICATION FairSpec
CONSTANTS
  Devices = {d1, d2}
  Displays = {r1}
  Encoders = {e1, e2}
  Sizes = {s1, s2}
  Native = s1
  Gated = TRUE
  None = none
  Cold = cold
  Broken = broken
INVARIANTS
  TypeOK
  StopsWhenEmpty
  StartsAtKeyUnlessOverlap
PROPERTIES
  LeaveReturns
  OneEncoder
CHECK_DEADLOCK FALSE
