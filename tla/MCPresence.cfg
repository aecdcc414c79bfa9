\* Two sessions, or a crash of nc-host between them.
SPECIFICATION MCSpec
CONSTANTS
  Sessions = {s1, s2}
  Limit = 1
  MaxCrashes = 1
INVARIANTS
  PresenceTypeOK
  IdleTold
PROPERTY
  EmptyDeskStops
CHECK_DEADLOCK FALSE
