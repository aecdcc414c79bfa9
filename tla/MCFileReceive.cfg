\* Two channels with two files each, one file of the desk's own, one crash.
SPECIFICATION Spec
CONSTANTS
  Channels = {c1, c2}
  MaxFiles = 2
  MaxOwn = 1
  MaxCrashes = 1
SYMMETRY Symmetry
INVARIANTS
  TypeOK
  PartIntact
  NoOrphanPart
  OldFilesKept
CHECK_DEADLOCK FALSE
