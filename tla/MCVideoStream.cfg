SPECIFICATION Spec
CONSTANTS
  MaxPictures = 3
  MaxSlices = 2
  MaxChunk = 5
  TrimAt = 6
CHECK_DEADLOCK FALSE
INVARIANTS
  StreamExact
  PicturesExact
