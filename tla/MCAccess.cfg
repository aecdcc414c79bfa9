SPECIFICATION Spec
CONSTANTS
  page = page
  typist = typist
  visitor = visitor
  Pages = {page}
  Others = {typist, visitor}
  At <- MCAt
  MaxFails = 2
  MaxKnown = 0
  Window = 1
  TokenTTL = 2
  PairTTL = 1
  MaxKeys = 2
INVARIANTS
  TypeOK
  TriesBounded
  PairingsSurvive
PROPERTY
  RefusalEnds
CHECK_DEADLOCK FALSE
