SPECIFICATION MCSpec
CONSTANTS
  first = first
  second = second
  Requests = {first, second}
  Size <- MCSize
  Pages = {page}
  Apps = {app}
  ReplyCap = 1
INVARIANTS
  TypeOK
  DeliveredWhole
PROPERTY
  AllAnswered
CHECK_DEADLOCK FALSE
