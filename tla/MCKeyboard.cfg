\* A Mac and another device, four presses, clicks, losses of focus and reconnections.
SPECIFICATION Spec
CONSTANTS
  Pages = {p1, p2}
  Macs = {p1}
  Keys = {"Shift", "Meta", "Seven", "Escape"}
  MaxEvents = 4
INVARIANTS
  TypeOK
  NoStuckKey
  AllGoneAllUp
CHECK_DEADLOCK FALSE
