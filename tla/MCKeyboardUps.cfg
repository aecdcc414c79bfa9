\* One Mac, five presses and the like: the least that shows it.
SPECIFICATION Spec
CONSTANTS
  Pages = {p1}
  Macs = {p1}
  Keys = {"Shift", "Meta", "Seven"}
  MaxEvents = 5
INVARIANT KeyupMatches
CHECK_DEADLOCK FALSE
