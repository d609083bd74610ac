\* The third position, whose lines are not all compared, and a command waiting.
SPECIFICATION Spec
CHECK_DEADLOCK FALSE
CONSTANTS
  Escalators = {3}
  Related = {3}
  ReconnectsCount = 0
  Moving = {}
  MaxPool = 1
INVARIANTS
  CabinetShown
  NoKnownDouble
PROPERTIES
  MarkStands
