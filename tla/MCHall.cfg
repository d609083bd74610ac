\* A UDKU and an escalator see the door; the panels of two UDKUs and a cabinet.
SPECIFICATION MCSpec
CHECK_DEADLOCK FALSE
CONSTANTS
  Reporters = {"udku", "escalator"}
  MaxPulses = 3
  PanelDevices = {1, 2, 3}
  Kind <- ConfiguredKind
  Blocks <- SomeBlocks
  Reconnects = 1
INVARIANTS
  ShownAsKnown
PROPERTIES
  AlarmKept
  OpenShown
