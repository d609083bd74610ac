\* Both contactors, an escalator with and one without a preferred direction.
SPECIFICATION UdkuSpec
CHECK_DEADLOCK FALSE
CONSTANTS
  ReconnectsCount = 0
  Prefs = {"UP", "REVERSE"}
  Commands = {"UP", "STOP", "ACCEPT", "CHANCEL"}
  Motions = {"UP", "DOWN"}
  Links = {"mixed"}
INVARIANTS
  ShownRight
PROPERTIES
  MovesByRule
