\* One escalator; the dispatcher chooses at most two movements.
SPECIFICATION Spec
CHECK_DEADLOCK FALSE
CONSTANTS
  Prefs = {"UP", "REVERSE"}
  Answers <- MCAnswers
  Moves = {"UP", "STOP"}
  MaxCommands = 2
INVARIANTS
  PoolSound
PROPERTIES
  OffIsQuiet
  UnconfirmedOnlyIfChanged
