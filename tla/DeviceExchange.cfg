\* Two commands and a setting of the clock over a line that comes and goes.
SPECIFICATION FairSpec
CONSTANTS
  ReconnectsCount = 2
  MaxCommands = 2
  MaxTimeSets = 1
  MaxPulses = 1
  MaxLate = 1
INVARIANTS
  CommandsKept
  AnswersPaired
PROPERTY LineDecoded
