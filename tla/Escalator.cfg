\* One escalator under any mixture of answers, commands and settings; from some
\* moment on the line may behave in one way.
CONSTANTS
  ReconnectsCount = 1
  Prefs = {"UP", "REVERSE"}
  Commands = {"UP", "STOP", "ACCEPT"}
  Motions = {"UP", "DOWN"}
  Links = {"mixed", "up", "failing", "down"}
SPECIFICATION FairSpec
INVARIANTS
  StateSound
  ScreenCurrent
PROPERTIES
  LostOnlyAfterMisses
  FollowsDiagram
  SettlesWithLine
