\* Minutes may pass without a pulse.  The program may end for good: when it is
\* not started again, or refuses its settings.
SPECIFICATION MorningSpec
CHECK_DEADLOCK FALSE
CONSTANTS
  Config <- MCConfig
  Choices <- MCChoices
  Hours = 2
  MinutesPerHour = 2
  MaxDays = 1
  MaxStarts = 1
INVARIANTS
  ListKept
  SettingsKept
PROPERTY AcceptedThisList
