\* Two connections that contend with a command each, and may ask for a UDKU's
\* own poll; a wait may end without a signal.
SPECIFICATION FairSpec
CONSTANTS
  Clients = {c1, c2}
  FailuresCount = 1
  MaxCommands = 2
  AsksLine = TRUE
  Spurious = TRUE
INVARIANTS
  AnswersMatch
  SentOnce
PROPERTIES
  CommandsAnswered
  StatusFollowsLine
