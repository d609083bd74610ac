\* A ring of seven ids in its second round; the UDKU and the power cabinet of
\* one station on one serial line, the cabinet's lines told as its inputs are.
SPECIFICATION MCSpec
CONSTANTS
  MaxId = 7
  MaxCount = 4
  MaxBatch = 2
  MaxMessages = 13
  MaxBehind = 3
  Unknown = TRUE
  Restarts = TRUE
  Conditions = {"GPUP", "BREAK"}
  Circuits = {1, 14}
  VT = 14
  Supplies = {"input 1", "input 2"}
  Lines = {}
  Alarms = {"door"}
  Commands = {"command"}
INVARIANT
  MessagesSound
PROPERTIES
  LogComplete
  OnlyDifferences
