\* Two records of two kinds over January, February and March; two stations.
SPECIFICATION MCSpec
CHECK_DEADLOCK FALSE
CONSTANTS
  Kinds = {"a", "b"}
  MaxRecords = 2
  MaxMonth = 3
  DevicesOf <- MCDevicesOf
INVARIANTS
  LogSound
PROPERTIES
  FilesSound
  Logged
  ChosenIsShown
