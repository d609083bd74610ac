\* Two gateways, the test hosts of the configurations kept with the programs.
SPECIFICATION MCSpec
CHECK_DEADLOCK FALSE
CONSTANTS
  Gateways = 2
  TestHosts <- ConfiguredHosts
  MaxOutages = 4
  Types = {1, 2}
  Blocks = {1, 2}
  Units = {1}
  MaxSections = 4
  Lines = {1, 2}
  Stations = {1, 2}
  Devices = {1, 2}
  Kinds = {"escalator", "shavr"}
  MaxMap = 4
INVARIANT
  ReadAndStarted
PROPERTIES
  SearchSound
  SearchEnds
