\* The mock's counter starts again at 12, which is 5 modulo 7, as 2049 is.
SPECIFICATION ProgramSpec
CHECK_DEADLOCK FALSE
CONSTANTS
  ChannelsOf <- MCChannelsOf
  Asked = {1, 4}
  Tids = {1}
  Priorities = {0}
  Flags = {{"WAIT_MSG","SRC_TID_STATIC"}, {"BLOCK_UID"}}
  MAX_FAILURES_COUNT = 1
  MaxCounter = 2
  Coordinates = {1, 2}
  STORAGE_MAX_FAILURES = 2
  MOCK_MAX_COUNTER = 11
INVARIANTS ProgramSound 
PROPERTIES LeftBehind CallsGoOn
