SPECIFICATION Spec
CONSTANTS
  w1 = w1
  w2 = w2
  scope1 = scope1
  scope2 = scope2
  Writers <- MCWriters
  Callers <- MCWriters
  Scopes <- MCScopes
  Nobody = Nobody
  MaxSize = 2
  BackupCounts = {0, 1, 3}
  Sizes = {1, 3}
  MaxLines = 6
  MaxBoots = 2
  MaxFaults = 1
  RingLines = 3
  RingBytes = 5
  LineSizes = {1, 2, 3, 8}
  MaxSession = 5
  Levels = {0, 1}
  MaxChanges = 3
CHECK_DEADLOCK FALSE
INVARIANTS NoLineLost BackupsKept FilesBounded RingIsLongestEnd OneLoggerPerScope LevelsAgree
