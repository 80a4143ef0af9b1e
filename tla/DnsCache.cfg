SPECIFICATION FairSpec
CONSTANTS
  r1 = r1
  r2 = r2
  Callers <- MCCallers
  TTL = 1
  MaxLag = 1
  NoEntry = NoEntry
INVARIANTS EntriesOfTheirType FailsAfterAllSources
PROPERTIES LiveNotRemoved CallsReturn
