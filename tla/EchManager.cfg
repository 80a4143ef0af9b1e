SPECIFICATION FairSpec
CONSTANTS
  c1 = c1
  c2 = c2
  Callers <- MCCallers
  Loop = Loop
  TTL = 1
  MaxFlights = 2
  NoEntry = NoEntry
  Config = Config
  Unset = Unset
  Failed = Failed
INVARIANTS SingleFlight NoWaiterStranded NoUnsetResult
PROPERTIES GetReturns LoopEnds
