SPECIFICATION FairSpec
CONSTANTS
  k1 = k1
  k2 = k2
  Conns <- MCConns
  MaxConns = 1
  Options <- MCOptions
  Commands = {"connect", "udp", "other"}
CHECK_DEADLOCK FALSE
INVARIANTS SlotsExact UpstreamExact OneAnswer
PROPERTIES NegotiationEnds SlotComesBack CloseEndsAcceptLoop
