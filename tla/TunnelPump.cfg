SPECIFICATION PoliteSpec
CONSTANTS
  Tunnels <- MCTunnels
  Interval = 1
  Window = 1
INVARIANTS NoSilentTruncation
PROPERTIES DataGetsThrough EofEndsTunnel WatchdogCountsBothDirections IdleTunnelEnds
