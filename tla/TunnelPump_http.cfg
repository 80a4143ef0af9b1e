SPECIFICATION PoliteSpec
CONSTANTS
  Tunnels <- MCHttpTunnels
  Interval = 1
  Window = 1
PROPERTY EofReachesPeer
