SPECIFICATION UdpFairSpec
CONSTANTS
  a1 = a1
  a2 = a2
  Clients <- MCClients
  NoAddr = NoAddr
  Cap = 2
  MaxUp = 2
  MaxDown = 4
CHECK_DEADLOCK FALSE
INVARIANTS OneClient DownlinkInOrder
PROPERTIES UpstreamNotBlocked DoneStopsWriter
