SPECIFICATION UdpFairSpec
CONSTANTS
  a1 = a1
  a2 = a2
  Clients <- MCClients
  NoAddr = NoAddr
  Cap = 1
  MaxUp = 1
  MaxDown = 1
CHECK_DEADLOCK FALSE
PROPERTY AssociationFollowsControl
