SPECIFICATION FairSpec
CONSTANTS
  N = 3
  BootstrapPeers <- MCBootstrapPeers
  Crashed = {3}
  TTL = 1
  Beating = {1}
  MaxChanges = 3
  RingSize = 12
  VirtualNodes = 2
  Salts = 0
  VirtualHash <- MCVirtualHash
  Keys = {"between", "at"}
  KeyHash <- MCKeyHash
CHECK_DEADLOCK FALSE
INVARIANTS
  PeersAreKnown
  RouteNamesMembers
  RoutesAgree
PROPERTIES
  NumbersStayAssigned
  MembershipConverges
