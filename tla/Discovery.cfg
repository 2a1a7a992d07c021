SPECIFICATION FairDiscoverySpec
CONSTANTS
  None = None
  Others = {wdp, reply}
  MaxRetries = 5
  PingTimeout = 1
CHECK_DEADLOCK FALSE
INVARIANTS HonestStatus DiscoveredByCurrentAck
PROPERTIES AckLostOnlyToOthers DiscoveryEnds
