CONSTANTS
  Capacity = 1
  Budget = 1
  MaxSessions = 2
  MaxRequests = 1
  MaxMessages = 3
  RequestParts = {1}
  MaxFaults = 1
SPECIFICATION Spec
INVARIANT TransportIsSound
PROPERTY ChannelsKeepOrder StopEnds
