SPECIFICATION DevtoolsSpec
CONSTANTS
  Sinks = {"sink"}
  Plans <- MCPlans
  MaxSessions = 3
  MaxBuffered = 2
  Capacity = 1
  TrimSlack = 1
  MaxInFlight = 1
  p = p
  q = q
  Asks = {p, q}
  Limit = 1
  Channel = {"kept", "private"}
  ChannelPolicies <- MCChannelPolicies
  SignalPolicies <- MCSignalPolicies
  defaultSignalBufferSize = 1
  Subscriber = {"one", "both"}
  Configured <- MCConfigured
  ChannelsOf <- MCChannelsOf
INVARIANTS
  NothingUncounted
  NoOrphanQuestion
  PagingMissesNothing
  PublishedMeansHandled
PROPERTIES
  HubCatchesUp
CHECK_DEADLOCK FALSE
