CONSTANTS
  Clients = {c1, c2}
  MaxSent = 5
  BroadcastCap = 3
  BatchCap = 2
  ChannelCap = 1
SPECIFICATION FairSpec
INVARIANT TypeOK
INVARIANT InSendOrder
INVARIANT OverflowSignalled
PROPERTY SendsToOpenChannels
PROPERTY HubNeverBlocks
