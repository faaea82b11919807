SPECIFICATION SystemSpec
CONSTANTS
  Systems <- MCSystems
  Options <- MCOptions
  RandomTrees <- MCRandomTrees
  BlockSize = 8
  Addrs <- MCAddrs
  AddrBits = 8
INVARIANTS
  OneOwner
  BlocksUndivided
  ChannelsMatch
  TestersCounted
  GuestMapIsMemory
PROPERTIES
  EveryRequestServed
CHECK_DEADLOCK FALSE
