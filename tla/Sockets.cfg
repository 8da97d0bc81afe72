SPECIFICATION FairSpec
CONSTANTS
  Sources = {s}
  Dirs = {"read", "write"}
  Wakers = {v, w}
  None = None
  MaxInbox = 1
INVARIANTS SocketsTypeOK WaitingEnabled ReadyHonest GuardsRegistered NeverBlocks
PROPERTIES ImplementsAsyncIo ConnectHonest IoReturns ConnectReturns
