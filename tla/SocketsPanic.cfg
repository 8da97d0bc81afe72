SPECIFICATION SocketsSpec
CONSTANTS
  Sources = {s}
  Dirs = {"read", "write"}
  Wakers = {v, w}
  None = None
  MaxInbox = 1
INVARIANT NoPanic
