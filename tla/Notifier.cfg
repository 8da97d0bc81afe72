SPECIFICATION FairSpec
CONSTANTS
  Threads = {t1, t2}
  Main = main
  Fds = {"EventFd", "PipeFd"}
  FdCap = 5
  ReadLen = 2
  ReadFails = TRUE
INVARIANTS NotificationsBounded NoLostWakeup NotifiedFlagBacked PostedFlagged
PROPERTIES WakeObserved ImplementsWakeCell
