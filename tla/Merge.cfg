SPECIFICATION FairSpec
CONSTANTS
  N = 2
  Kinds = {"join", "futures", "streams"}
  MaxItems = 2
  Threads = {t1, t2}
INVARIANTS FlaggedNotified EndsLast
PROPERTIES ImplementsWakeCell WakeObserved Ends
