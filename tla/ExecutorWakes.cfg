SPECIFICATION FairSpec
CONSTANTS
  Tasks = {a}
  Held = {}
  Mains = {m}
  Keys = {k1, k2}
  Threads = {t1, t2}
  MAIN_TASK_ID = MAIN
  None = None
  SpawnInFirstPoll = FALSE
  SpawnWhileIdle = FALSE
  DropRun = FALSE
PROPERTIES WakeObserved ImplementsWakeCell
