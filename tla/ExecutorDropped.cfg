SPECIFICATION FairSpec
CONSTANTS
  Tasks = {a}
  Held = {}
  Mains = {m1, m2}
  Keys = {k1, k2}
  Threads = {t1}
  MAIN_TASK_ID = MAIN
  None = None
  SpawnInFirstPoll = FALSE
  SpawnWhileIdle = FALSE
  DropRun = TRUE
PROPERTIES TasksDriven
