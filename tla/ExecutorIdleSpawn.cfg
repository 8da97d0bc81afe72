SPECIFICATION FairSpec
CONSTANTS
  Tasks = {a}
  Held = {}
  Mains = {m}
  Keys = {k1, k2}
  Threads = {}
  MAIN_TASK_ID = MAIN
  None = None
  SpawnInFirstPoll = FALSE
  SpawnWhileIdle = TRUE
  DropRun = FALSE
PROPERTIES SpawnedPolled
