SPECIFICATION FairSpec
CONSTANTS
  Tasks = {a, b}
  Held = {a}
  Mains = {m1, m2}
  Keys = {k1, k2}
  Threads = {}
  MAIN_TASK_ID = MAIN
  None = None
  SpawnInFirstPoll = FALSE
  SpawnWhileIdle = FALSE
  DropRun = TRUE
PROPERTIES ImplementsMainCell RunYields SpawnedPolled
