SPECIFICATION Spec
CONSTANTS
  Tasks = {a, b}
  Held = {}
  Mains = {m}
  Keys = {k1, k2}
  Threads = {}
  MAIN_TASK_ID = MAIN
  None = None
  SpawnInFirstPoll = TRUE
  SpawnWhileIdle = FALSE
  DropRun = FALSE
INVARIANTS NoPanic
