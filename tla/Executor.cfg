SPECIFICATION Spec
CONSTANTS
  Tasks = {a, b}
  Held = {a}
  Mains = {m}
  Keys = {k1, k2}
  Threads = {t1}
  MAIN_TASK_ID = MAIN
  None = None
  SpawnInFirstPoll = FALSE
  SpawnWhileIdle = TRUE
  DropRun = FALSE
SYMMETRY Symmetry
INVARIANTS TypeOK AwokenQueued QueueNotified CancelledAwoken QueueBounded DrainBounded
PROPERTIES AwaiterWoken CancelledNotPolled
