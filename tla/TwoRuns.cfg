SPECIFICATION FairSpec
CONSTANTS
  Runs = {r1, r2}
  MAIN_TASK_ID = MAIN
  None = None
PROPERTIES MainDriven
CHECK_DEADLOCK FALSE
