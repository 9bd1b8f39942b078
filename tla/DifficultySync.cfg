SPECIFICATION FairSpec
CONSTANTS
  Difficulties = {1, 2}
  FALLBACK_DIFFICULTY = 3
  POOL_DOWN_FAILURE_THRESHOLD = 2
  MaxChanges = 1
  MaxConfigs = 1
  MaxCrashes = 1
  MaxFailures = 3
PROPERTIES RestartKeepsDifficulty Agree
CHECK_DEADLOCK FALSE
