SPECIFICATION FairSpec
CONSTANTS
  Finds = {1, 2, 3}
  kind <- XuniFirstOfThree
  memory_cost <- ThreeAtFloor
  Unsubmittable = {3}
  Difficulties = {1}
  xuni_max_windows = 1
  fetch_limit = 1
  confirm_fetch_limit = 1
  Events = {"calm", "window", "refusing", "proxy", "lying", "unhealthy", "odd"}
  failure_threshold = 1
  probe_base = 1
  probe_cap = 1
  probe_cap_xuni = 1
  jitter_tenths = 0
INVARIANTS
  XuniBudget
PROPERTIES
  Drains
CHECK_DEADLOCK TRUE
