SPECIFICATION FairSpec
CONSTANTS
  Finds = {1}
  kind <- OneXen11
  memory_cost <- AtFloor
  Unsubmittable = {}
  Difficulties = {1, 2}
  xuni_max_windows = 1
  fetch_limit = 1
  confirm_fetch_limit = 1
  Events = {"difficulty", "calm", "crash", "unreachable", "lying", "busy", "journal"}
  failure_threshold = 1
  probe_base = 1
  probe_cap = 1
  probe_cap_xuni = 1
  jitter_tenths = 0
PROPERTIES
  Drains
CHECK_DEADLOCK TRUE
