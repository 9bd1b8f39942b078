SPECIFICATION Spec
CONSTANTS
  Finds = {1, 2}
  kind <- Xen11Pair
  memory_cost <- FloorAndAbove
  Unsubmittable = {}
  Difficulties = {1, 2}
  xuni_max_windows = 1
  fetch_limit = 1
  confirm_fetch_limit = 1
  Events = {"crash", "journal", "unreachable", "lying", "difficulty"}
  failure_threshold = 1
  probe_base = 1
  probe_cap = 1
  probe_cap_xuni = 1
  jitter_tenths = 0
INVARIANTS
  TypeOK
  AckedIsStored
  InHandUndisturbed
  AdmissionReturned
CHECK_DEADLOCK TRUE
PROPERTIES
  FollowsLifecycle
