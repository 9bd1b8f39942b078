SPECIFICATION FairSpec
CONSTANTS
  failure_threshold = 3
  probe_base = 1
  probe_cap = 12
  probe_cap_xuni = 1
  jitter_tenths = 2
INVARIANTS
  HalfOpenLatch
  ProbeStaysNear
PROPERTIES
  OpensOnlyOnStreak
  OutageNeverShortensInterval
  Recovery
CHECK_DEADLOCK TRUE
