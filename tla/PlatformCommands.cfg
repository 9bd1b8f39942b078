\* Every kind of command against the watchdog, call by call, and the
\* shutdown from the platform and from the main thread.
SPECIFICATION FairSpec
CONSTANTS
  LeaseIds = {"A"}
  Commands <- AllCommands
  MaxCommands = 3
  queue_capacity = 2
  has_secret = TRUE
  LeaseTime = 1
  Stops = TRUE
INVARIANTS ContextFollowsLease
PROPERTIES Settles ShutdownObeyed LeaseRunsItsTime
CHECK_DEADLOCK FALSE
