\* lib.rs: a lease redirects the mining "for a bounded time".  A registration
\* acknowledged while the rig mines takes it out of the watchdog's sight.
SPECIFICATION FairSpec
CONSTANTS
  LeaseIds = {"A"}
  Commands <- TaskAndAck
  MaxCommands = 2
  queue_capacity = 2
  has_secret = TRUE
  LeaseTime = 1
  Stops = FALSE
PROPERTIES LeaseEnds
CHECK_DEADLOCK FALSE
