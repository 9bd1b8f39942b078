SPECIFICATION FairLinkSpec
CONSTANTS
  Topics <- TaskAndControl
  request_capacity = 9
  initial_delay = 1
  max_delay = 3
  MaxOutages = 2
  Stops = TRUE
PROPERTIES SubscriptionsHold ShutdownReturns
CHECK_DEADLOCK FALSE
