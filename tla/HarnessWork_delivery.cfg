CONSTANTS
  Timeout = 2
  MaxPolls = 2
  MaxWorks = 2
  MaxClock = 2
  MaxMisrouted = 1
SPECIFICATION WorkSpec
INVARIANTS
  WorkTypeOK
  AtMostOneRun
  ReadyIsReviewed
CHECK_DEADLOCK FALSE
