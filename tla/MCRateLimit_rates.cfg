SPECIFICATION FairSpec
CONSTANTS
  IPs = {i1}
  Handlers = {h1, h2, h3}
  None = None
  RequestsPerSecond = 2
  Window = 2
  Interval = 4
  Horizon = 5
  MaxDelay = 1
INVARIANTS TypeOK AtMostTwice
PROPERTIES RejectedAtLimitOnly IdleTrackerDropped
