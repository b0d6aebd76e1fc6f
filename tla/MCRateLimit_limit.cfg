SPECIFICATION Spec
CONSTANTS
  IPs = {i1}
  Handlers = {h1, h2}
  None = None
  RequestsPerSecond = 1
  Window = 2
  Interval = 3
  Horizon = 4
  MaxDelay = 0
INVARIANTS LimitHolds
