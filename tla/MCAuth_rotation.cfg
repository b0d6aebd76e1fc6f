SPECIFICATION Spec
CONSTANTS
  Callers = {c1, c2}
  None = None
  Faults = {}
  MaxGrants = 2
  Urls = {u1}
  NoUrl = NoUrl
PROPERTIES RefreshKeepsRefreshToken
