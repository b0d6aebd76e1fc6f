SPECIFICATION FairSpec
CONSTANTS
  Callers = {c1, c2}
  None = None
  Faults = {"crash", "disk", "clear"}
  MaxGrants = 2
  Urls = {u1}
  NoUrl = NoUrl
INVARIANTS OneRefreshInFlight RetiredTokenNeverPresented TokenMatchesResource IInv
PROPERTIES ImplementsStore CallsReturn ReturnsCurrentCredentials SaveNeverObserved
