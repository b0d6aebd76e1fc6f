SPECIFICATION Spec
CONSTANTS
  h1 = h1
  Handlers = {h1, h2}
  Serves <- ServesLogins
  Main = Main
  None = None
  MaxGrants = 2
  Urls = {u1}
  NoUrl = NoUrl
  Faults = {"crash"}
INVARIANTS CallsWithStoredCredentials
PROPERTIES GracefulExitKeepsCredentials AuthAnswersTruly
