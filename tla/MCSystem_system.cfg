SPECIFICATION FairSpec
CONSTANTS
  h1 = h1
  Handlers = {h1}
  Serves <- ServesAll
  Main = Main
  None = None
  MaxGrants = 2
  Urls = {u1}
  NoUrl = NoUrl
  Faults = {"crash"}
INVARIANTS TypeOK OneResponse SuccessNeedsUpstream
PROPERTIES Exits
