SPECIFICATION Spec
CONSTANTS
  Handlers = {h1, h2}
  Serves <- ServesAll
PROPERTIES StreamErrorsFollowHeader
