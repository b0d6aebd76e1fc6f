SPECIFICATION Spec
CONSTANTS
  Environments <- MCEnvironments
  Accounts <- MCAccounts
  Bodies <- MCBodies
  Responses <- MCResponses
INVARIANTS TypeOK UpstreamGetsRequest TargetFollowsAccount ToolCallsUsable NoTextLost
