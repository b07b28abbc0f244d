SPECIFICATION MCSpec
CONSTANTS
  p1 = p1
  p2 = p2
  Elsewhere = Elsewhere
  Properties <- MCProperties
  OrgRoles <- MCOrgRoles
  Rosters <- MCRosters
  MemberRoles <- MCMemberRoles
  Edits <- MCEdits
  Claims <- MCClaims
  MaxChanges = 2
  MaxTurns = 2
  MaxToolCalls = 1
  MaxToolCallsPerTool = 1
  MaxCallsPerMessage = 2
  RateLimit = 1
  MaxQuestions = 2
  Managers = {m1}
  Webhooks = {w1}
  Pricings <- MCPricings
  Moves = {"READY", "SCHEDULED", "CANCELLED"}
  Replies = {"SUBMITTED"}
  Events = {"PARTIALLY_SIGNED", "SIGNED"}
  Mixes <- MCMixes
  MaxRows = 3
INVARIANT NothingUnsanctioned
INVARIANT AnswersStayInReach
CHECK_DEADLOCK FALSE
