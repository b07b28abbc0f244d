SPECIFICATION MCSpec
CONSTANTS
  Nil = Nil
  Blank = Blank
  Trimmed <- MCTrimmed
  CodeOf <- MCCodeOf
  Clients = {c1, c2}
  Slots = {o1, o2}
  Readings <- MCReadings
  Corrections <- MCCorrections
  NewCodes = {"SP1", "SP2"}
  MaxAttempts = 2
  MaxRows = 2
  MaxProperties = 2
  RawReadings <- MCRawReadings
  Sightings <- MCSightings
  Fillings <- MCFillings
  Units = {1, 2}
  PlanEdits <- MCPlanEdits
  MaxSpaces = 2
  MaxEntries = 1
  MaxNew = 1
  Organisations = {o1, o2}
  Emails = {"e"}
  Posts = {"p"}
  MaxInvites = 2
  MaxMemberships = 1
SYMMETRY MCSymmetry
INVARIANT HighIsCorroborated
 
INVARIANT ConfirmAnswersOwn
INVARIANT ActiveSchemeHolds
INVARIANT NobodyLeftOutside
CHECK_DEADLOCK FALSE
