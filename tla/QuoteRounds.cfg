SPECIFICATION MCSpec
CONSTANTS
  Clients = {c1, c2}
  Contractors = {k1, k2}
  Moves = {"CANCELLED"}
  MaxRounds = 2
  MaxQuotes = 2
  MaxOrders = 2
  Properties = {p1, p2}
  Watchable <- MCWatchable
  Moments <- MCMoments
  ExpiryDays = 30
  HardCap = 1
  PeriodDays = 7
  MaxRequests = 1
SYMMETRY Symmetry
INVARIANT OneWorkOrderPerRound
INVARIANT SelectionAgrees
INVARIANT FiguresAgree
PROPERTY SeverityNeverFalls
CHECK_DEADLOCK FALSE
