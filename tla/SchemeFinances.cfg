SPECIFICATION MCSpec
CONSTANTS
  Nil = Nil
  l1 = l1
  l2 = l2
  Lots <- MCLots
  ChargedLots <- MCChargedLots
  Instalments = {1, 2}
  Clients = {c1, c2, c3}
  NoClient = nobody
  Staff = {d1, d2}
  Spaces <- MCSpaces
  Years <- MCYears
  Openings = {1}
  Balances <- MCBalances
  Splits <- MCSplits
  Rules <- MCRules
  MaxFunds = 2
  Starts = {0, 1, 2}
  Span = 2
  Lines = {n1}
  Planned = {1}
  MaxAttempts = 2
  MaxBudgets = 3
  Holders = {1, 2, 3}
  Units <- MCUnits
  Totals = {15, 0, 10, 50, 70, 1000}
  Precision = 4
SYMMETRY MCSymmetry
INVARIANT ChargedOnce
INVARIANT IssuedOnlyApproved
INVARIANT SharedByEntitlement
INVARIANT OpeningTies
INVARIANT OneActivePerYear
CHECK_DEADLOCK FALSE
