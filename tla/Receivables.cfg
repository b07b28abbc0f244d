SPECIFICATION MCSpec
CONSTANTS
  l1 = l1
  l2 = l2
  admin = admin
  capital = capital
  Lots <- MCLots
  Funds <- MCFunds
  Instalments = {1, 2}
  FundOf <- MCFundOf
  ShareOf <- MCShareOf
  ReceiptAmounts = {3}
  AllocationAmounts = {2}
  AdjustmentAmounts <- MCAdjustmentAmounts
  Requested <- MCRequested
  Keys = {0}
  MaxJournals = 5
  Days = {0, 31, 62}
  Opening <- MCOpening
  Levies = {1, 2}
  LevyFund <- MCLevyFund
  LevyAmount <- MCLevyAmount
  LevyDue <- MCLevyDue
  Deposits = {2}
  Corrections <- MCCorrections
  MaxEvents = 5
  MaxLotRows = 1
INVARIANT LedgersTie
INVARIANT ReceiptsCoverAllocations
INVARIANT RowsFollowJournals
INVARIANT OldestFirst
INVARIANT ArrearsStand
INVARIANT ReportsAgree
CHECK_DEADLOCK FALSE
