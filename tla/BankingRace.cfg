SPECIFICATION MCSpec
CONSTANTS
  ChartRequests = {r1, r2}
  NoFund = NoFund
  Unknown = Unknown
  CashFunds = {"ADMIN"}
  CashRules <- MCCashRules
  MaxAccounts = 3
  MaxBatches = 1
  MaxTemplates = 1
  MaxBankAccounts = 1
  NewAccounts <- MCNewAccounts
  Updates <- MCUpdates
  ChartFiles <- MCChartFiles
  Chosen <- MCChosen
  Provisions <- MCProvisions
  Handlers = {c1, c2}
  Rows <- MCRows
  Amount <- MCAmount
  Day <- MCDay
  BadRows = {"bad"}
  Files <- MCFiles
  Keys <- MCKeys
  KeyAmount <- MCKeyAmount
  KeyDay <- MCKeyDay
  Payments <- MCPayments
  Evidence <- MCEvidence
  DateWindow = 1
  Today = 3
  Spans <- MCSpans
  Closings <- MCClosings
  OpeningBalance = 0
  MaxMatches = 2
  MaxReceipts = 2
  MaxReconciliations = 2
INVARIANT ConfirmedOnce
CHECK_DEADLOCK FALSE
