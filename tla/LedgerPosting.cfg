SPECIFICATION Spec
CONSTANTS
  cash = cash
  levies = levies
  admin = admin
  capital = capital
  Accounts <- MCAccounts
  Classification <- MCClassification
  Cutover = 3
  Funds <- MCFunds
  Dates <- MCDates
  SourceIds <- MCSourceIds
  Commands <- MCCommands
  Reasons = {mistake, error}
  Clients = {c1, c2}
  NoClient = nobody
  MaxJournals = 3
  MaxPeriods = 2
SYMMETRY MCSymmetry
INVARIANT ExactlyOncePerSource
INVARIANT ReversalsMirror
INVARIANT BooksBalance
PROPERTY ImplementsGeneralLedger
