SPECIFICATION ComplianceSpec
CONSTANTS
  Staff = {s1, s2}
  Requirements <- MCRequirements
  Classifications <- MCClassifications
  Expiries <- MCExpiries
  Covers = {1, 2}
  SoonDays = 1
  LastDay = 2
  MaxCredentials = 1
  MaxRenewals = 1
INVARIANT NotifiedOncePerCycle
CHECK_DEADLOCK FALSE
