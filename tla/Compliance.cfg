SPECIFICATION ComplianceSpec
CONSTANTS
  Staff = {s1}
  Requirements <- MCRequirements
  Classifications <- MCClassifications
  Expiries <- MCExpiries
  Covers = {1, 2}
  SoonDays = 1
  LastDay = 2
  MaxCredentials = 2
  MaxRenewals = 1
INVARIANT OneAnswer
INVARIANT EligibleIsCovered
INVARIANT ToldOncePerReset
CHECK_DEADLOCK FALSE
