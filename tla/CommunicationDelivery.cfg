SPECIFICATION MCSpec
CONSTANTS
  Managers = {m1}
  Workers = {w1, w2}
  Reminders = {r1}
  Amounts = {0, 1}
  Addresses = {a1}
  Nobody = Nobody
  Answers = {"ACCEPTED", "LOST", "TIMEOUT", "REFUSED"}
  MaxAttempts = 2
  MaxDecisions = 2
  MayDie = FALSE
  Contacts = {k1, k2}
  Users = {k1}
  Polls = {p1, p2}
  MaxCrashes = 1
INVARIANT RepeatHasCause
PROPERTY KeepsPromise
PROPERTY Settles
PROPERTY ClaimsSettle
CHECK_DEADLOCK FALSE
