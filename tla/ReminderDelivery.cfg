SPECIFICATION ReminderSpec
CONSTANTS
  Managers = {m1, m2}
  Workers = {w1, w2}
  Reminders = {r1}
  Amounts = {0, 1}
  Addresses = {a1}
  Nobody = Nobody
  Answers = {"ACCEPTED", "LOST", "TIMEOUT", "REFUSED"}
  MaxAttempts = 2
  MaxDecisions = 2
  MayDie = TRUE
  Contacts = {k1}
  Users = {k1}
  Polls = {p1}
  MaxCrashes = 0
  m1 = m1
  m2 = m2
  w1 = w1
  w2 = w2
  r1 = r1
  a1 = a1
SYMMETRY Symmetry
INVARIANTS
  OneMailPerAttempt
  NoAutomaticResend
  NeverFalselySent
