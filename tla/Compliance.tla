----------------------------- MODULE Compliance -----------------------------
(***************************************************************************)
(* A contractor's credentials of one type: what staff do with them         *)
(* (ContractorCredentialsService), the notices of their expiry             *)
(* (ContractorComplianceNotificationService), and whether they meet the    *)
(* requirements of a trade (ContractorEligibilityService), which is never  *)
(* stored but derived anew from the rows and the clock, in two places.     *)
(***************************************************************************)
EXTENDS Integers, Sequences, FiniteSetsExt, Bags

CONSTANTS
  Staff,            \* concurrent requests of staff
  Requirements,     \* rows that name the type: [trade, required, blocks, verified, unexpired, cover]
  Classifications,  \* sets of trades the contractor may be classified under
  Expiries,         \* days a credential may expire on, or Never
  Covers,           \* amounts a credential may cover
  SoonDays,         \* CREDENTIAL_EXPIRING_SOON_DAYS
  LastDay,          \* bound on the clock
  MaxCredentials,   \* bound on credentials
  MaxRenewals       \* bound on changes of the expiry dates of credentials

VARIABLES
  today,
  credentials,      \* ContractorCredential rows in order of creation
  request,          \* per request of staff: the update that is still to be written
  notifier,         \* the scheduled check: what it has read and not yet told
  notices           \* history: bag of <<credential, expiry cycle, kind>> told to staff

vars == <<today, credentials, request, notifier, notices>>

Never == -1
Ids == 1..Len(credentials)
Present == {c \in Ids : credentials[c].status # "REMOVED"}

-----------------------------------------------------------------------------
(***************************************************************************)
(* Eligibility                                                             *)
(***************************************************************************)

\* Faulty variant: a credential is good until its expiry has passed.
EffectiveThrough(c) ==
  LET expires == credentials[c].expires IN
  IF credentials[c].status = "REJECTED" THEN "REJECTED"
  ELSE IF expires # Never /\ expires < today THEN "EXPIRED"
  ELSE IF credentials[c].status = "PENDING" THEN "PENDING"
  ELSE IF expires # Never /\ expires <= today + SoonDays THEN "EXPIRING_SOON" ELSE "CURRENT"

\* deriveCredentialStatus
Effective(c) ==
  LET expires == credentials[c].expires IN
  IF credentials[c].status = "REJECTED" THEN "REJECTED"
  ELSE IF expires # Never /\ expires <= today THEN "EXPIRED"
  ELSE IF credentials[c].status = "PENDING" THEN "PENDING"
  ELSE IF expires # Never /\ expires <= today + SoonDays THEN "EXPIRING_SOON" ELSE "CURRENT"

\* The newest of the credentials that rank best.
Rank(c) ==
  LET is == Effective(c) IN
  IF is \in {"CURRENT", "EXPIRING_SOON"} THEN 0 ELSE IF is = "PENDING" THEN 1 ELSE 2
Best ==
  LET rank == [c \in Present |-> Rank(c)]
      best == Min({rank[c] : c \in Present}) IN
  Max({c \in Present : rank[c] = best})

Insufficient(r, best) == r.required /\ credentials[best].cover < r.cover

\* evaluateAgainstData: what is wrong with a requirement.
Issues(r) ==
  IF Present = {} THEN IF r.required THEN {"MISSING"} ELSE {}
  ELSE LET best == Best
           is == Effective(best) IN
       CASE is = "REJECTED" -> IF r.required THEN {"REJECTED"} ELSE {}
         [] is = "PENDING" -> IF r.required /\ r.verified THEN {"NOT_VERIFIED"} ELSE {}
         [] is = "EXPIRED" -> IF r.required /\ r.unexpired THEN {"EXPIRED"} ELSE {}
         [] OTHER -> ({is} \ {"CURRENT"}) \cup (IF Insufficient(r, best) THEN {"INSUFFICIENT_COVERAGE"} ELSE {})

\* An expiry to come only ever warns; the rest blocks where it is told to.
Blocked(r) == r.blocks /\ Issues(r) \ {"EXPIRING_SOON"} # {}

RequirementsOf(trades) == {r \in Requirements : r.trade \in trades}

\* evaluate: may the contractor be given an order of this trade?  One who was
\* never classified is not turned away for the trade itself.
Eligible(trades, trade) ==
  /\ trades # {} => trade \in trades
  /\ \A r \in RequirementsOf({trade}) : ~Blocked(r)

\* Faulty variant: an expiry to come is told before the cover is looked at.
EvaluateSoonFirst(r) ==
  IF Present = {} THEN IF r.required THEN "MISSING" ELSE "SATISFIED"
  ELSE LET best == Best
           is == Effective(best) IN
       CASE is = "REJECTED" /\ r.required -> "REJECTED"
         [] is = "PENDING" /\ r.required /\ r.verified -> "PENDING_VERIFICATION"
         [] is = "EXPIRED" /\ r.required /\ r.unexpired -> "EXPIRED"
         [] is = "EXPIRING_SOON" -> "EXPIRING_SOON"
         [] is = "CURRENT" /\ Insufficient(r, best) -> "INSUFFICIENT_COVERAGE"
         [] OTHER -> "SATISFIED"

\* evaluateRequirement: the one answer shown of the requirement.
Evaluate(r) ==
  IF Present = {} THEN IF r.required THEN "MISSING" ELSE "SATISFIED"
  ELSE LET best == Best
           is == Effective(best) IN
       CASE is = "REJECTED" /\ r.required -> "REJECTED"
         [] is = "PENDING" /\ r.required /\ r.verified -> "PENDING_VERIFICATION"
         [] is = "EXPIRED" /\ r.required /\ r.unexpired -> "EXPIRED"
         [] is \in {"CURRENT", "EXPIRING_SOON"} /\ Insufficient(r, best) -> "INSUFFICIENT_COVERAGE"
         [] is = "EXPIRING_SOON" /\ ~Insufficient(r, best) -> "EXPIRING_SOON"
         [] OTHER -> "SATISFIED"

\* REASON_SEVERITY and REQUIREMENT_STATUS_RANK, 0 the worst.
Severity(reason) ==
  CASE reason \in {"EXPIRED", "REJECTED"} -> 0
    [] reason \in {"MISSING", "INSUFFICIENT_COVERAGE"} -> 1
    [] reason \in {"NOT_VERIFIED", "PENDING_VERIFICATION"} -> 2
    [] reason = "EXPIRING_SOON" -> 3
    [] OTHER -> 4

\* deriveOverviewStatus
OverviewStatus(reasons) ==
  <<"EXPIRED_CREDENTIALS", "ACTION_REQUIRED", "PENDING_VERIFICATION", "EXPIRING_SOON", "COMPLIANT">>
    [1 + Min({4} \cup {Severity(i) : i \in reasons})]

\* buildApplicableRequirements: requirements of one status are one row, that
\* lists their trades; all of them match the same credential.
ApplicableRequirements(trades) ==
  LET answer == [r \in RequirementsOf(trades) |-> Evaluate(r)] IN
  {[status |-> status, trades |-> {r.trade : r \in {q \in DOMAIN answer : answer[q] = status}}] :
     status \in {answer[r] : r \in DOMAIN answer}}

\* getComplianceOverview, beside its rows.
Overview(trades) == OverviewStatus(UNION {Issues(r) : r \in RequirementsOf(trades)})

\* getComplianceSummaries: the list page's answer, worked out apart from one
\* batch of requirements and credentials; an issue is of one requirement.
Summary(trades) ==
  LET issues == UNION {Issues(r) \X {r} : r \in RequirementsOf(trades)} IN
  [status |-> OverviewStatus({issue[1] : issue \in issues}), issues |-> issues]

-----------------------------------------------------------------------------
(***************************************************************************)
(* Staff                                                                   *)
(***************************************************************************)

Idle == [op |-> "IDLE"]

Create ==
  /\ Len(credentials) < MaxCredentials
  /\ \E expires \in Expiries, cover \in Covers :
       credentials' = Append(credentials,
         [status |-> "PENDING", expires |-> expires, cover |-> cover,
          soonTold |-> FALSE, expiredTold |-> FALSE, cycle |-> 1, again |-> 0])
  /\ UNCHANGED <<today, request, notifier, notices>>

\* What an update sets, decided on the row as it is read: a new document
\* sends a verified credential back to review, a new expiry date clears the
\* marks of the notices.
Changes(c, expires, cover, document) ==
  LET row == credentials[c] IN
  [columns |-> {"expires", "cover"}
                 \cup (IF document /\ row.status = "VERIFIED" THEN {"status"} ELSE {})
                 \cup (IF expires # row.expires THEN {"marks"} ELSE {}),
   status |-> "PENDING", expires |-> expires, cover |-> cover]

ReadUpdate(s) ==
  \E c \in Present, expires \in Expiries, cover \in Covers, document \in BOOLEAN :
    request' = [request EXCEPT ![s] = [op |-> "UPDATE", id |-> c, set |-> Changes(c, expires, cover, document)]]

\* Verifying, rejecting (at any status) and removing write what does not
\* depend on the row they have read.
ReadOther(s) ==
  \E c \in Present, status \in {"VERIFIED", "REJECTED", "REMOVED"} :
    /\ status = "VERIFIED" => credentials[c].status # "VERIFIED"
    /\ request' = [request EXCEPT ![s] = [op |-> "UPDATE", id |-> c,
                     set |-> [columns |-> {"status"}, status |-> status, expires |-> Never, cover |-> 0]]]

Read(s) ==
  /\ request[s] = Idle
  /\ ReadUpdate(s) \/ ReadOther(s)
  /\ UNCHANGED <<today, credentials, notifier, notices>>

\* An expiry cycle ends when the date moves; Renewals counts those ended.
Moves(row, set) == "expires" \in set.columns /\ set.expires # row.expires
Renewals == Cardinality({r \in Ids \X (1..MaxRenewals) : r[2] < credentials[r[1]].cycle})

\* Faulty variant: any update clears the marks of the notices.
UpdatedClearing(row, set) ==
  [status |-> IF "status" \in set.columns THEN set.status ELSE row.status,
   expires |-> IF "expires" \in set.columns THEN set.expires ELSE row.expires,
   cover |-> IF "cover" \in set.columns THEN set.cover ELSE row.cover,
   soonTold |-> FALSE,
   expiredTold |-> FALSE,
   cycle |-> row.cycle + (IF Moves(row, set) THEN 1 ELSE 0),
   again |-> row.again + (IF "marks" \in set.columns /\ ~Moves(row, set) THEN 1 ELSE 0)]

\* The row written, and two counts kept as history: its expiry cycles, and how
\* often the marks were cleared while the date stayed.
Updated(row, set) ==
  [status |-> IF "status" \in set.columns THEN set.status ELSE row.status,
   expires |-> IF "expires" \in set.columns THEN set.expires ELSE row.expires,
   cover |-> IF "cover" \in set.columns THEN set.cover ELSE row.cover,
   soonTold |-> row.soonTold /\ "marks" \notin set.columns,
   expiredTold |-> row.expiredTold /\ "marks" \notin set.columns,
   cycle |-> row.cycle + (IF Moves(row, set) THEN 1 ELSE 0),
   again |-> row.again + (IF "marks" \in set.columns /\ ~Moves(row, set) THEN 1 ELSE 0)]

\* By id: a row removed meanwhile makes the request fail.
Write(s) ==
  /\ request[s] # Idle
  /\ LET c == request[s].id
         set == request[s].set IN
     /\ c \in Present /\ Moves(credentials[c], set) => Renewals < MaxRenewals
     /\ credentials' = IF c \notin Present THEN credentials
                       ELSE [credentials EXCEPT ![c] = Updated(credentials[c], set)]
  /\ request' = [request EXCEPT ![s] = Idle]
  /\ UNCHANGED <<today, notifier, notices>>

-----------------------------------------------------------------------------
(***************************************************************************)
(* The scheduled check                                                     *)
(***************************************************************************)

Resting == [phase |-> "RESTING", now |-> 0, todo |-> {}]

DueSoon(now) ==
  {c \in Present : /\ credentials[c].status = "VERIFIED" /\ ~credentials[c].soonTold
                   /\ credentials[c].expires # Never /\ credentials[c].expires \in now..(now + SoonDays)}
DueExpired(now) ==
  {c \in Present : /\ credentials[c].status = "VERIFIED" /\ ~credentials[c].expiredTold
                   /\ credentials[c].expires # Never /\ credentials[c].expires < now}
AsRead(due) == {<<c, credentials[c].cycle>> : c \in due}

\* The rows of a phase are read at once; the second phase is read when the
\* first is done, with the time the check began at.
StartCheck ==
  /\ notifier = Resting
  /\ notifier' = [phase |-> "EXPIRING_SOON", now |-> today, todo |-> AsRead(DueSoon(today))]
  /\ UNCHANGED <<today, credentials, request, notices>>

NextPhase ==
  /\ notifier # Resting /\ notifier.todo = {}
  /\ notifier' = IF notifier.phase = "EXPIRED" THEN Resting
                 ELSE [notifier EXCEPT !.phase = "EXPIRED", !.todo = AsRead(DueExpired(notifier.now))]
  /\ UNCHANGED <<today, credentials, request, notices>>

\* One transaction tells staff and marks the row, by id; a row removed
\* meanwhile ends the check.
Notify ==
  /\ \E row \in notifier.todo :
       LET c == row[1] IN
       IF c \notin Present THEN notifier' = Resting /\ UNCHANGED <<credentials, notices>>
       ELSE /\ credentials' = IF notifier.phase = "EXPIRED" THEN [credentials EXCEPT ![c].expiredTold = TRUE]
                              ELSE [credentials EXCEPT ![c].soonTold = TRUE]
            /\ notices' = notices (+) SetToBag({<<c, row[2], notifier.phase>>})
            /\ notifier' = [notifier EXCEPT !.todo = @ \ {row}]
  /\ UNCHANGED <<today, request>>

\* The process is restarted in the middle of a check.
Restart ==
  /\ notifier # Resting /\ notifier' = Resting
  /\ UNCHANGED <<today, credentials, request, notices>>

Tick ==
  /\ today < LastDay /\ today' = today + 1
  /\ UNCHANGED <<credentials, request, notifier, notices>>

Init ==
  /\ today = 0 /\ credentials = <<>>
  /\ request = [s \in Staff |-> Idle]
  /\ notifier = Resting /\ notices = EmptyBag

Next ==
  \/ Create \/ StartCheck \/ NextPhase \/ Notify \/ Restart \/ Tick
  \/ \E s \in Staff : Read(s) \/ Write(s)

Spec == Init /\ [][Next]_vars

-----------------------------------------------------------------------------
(***************************************************************************)
(* Properties                                                              *)
(***************************************************************************)

\* The two evaluations of a requirement, written apart, never tell different
\* stories: whatever the clock and the credentials, the answer shown is the
\* worst of the issues enforced, so the overview's status, the worst of all
\* issues, is the worst of the rows listed under it.  The list page shows the
\* overview's status, and an issue to explain each status but COMPLIANT.
OneAnswer ==
  /\ \A r \in Requirements : Severity(Evaluate(r)) = Min({4} \cup {Severity(i) : i \in Issues(r)})
  /\ \A trades \in Classifications :
       LET overview == Overview(trades)
           summary == Summary(trades) IN
       /\ overview = OverviewStatus({row.status : row \in ApplicableRequirements(trades)})
       /\ summary.status = overview
       /\ summary.issues = {} <=> overview = "COMPLIANT"

\* A credential that meets a demand at this moment.
Meets(c, r) ==
  /\ credentials[c].status = "VERIFIED"
  /\ credentials[c].expires = Never \/ today < credentials[c].expires
  /\ credentials[c].cover >= r.cover

Demanding(r) == r.required /\ r.blocks /\ r.verified /\ r.unexpired

\* Where an unexpired, reviewed credential is demanded, a contractor who may
\* be given an order holds one, of enough cover, at this moment; and one whose
\* overview shows nothing worse than an expiry to come may be given an order
\* of each of their trades.
EligibleIsCovered ==
  \A trades \in Classifications :
    /\ \A r \in Requirements : Demanding(r) /\ Eligible(trades, r.trade) => \E c \in Present : Meets(c, r)
    /\ Overview(trades) \in {"COMPLIANT", "EXPIRING_SOON"} => \A trade \in trades : Eligible(trades, trade)

\* Staff are told once of each expiry that comes near and of each that has
\* passed, across checks, restarts and updates of the credential, and once
\* more at most each time an update has cleared the marks of a date it left:
\* one that had read another date before somebody else wrote its own.
ToldOncePerReset ==
  \A n \in BagToSet(notices) : notices[n] <= 1 + credentials[n[1]].again

\* "Each credential is notified at most once per expiry-cycle-per-state".
NotifiedOncePerCycle == \A n \in BagToSet(notices) : notices[n] = 1

=============================================================================
