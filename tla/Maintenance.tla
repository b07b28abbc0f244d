----------------------------- MODULE Maintenance ----------------------------
(***************************************************************************)
(* Maintenance requests (MaintenanceService), which two users may move at  *)
(* once, the list of what needs attention (attention-engine), derived      *)
(* anew from every table at each look, and the dashboard.  Time is counted *)
(* in hours.                                                               *)
(***************************************************************************)
EXTENDS Integers, Sequences, SequencesExt

CONSTANTS
  Properties,
  Users,            \* concurrent requests of users
  Watchable,        \* orders, quotes and credentials as other services leave them at hour 0
  Moments,          \* the hours at which somebody looks, 0 the first of them
  SoonDays,         \* CREDENTIAL_EXPIRING_SOON_DAYS
  HardCap,          \* ATTENTION_HARD_CAP
  PeriodDays,       \* the days of the dashboard's period: 7 or 30
  MaxRequests       \* bound on requests

VARIABLES
  now,
  requests,         \* MaintenanceRequest rows: property, status, whether urgent, reportedAt, resolvedAt, whether closedAt is set
  watched,          \* one order, quote or credential
  job               \* per user: the move that has read the request and not yet written it

vars == <<now, requests, watched, job>>

Idle == [op |-> "IDLE"]
Unset == -1         \* null in the database

-----------------------------------------------------------------------------
(***************************************************************************)
(* Requests                                                                *)
(***************************************************************************)

ValidTransitions ==
  {<<"NEW", "UNDER_REVIEW">>, <<"UNDER_REVIEW", "IN_PROGRESS">>, <<"IN_PROGRESS", "RESOLVED">>, <<"RESOLVED", "CLOSED">>}
    \cup {<<s, "CANCELLED">> : s \in {"NEW", "UNDER_REVIEW", "IN_PROGRESS"}}

Create ==
  /\ Len(requests) < MaxRequests
  /\ \E p \in Properties, urgent \in BOOLEAN :
       requests' = Append(requests, [property |-> p, status |-> "NEW", urgent |-> urgent, reported |-> now,
                                     resolved |-> Unset, closed |-> FALSE])
  /\ UNCHANGED <<now, watched, job>>

\* update: of what staff may change only the priority matters here; nothing
\* that was read is written back.
Update ==
  \E r \in DOMAIN requests, urgent \in BOOLEAN :
    /\ requests' = [requests EXCEPT ![r].urgent = urgent]
    /\ UNCHANGED <<now, watched, job>>

ReadMove(u) ==
  /\ job[u] = Idle
  /\ \E r \in DOMAIN requests, t \in ValidTransitions :
       /\ requests[r].status = t[1]
       /\ job' = [job EXCEPT ![u] = [op |-> "MOVE", id |-> r, was |-> requests[r], to |-> t[2]]]
  /\ UNCHANGED <<now, requests, watched>>

\* Faulty variant: only the date that is due is written, the other stays.
WriteMoveDueDate(u) ==
  /\ job[u].op = "MOVE"
  /\ LET move == job[u] IN
     requests' = [requests EXCEPT ![move.id].status = move.to,
                                  ![move.id].resolved = IF move.to = "RESOLVED" THEN now ELSE @,
                                  ![move.id].closed = @ \/ move.to = "CLOSED"]
  /\ job' = [job EXCEPT ![u] = Idle]
  /\ UNCHANGED <<now, watched>>

\* updateStatus writes by id, in a transaction that reads nothing again, the
\* status and both dates, those it keeps as they were read.
WriteMove(u) ==
  /\ job[u].op = "MOVE"
  /\ LET move == job[u] IN
     requests' = [requests EXCEPT ![move.id].status = move.to,
                                  ![move.id].resolved = IF move.to = "RESOLVED" THEN now ELSE move.was.resolved,
                                  ![move.id].closed = move.was.closed \/ move.to = "CLOSED"]
  /\ job' = [job EXCEPT ![u] = Idle]
  /\ UNCHANGED <<now, watched>>

\* The server stops between reading and writing.
Abandon(u) ==
  /\ job[u] # Idle
  /\ job' = [job EXCEPT ![u] = Idle]
  /\ UNCHANGED <<now, requests, watched>>

\* However long nobody looks.
Tick ==
  /\ \E t \in {m \in Moments : m > now} : now' = t
  /\ UNCHANGED <<requests, watched, job>>

-----------------------------------------------------------------------------
(***************************************************************************)
(* What needs attention                                                    *)
(***************************************************************************)

Open == {"NEW", "UNDER_REVIEW", "IN_PROGRESS"}

Item(type, severity, subject, occurred) ==
  [type |-> type, severity |-> severity, subject |-> subject, occurred |-> occurred]

\* Something that has waited since a moment: worth a warning after some
\* hours, critical after some more.
Waiting(type, subject, since, warn, critical) ==
  IF now - since > warn
  THEN {Item(type, IF now - since > critical THEN "CRITICAL" ELSE "WARNING", subject, since)}
  ELSE {}

Never == 1000000     \* no row waits that long

\* One operator for each of the engine's searches.

UrgentRequestsOpen ==
  UNION {Waiting("URGENT_REQUEST_OPEN", r, requests[r].reported, 4, 24) :
           r \in {x \in DOMAIN requests : requests[x].urgent /\ requests[x].status \in Open}}

StaleOpenRequests ==
  UNION {Waiting("STALE_OPEN_REQUEST", r, requests[r].reported, 7 * 24, Never) :
           r \in {x \in DOMAIN requests : ~requests[x].urgent /\ requests[x].status \in Open}}

WorkOrderStuckInDraft(o) ==
  IF o.status = "DRAFT" THEN Waiting("WORK_ORDER_STUCK_IN_DRAFT", 0, o.created, 3 * 24, 7 * 24) ELSE {}

WorkOrderOverdueSchedule(o) ==
  IF o.status = "SCHEDULED" /\ o.scheduled < now
  THEN {Item("WORK_ORDER_OVERDUE_SCHEDULE", IF now - o.scheduled >= 48 THEN "CRITICAL" ELSE "WARNING", 0, o.scheduled)}
  ELSE {}

\* Who is eligible, and when, is the business of module Compliance, where a
\* contractor can become eligible again by the passing of time: it is asked
\* anew at each look, and answers no at the hours of `ineligible`.
WorkOrderContractorNoLongerEligible(o) ==
  IF o.status \in {"SCHEDULED", "IN_PROGRESS"} /\ o.contractor /\ now \in o.ineligible
  THEN {Item("WORK_ORDER_CONTRACTOR_NO_LONGER_ELIGIBLE", "CRITICAL", 0, now)}
  ELSE {}

\* The searches for quotes look at those that have an order.
QuotePendingApprovalTooLong(q) ==
  IF q.approval = "PENDING" /\ q.mode \in {"APPROVAL_ONLY", "APPROVAL_THEN_SIGNATURE"}
  THEN Waiting("QUOTE_PENDING_APPROVAL_TOO_LONG", 0, q.since, 3 * 24, 7 * 24)
  ELSE {}

\* Sooner when one side has signed and waits for the other.
QuoteSignatureStalled(q) ==
  IF q.mode = "SIGNATURE_ONLY" \/ (q.mode = "APPROVAL_THEN_SIGNATURE" /\ q.approval = "APPROVED")
  THEN CASE q.signature = "PENDING" -> Waiting("QUOTE_SIGNATURE_STALLED", 0, q.since, 3 * 24, 7 * 24)
         [] q.signature = "PARTIALLY_SIGNED" -> Waiting("QUOTE_SIGNATURE_STALLED", 0, q.since, 24, 5 * 24)
         [] OTHER -> {}
  ELSE {}

QuoteRejectedNeedsFollowup(q) ==
  IF q.status = "REJECTED" /\ q.newest /\ q.rejected >= now - 14 * 24
  THEN {Item("QUOTE_REJECTED_NEEDS_FOLLOWUP", "WARNING", 0, q.rejected)}
  ELSE {}

ContractorCredentialsExpired(c) ==
  IF c.status = "VERIFIED" /\ c.expires < now
  THEN {Item("CONTRACTOR_CREDENTIAL_EXPIRED", "CRITICAL", 0, c.expires)}
  ELSE {}

\* Math.round of hours in days
DaysLeft(hours) == (hours + 12) \div 24

\* Faulty variant: what expires this very moment is no longer to expire.
ContractorCredentialsExpiringLater(c) ==
  IF c.status = "VERIFIED" /\ now < c.expires /\ c.expires <= now + SoonDays * 24
  THEN {Item("CONTRACTOR_CREDENTIAL_EXPIRING_SOON",
             IF DaysLeft(c.expires - now) <= 7 THEN "WARNING" ELSE "INFO", 0, now)}
  ELSE {}

ContractorCredentialsExpiringSoon(c) ==
  IF c.status = "VERIFIED" /\ now <= c.expires /\ c.expires <= now + SoonDays * 24
  THEN {Item("CONTRACTOR_CREDENTIAL_EXPIRING_SOON",
             IF DaysLeft(c.expires - now) <= 7 THEN "WARNING" ELSE "INFO", 0, now)}
  ELSE {}

ContractorCredentialsPendingVerification(c) ==
  IF c.status = "PENDING"
  THEN Waiting("CONTRACTOR_CREDENTIAL_PENDING_VERIFICATION", 0, c.created, 48, Never)
  ELSE {}

OfWatched(x) ==
  CASE x.kind = "ORDER" ->
         WorkOrderStuckInDraft(x) \cup WorkOrderOverdueSchedule(x) \cup WorkOrderContractorNoLongerEligible(x)
    [] x.kind = "QUOTE" ->
         QuotePendingApprovalTooLong(x) \cup QuoteSignatureStalled(x) \cup QuoteRejectedNeedsFollowup(x)
    [] x.kind = "CREDENTIAL" ->
         ContractorCredentialsExpired(x) \cup ContractorCredentialsExpiringSoon(x)
           \cup ContractorCredentialsPendingVerification(x)

Items == UrgentRequestsOpen \cup StaleOpenRequests \cup OfWatched(watched)

\* The lists in which a sort finds the rank of severities and of types.
Severities == <<"CRITICAL", "WARNING", "INFO">>
Types ==
  <<"URGENT_REQUEST_OPEN", "WORK_ORDER_OVERDUE_SCHEDULE", "QUOTE_SIGNATURE_STALLED",
    "QUOTE_PENDING_APPROVAL_TOO_LONG", "WORK_ORDER_STUCK_IN_DRAFT", "STALE_OPEN_REQUEST",
    "QUOTE_REJECTED_NEEDS_FOLLOWUP", "WORK_ORDER_CONTRACTOR_NO_LONGER_ELIGIBLE",
    "CONTRACTOR_CREDENTIAL_EXPIRED", "CONTRACTOR_CREDENTIAL_EXPIRING_SOON",
    "CONTRACTOR_CREDENTIAL_PENDING_VERIFICATION">>
Rank(list, x) == CHOOSE n \in DOMAIN list : list[n] = x

Before(i, j) ==
  LET s == Rank(Severities, i.severity) - Rank(Severities, j.severity)
      t == Rank(Types, i.type) - Rank(Types, j.type) IN
  \/ s < 0
  \/ s = 0 /\ t < 0
  \/ s = 0 /\ t = 0 /\ i.occurred < j.occurred

\* getAttentionItems; the sort decides nothing of what compares as equal.
AttentionItems ==
  LET all == CHOOSE list \in SetToSeqs(Items) : \A j, k \in DOMAIN list : j < k => ~Before(list[k], list[j])
  IN  SubSeq(all, 1, Min({Len(all), HardCap}))

-----------------------------------------------------------------------------
(***************************************************************************)
(* The dashboard of the properties its reader may see: for each figure,    *)
(* the rows it counts.  Of the orders and quotes there is the one watched. *)
(***************************************************************************)
Workflow == INSTANCE ApprovalPolicy

Statuses == {"NEW", "UNDER_REVIEW", "IN_PROGRESS", "RESOLVED", "CLOSED", "CANCELLED"}
OrderStatuses == {"DRAFT", "READY", "SCHEDULED", "IN_PROGRESS", "COMPLETED", "CANCELLED"}
Results == {"NOT_REQUIRED", "PENDING", "COMPLETED", "REJECTED", "FAILED", "CANCELLED"}

Visible(scope) == {r \in DOMAIN requests : requests[r].property \in scope}
Watched(kind, scope) == {x \in {watched} : x.kind = kind /\ x.property \in scope}

\* The period is the hours up to now, the trend has whole days, today's the last.
Period == (now - PeriodDays * 24)..now
Day(hour) == hour \div 24
TrendDays == (Day(now) - (PeriodDays - 1))..Day(now)

\* getMetrics
OpenRequests(scope) == {r \in Visible(scope) : requests[r].status \in Open}
ActiveWorkOrders(scope) == {o \in Watched("ORDER", scope) : o.status \in {"READY", "SCHEDULED", "IN_PROGRESS"}}
CompletedThisPeriod(scope) == {o \in Watched("ORDER", scope) : o.status = "COMPLETED" /\ o.completed \in Period}
PendingSignature(scope) ==
  {q \in Watched("QUOTE", scope) :
     q.mode \in {"SIGNATURE_ONLY", "APPROVAL_THEN_SIGNATURE"} /\ q.signature \in {"PENDING", "PARTIALLY_SIGNED"}}

RequestsSnapshot(scope) == [s \in Statuses |-> {r \in Visible(scope) : requests[r].status = s}]
WorkOrdersSnapshot(scope) == [s \in OrderStatuses |-> {o \in Watched("ORDER", scope) : o.status = s}]
QuotesSnapshot(scope) ==
  [x \in Results |-> {q \in Watched("QUOTE", scope) : Workflow!Derive(q.mode, q.approval, q.signature) = x}]

\* By the date alone; the average looks at the status too.
Trend(scope) ==
  [d \in TrendDays |->
     [created |-> {r \in Visible(scope) : Day(requests[r].reported) = d},
      completed |-> {r \in Visible(scope) : requests[r].resolved # Unset /\ Day(requests[r].resolved) = d}]]
Averaged(scope) ==
  {r \in Visible(scope) : requests[r].status \in {"RESOLVED", "CLOSED"} /\ requests[r].resolved \in Period}

PriorityBreakdown(scope) == [urgent \in BOOLEAN |-> {r \in OpenRequests(scope) : requests[r].urgent = urgent}]

EmptyDashboard ==
  [open |-> {}, active |-> {}, completed |-> {}, pending |-> {},
   requests |-> [s \in Statuses |-> {}], orders |-> [s \in OrderStatuses |-> {}], quotes |-> [x \in Results |-> {}],
   trend |-> <<>>, priorities |-> [urgent \in BOOLEAN |-> {}], averaged |-> {}]

\* getDashboard
Dashboard(scope) ==
  IF scope = {} THEN EmptyDashboard
  ELSE [open |-> OpenRequests(scope), active |-> ActiveWorkOrders(scope),
        completed |-> CompletedThisPeriod(scope), pending |-> PendingSignature(scope),
        requests |-> RequestsSnapshot(scope), orders |-> WorkOrdersSnapshot(scope), quotes |-> QuotesSnapshot(scope),
        trend |-> Trend(scope), priorities |-> PriorityBreakdown(scope), averaged |-> Averaged(scope)]

-----------------------------------------------------------------------------
Init ==
  /\ now = 0
  /\ requests = <<>>
  /\ watched \in Watchable
  /\ job = [u \in Users |-> Idle]

Next ==
  \/ Create \/ Update \/ Tick
  \/ \E u \in Users : ReadMove(u) \/ WriteMove(u) \/ Abandon(u)

Spec == Init /\ [][Next]_vars

-----------------------------------------------------------------------------
(***************************************************************************)
(* Properties                                                              *)
(***************************************************************************)

\* However stale the moves that overwrite one another, whoever looks, at
\* whatever properties: the open requests are those of the open statuses and
\* of all priorities; the requests averaged are resolved or closed, after they
\* were reported, and those the trend shows as completed, but for the ones of
\* the day before it; a quote that waits for a signature is a pending one; and
\* who sees nothing counts nothing.  A request has a closing date iff it is
\* closed.
FiguresAgree ==
  /\ \A scope \in SUBSET Properties :
       LET d == Dashboard(scope) IN
       /\ d.open = UNION {d.requests[s] : s \in Open}
       /\ d.open = UNION {d.priorities[urgent] : urgent \in BOOLEAN}
       /\ d.averaged \subseteq d.requests["RESOLVED"] \cup d.requests["CLOSED"]
       /\ \A r \in d.averaged : requests[r].reported <= requests[r].resolved
       /\ \A day \in DOMAIN d.trend : d.trend[day].completed \subseteq d.averaged
       /\ \A r \in d.averaged :
            \/ \E day \in DOMAIN d.trend : r \in d.trend[day].completed
            \/ Day(requests[r].resolved) = Day(now) - PeriodDays
       /\ d.active = UNION {d.orders[s] : s \in {"READY", "SCHEDULED", "IN_PROGRESS"}}
       /\ d.completed \subseteq d.orders["COMPLETED"]
       /\ d.pending \subseteq d.quotes["PENDING"]
  /\ \A r \in DOMAIN requests :
       /\ requests[r].resolved # Unset <=> requests[r].status \in {"RESOLVED", "CLOSED"}
       /\ requests[r].closed <=> requests[r].status = "CLOSED"

\* What time alone does not take off the list: anything but the nudge about a
\* rejected quote, which ends after a fortnight, and the item of a contractor
\* who is eligible again, as when a credential that was never reviewed expires
\* and an expired one is enough.
Lasts(i) ==
  /\ i.type # "QUOTE_REJECTED_NEEDS_FOLLOWUP"
  /\ i.type = "WORK_ORDER_CONTRACTOR_NO_LONGER_ELIGIBLE" => now' \in watched.ineligible

\* The passing of time alone never takes something else off the list, never
\* makes it less severe, and never makes the top of the list less severe; a
\* credential goes from expiring to expired without a gap.
SeverityNeverFalls ==
  [][now' # now =>
       /\ \A i \in Items : Lasts(i) =>
            \E j \in Items' : j.subject = i.subject /\ Rank(Severities, j.severity) <= Rank(Severities, i.severity)
       /\ AttentionItems # <<>> /\ Lasts(AttentionItems[1]) =>
            /\ AttentionItems' # <<>>
            /\ Rank(Severities, AttentionItems'[1].severity) <= Rank(Severities, AttentionItems[1].severity)]_vars
=============================================================================
