-------------------------- MODULE ReminderDelivery --------------------------
(***************************************************************************)
(* The payment reminders of one lot, from their creation to the provider's *)
(* delivery receipt.  Tasks are the requests, scheduler ticks and worker   *)
(* loops of the server: each runs one operation at a time, reads a row,    *)
(* awaits, and writes it back, and may die at any await.  A row is claimed *)
(* for dispatch by compare-and-swap; most other writes name its id alone.  *)
(* The email provider, the lot's debt and its recipient are outside.       *)
(***************************************************************************)
EXTENDS Integers, Sequences, FiniteSets

CONSTANTS
  Managers,          \* tasks that serve people: draft, approve, cancel, retry
  Workers,           \* tasks that evaluate and dispatch
  Reminders,         \* ids of the rows that may be created
  Amounts,           \* overdue amounts of the lot; 0 when it is settled
  Addresses, Nobody, \* recipients that may be resolved, and an unresolved one
  Answers,           \* what the provider may do with a message
  MaxAttempts,       \* REMINDER_DISPATCH_MAX_ATTEMPTS
  MaxDecisions,      \* bound: times a person releases one reminder
  MayDie             \* whether tasks may die

Tasks == Managers \cup Workers

ASSUME RemindersAssumption == IsFiniteSet(Reminders)
ASSUME TasksAssumption == IsFiniteSet(Tasks)
ASSUME AmountsAssumption == Amounts \subseteq Nat /\ 0 \in Amounts
ASSUME NobodyAssumption == Nobody \notin Addresses
ASSUME MaxAttemptsAssumption == MaxAttempts \in Nat \ {0}
ASSUME AnswersAssumption == Answers \subseteq {"ACCEPTED", "LOST", "TIMEOUT", "REFUSED"}

VARIABLES
  status,      \* per row: its status, "FREE" before it is created
  content,     \* per row: amount and recipient shown
  snapshot,    \* per row: the content approved, NoContent before
  stage,       \* per row: the reminder stage it was generated for
  tries,       \* per row: dispatchAttempts
  outcomes,    \* per row: outcome of its delivery attempts, by attempt number
  mails,       \* per row: messages the provider has accepted
  decisions,   \* per row: times a person made it APPROVED
  live,        \* overdue amount, recipient, deliveryEnabled, EMAIL_SEND_DISABLED
  task         \* per task: the operation it runs and what it has read

rows == <<status, content, snapshot, stage, tries, outcomes>>
vars == <<rows, mails, decisions, live, task>>

Statuses ==
  {"FREE", "DRAFT", "READY_FOR_REVIEW", "APPROVED", "QUEUED", "SENDING", "SENT",
   "DELIVERED", "FAILED", "QUARANTINED", "SUPPRESSED", "CANCELLED"}

\* hasActiveReminderForStage: what keeps a second candidate from the queue.
ActiveStatuses == {"READY_FOR_REVIEW", "APPROVED", "QUEUED", "SENDING", "SUPPRESSED"}
SentStatuses == {"SENT", "DELIVERED"}

Contents == [owed : Amounts, to : Addresses \cup {Nobody}]
NoContent == [owed |-> 0, to |-> Nobody]
Outcomes == {"PENDING", "SENT", "FAILED", "AMBIGUOUS"}
Mails == [attempt : Nat, content : Contents]
Categories == {"TIMEOUT", "TRANSIENT", "PERMANENT"}

Idle == [op |-> "IDLE"]
Operations ==
  {Idle}
  \cup [op : {"APPROVE", "CHECKED", "SETTLED", "CANCEL", "RETRY", "RESOLVE",
              "CLAIMED", "REVERT", "RETURN"}, row : Reminders]
  \cup [op : {"CREATE"}, stage : Nat, owed : Amounts]
  \cup [op : {"SUBMIT"}, row : Reminders, stage : Nat, content : Contents]
  \cup [op : {"SEND", "START", "TRANSMIT", "DELIVERED"},
        row : Reminders, attempt : Nat, content : Contents]
  \cup [op : {"FAIL"}, row : Reminders, attempt : Nat, category : Categories]

TypeOK ==
  /\ status \in [Reminders -> Statuses]
  /\ content \in [Reminders -> Contents]
  /\ snapshot \in [Reminders -> Contents]
  /\ stage \in [Reminders -> Nat]
  /\ tries \in [Reminders -> Nat]
  /\ outcomes \in [Reminders -> Seq(Outcomes)]
  /\ mails \in [Reminders -> Seq(Mails)]
  /\ decisions \in [Reminders -> Nat]
  /\ live \in [owed : Amounts, to : Addresses \cup {Nobody}, enabled : BOOLEAN, disabled : BOOLEAN]
  /\ task \in [Tasks -> Operations]

\* The server reads EMAIL_SEND_DISABLED once, when it starts.
Init ==
  /\ status = [r \in Reminders |-> "FREE"]
  /\ content = [r \in Reminders |-> NoContent]
  /\ snapshot = [r \in Reminders |-> NoContent]
  /\ stage = [r \in Reminders |-> 0]
  /\ tries = [r \in Reminders |-> 0]
  /\ outcomes = [r \in Reminders |-> <<>>]
  /\ mails = [r \in Reminders |-> <<>>]
  /\ decisions = [r \in Reminders |-> 0]
  /\ live \in [owed : Amounts, to : Addresses, enabled : {TRUE}, disabled : BOOLEAN]
  /\ task = [t \in Tasks |-> Idle]

Now(t, operation) == task' = [task EXCEPT ![t] = operation]
SetStatus(r, s) == status' = [status EXCEPT ![r] = s]
LiveContent == [owed |-> live.owed, to |-> live.to]

\* The stage a new reminder would have: one more than the reminders sent.
NextStage == 1 + Cardinality({r \in Reminders : status[r] \in SentStatuses})

ActiveForStage(n, others) ==
  \E r \in others : stage[r] = n /\ status[r] \in ActiveStatuses

-----------------------------------------------------------------------------
(***************************************************************************)
(* Candidates: the evaluator's, and the drafts a manager submits.          *)
(***************************************************************************)

\* evaluate: the lot is overdue, the policy's delay has passed, and nothing
\* is active for the stage.
BeginEvaluate(t) ==
  /\ task[t] = Idle
  /\ live.owed > 0
  /\ ~ActiveForStage(NextStage, Reminders)
  /\ Now(t, [op |-> "CREATE", stage |-> NextStage, owed |-> live.owed])
  /\ UNCHANGED <<rows, mails, decisions, live>>

Create(r, s, n, c) ==
  /\ status[r] = "FREE"
  /\ SetStatus(r, s)
  /\ stage' = [stage EXCEPT ![r] = n]
  /\ content' = [content EXCEPT ![r] = c]
  /\ UNCHANGED <<snapshot, tries, outcomes, mails, decisions, live>>

\* A hold on the collection case or a reminder cap makes it SUPPRESSED: both
\* depend on dates and cases outside this model.  It then has no recipient.
FinishEvaluate(t, r) ==
  /\ task[t].op = "CREATE"
  /\ Now(t, Idle)
  /\ \/ Create(r, "READY_FOR_REVIEW", task[t].stage, [owed |-> task[t].owed, to |-> live.to])
     \/ Create(r, "SUPPRESSED", task[t].stage, [owed |-> task[t].owed, to |-> Nobody])

\* draftReminder: stage 1 by default, whatever has been sent, and no recipient.
Draft(t, r) ==
  /\ task[t] = Idle
  /\ Create(r, "DRAFT", 1, [owed |-> live.owed, to |-> Nobody])
  /\ UNCHANGED task

ReadSubmit(t, r) ==
  /\ task[t] = Idle
  /\ status[r] = "DRAFT"
  /\ Now(t, IF live.owed = 0 THEN [op |-> "SETTLED", row |-> r]
            ELSE [op |-> "SUBMIT", row |-> r, stage |-> NextStage, content |-> LiveContent])
  /\ UNCHANGED <<rows, mails, decisions, live>>

\* Serializable: the duplicate check and the compare-and-swap are one step.
WriteSubmit(t) ==
  LET r == task[t].row
      n == task[t].stage
  IN
  /\ task[t].op = "SUBMIT"
  /\ Now(t, Idle)
  /\ IF status[r] # "DRAFT" \/ ActiveForStage(n, Reminders \ {r})
     THEN UNCHANGED rows
     ELSE /\ stage' = [stage EXCEPT ![r] = n]
          /\ \/ /\ SetStatus(r, "READY_FOR_REVIEW")
                /\ content' = [content EXCEPT ![r] = task[t].content]
             \/ /\ SetStatus(r, "SUPPRESSED")
                /\ content' = [content EXCEPT ![r].owed = task[t].content.owed]
          /\ UNCHANGED <<snapshot, tries, outcomes>>
  /\ UNCHANGED <<mails, decisions, live>>

-----------------------------------------------------------------------------
(***************************************************************************)
(* approve, cancel, retry, resolveQuarantine: read, check, write by id.    *)
(***************************************************************************)

Read(t, r, op, allowed) ==
  /\ task[t] = Idle
  /\ status[r] \in allowed
  /\ Now(t, [op |-> op, row |-> r])
  /\ UNCHANGED <<rows, mails, decisions, live>>

ReadApprove(t, r) == Read(t, r, "APPROVE", {"READY_FOR_REVIEW"})
ReadCancel(t, r) == Read(t, r, "CANCEL", {"DRAFT", "READY_FOR_REVIEW", "APPROVED", "SUPPRESSED"})
ReadCancelDraft(t, r) == Read(t, r, "CANCEL", {"DRAFT"})  \* of the arrears service
ReadRetry(t, r) == Read(t, r, "RETRY", {"FAILED"})
ReadResolve(t, r) == Read(t, r, "RESOLVE", {"QUARANTINED"})

\* approve goes on when the row showed the live figures; otherwise it has to be
\* asked for again, except that a settled debt goes on to cancel the reminder.
AfterRefresh(r) ==
  CASE live.owed = 0 -> [op |-> "SETTLED", row |-> r]
    [] live.owed # 0 /\ content[r] = LiveContent /\ live.to # Nobody -> [op |-> "CHECKED", row |-> r]
    [] OTHER -> Idle

\* refreshCandidate writes the live figures over the row's whenever they
\* differ, whatever status the row has by now.
Refresh(t) ==
  LET r == task[t].row IN
  /\ task[t].op = "APPROVE"
  /\ content' = [content EXCEPT ![r] = LiveContent]
  /\ Now(t, AfterRefresh(r))
  /\ UNCHANGED <<status, snapshot, stage, tries, outcomes, mails, decisions, live>>

\* A person makes the row APPROVED, whatever it is by now.
Release(t, r) ==
  /\ decisions[r] < MaxDecisions
  /\ SetStatus(r, "APPROVED")
  /\ decisions' = [decisions EXCEPT ![r] = @ + 1]
  /\ Now(t, Idle)
  /\ UNCHANGED <<content, stage, tries, outcomes, mails, live>>

WriteApprove(t) ==
  LET r == task[t].row IN
  /\ task[t].op = "CHECKED"
  /\ snapshot' = [snapshot EXCEPT ![r] = content[r]]
  /\ Release(t, r)

WriteCancel(t) ==
  /\ task[t].op \in {"CANCEL", "SETTLED"}
  /\ SetStatus(task[t].row, "CANCELLED")
  /\ Now(t, Idle)
  /\ UNCHANGED <<content, snapshot, stage, tries, outcomes, mails, decisions, live>>

WriteRetry(t) ==
  /\ task[t].op = "RETRY"
  /\ UNCHANGED snapshot
  /\ Release(t, task[t].row)

WriteNotSent(t) ==
  /\ task[t].op = "RESOLVE"
  /\ UNCHANGED snapshot
  /\ Release(t, task[t].row)

WriteSent(t) ==
  /\ task[t].op = "RESOLVE"
  /\ SetStatus(task[t].row, "SENT")
  /\ Now(t, Idle)
  /\ UNCHANGED <<content, snapshot, stage, tries, outcomes, mails, decisions, live>>

-----------------------------------------------------------------------------
(***************************************************************************)
(* Dispatch: claim, revalidate, mark, record the attempt, send, record.    *)
(***************************************************************************)

\* A row is claimed by one task: its status is compared and swapped.
Claim(t, r) ==
  /\ task[t] = Idle
  /\ status[r] = "APPROVED"
  /\ SetStatus(r, "QUEUED")
  /\ Now(t, [op |-> "CLAIMED", row |-> r])
  /\ UNCHANGED <<content, snapshot, stage, tries, outcomes, mails, decisions, live>>

\* processDue takes the rows of properties with deliveryEnabled; a person's
\* request to dispatch a row does not ask for it.
ClaimDue(t, r) == live.enabled /\ Claim(t, r)
DispatchNow(t, r) == Claim(t, r)

\* Faulty variant: EMAIL_SEND_DISABLED is left to the email service.
ExamineTrusting(t) ==
  LET r == task[t].row IN
  /\ task[t].op = "CLAIMED"
  /\ Now(t, CASE status[r] # "QUEUED" -> Idle
              [] status[r] = "QUEUED" /\ ~live.enabled -> [op |-> "REVERT", row |-> r]
              [] OTHER ->
                   IF live.owed = 0 \/ content[r] # LiveContent \/ live.to = Nobody
                   THEN [op |-> "RETURN", row |-> r]
                   ELSE [op |-> "SEND", row |-> r, attempt |-> tries[r] + 1, content |-> content[r]])
  /\ UNCHANGED <<rows, mails, decisions, live>>

\* Everything dispatchOne checks before it touches the row.
Examine(t) ==
  LET r == task[t].row
      stale == live.owed = 0 \/ content[r] # LiveContent \/ live.to = Nobody
      queued == status[r] = "QUEUED"
  IN
  /\ task[t].op = "CLAIMED"
  /\ Now(t, CASE ~queued -> Idle
              [] queued /\ live.enabled /\ stale -> [op |-> "RETURN", row |-> r]
              [] queued /\ live.enabled /\ ~stale /\ ~live.disabled ->
                   [op |-> "SEND", row |-> r, attempt |-> tries[r] + 1, content |-> content[r]]
              [] OTHER -> [op |-> "REVERT", row |-> r])
  /\ UNCHANGED <<rows, mails, decisions, live>>

\* Faulty variant: only a row already marked SENDING is reverted.
RevertSendingOnly(t) ==
  LET r == task[t].row IN
  /\ task[t].op = "REVERT"
  /\ status' = [status EXCEPT ![r] = IF @ = "SENDING" THEN "APPROVED" ELSE @]
  /\ Now(t, Idle)
  /\ UNCHANGED <<content, snapshot, stage, tries, outcomes, mails, decisions, live>>

\* revertToApproved, a compare-and-swap; and the return to review, which is not.
Revert(t) ==
  LET r == task[t].row IN
  /\ task[t].op = "REVERT"
  /\ status' = [status EXCEPT ![r] = IF @ \in {"QUEUED", "SENDING"} THEN "APPROVED" ELSE @]
  /\ Now(t, Idle)
  /\ UNCHANGED <<content, snapshot, stage, tries, outcomes, mails, decisions, live>>

Return(t) ==
  /\ task[t].op = "RETURN"
  /\ SetStatus(task[t].row, "READY_FOR_REVIEW")
  /\ Now(t, Idle)
  /\ UNCHANGED <<content, snapshot, stage, tries, outcomes, mails, decisions, live>>

\* The later stages of a dispatch.
Dispatching(t, op) ==
  [op |-> op, row |-> task[t].row, attempt |-> task[t].attempt, content |-> task[t].content]

Failing(t, category) ==
  [op |-> "FAIL", row |-> task[t].row, attempt |-> task[t].attempt, category |-> category]

MarkSending(t) ==
  /\ task[t].op = "SEND"
  /\ SetStatus(task[t].row, "SENDING")
  /\ Now(t, Dispatching(t, "START"))
  /\ UNCHANGED <<content, snapshot, stage, tries, outcomes, mails, decisions, live>>

\* Faulty variant: attempts carry no unique key.
StartAttemptAnyway(t) ==
  /\ task[t].op = "START"
  /\ Now(t, Dispatching(t, "TRANSMIT"))
  /\ outcomes' = IF Len(outcomes[task[t].row]) >= task[t].attempt THEN outcomes
                 ELSE [outcomes EXCEPT ![task[t].row] = Append(@, "PENDING")]
  /\ UNCHANGED <<status, content, snapshot, stage, tries, mails, decisions, live>>

\* The attempt's idempotencyKey is unique: a task that finds it taken fails
\* outside dispatchOne's try block and leaves the row as it is.
StartAttempt(t) ==
  LET r == task[t].row
      taken == Len(outcomes[r]) >= task[t].attempt
  IN
  /\ task[t].op = "START"
  /\ outcomes' = IF taken THEN outcomes ELSE [outcomes EXCEPT ![r] = Append(@, "PENDING")]
  /\ Now(t, IF taken THEN Idle ELSE Dispatching(t, "TRANSMIT"))
  /\ UNCHANGED <<status, content, snapshot, stage, tries, mails, decisions, live>>

\* The provider accepts the message and says so, accepts it and the answer
\* is lost, gives no answer, or refuses.  Suppressed, nothing is sent at all.
Transmit(t, answer) ==
  LET r == task[t].row
      mail == [attempt |-> task[t].attempt, content |-> task[t].content]
  IN
  /\ task[t].op = "TRANSMIT"
  /\ mails' = IF answer \in {"ACCEPTED", "LOST"} /\ ~live.disabled
              THEN [mails EXCEPT ![r] = Append(@, mail)] ELSE mails
  /\ Now(t, CASE answer = "ACCEPTED" -> Dispatching(t, "DELIVERED")
              [] answer \in {"LOST", "TIMEOUT"} -> Failing(t, "TIMEOUT")
              [] answer = "REFUSED" -> Failing(t, "TRANSIENT"))
  /\ UNCHANGED <<rows, decisions, live>>

RecordSent(t) ==
  LET r == task[t].row
      n == task[t].attempt
  IN
  /\ task[t].op = "DELIVERED"
  /\ SetStatus(r, "SENT")
  /\ tries' = [tries EXCEPT ![r] = n]
  /\ outcomes' = [outcomes EXCEPT ![r][n] = "SENT"]
  /\ Now(t, Idle)
  /\ UNCHANGED <<content, snapshot, stage, mails, decisions, live>>

\* The transaction that records the success fails: an error of no known kind,
\* caught by the same handler as a provider's.
FailToRecord(t) ==
  /\ MayDie
  /\ task[t].op = "DELIVERED"
  /\ Now(t, Failing(t, "PERMANENT"))
  /\ UNCHANGED <<rows, mails, decisions, live>>

\* Faulty variants: a timeout is retried like a refusal; one attempt too many.
AfterFailureRetryingTimeouts(category, n) ==
  IF category # "PERMANENT" /\ n < MaxAttempts THEN "APPROVED" ELSE "FAILED"
AfterFailure(category, n) ==
  IF category = "TIMEOUT" THEN "QUARANTINED"
  ELSE IF category = "TRANSIENT" /\ n < MaxAttempts THEN "APPROVED" ELSE "FAILED"

RecordFailure(t) ==
  LET r == task[t].row
      n == task[t].attempt
  IN
  /\ task[t].op = "FAIL"
  /\ SetStatus(r, AfterFailure(task[t].category, n))
  /\ tries' = [tries EXCEPT ![r] = n]
  /\ outcomes' = [outcomes EXCEPT ![r][n] = IF task[t].category = "TIMEOUT" THEN "AMBIGUOUS" ELSE "FAILED"]
  /\ Now(t, Idle)
  /\ UNCHANGED <<content, snapshot, stage, mails, decisions, live>>

\* recordDeliveryConfirmation finds the row by the provider's message id,
\* which RecordSent stored, and swaps SENT for DELIVERED.
Confirm(r) ==
  /\ status[r] = "SENT"
  /\ \E i \in DOMAIN mails[r], n \in DOMAIN outcomes[r] :
       /\ mails[r][i].attempt = n
       /\ outcomes[r][n] = "SENT"
       /\ \A k \in DOMAIN outcomes[r] : k > n => outcomes[r][k] # "SENT"
  /\ SetStatus(r, "DELIVERED")
  /\ UNCHANGED <<content, snapshot, stage, tries, outcomes, mails, decisions, live, task>>

-----------------------------------------------------------------------------
(***************************************************************************)
(* The world: the debt, the recipient and the delivery switch change, and  *)
(* a task dies.                                                            *)
(***************************************************************************)

Change ==
  /\ \/ \E a \in Amounts : live' = [live EXCEPT !.owed = a]
     \/ \E a \in Addresses \cup {Nobody} : live' = [live EXCEPT !.to = a]
     \/ live' = [live EXCEPT !.enabled = ~@]
  /\ UNCHANGED <<rows, mails, decisions, task>>

Die(t) ==
  /\ MayDie
  /\ task[t] # Idle
  /\ Now(t, Idle)
  /\ UNCHANGED <<rows, mails, decisions, live>>

Serve(t) ==
  \/ \E r \in Reminders : \/ Draft(t, r) \/ ReadSubmit(t, r) \/ ReadApprove(t, r)
                          \/ ReadCancel(t, r) \/ ReadCancelDraft(t, r) \/ ReadRetry(t, r) \/ ReadResolve(t, r)
  \/ WriteSubmit(t) \/ Refresh(t) \/ WriteApprove(t) \/ WriteCancel(t)
  \/ WriteRetry(t) \/ WriteNotSent(t) \/ WriteSent(t)

DispatchStep(t) ==
  \/ Examine(t) \/ Revert(t) \/ Return(t) \/ MarkSending(t) \/ StartAttempt(t)
  \/ \E answer \in Answers : Transmit(t, answer)
  \/ RecordSent(t) \/ FailToRecord(t) \/ RecordFailure(t)

Work(t) ==
  \/ BeginEvaluate(t)
  \/ \E r \in Reminders : FinishEvaluate(t, r) \/ ClaimDue(t, r) \/ DispatchNow(t, r)
  \/ DispatchStep(t)

Next ==
  \/ \E t \in Managers : Serve(t)
  \/ \E t \in Workers : Work(t)
  \/ \E t \in Tasks : Die(t)
  \/ \E r \in Reminders : Confirm(r)
  \/ Change

Spec == Init /\ [][Next]_vars

\* Every await of a dispatch ends: the provider call is aborted after a
\* timeout, and a database call returns or throws.
Fairness == \A t \in Workers : WF_vars(DispatchStep(t))
FairSpec == Spec /\ Fairness

-----------------------------------------------------------------------------
(***************************************************************************)
(* Properties.                                                             *)
(***************************************************************************)

\* However tasks race for a reminder, one delivery attempt sends one message
\* at most: a second task that reads the same attempt count gets no further.
OneMailPerAttempt ==
  \A r \in Reminders : \A i, j \in DOMAIN mails[r] :
    mails[r][i].attempt = mails[r][j].attempt => i = j

\* No message is sent again on the server's own account: the provider has
\* accepted no more messages than people have released the reminder.
NoAutomaticResend == \A r \in Reminders : Len(mails[r]) <= decisions[r]

\* Automatic retries stop at MaxAttempts; beyond it each attempt needs a person.
RetriesBounded ==
  \A r \in Reminders :
    outcomes[r] # <<>> => Len(outcomes[r]) < MaxAttempts + decisions[r]

\* SENT is never reported of a message that was not attempted: the provider
\* accepted one, or a person settled an attempt of unknown outcome.
NeverFalselySent ==
  \A r \in Reminders :
    status[r] \in SentStatuses =>
      mails[r] # <<>> \/ \E n \in DOMAIN outcomes[r] : outcomes[r][n] = "AMBIGUOUS"

\* A claimed reminder reaches an outcome when no task dies.
ClaimsSettle ==
  \A r \in Reminders : status[r] \in {"QUEUED", "SENDING"} ~> status[r] \notin {"QUEUED", "SENDING"}

=============================================================================
