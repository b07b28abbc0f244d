# A verification project for the WaslProperty backend

WaslProperty is a property and strata operations product: an Express server in TypeScript over one
PostgreSQL database (Prisma), an e-mail provider, a document-analysis pipeline, an AI assistant and,
optionally, the WaslSign signature service. This directory holds TLA+ models of the parts in which
the order of steps matters, the TLC configurations that check them on small instances, and theorems
about them that TLAPS checks for every instance. Paths are relative to `src/src/modules/` unless they
say otherwise, `F/` stands for `financials/`; `PROJECT.json` maps every definition to the lines it
stands for, and lists the hazards each property is aimed at.

Contents: [1 The system](#1-the-system) · [2 The modules](#2-the-modules) ·
[3 What the runs check](#3-what-the-runs-check) · [4 What is proved](#4-what-is-proved) ·
[5 What the code does otherwise than documented](#5-what-the-code-does-otherwise-than-documented) ·
[6 What is not modelled](#6-what-is-not-modelled) · [7 Plan](#7-plan) ·
[8 Running it](#8-running-it)

## 1 The system

Every request is handled by an `async` function of one of possibly several server processes; between
two `await`s anything may happen in the others. Four means keep operations apart:

* the **property's ledger lock**: `SELECT ... FOR UPDATE` on the row of `financial_configurations`,
  taken first by posting, reversing, the accounting periods, issuing and reversing instalments,
  adjustments, receipts, allocations and the activation of a budget;
* the **maintenance request's lock**, taken when a round of quotes or a work order is created;
* **compare-and-swap** updates (`updateMany where { id, status }`), used by the reminder claim, the
  communication claim and the award of a quote round;
* **unique indexes**: a journal's source key, an attempt's idempotency key, a budget's version and the
  one ACTIVE budget of a year, account codes, an e-mail address, a webhook event. (Charges have none:
  that a lot is charged once rests on the lock alone. Matches of bank transactions have none either.)

Most other updates *read a row, check it in JavaScript, and write it by its id alone*. That shape is
modelled everywhere as a `Read...` step and a later `Write...` step, and it is where nearly all
disagreements of section 5 come from.

### 1.1 Components

| Component | State | Operations modelled | What is hard | What makes it correct |
|---|---|---|---|---|
| General ledger, accounting periods | journals and lines, periods | `post`, `reverse`, period `create`, `close`, `reopen`; trial balance, balance sheet, income statement | concurrent posts of one source key, closes and posts, two reversals | one journal per source key, append-only, reversals mirror, books balance by fund, as if atomic |
| Chart of accounts, templates, import, posting profile, opening journal (partly) | accounts, batches, templates, bank accounts | create, update, deactivate, import, templates, `registerBankAccount`; opening journal | rows checked early, inserted later; parents and codes | an import arrives whole or not at all; one account per code |
| Financial setup and opening positions | configuration, funds, positions, splits | `startSetup` … `activate`, `generate` | edits racing the activation; sums per fund and per lot | the opening journal carries what the setup shows |
| Budgets | budgets and versions | create, revise, edit lines, approve, activate | versions racing for a number, two activations | one ACTIVE budget of a year, versions without gaps |
| Levy schedules and instalments (partly) | schedule status, instalments, charges | `approve`, `cancel`, `issue`, `reverseInstallment`, notices | one kind of operation locked and one not; crash between notices | each lot charged once per instalment, noticed at most once, only after approval |
| Levy allocation | none | `allocateByEntitlement` | rounded quotients, ties, order of the caller's list | exact sum, fair leftover, independence of the listing |
| Receipts and allocations | receipts, allocations, adjustments, charge status | `recordReceipt`, `createAllocation`, `reverseAllocation`, `reverseReceipt`, `createAdjustment` | long sequences of legal calls; a loop that fails half way; retries | subledger rows and general ledger agree |
| Lot ledger, arrears, reports (partly) | none (derived) | lot ledger, statements, arrears as of a day, portfolio | several derivations of one number, back-dated rows | the derivations agree; a past day's report stands |
| Bank import, matching, reconciliation (partly) | bank transactions, matches, reconciliations | apply, suggest, confirm, override, ignore, undo, receipt of a deposit; draft, complete, reopen | no lock at all; a receipt and its match in two transactions | matched exactly when confirmed, while nobody else handles the transaction; one receipt per deposit; reconciled is backed |
| Payment reminders; reminder policy (partly) | reminders, attempts | `evaluate`, `draft`, `submitForReview`, `approve`, `cancel`, `retry`, `resolveQuarantine`, `processDue`, `dispatchNow`, webhook | races of workers and managers, provider timeouts, crashes at any await | a release sends one message at most, nothing is resent automatically, SENT never false, claims settle |
| Quotes and quote rounds | rounds, invitations, quotes | create, invite, submit, decline, withdraw, award, cancel; release and signature of a quote | an award against cancellations, withdrawals and other awards | one order per round; the three records of a selection agree |
| Work orders and variations (partly); WaslSign; approval policy | orders, quotes, variations, agreements, events | create, assign, move; policy, approve, reject, send, callback, release | callbacks late, twice, out of order, lost; rows replaced meanwhile | nothing is released or counted without the gates the policy asks for |
| Contractors and compliance | credentials, requirements, notices | add, update, verify, reject, remove; two evaluations; the scheduled check | the same rule written twice, date boundaries, renewals during a check | both evaluations agree; eligible is covered; one notice per cycle |
| Maintenance requests; dashboard and attention (partly) | request status and dates | create, update, `updateStatus`; the eleven searches, ranking and cap; figures | two stale moves; thresholds that must meet | figures agree; what needs attention is not forgotten as time passes |
| Communications (partly) | announcement, rows per recipient and channel, inbox | create, send, cancel, poll, claim, reclaim, deliver | overlapping polls, deaths at any await, mails after SENT | nobody is told twice without cause; nobody not addressed; everything due settles |
| Property documents | document, attempts, draft | upload, analysis, watchdog, healing read, retry, edit, confirm; the merging of two readings | a timeout that stops nobody; two confirms | a confirm answers a property made from its plan; HIGH is corroborated |
| Properties, spaces, strata register (partly) | property, spaces, entitlements | enable, plan, bulk lots, classify, create, update, complete | seven ways to touch one sum, each looking for room before it writes | the lots of an active scheme stay under the plan's total, but for edits and overlaps |
| People, invites; authentication (partly) | contacts, memberships, invites, users | add, assign, move, invite, resend, revoke, expire, accept, register | every one reads before its transaction | nobody is left with neither an account nor a usable invite |
| Authorization; AI assistant | memberships, overrides; conversation | permission edits; turn, budget, tool call, answer | permissions changing between two steps of a turn | an answer refers only to what its reader may see |

Back office, organisations, activity and notifications, and infrastructure are listed in
`PROJECT.json` with the reason they are left out (section 6).

### 1.2 How the components interact

```
 scheme setup ──> opening journal ─────────┐      budgets ──> levy schedules ──issue──> charges ──┐
 strata register ── entitlements ──────────┼────────────────────── allocation by entitlement      │
                                           v                                                      v
 chart of accounts ──── accounts ──> GENERAL LEDGER <── receipts, allocations ───────────── arrears, lot ledger
                                        ^       ^                                                 │
                      periods, ledger lock      └── bank matching ──> reconciliation              v
                                                                                   reminders ──> e-mail provider
 maintenance requests ──> rounds ──award──> work orders ──> variations             announcements ──┘
          │                  quotes ──policy──> approval, WaslSign ──release──┘
          └──> attention list <── compliance of contractors
 plans ──analysis──> properties        people, invites ──> accounts ──> roles ──> assistant
```

Subledgers call the ledger inside their own transaction (`postInTransaction`, `reverseInTransaction`);
no balance is stored: outstanding amounts, unapplied cash, arrears and lot balances are sums over
rows, so the interesting question is always whether two sums agree. Reminders read arrears before each
decision and again before each dispatch, because the debt moves underneath them. The policy an amount
falls under is resolved when a quote or variation is priced and stored with it; everything later
trusts what is stored. Compliance is derived anew from rows and the clock at every question.

## 2 The modules

A component is one module, or a chain of modules each of which EXTENDS the one before. Modules named
`MC...` give values to TLC; where several components that share no state are checked in one run, the
`MC` module has a variable `part` that picks one of them for a whole behaviour, and leaves the others
alone. Modules named `...Proofs` hold theorems.

| Modules | Model | Checked in run |
|---|---|---|
| `Journals`, `GeneralLedger`, `LedgerPosting`, `FinancialReports` | the ledger, concretely and abstractly, and its reports | `ledger` |
| `Receivables`, `LotAccount` | rows and journals of charges and receipts; one lot's account over days | `receivables` |
| `LevySchedules`, `LevyAllocation`, `SchemeSetup`, `Budgets` | one schedule; the shares of an instalment; setup and opening journal; the budgets of a property | `scheme_finances` |
| `BankMatching`, `BankReconciliation`, `ChartOfAccounts` | bank statements; the chart | `banking`, `banking_race` |
| `ReminderDelivery` | payment reminders | `reminder_delivery`, `communications` (liveness) |
| `Announcement`, `CommunicationDelivery` | an announcement, promised and delivered | `communications` |
| `QuoteRounds`, `Maintenance` | rounds, awards and orders of a request; the request itself, the attention list and the dashboard | `quote_rounds` |
| `ApprovalPolicy`, `Signing` | policy, gates, signatures and release | `signing` |
| `Authorization`, `Assistant` | permissions and the assistant that obeys them | `signing` |
| `Compliance` | credentials and eligibility | `compliance`, `compliance_race` |
| `PlanExtraction`, `PlanReading`, `PlanAnalysis` | what an analysis computes, and its life in the background | `onboarding` |
| `StrataRegister`, `ResidentAccounts` | the lots of a scheme; people and their accounts | `onboarding` |
| `Collections` | sums over finite sets, powers of ten, numbers in ascending order, what is picked out of a list, written so that they can be proved about | all that add up or pick |

The proofs are in eight modules, each of which EXTENDS the `MC` module whose properties it is about:
`LedgerPostingProofs` (ledger, reports, bank, chart), `ReceivablesProofs`, `SchemeFinancesProofs`
(schedules, budgets, setup, allocation), `DeliveryProofs` (reminders, announcements),
`ProcurementProofs` (rounds, compliance, dashboard, attention list), `SigningProofs` (signing,
assistant), `OnboardingProofs` (accounts, strata register, plan analysis), and `CollectionTheorems`,
what the others use about `Collections`, and about ranks, sorting and rounding.

### 2.1 The ledger: `Journals`, `GeneralLedger`, `LedgerPosting`, `FinancialReports`

`journals` and `periods` are the committed rows of `journal_entries` and `accounting_periods`, in
insertion order; a row's id is its position. A line's amount is debit minus credit in cents, a date an
integer. Of `financial_configurations` only who holds its row lock matters (`lock`). A request is

> `AcquireLock` → `PostJournal` | `ReverseJournal` | `CreatePeriod` | `ClosePeriod` | `ReopenPeriod` → `Commit`

where the middle step performs all of the service's checks and stages what it writes, and either ends
the transaction without a write or leaves it to `Commit`. `Rollback` may end it anywhere: a refused
statement, a lost connection, a crash. `Deactivate` and `Reactivate` take no ledger lock and
interleave with a transaction in flight. A reversal that finds the journal's own reversal already
posted links that one again, as the shared `post` returns it. A duplicate insert is refused by the
unique source key at the commit; the service's attempt to re-fetch the winner there
(`F/ledger-posting.service.ts:301-318`) runs inside the aborted transaction and ends it as well.

`GeneralLedger` says the same in single steps, without requests, locks or staging; `LedgerPosting`
extends it with the same two variables, so the refinement mapping is the identity on them, and
`ImplementsGeneralLedger` is checked and proved. `FinancialReports` adds the trial balance, the
balance sheet and the income statement as operators over the log.

### 2.2 Receivables and one lot's account

In `Receivables`, `db` is the record of the committed tables, `pending` the private copy of the one
`recordReceipt` transaction that may be in flight: its allocation loop runs one allocation per step
(`AllocateNext`), and `CommitReceipt` or `RollbackReceipt` ends it. Everything else is one step
(`Transaction`), which `LedgerPosting` justifies. A charge's `Outstanding` is its share plus
adjustments less what is applied, a receipt's `Unapplied` its amount less what is applied, as in
`chargeOutstanding` and `receiptUnapplied`; nothing derived is stored except the charge's status, as
in the code. Client idempotency keys are the non-positive source ids, generated ones the positions of
journals. A posting that periods or inactive accounts refuse is an action that is not taken.

`LotAccount` takes the same transactions with the time they leave on their rows and without the
journals, and defines what `LotLedgerService` lists (entries, running balance, statements) and what
`ArrearsService` works out as of any day. `said` records what the report of a day said when that day
ended, which is what it must still say later.

### 2.3 Levies, setup, budgets

`LevySchedules`: `request[p]` holds what request `p` has read. `approve` and `cancel` are `Read...`
and `Write...` steps with nothing in between but other people's; `issue` and `reverseInstallment` hold
the lock from `Begin` to their commit and write the schedule's status from the one they read. After
its commit, an issue sends notices lot by lot (`SendNotice`, `FailNotice`); `Abandon` is a crash or an
error, at any point. The schedule starts as a draft with its instalments.

`LevyAllocation`: a quotient is an integer number of units of 10^-Digits, rounded half up to
`Precision` significant digits, which is what `Prisma.Decimal` does, with 20 digits in the program and
4 in the run, so that rounding is reached with small numbers. The state is only the question and its
answer; `Share` takes the listing as a parameter because one clause compares listings.

`SchemeSetup`: every edit of the guided setup reads the configuration's status and writes later in
its transaction; activating and generating the opening journal read before any transaction begins.
`late` records what was written after the activation by an edit that had read before it.

`Budgets`: every operation is a READ COMMITTED transaction, here a `Read` and the step that commits;
`createRevision` retries after a version conflict, up to its bound; `activate` holds the property's
lock, supersedes what it found ACTIVE, and is refused by the partial unique index if there is another.

### 2.4 Bank statements and the chart

A row of a statement is known by its hash, so a `BankTransaction` is named by the row it came from;
`txns`, `matches`, `receipts` are the rows. `Read(c)` is a request's reading and checking, `Write(c)`
its transaction, and `WriteReceipt` the first of `createReceiptFromTransaction`'s two; `Abandon` may
come between them. A deposit is suggested the receipts of its amount, a payment any unmatched cash line
that credits it, the reversal entries of receipts included; the rules on references (`Evidence`, given
per rule) are about receipts, the one on dates (`DateWindow`) is about both. `BankReconciliation` adds
drafts, recalculation, completion and reopening; the cash lines it sums are those of the receipts, their
reversals and `Payments`. Requests of several clients overlap freely, and two histories say where:
`crossed` has the transactions that two requests have handled at once, `overtaken` those that somebody
was handling when a reconciliation marked them. `ChartOfAccounts` is the import with its choices,
templates that provision several accounts with parents, hand-made accounts, updates and bank accounts,
with codes held unique by an index that looks when the insert commits.

### 2.5 Reminder delivery

One lot, several reminder rows. `task[t]` is what a manager's request or a worker is doing and what it
has read; each action is the code between two awaits. `content` is what the row shows (amount,
recipient), `snapshot` what was approved, `live` the world's present figures and switches.

* Candidates: `BeginEvaluate`/`FinishEvaluate` (`evaluate`, whose duplicate check and insert are two
  statements), `Draft`, `ReadSubmit`/`WriteSubmit` (the latter one step: a Serializable transaction).
* People: `ReadApprove`, `Refresh`, `WriteApprove`; `ReadCancel`/`WriteCancel` (which is also how the
  arrears screen cancels, and what an approval of a settled debt ends in);
  `ReadRetry`/`WriteRetry`; `ReadResolve`/`WriteSent` or `WriteNotSent`.
* Dispatch: `Claim` (compare-and-swap), `Examine` (all revalidation), `Revert` or `Return`, or
  `MarkSending`, `StartAttempt` (the unique attempt key), `Transmit`, `RecordSent` or
  `RecordFailure`. `FailToRecord`: the transaction that records a success fails and is caught by the
  same handler as the provider's errors.
* World: `Change` (debt, recipient, delivery switch), `Die`, `Confirm` (the delivery webhook).

`Transmit`'s answers: accepted; accepted and the answer lost; no answer; refused. Whatever the
provider reports other than acceptance, an unavailable service included, counts as refused and is
`TRANSIENT`. What suppresses a reminder (collection case on hold, cap, recipient) depends on dates
outside the model and is a free choice; the policy's minimum amount is taken as met by any debt.
A batch of `processDue` is a succession of claims, and a person's `dispatchNow` a claim by a worker.

### 2.6 Announcements

`CommunicationDelivery` follows one announcement. `poll[p]` is a run of `processDue` (polls overlap: the
timer does not wait), with a place of its own for every contact's mail: the row is read, the mail sent,
the outcome recorded, as the workers of `mapWithConcurrency` do. `Claim` is the compare-and-swap,
`Reclaim` puts a stuck one back, `Crash` ends every poll. A statement that throws before the mails
(`Break`), or about one recipient (`BreakLane`), breaks the poll, which marks the announcement FAILED
(`MarkFailed`, or `MarkNothing` where that throws too) while the workers of the other recipients go on
sending: the poll is over (`Leave`) when the last of them is. `out`, `lost` and `overlapped` are
histories the properties need. `Announcement` is what all this should amount to, for whoever reads the
records: five actions on five sets. The refinement mapping takes *addressed* from the rows that are
there, *told* from the inbox, *mailed* from what the provider accepted, and *reported* from the rows
that say so.

### 2.7 Procurement, maintenance, attention

`QuoteRounds`: creating a round or an order takes the request's lock and is one step; invitations
follow the round's commit one by one; cancelling, replying, moving and assigning read first and write
by id; `Award` reads, then in one transaction claims the round by compare-and-swap, marks winner and
losers and creates the order. `Signing`: an item is a quote or a variation, with the mode required, the mode
chosen, and the state of both gates; `job` is what a request has still to write, and what it does
next (`CALL` WaslSign, `RELEASE` the order). `Emit` is WaslSign at its own pace; `Callback` takes any
event emitted so far, so events are late, lost, repeated and out of order by choice of the order.
`Maintenance` has the request's status machine under stale moves, one operator for each of the eleven
searches of `src/src/lib/attention-engine.ts`, the ranking and cap, and the dashboard's figures. Time is
counted in hours and jumps to the hours at which a threshold is crossed. Of the contractor of a watched
order, `ineligible` is the set of hours at which the evaluation refuses him: any set, because a
credential that nobody has reviewed may satisfy a requirement once it has expired, and an item about
him may so disappear as time passes.

### 2.8 Compliance

Nothing is stored about eligibility: `Evaluate` and `Issues` are the two pieces of code that judge a
requirement, over credentials that staff change while the scheduled check (`StartCheck`, `NextPhase`,
`Notify`) walks over what it read, and a clock (`Tick`) that crosses an expiry in between. `notices` is
the history of what was told, per credential, expiry cycle and kind.

### 2.9 Onboarding and accounts

`PlanExtraction` is the computation on the text of a strata plan: confidences, reconciliation of the
schedule, the merge of a second reading, the draft, what keeps it from being confirmed. A row without
a number is a row with a blank one, as in the code, and stays in. `PlanReading` runs all this over every
input of the run, and lets a person fill in what the plan does not tell (`FillIn`), so that drafts that
can be confirmed are among those the properties are about;
`PlanAnalysis` is its life in the background, with a watchdog that marks FAILED but stops nothing, a
read that repairs stuck documents (`healer`), and people who edit, retry and confirm.
`StrataRegister` has the seven ways to change lots and entitlements, each of which reads (`ReadPlan`,
`ReadSetup`, `ReadSpaces`), looks whether new lots find room, in the plan's total (`LookUpTotal`) and
then in what the lots leave of it (`Fits`), and writes in a later statement (`WritePlan`, `WriteSpaces`);
`completeSetup` compares the summary (`CompareSummary`) and activates the scheme (`CompleteSetup`).
Other requests come between any two of these. The rows one check reads are read in one step, and what
one transaction writes takes effect together. `ceiling` is a history: what the lots of an active scheme
may add up to, considering the edits made of lots and of the plan.
`ResidentAccounts` gives every operation on people and invites its early read and late write.
`Authorization` is the table of capabilities with its overrides, `Assistant` one conversation: every
tool call of a turn looks up the property, checks the capability, and runs, as three steps.

## 3 What the runs check

| Run | Question | Bounds | Distinct states |
|---|---|---|---|
| `ledger` | does the ledger keep its promises under two concurrent clients, implement the atomic ledger, and report a balanced book? | 3 journals, 2 periods, 4 dates, 4 commands | 184 544 |
| `receivables` | do rows, lot ledgers and general ledger agree after every order of operations, and one lot's reports over days? | 2 instalments, 2 lots, 2 funds, 5 journals, 1 key; 3 days, 5 transactions, 1 row of a kind | 800 404 |
| `scheme_finances` | is a lot charged once whatever requests race and die; are shares exact; does the opening journal tie; is one budget active per year? | 3 requests, 2 instalments, 2 lots; lists of up to 3 lots, 8 entitlements, 6 amounts; 2 setup clients, 2 funds; 2 clients, 3 budgets, years that overlap and do not, 2 attempts | 2 485 803 |
| `banking` | what survives crashes and overlaps of matching and reconciliation, and races on the chart? | 2 clients; 3 rows on overlapping files, 2 matches, 2 receipts, 2 reconciliations, in three parts; chart: 2 requests, 3 accounts | 1 611 109 |
| `banking_race` | is a transaction matched once, as the schema says, with two requests at once? | as `banking` | violated |
| `reminder_delivery` | is no message sent twice, falsely reported or resent by itself? | 1 reminder, 2 managers, 2 workers, 2 attempts, 2 releases, deaths | 599 800 |
| `communications` | is an announcement delivered as promised, and does it settle? does a claimed reminder reach an outcome? | 1 recipient, 1 manager, 2 polls, 1 crash; 2 recipients, 1 poll, no crash; reminders: 1 manager, 2 workers, no deaths | 760 208 |
| `quote_rounds` | one order per round, whatever overlaps; nothing forgotten by the attention list; do the dashboard's figures agree? | 2 clients, 2 contractors, 2 rounds, quotes and orders; 25 moments, 1 request, 2 properties, 1 watched row of every kind | 1 513 101 |
| `signing` | is anything released without its gates; does an answer leave its reader's reach? | 1 manager, 1 webhook, 3 rows, 2 policies; 2 properties, 2 changes of permissions, 2 turns | 4 277 528 |
| `compliance` | do both evaluations agree; is what they call eligible covered; how often is an expiry told? | 2 credentials, 5 requirements, days 0 to 2, 2 expiry cycles, 1 request beside the check | 976 039 |
| `compliance_race` | is each expiry told once, as the comment says, with two requests beside the check? | 1 credential, 2 requests | violated |
| `onboarding` | what a plan becomes, what an active scheme stays, whether anybody is left outside | 2 clients, 2 analyses, 2 attempts, 2 rows per reading; 2 spaces, 1 entry and 1 new unit of entitlement per request; 2 organisations, 2 invites | 3 582 480 |

`compliance_race` and `banking_race` are expected to fail, and show the two disagreements that have a run
(section 5, compliance and bank); the other disagreements are described there without one.

**Properties worth reading.** `LedgersTie` compares, fund by fund, a balance computed without any journal
with one computed only from journals, and unapplied cash with the liability for it: it would have
caught the exchanged debit and credit that ADR-026's addendum tells of, which a balanced journal does not
show. `RowsFollowJournals` says that neither half of any two-part write is ever missing.
`NoAutomaticResend` counts messages against decisions of people, over every interleaving of workers,
late writes and deaths. `SharedByEntitlement` compares the code's order of remainders, taken on rounded
quotients, with that of the exact ones. `ArrearsStand` lets the world go on and asks of a past day's
report that it does not change; `ReportsAgree` relates six figures of three reports, backdated receipts
included. `SelectionAgrees` relates the three rows in which an award is recorded, `NothingUnsanctioned`
an order's release to what was approved and signed at the time, under late and stale callbacks.
`AnswersStayInReach` holds an answer against the memberships and grants held *since the question was
asked*. `KeepsPromise` is a refinement. `OneAnswer` asks of two pieces of code, one for eligibility and
one for the overview, that they never tell different stories. `SeverityNeverFalls` finds a gap between
the thresholds of two searches (a credential that is neither about to expire nor expired at the moment
it expires). `NobodyLeftOutside` relates accounts, contacts and invites across racing resends,
revocations and acceptances. `ReconciledIsBacked` holds a reconciliation's marks against matches that are
reversed between its recalculation and its marking. `ActiveSchemeHolds` says how far requests that
look for room before they write can exceed a plan together, and no further; the bound is met exactly.

**Why the bounds are enough.** Interference in the code is between pairs of operations on one row, so
two clients show each order (for schedules three: an issue between another request's read and write,
while a third notifies). One client suffices where the interference is between staff and a background
process or a webhook (`signing`, `compliance`, `communications`); `compliance_race` adds the second
request that the comment it refutes does not reckon with. In `banking`, two clients handle everything;
its parts keep the product of deposits, payments and reconciliations small: what one part leaves out
another has. `banking_race` asks the same model for more than the code keeps. In `onboarding`, two
clients with room for one lot are the smallest overlap that gives the same room away twice, and the
declared total is set, changed and taken out while they do. Three journals are a posting, its reversal
and the reversal of that; two periods are what overlapping, closing and reopening need. Five journals in
`receivables` hold an issue, a receipt, an allocation, its reversal and one further operation; both
instalments are in one fund, so that the order of automatic allocation matters, and receipts come in
either. Lot 2 has no share in the second instalment: the rounded-away charge. Days 0, 31 and 62 are
three ages of a debt. Two attempts and two releases let an automatic retry follow a manual one. Amounts
of 15, 0, 10, 50, 70 and 1000 tenths of a cent are a cent and a half, nothing, one cent, fewer cents
than entitlement, and a dollar, whose shares have more digits than are kept; entitlements include equal,
very unequal, zero and negative ones. In `quote_rounds` two rounds and two quotes let a second round
open after a cancellation that raced an award. The moments of `Maintenance` are the hour of every
threshold and the hour after it. In `signing` two quotes compete for one order, with a policy that asks
for nothing, for an approval, and for an approval and a signature. Two attempts at an analysis let a
late pipeline meet its own retry. Budgets start in years 0, 1 and 2 and last two, so that some overlap.
Symmetry is used for interchangeable clients, reasons, managers, workers and contractors in safety runs,
never in liveness runs.

**Fairness.** `Fairness` of reminders assumes only that each await of a dispatch ends (weak fairness of
`DispatchStep` of each worker): a database call returns or throws, and the provider call is aborted
after its timeout. Nothing is assumed of managers, of the evaluator or of claims. In `communications`,
`Fairness` is weak fairness of each delivery step of each poll, of `Claim` and of `Reclaim`: the poller
is a timer of the process that is started again, and every await returns. Crashes are bounded there, or
there would be nothing to settle. Managers and `Fail` are not fair.

**Deadlock** is checked in `ledger` and `reminder_delivery`. Elsewhere the cfg switches it off because
the system may stop: the bound on rows reached, a question answered, a round awarded, the last day.

**Faulty variants.** Definitions commented "Faulty variant" or "Wrong" are the program with a plausible
mistake (a missing guard, an exchanged sign, an unlocked read). No action uses them; each is there
because a property must fail when it takes the place of the definition after it.

## 4 What is proved

Each theorem is proved for every value of the constants that meets the named assumptions of the
component's modules and of the `MC` module its proofs extend, and of nothing else. They ask that sets
which are added up are finite, that amounts are integers or natural numbers, that what the constants
describe is well formed (commands, policies, shares, splits, plans), that bounds are natural numbers and
`MaxAttempts` at least one, and that the "nobody" values are nobody. TLC evaluates all of them in the
runs.

Where an invariant adds things up, the argument is by `CollectionTheorems`: `SumOver(f, S)` is defined as the
value at `S` of a function that is additive over the subsets of `S`; that there is one, and one only, is
proved from the smallest set at which it would fail (`SmallestSet`, `SetInduction`), since the library's
induction theorems take an operator and no prover here can instantiate them. The other lemmas say what
a sum becomes when a member is added, when one summand changes, when it is split in two or in parts,
how many members of a total order have a rank below a number (`FirstRanks`), and what rounding to a
multiple keeps (`RoundedIs`).

### 4.1 Ledger, reports, bank and chart (`LedgerPostingProofs`)

*The ledger.* `TypeCorrect`, `ExactlyOnce`, `ReversalsExact`, `PeriodsNeverOverlap`, `LogOnlyGrows`,
`OnlyIntoOpenPeriods` and `Refinement`. None of these is inductive: a transaction validates in one step
and writes in a later one. The invariant adds `LockExclusive` (whoever has a transaction open holds the
lock) and `StagedStillValid` (what it has validated is still so: the source key unused, the period open,
the journal unreversed, the new period disjoint). The second is preserved *because* of the first.
`CommitIsAtomic` then shows that a commit is one step of `GeneralLedger`, and every other step a
stutter. A posting's accounts are *not* in `StagedStillValid`: see section 5.

*Reports.* `BalancedHolds`: every journal, committed or staged, balances as a whole and per fund, because
a posting is refused otherwise and a reversal exchanges the sides of one that did. `BooksAlwaysBalance`
follows by adding up: a net is additive over journals, accounts and days, so the sum over accounts of the
sum over journals is that over journals of nothing. What remains in the balance sheet is what falls
between the dates its sections look at, and `BooksBalance` says exactly what that is.

*Bank.* `OneReceiptAlways`, whatever overlaps: `KeysOnce` says that a key has one receipt at most, and
the key of a deposit is its own. `MatchedIsConfirmed` and `ReconciledStaysMatched` are of any number of
clients whose requests overlap and die anywhere. The invariant `BankSound` has three parts for each
transaction. `Sound` is what no overlap disturbs: a MATCHED transaction has a confirmed match, since
whoever writes that status confirms one in the same transaction and whoever reverses one takes the
status away; a reconciled one is of a completed reconciliation that covers its day. `Single` is of
transactions that no two requests have handled at once: they have one confirmed match or none, and what
the one request about them has read is still right, whatever requests about *other* transactions do.
`Held` is of reconciled transactions that nobody was handling when they were marked: nobody is about to
take their match away either, because undoing and suggesting refuse what is reconciled or matched when
they read it.

*Chart.* `ImportsArriveWhole`, for any requests at once. Rows are checked when they are read and written
later, so `ChartSound` says per request what it may still rely on (`ChartJobOK`): the codes of its rows
differ from each other, what a template's rows leave out is on the chart and stays there, and the version
it read is at most one ahead. None of the writes takes a code away (`ChartGrew`), which is why this
survives the others' writes; that a code has not been taken meanwhile is *not* in it: the unique index
looks again. `ChartAssumption` is that rows are numbered and that no update names a code.

### 4.2 Receivables and one lot's account (`ReceivablesProofs`)

`TypeCorrect`, `LedgersTieHolds`, `ReceiptsCoverAllocationsHolds`, `RowsFollowJournalsHolds`,
`OldestFirstHolds`. The inductive invariant is `Sound` of the committed tables and of the private copy in
flight: the two are changed by the same operators, so that each lemma about an operator is used for both.
`Sound` has a part for journals (what a reversal reverses, and once), for rows and the journals they
name, for lines, for links between rows, for what a receipt covers, and for the two ways of adding up a
fund (`Tie`). Each operation appends one journal and touches one row, and the lemmas say what this does
to the sums. For `OldestFirst` the copy also carries `PaysOldest`: what an automatic receipt has paid so
far, and has still to pay, is in the order of the charges' instalments. TLC checked this invariant as
such before it was proved.

`ArrearsAlwaysStand`, of `LotAccount`: what happens now carries today's date, what a report of an earlier
day sums has an earlier one, and what is changed later (a reversal) is dated too; so the figures of a day
that is over are sums of the same numbers for ever.

`ReportsAlwaysAgree`, of `LotAccount`. Two arguments meet. One is of any rows: no two of them are left
unordered (`RowsSortable`: the moment, the kind of row, its number), so the balance of the last of some
rows is the sum of all rows up to it (`LastBalanceIs`), and whatever splits the rows, by days or by
funds, splits the balance. The other is of these rows: their sum is taken charge by charge and receipt
by receipt (`RowsSumTo`, from `SumParts`), and compared with what is outstanding and not applied. It
needs `LotBooked`, the inductive invariant: what happened, happened up to now; only what was issued is
adjusted, paid or reversed; of a receipt no more stands applied than it brought, and nothing once it is
reversed, which is what lets the credits be added up without the `Math.max(0, ...)` of the code; and no
reversals of a charge and of a receipt share a moment, since their rows are of one kind. TLC checked it
before it was proved. `LotAssumption` is that days are integers, instalments finitely many and numbered
(rows of one moment and kind are listed by number), amounts natural numbers, corrections integers, and
that no fund is the "no fund" of the opening position.

### 4.3 Schedules, budgets, setup (`SchemeFinancesProofs`)

*Levy schedules.* `TypeCorrect`, `ChargedExactlyOnce`, `IssuedAfterApproval`, `NoticedAtMostOnce`,
`NeverReissued`. The invariant adds `LockHeld`, `StillCurrent` (under the lock the target has not moved
since it was read, and a schedule seen as approved was approved), `NoticesDue` (notices still to be sent
have not been sent, and one request alone has them) and `ApprovedFirst`. The unlocked `approve` and
`cancel` may write at any time, so the schedule's *status* is not part of the argument: only `approved`,
which is never unset.

*Budgets.* `BudgetsTypeCorrect`, `OneActive`, `VersionsHaveNoGaps`. The invariant says that an activation
holds the lock and has read every ACTIVE budget of its year (`ActivationHoldsLock`), so that superseding those
it read leaves none, that two ACTIVE budgets are of different years (`ActivesApart`), and that the
version below the one a revision means to take exists (`JobsPoint`): together with the index, which
refuses a number that is taken, a year's versions are exactly `1..k`.

*Opening journal.* `OpeningAlwaysTies`. Lines are computed from what was read and posted later, so the
invariant `SetupSound` says of the lines posted *and of those somebody is about to post* that they are
`Tied` to the setup: per fund and per lot, but for those of which `late` says that an edit which had read
before the activation wrote after it. That every other row stands still is the code's own check of the
status; that the sums are right at the moment of reading is `SplitsAgree` together with the refusal of
funds that are not the property's.

*Allocation.* `SharesAreExact`, for any lots, entitlements and amounts. Two arguments meet. One is of
rounding (`QuotientIs`, `NearInOrder`): the whole part of every computed quotient is exact, since
rounding never loses a multiple of one that the quotient reaches and is too fine to gain the next; and a
greater exact remainder has the greater computed fraction. The other is of largest remainders
(`LargestRemainder`) in *any* strict order that puts greater remainders first: what the whole shares leave
is not negative and no more than there are remainders, and as many lots have a rank below it
(`FirstRanks`), so that the shares add up and a lot without a remainder pays nothing extra. A share
depends on the set of the lots and not on their list, because the list has each of them once
(`ListingHas`). The hypothesis is `AllocationAssumption`: for some `d` below `Precision`, amounts are at
most 10^d cents, and 10^(d+2) + 1 times the entitlement of any lots is at most 10^(Precision+2). With
the program's 20 digits that admits a total entitlement of almost 10^8 for amounts of up to 10^12 cents;
the run meets it with 4 digits, 100 cents and an entitlement of up to 60.

### 4.4 Reminders and announcements (`DeliveryProofs`)

*Reminders.* `TypeCorrect`, `OneMailPerAttemptHolds`, `NoAutomaticResendHolds`, `RetriesBoundedHolds`,
`NeverFalselySentHolds`. The invariant `Accounts` has four parts: `AttemptsInTurn` (an attempt in flight
is the last recorded one, belongs to one task and is beyond the row's stored count; a task about to start
one is at most one ahead of that count); `MailsInTurn` (no message carries an attempt not recorded, or
one about to be transmitted); `PaidFor` (messages sent, *tasks that may still send one* and an APPROVED
status together never exceed the releases people have granted); `RetriesPaidFor` (the same for attempts
beyond `MaxAttempts`). Late writes of `approve`, `retry` and `resolveQuarantine` make `status` useless as
evidence of what is in flight, so the argument counts tasks. Each step either spends what it was handed
or is a release, which adds one to both sides; `BudgetStep` is that counting, once, for all actions.
`Backed` is what the fifth theorem adds: whatever reports SENT, or waits for somebody to say so, has
evidence, and a task about to report it has it too.

*Announcements.* `AnnouncementTypeCorrect`, `RepeatsHaveCause`, `DeliveryKeepsPromise`. `OnRecord` says
what the place a poll has reached implies for the records (a mail in hand means that the announcement has
gone out and its addressee is on the record), `MailedOnce` that, while polls have not overlapped, one
poll at most is active and a mail not lost is accepted once, recorded or about to be. The refinement is
step by step: each delivery step is one of the five actions of `Announcement` or a stutter.

### 4.5 Rounds, compliance, dashboard, attention list (`ProcurementProofs`)

*Rounds.* `TypeCorrect`, `OneOrder`, `SelectionsAgree`. `OpenIsUntouched` (a round that is OPEN has no
order and no losers) is what makes the compare-and-swap of an award enough, since nothing puts a round
back to OPEN; `JobsPoint` keeps the winner out of the losers that a pending award has read, and
`OrdersApart` gives every order a round of its own.

*Compliance.* `OneAnswerHolds` is of any credentials and needs no invariant: the two evaluations are
compared case by case. `EligibleIsCoveredHolds` needs their types only. `ToldOncePerResetHolds` is a
count: `Tally` says, per credential, expiry cycle and kind of notice, that the copies told and those the
check is about to tell are at most one more than the marks cleared, and no more than these while the
credential bears no mark.

*Dashboard.* `FiguresAgreeHolds`: each figure is the size of a set of requests, and the sets are related
by what a request's dates say of its status (`Dated`), stale moves included (`Leads`).

*Attention list.* `SeverityStays`, an action property: only `Tick` moves the clock, and it changes no row
(`TimePasses`). Search by search, what was found is found again, as severe or more so (`WaitingStays`,
`OrdersStay`, `QuotesStay`, `CredentialsStay`, `RequestsStay`); a credential that leaves the search for
those about to expire enters the one for those that have, at that very hour. The list is one of the
sorted lists of what was found: there is one (`SortedExists`, the comparison being a strict order:
`PrecedenceIs`), and whichever it is, none is more severe than its first (`TopOfList`), so the new first
is no less severe than whatever the old first has become. Two kinds of item are exempt (`Lasts`),
because time does take them off: the nudge about a rejected quote, after a fortnight, and the item of a
contractor who is eligible again. `MaintenanceAssumption` is that a watched
row's hours are integers, that at least one item is shown and that a credential's warning comes no later
than its expiry; the severities and the order of the types are the code's own lists.

### 4.6 Signing and the assistant (`SigningProofs`)

*Signing.* `TypeCorrect`, `NothingIsUnsanctioned`. Stale writes overwrite one another freely; what makes
the argument work is that each write is *sound by itself*: a mode written meets the requirement, which
never changes (`Fit`), an approval written as APPROVED was given, a signature written as SIGNED was
signed at WaslSign (`RowsSound`), and what a request is still about to write is true already
(`JobsSound`). `Kept` says that approvals and emitted events only come to be more, so that what was true
when it was read is true when it is written; `OrderSound` carries that to the quote an order was released
by.

*Assistant.* `AnswersStayInReachHolds`. The histories `held` and `granted` contain what a turn may still
read (`HistoryKept`), a tool that runs has had its capability since the question was asked
(`TurnSound`), and each tool asks for a capability that shows what it returns, which is a fact about
the catalogue, checked tool by tool; so rows collected or cited are in reach (`RowsInReach`).

### 4.7 Accounts, strata register, plan analysis and reading (`OnboardingProofs`)

*Accounts.* `TypeCorrect`, `NobodyIsLeftOutside`. The invariant adds `LinksFound`: what a request has
read and will write is about rows that exist, and an acceptance on its way has the contact of its invite.

*Strata register.* `ActiveSchemesHold`, of any number of clients. The invariant `RegisterSound` adds
three things. What a request has read and nobody has written over still says what its writing will add,
and that a summary about to activate a scheme leaves no room (`Prepared`). A request that has found room
*holds* it until it writes, and one that has looked up a total above the ceiling holds what it will find
there (`Held`). And while the scheme is active and a total declared, this is not above the ceiling, and
lots and held room together are at most the ceiling and what all clients but one may allocate
(`RoomOK`). A request that finds room finds it beside the lots that are there, so only what the *others*
hold can come on top (`Spread`); writing turns what it held into lots, and an edit moves the ceiling
with the lots. `StrataAssumption` is that clients are finitely many and there is one, that units and
bounds are natural numbers and that a plan's edits set its number and its total.

*Plan analysis.* `ConfirmationsAnswerOwn`. What is answered, and what the document links to, are
properties made from a plan (`AnswersSound`); only a confirm makes or links one (`LinkKept` is every
other step, of whatever late pipeline, watchdog or repair).

*Plan reading.* `ReadingStaysSound`: what has been extracted is at any time `Extract(raw, seen)`, and
the draft is made of that. So `CertaintyIsCorroborated` and `NoReadingIsLost` are facts about functions:
`Accounted` says where each row of a schedule comes from (`MergeLotsHas` for the merged one) and what
its score can be, and keeps it through the second reading and through `Corroborate`; `SeedLists` says
what a draft lists. `NoReadingIsLost` has a second half, of drafts that can be confirmed: the rows of
the last reading stand first in the schedule, one by one, so what it lists twice is twice in the draft;
and the validation refuses a draft with a blank number or with two that are the same once trimmed,
whatever else has been filled in. Totals are added by folds that the argument never opens: a schedule
that adds up by accident is among the cases. `ReadingAssumption` is that rows are in lists, that a
page's confidence is a number, that what a person fills in leaves the lots alone, and that an extraction
is not the value that stands for none.

### 4.8 What is only model-checked

`ClaimsSettle` and `Settles`: liveness under fairness. Every invariant, action property and refinement that
a passing run checks is proved.

## 5 What the code does otherwise than documented

Met while modelling and visible in the models. Two have a run that shows them (`compliance_race`,
`banking_race`); the others are left without: each property of a passing run is stated so that it holds
of the code as it is, and what it had to exempt is here. Most have one cause, a write by id of what was
decided on an earlier read.

**Ledger and reports**

* A reversal entry may itself be reversed (`F/ledger-posting.service.ts:456`); the schema
  (`prisma/schema.prisma:1473-1474`) says never. `Refinement` holds because the abstract ledger allows it.
* The same, through a receipt: reversing the reversal entry brings its cash back while the receipt stays
  REVERSED, against `docs/architecture/adr/ADR-026-receipts-payment-allocation.md:78-81`.
* A posting commits to an account deactivated after the check (`F/ledger-posting.service.ts:240`).
* `balanceCheckDifference` is not "Always 0.00" (`F/financial-reports.service.ts:95`): earnings dated
  before the cutover are left out of it. `BooksBalance` says exactly by how much.
* The reports date a receipt by its posting date in the lot ledger and by its creation in arrears; a
  reversed receipt is missing from the unapplied credits of any past date.

**Levies, receipts, budgets, setup**

* `reverseInstallment` (`F/levies.service.ts:806`) cancels charges that have adjustments or applied
  payments; these stay in the ledger's receivable while arrears report nothing, although
  `docs/architecture/adr/ADR-027-arrears-management.md:123` says arrears "can never drift".
* A PAID charge adjusted upwards keeps its status, and automatic allocation, which looks at ISSUED and
  PART_PAID, passes it over (`F/receipts.service.ts:406`); `OldestFirst` speaks only of charges not
  marked paid, and ADR-026:61-62 does not hold as written.
* An instalment issued between `cancel`'s check and write (`F/levies.service.ts:421`) ends up on a
  CANCELLED schedule, against `prisma/schema.prisma:1610-1613`.
* The slower of two approvals resets an issued schedule to APPROVED (`F/levies.service.ts:396`).
* A lot whose share rounds to nothing gets no charge and still a notice (`F/levies.service.ts:703`).
* Equal exact remainders need not tie, because quotients of different size are rounded at different
  places (`F/levy-allocation.ts:63`): who pays the leftover cent may depend on the entitlement, against
  `docs/architecture/adr/ADR-022-levy-uoe-rounding.md:20-30`.
* The lines of a budget can still change after its approval (an edit that read it as DRAFT,
  `F/budgets.service.ts:186`), a stale second approval turns an ACTIVE or SUPERSEDED budget back to
  APPROVED, and two creations of overlapping years pass each other. `revisionOf` is not always "the
  immediately-preceding version" (`prisma/schema.prisma:992-994`).
* Edits of the setup that read before the activation commit after it (`F/financials.service.ts:138-147`);
  a lot whose position is zero has its splits posted unchecked (`F/opening-journal.service.ts:91`); two
  concurrent `addFund` make two ADMINISTRATION funds; a space reclassified after its position was
  recorded is still posted.
* The chart export, said to be re-importable unchanged (`F/accounts.service.ts:330`), writes a heading
  the import does not read. Circles of three parents pass the check of `F/accounts.service.ts:212-219`,
  and two concurrent updates make one of two. Two racing registrations put two ACTIVE bank accounts on
  one ledger account, whose class or fund may also change afterwards.

**Bank**

* Two requests that match one deposit at the same time both succeed (`ConfirmedOnce`, run
  `banking_race`), although "at most one SUGGESTED-or-CONFIRMED row may exist per BankTransaction" and "at
  most one CONFIRMED row may ever reference the same receiptId" (`prisma/schema.prisma:2717-2723`):
  nothing is locked, no constraint forbids it, and each checks before the other writes
  (`F/bank-matching.service.ts:302`, `379`). One of the two matches may then be reversed, which leaves the
  transaction UNMATCHED with a confirmed match. `MatchedIffConfirmed` says what holds in spite of that.
* A match that is reversed by a request that read before the transaction was marked RECONCILED leaves it
  RECONCILED and UNMATCHED, although a match of a reconciled transaction cannot be reversed
  (`F/bank-matching.service.ts:500-502`); one reversed between `complete`'s recalculation and its marking
  leaves a completed reconciliation whose difference is no longer zero
  (`F/bank-reconciliation.service.ts:467-493`).
* Two drafts may both pass the check of the opening balance, which one of them then invalidates
  (`F/bank-reconciliation.service.ts:329`).
* After `reverseMatch` the same receipt may be matched again (`F/bank-matching.service.ts:79-81`); a
  suggestion of an ignored transaction can still be confirmed; a manual match ignores sign and account;
  `reverseReceipt` looks at no match.
* A deposit outstanding at the end of a period makes the next period impossible to balance, since
  `complete` asks for a difference of zero (`F/bank-reconciliation.service.ts:455`).

**Reminders**

* Two candidates of one stage are both approved and both sent (`F/reminder-approval.service.ts:421`;
  `docs/architecture/adr/ADR-029-arrears-reminder-delivery-scheduling.md:259-263` says "never a duplicate
  email"); `evaluate` may create the second next to a draft submitted meanwhile
  (`F/reminder-eligibility.service.ts:198`).
* A slow approval refreshes the content of a reminder already approved (`F/reminder-approval.service.ts:398`),
  which then goes out with content nobody approved (`prisma/schema.prisma:2320-2324`).
* `cancel` may overtake a claim, so a CANCELLED reminder has been sent (`F/reminder-approval.service.ts:554`).
* A message the provider accepted is recorded as FAILED when recording it fails
  (`F/reminder-dispatch.service.ts:228`), and may then be released again by a person.
* Nothing moves a reminder whose worker died in QUEUED or SENDING (`F/reminder-dispatch.service.ts:349`;
  the `quarantineStuckSending` that the schema names does not exist). `processDue` takes ten rows in no
  order and stops at the first that throws.

**Quotes, orders, variations, signatures**

* A callback that read a variation while it was pending writes that status back after staff have settled
  it (`work-orders/work-order-variations.service.ts:788`; the comment at `:757-758` says "must never
  rewrite history"). Late events overwrite a quote's SIGNED; an event that arrives before the agreement's
  id is stored is lost for good, and so is one whose handler dies after its id was recorded.
* A handler that read one agreement writes its SIGNED onto the next one. Signing by an unrequested
  signature comes before the approval in `APPROVAL_THEN_SIGNATURE` if a stale one is left over.
* `setWorkflowMode` lets a manager choose NONE for a variation for which no policy applied; the direct
  work path can raise an amount without resolving the policy again.
* An order with no governing quote, or a rejected one, can be released. Two live orders of one request
  follow from a stale `updateStatus` after a cancellation and a new order.
* A late `cancel` overwrites an award (`quotes/quote-rounds.service.ts:359`): the round is CANCELLED and
  has an order. A submission that read the round OPEN lands after the award; a quote withdrawn meanwhile
  can be awarded.

**Compliance, maintenance, attention**

* A credential nobody has reviewed satisfies a requirement that demands verification but tolerates
  expiry once it has expired (`contractors/compliance/eligibility.service.ts:526-545`), against
  `prisma/schema.prisma:3632-3634`; a PENDING one that is accepted skips the check of its cover, whose
  currency is never looked at. So the CRITICAL item about a contractor who is no longer eligible
  (`src/src/lib/attention-engine.ts:574-624`) can leave the attention list by time alone, when the credential
  expires that nobody reviewed; `SeverityNeverFalls` exempts exactly that (`Lasts`).
* Staff may be told of one expiry more than once (`NotifiedOncePerCycle`, run `compliance_race`), although
  "each credential is notified at most once per expiry-cycle-per-state"
  (`contractors/compliance/complianceNotifications.service.ts:14`): an update decides from a row read before
  its transaction whether the date changes (`contractors/compliance/credentials.service.ts:187`), so of
  two that set the same date the second clears the marks of a date it does not change, and a check
  between them tells once, the next one again. `ToldOncePerReset` counts by how much at most.
* A renewal during the scheduled check has its new expiry stamped as notified, against
  `prisma/schema.prisma:3571-3575`; a stale update leaves VERIFIED on a document nobody has seen
  (`contractors/compliance/credentials.service.ts:174-177`); an optional requirement warns of its
  expiry, against `prisma/schema.prisma:3624-3627`.
* A stale `updateStatus` takes a RESOLVED, CLOSED or CANCELLED request back
  (`maintenance/maintenance.service.ts:287-299`), although "RESOLVED only moves forward" (`:22-27`).
  `FiguresAgree` holds because the stale dates are written with the stale status.
* Searches of the attention engine that take fifty rows in no order and filter them afterwards
  (`src/src/lib/attention-engine.ts:466`, `503`, `538`, `593`) may leave out the worse ones; they run as
  separate statements, so a request whose priority changes in between appears twice or not at all.

**Announcements**

* An announcement is SENT before its mails go out: those left over by a death in between are never
  resumed. A statement that fails after SENT turns it into FAILED; a stale send re-schedules a delivered
  one, and a stale cancel overwrites SENT. A resumed delivery repeats the notice in the inbox
  (`communications/communications.delivery.ts:197`, against `:107-109`).

**Plans, scheme, people, permissions**

* A pipeline whose time was up still writes: over a draft somebody has edited or confirmed, and over an
  attempt said to be "never mutated after it finishes" (`prisma/schema.prisma:4576`). A document whose
  run died before it began stays UPLOADED and cannot be retried; concurrent retries exceed
  `MAX_ANALYSIS_ATTEMPTS`; two confirms with an edit in between make two properties of one plan
  (`prisma/schema.prisma:4547`). Lots that the text lists twice collapse into one once vision has
  looked, whether or not it agrees (`property-documents/nsw-strata-plan/vision-fallback.ts:239`), unless
  vision lists them twice as well; a row without a number is kept, and blocks the confirmation until
  somebody edits the lots.
* Two requests that overlap can both find the same room and exceed the total an ACTIVE scheme declares,
  although "there is no legitimate reason to allocate more of it" (`strata/strata.service.ts:118-135`).
  `ActiveSchemeHolds` bounds the excess by what all requests but one allocate.
* `completeSetup` compares the summary in one statement and activates in another
  (`strata/strata.service.ts:713`, `732`): lots and the total may change in between, and a space may
  arrive that is not classified. A create that has read the scheme before it was ACTIVE brings one as
  well, and so does `PATCH isStrataLot=false`; the old flag makes lots without number or entitlement.
* The two fields that `resolveLegacyIsStrataManagedTransition` keeps "from ever diverging"
  (`strata/strata.service.ts:206-214`) do diverge when `completeSetup` read the scheme before an
  `isStrataManaged=false` committed (`properties/properties.service.ts:286-295`): the scheme is ACTIVE
  on a property that is not managed. A stale `enable` or `isStrataManaged` overwrites the status, an
  ACTIVE one too.
* Stale resends, revocations and expiries overwrite ACCEPTED; two invitations leave two PENDING ones; a
  revoked one is accepted by a request that read it before; two requests make two ACTIVE memberships of
  one post. A logout that races a refresh of tokens leaves the new session alive
  (`auth/auth.service.ts:187-225`; sessions are not modelled).
* "Full replacement of one role's overrides" (`role-permissions/role-permissions.service.ts:85`) leaves
  the rows of capabilities the request does not mention. The assistant's budget does not count tool calls
  that fail, are refused or time out; its rate limit is per process; a quote without order or round is
  checked against any property at all.

## 6 What is not modelled

* **Back office, organisations, activity, notifications**: screens that read, and records written by the
  operations above; no property of theirs depends on an order of steps. The console's classifier of SQL
  statements is text processing.
* **Infrastructure**: HTTP, validation schemas as such, logging, storage, e-mail transport,
  configuration. Services and the database appear in the models as the answers they can give; random
  references as fresh names.
* **Of components modelled partly**: creating levy schedules from budgets (`createRegular`,
  `createSpecial`); updating the reminder policy; collection cases and notes; parsing of CSV and of
  columns; sessions and the rotation of tokens; saved audiences; buildings, levels and descriptive
  fields; visibility of orders; the dashboard's portfolio and
  occupancy figures.
* **Everywhere**: listings, CSV and PDF output, wording, activity events; the authorization of the caller
  outside `Authorization`, `Assistant`. One property, one lot (reminders), one schedule
  (`LevySchedules`), one request (`QuoteRounds`) and one announcement are modelled, since operations on
  different ones share no row except the locks. Amounts are small integers: the program's decimals are
  exact for the sums it forms, and where they are not (`LevyAllocation`) their digits are modelled.
* `Receivables` takes a request as one step, which the property's lock entitles it to. In `StrataRegister`
  the rows that one check reads are read in one step (the code sometimes takes two statements), but for
  the declared total and the lots that are held against it.

## 7 Plan

1. **Sessions**: rotation of refresh tokens under concurrency, logout and reuse, on top of
   `ResidentAccounts`.
2. **Creation of schedules from budgets**, composed of `Budgets` and `LevySchedules`: the total is read
   outside the transaction.
3. **Reminder policy and collection cases** as inputs that change under `ReminderDelivery`.
4. An abstract *account per lot* (charge, pay, undo) that `Receivables` implements.

## 8 Running it

```
tlc -workers 2 -config LedgerPosting.cfg MCLedgerPosting     # any run: its cfg and module in PROJECT.json
tlapm LedgerPostingProofs.tla                                # any proof module
```

A run takes up to three and a half minutes on two cores, a proof module up to four
(`ReceivablesProofs` the longest).
