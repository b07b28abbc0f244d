--------------------------- MODULE LedgerPosting ----------------------------
(***************************************************************************)
(* LedgerPostingService and AccountingPeriodsService as they run: requests *)
(* of several clients, each one database transaction that takes the        *)
(* FinancialConfiguration row lock, validates against what it reads, and   *)
(* commits or is lost.  AccountsService activates and deactivates accounts *)
(* without that lock, so it interleaves with a transaction in flight.      *)
(* One property; other properties have their own lock and their own rows.  *)
(***************************************************************************)
EXTENDS GeneralLedger, SequencesExt

CONSTANTS Clients,      \* concurrent request handlers
          NoClient,     \* the lock is free
          MaxJournals,  \* bound: journals a behaviour may post
          MaxPeriods    \* bound: periods a behaviour may open

ASSUME NoClientAssumption == NoClient \notin Clients
ASSUME BoundsAssumption == MaxJournals \in Nat /\ MaxPeriods \in Nat

VARIABLES
  active,    \* accounts whose isActive flag is set
  tx,        \* per client: the transaction it has open
  lock       \* holder of the FOR UPDATE lock on financial_configurations

vars == <<journals, periods, active, tx, lock>>

Requests ==
  [op : {"POST"}, command : Commands]
  \cup [op : {"REVERSE"}, journal : 1 .. MaxJournals, date : Dates, reason : Reasons,
        allowLevySourced : BOOLEAN]
  \cup [op : {"OPEN_PERIOD"}, start : Dates, end : Dates]
  \cup [op : {"CLOSE", "REOPEN"}, period : 1 .. MaxPeriods]

\* What a validated transaction is about to write.
Writes ==
  [kind : {"INSERT"}, journal : Journal]
  \cup [kind : {"LINK"}, at : Nat, of : Nat, reason : Reasons]
  \cup [kind : {"PERIOD"}, period : Period]
  \cup [kind : {"STATUS"}, at : Nat, status : {"OPEN", "CLOSED"}]

Idle == [phase |-> "IDLE"]

Transactions ==
  {Idle} \cup [phase : {"LOCKED"}, req : Requests]
         \cup [phase : {"STAGED"}, req : Requests, write : Writes]

TypeOK ==
  /\ journals \in Seq(Journal)
  /\ periods \in Seq(Period)
  /\ active \in SUBSET Accounts
  /\ tx \in [Clients -> Transactions]
  /\ lock \in Clients \cup {NoClient}

Init ==
  /\ journals = <<>> /\ periods = <<>>
  /\ active = Accounts
  /\ tx = [p \in Clients |-> Idle]
  /\ lock = NoClient

-----------------------------------------------------------------------------
(***************************************************************************)
(* Transactions.                                                           *)
(***************************************************************************)

WithinBounds(r) ==
  /\ r.op \in {"POST", "REVERSE"} => Len(journals) < MaxJournals
  /\ r.op = "OPEN_PERIOD" => Len(periods) < MaxPeriods

\* Every ledger operation starts by SELECT ... FOR UPDATE.
AcquireLock(p, r) ==
  /\ tx[p] = Idle
  /\ WithinBounds(r)
  /\ lock = NoClient
  /\ lock' = p
  /\ tx' = [tx EXCEPT ![p] = [phase |-> "LOCKED", req |-> r]]
  /\ UNCHANGED <<journals, periods, active>>

Holds(p, op) == tx[p].phase = "LOCKED" /\ tx[p].req.op = op

Stage(p, write) ==
  /\ tx' = [tx EXCEPT ![p] = [phase |-> "STAGED", req |-> tx[p].req, write |-> write]]
  /\ UNCHANGED <<journals, periods, active, lock>>

\* The transaction ends without a write: an error, or a request already done.
Finish(p) ==
  /\ tx' = [tx EXCEPT ![p] = Idle]
  /\ lock' = IF lock = p THEN NoClient ELSE lock
  /\ UNCHANGED <<journals, periods, active>>

\* Lines and date a journal may be created with, as read in this transaction.
Postable(lines, allowCrossFund, date) ==
  /\ WellFormed(lines, allowCrossFund)
  /\ AccountsOf(lines) \subseteq active
  /\ OpenFor(periods, date) # {}

\* Faulty variant: the reversal is posted but its link is left unset.
EntryUnlinked(type, source, lines, date, reversalOf, reason) ==
  [type |-> type, source |-> source, lines |-> lines, date |-> date,
   period |-> CHOOSE i \in OpenFor(periods, date) : TRUE,
   reversalOf |-> NotAReversal, reason |-> reason]

Entry(type, source, lines, date, reversalOf, reason) ==
  [type |-> type, source |-> source, lines |-> lines, date |-> date,
   period |-> CHOOSE i \in OpenFor(periods, date) : TRUE,
   reversalOf |-> reversalOf, reason |-> reason]

-----------------------------------------------------------------------------
(***************************************************************************)
(* LedgerPostingService.                                                   *)
(***************************************************************************)

PostJournal(p) ==
  LET c == tx[p].req.command IN
  /\ Holds(p, "POST")
  /\ IF PostedFor(journals, c.type, c.source) = {} /\ Postable(c.lines, FALSE, c.date)
     THEN Stage(p, [kind |-> "INSERT",
                    journal |-> Entry(c.type, c.source, c.lines, c.date, NotAReversal, NoReason)])
     ELSE Finish(p)

\* Faulty variant: no check for an earlier reversal, the source key suffices.
MayReverseAgain(k, allowLevySourced) ==
  /\ k \in DOMAIN journals
  /\ allowLevySourced \/ journals[k].type \notin SubledgerTypes

MayReverse(k, allowLevySourced) ==
  /\ k \in DOMAIN journals
  /\ allowLevySourced \/ journals[k].type \notin SubledgerTypes
  /\ ReversalsOf(journals, k) = {}

ReverseJournal(p) ==
  LET r == tx[p].req
      k == r.journal
      lines == Swapped(journals[k].lines)
      posted == PostedFor(journals, "REVERSAL", k) IN
  /\ Holds(p, "REVERSE")
  /\ IF ~MayReverse(k, r.allowLevySourced) THEN Finish(p)
     ELSE IF posted # {}   \* the shared post returns it, and it is linked again
     THEN \E i \in posted : Stage(p, [kind |-> "LINK", at |-> i, of |-> k, reason |-> r.reason])
     ELSE IF Postable(lines, TRUE, r.date)
     THEN Stage(p, [kind |-> "INSERT",
                    journal |-> Entry("REVERSAL", k, lines, r.date, k, r.reason)])
     ELSE Finish(p)

-----------------------------------------------------------------------------
(***************************************************************************)
(* AccountingPeriodsService.                                               *)
(***************************************************************************)

CreatePeriod(p) ==
  LET new == [start |-> tx[p].req.start, end |-> tx[p].req.end, status |-> "OPEN"] IN
  /\ Holds(p, "OPEN_PERIOD")
  /\ IF new.start < new.end /\ \A i \in DOMAIN periods : ~Overlap(new, periods[i])
     THEN Stage(p, [kind |-> "PERIOD", period |-> new])
     ELSE Finish(p)

ChangePeriod(p, op, from, to) ==
  LET i == tx[p].req.period IN
  /\ Holds(p, op)
  /\ IF i \in DOMAIN periods /\ periods[i].status = from
     THEN Stage(p, [kind |-> "STATUS", at |-> i, status |-> to])
     ELSE Finish(p)

\* Closing a closed period is a no-op; reopening an open one is an error.
ClosePeriod(p) == ChangePeriod(p, "CLOSE", "OPEN", "CLOSED")
ReopenPeriod(p) == ChangePeriod(p, "REOPEN", "CLOSED", "OPEN")

-----------------------------------------------------------------------------
(***************************************************************************)
(* The end of a transaction.                                               *)
(***************************************************************************)

Apply(w) ==
  CASE w.kind = "INSERT" ->
         \* the unique source key aborts a second insert
         /\ journals' = IF PostedFor(journals, w.journal.type, w.journal.source) = {}
                        THEN Append(journals, w.journal) ELSE journals
         /\ UNCHANGED periods
    [] w.kind = "LINK" ->
         /\ journals' = [journals EXCEPT ![w.at].reversalOf = w.of, ![w.at].reason = w.reason]
         /\ UNCHANGED periods
    [] w.kind = "PERIOD" -> periods' = Append(periods, w.period) /\ UNCHANGED journals
    [] w.kind = "STATUS" ->
         periods' = [periods EXCEPT ![w.at].status = w.status] /\ UNCHANGED journals

Commit(p) ==
  /\ tx[p].phase = "STAGED"
  /\ Apply(tx[p].write)
  /\ tx' = [tx EXCEPT ![p] = Idle]
  /\ lock' = IF lock = p THEN NoClient ELSE lock
  /\ UNCHANGED active

\* A crash, a lost connection or a timeout rolls the transaction back.
Rollback(p) == tx[p] # Idle /\ Finish(p)

-----------------------------------------------------------------------------
(***************************************************************************)
(* AccountsService: its own transactions, which take no property lock.     *)
(***************************************************************************)

Deactivate(a) ==
  /\ a \in active
  /\ active' = active \ {a}
  /\ UNCHANGED <<journals, periods, tx, lock>>

Reactivate(a) ==
  /\ a \notin active
  /\ active' = active \cup {a}
  /\ UNCHANGED <<journals, periods, tx, lock>>

Next ==
  \/ \E p \in Clients :
       \/ \E r \in Requests : AcquireLock(p, r)
       \/ PostJournal(p) \/ ReverseJournal(p)
       \/ CreatePeriod(p) \/ ClosePeriod(p) \/ ReopenPeriod(p)
       \/ Commit(p) \/ Rollback(p)
  \/ \E a \in Accounts : Deactivate(a) \/ Reactivate(a)

Spec == Init /\ [][Next]_vars

-----------------------------------------------------------------------------
(***************************************************************************)
(* Properties.                                                             *)
(***************************************************************************)

\* A business event has at most one journal, however often and however
\* concurrently its posting is requested, and whatever a retry's lines say.
ExactlyOncePerSource ==
  \A i, j \in DOMAIN journals :
    journals[i].type = journals[j].type /\ journals[i].source = journals[j].source => i = j

MirrorAt(js, i) ==
  LET k == js[i].reversalOf IN
  /\ k = IF js[i].type = "REVERSAL" THEN js[i].source ELSE NotAReversal
  /\ k # NotAReversal =>
       /\ k < i
       /\ js[i].lines = Swapped(js[k].lines)
       /\ ReversalsOf(js, k) = {i}

\* Every reversal entry is linked to one earlier journal and is its exact
\* opposite, line by line, and no journal has two reversals.
ReversalsMirror == \A i \in DOMAIN journals : MirrorAt(journals, i)

\* A date falls into one period at most, so which period a posting lands in,
\* and whether it is closed, has one answer.
PeriodsDisjoint ==
  \A i, j \in DOMAIN periods : i # j => ~Overlap(periods[i], periods[j])

\* The log only grows: a posted journal is never edited, relinked or lost.
AppendOnly == [][IsPrefix(journals, journals')]_vars

\* At the instant a journal is committed its period covers its date and is
\* open: a close never slips between the check and the posting.
PostsIntoOpenPeriods ==
  [][\A i \in DOMAIN journals' \ DOMAIN journals :
       journals'[i].period \in OpenFor(periods, journals'[i].date)]_vars

\* The locked three-step transactions are indistinguishable from the atomic
\* operations of GeneralLedger.
ImplementsGeneralLedger == GeneralLedgerSpec
=============================================================================
