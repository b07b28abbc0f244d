---------------------------- MODULE Receivables -----------------------------
(***************************************************************************)
(* What lot owners owe and what they paid: LevyService.issue,              *)
(* reverseInstallment and createAdjustment, and ReceiptsService with its   *)
(* receipts and payment allocations.  Every operation is one transaction   *)
(* under the property's ledger lock, so it is one step here (LedgerPosting *)
(* justifies that), except recording a receipt together with allocations:  *)
(* its loop runs step by step on the transaction's own copy of the tables. *)
(* One property.  A posting is two lines of one fund: debit one account,   *)
(* credit another.  LotLedgerService and ArrearsService, which only read,  *)
(* are operators on the tables.                                            *)
(***************************************************************************)
EXTENDS Collections, Integers, Sequences, FiniteSets, FiniteSetsExt

CONSTANTS
  Lots,
  Funds,
  Instalments,        \* instalments of approved schedules, by due date
  FundOf,             \* the fund an instalment's schedule raises money for
  ShareOf,            \* ShareOf[i, l]: lot l's share of instalment i
  ReceiptAmounts, AllocationAmounts, AdjustmentAmounts,
  Requested,          \* lists of allocations a new receipt may come with
  Keys,               \* idempotency keys clients send, never positive
  MaxJournals         \* bound: journals a behaviour may post

ASSUME FiniteAssumption == IsFiniteSet(Lots) /\ IsFiniteSet(Instalments)
ASSUME InstalmentsAssumption == Instalments \subseteq Nat \ {0}
ASSUME FundOfAssumption == FundOf \in [Instalments -> Funds]
ASSUME ShareOfAssumption == ShareOf \in [Instalments \X Lots -> Nat]
ASSUME AmountsAssumption ==
  /\ ReceiptAmounts \subseteq Nat \ {0} /\ AllocationAmounts \subseteq Nat \ {0}
  /\ AdjustmentAmounts \subseteq Int \ {0}
ASSUME RequestedAssumption ==
  Requested \subseteq Seq([charge : Instalments \X Lots, amount : Nat \ {0}])
ASSUME KeysAssumption == Keys \subseteq {k \in Int : k <= 0}
ASSUME MaxJournalsAssumption == MaxJournals \in Nat

VARIABLES
  db,       \* the committed tables
  pending   \* the recordReceipt transaction in flight, if there is one

vars == <<db, pending>>

Charges == Instalments \X Lots
Accounts == {"FUND_CASH", "UNAPPLIED_CASH", "LOT_LEVY_RECEIVABLE", "LEVY_INCOME"}
Types == {"LEVY", "LEVY_ADJUSTMENT", "RECEIPT", "PAYMENT_ALLOCATION", "REVERSAL"}
NoJournal == 0

Journal == [type : Types, source : Int, dr : Accounts, cr : Accounts,
            fund : Funds, amount : Int, of : Nat]

\* A table is a sequence of rows, a row's id its position.  A charge row
\* exists, once its instalment is issued, unless the lot's share is zero.
Tables ==
  [journals : Seq(Journal),
   instalments : [Instalments -> [status : {"PENDING", "ISSUED", "REVERSED"}, journal : Nat]],
   charges : [Charges -> {"NONE", "ISSUED", "PART_PAID", "PAID", "CANCELLED"}],
   adjustments : Seq([charge : Charges, amount : Int, journal : Nat]),
   receipts : Seq([lot : Lots, fund : Funds, amount : Int,
                   status : {"RECORDED", "REVERSED"}, journal : Nat]),
   allocations : Seq([receipt : Nat, charge : Charges, amount : Int,
                      status : {"APPLIED", "REVERSED"}, journal : Nat])]

\* An allocation a receipt asks for; AutoAmount leaves the amount to the service.
AutoAmount == 0
Item == [charge : Charges, amount : Nat]

NoTransaction == [open |-> FALSE]

TypeOK ==
  /\ db \in Tables
  /\ pending \in {NoTransaction}
       \cup [open : {TRUE}, tables : Tables, receipt : Nat, auto : BOOLEAN,
             todo : Seq(Item)]

-----------------------------------------------------------------------------
(***************************************************************************)
(* Posting.                                                                *)
(***************************************************************************)

PostedFor(d, type, source) ==
  {k \in DOMAIN d.journals : d.journals[k].type = type /\ d.journals[k].source = source}

ReversalsOf(d, k) == {j \in DOMAIN d.journals : d.journals[j].of = k}

\* The id of the journal posted next, and the source id generated for a
\* posting the client gave no key.
NextJournal(d) == Len(d.journals) + 1

Sources(d) == Keys \cup {NextJournal(d)}

MayPost(d, type, source) ==
  NextJournal(d) <= MaxJournals /\ PostedFor(d, type, source) = {}

Post(d, type, source, dr, cr, fund, amount) ==
  [d EXCEPT !.journals = Append(@,
     [type |-> type, source |-> source, dr |-> dr, cr |-> cr,
      fund |-> fund, amount |-> amount, of |-> NoJournal])]

MayReverse(d, k) == NextJournal(d) <= MaxJournals /\ ReversalsOf(d, k) = {}

PostReversal(d, k) ==
  LET j == d.journals[k] IN
  [d EXCEPT !.journals = Append(@,
     [type |-> "REVERSAL", source |-> k, dr |-> j.cr, cr |-> j.dr,
      fund |-> j.fund, amount |-> j.amount, of |-> k])]

-----------------------------------------------------------------------------
(***************************************************************************)
(* What is owed and what is left, derived on every read.                   *)
(***************************************************************************)

Applied(d, S) ==
  SumOver([a \in S |-> d.allocations[a].amount], {a \in S : d.allocations[a].status = "APPLIED"})

AppliedTo(d, c) == Applied(d, {a \in DOMAIN d.allocations : d.allocations[a].charge = c})
AppliedFrom(d, r) == Applied(d, {a \in DOMAIN d.allocations : d.allocations[a].receipt = r})

Adjusted(d, c) ==
  SumOver([a \in DOMAIN d.adjustments |-> d.adjustments[a].amount],
          {a \in DOMAIN d.adjustments : d.adjustments[a].charge = c})

EffectiveAmount(d, c) == ShareOf[c] + Adjusted(d, c)

Outstanding(d, c) ==
  IF d.charges[c] \in {"NONE", "CANCELLED"} THEN 0 ELSE EffectiveAmount(d, c) - AppliedTo(d, c)

Unapplied(d, r) == d.receipts[r].amount - AppliedFrom(d, r)

PaymentStatus(d, c) ==
  IF AppliedTo(d, c) >= EffectiveAmount(d, c) /\ EffectiveAmount(d, c) > 0 THEN "PAID"
  ELSE IF AppliedTo(d, c) > 0 THEN "PART_PAID" ELSE "ISSUED"

\* updateChargeStatus: a cancelled charge stays cancelled.
Refresh(d, c) ==
  IF d.charges[c] = "CANCELLED" THEN d
  ELSE [d EXCEPT !.charges[c] = PaymentStatus(d, c)]

MayAllocate(d, r, c, amount) ==
  /\ d.receipts[r].status = "RECORDED"
  /\ d.charges[c] \notin {"NONE", "CANCELLED"}
  /\ FundOf[c[1]] = d.receipts[r].fund
  /\ amount <= Outstanding(d, c)
  /\ amount <= Unapplied(d, r)

\* Faulty variant: debit and credit of the allocation's journal exchanged.
AllocateExchanged(d, r, c, amount, source) ==
  LET row == [receipt |-> r, charge |-> c, amount |-> amount,
              status |-> "APPLIED", journal |-> NextJournal(d)]
      posted == Post(d, "PAYMENT_ALLOCATION", source,
                     "LOT_LEVY_RECEIVABLE", "UNAPPLIED_CASH", FundOf[c[1]], amount)
  IN Refresh([posted EXCEPT !.allocations = Append(@, row)], c)

\* applyAllocationWithinTransaction.
Allocate(d, r, c, amount, source) ==
  LET row == [receipt |-> r, charge |-> c, amount |-> amount,
              status |-> "APPLIED", journal |-> NextJournal(d)]
      posted == Post(d, "PAYMENT_ALLOCATION", source,
                     "UNAPPLIED_CASH", "LOT_LEVY_RECEIVABLE", FundOf[c[1]], amount)
  IN Refresh([posted EXCEPT !.allocations = Append(@, row)], c)

-----------------------------------------------------------------------------
(***************************************************************************)
(* LevyService.                                                            *)
(***************************************************************************)

Init ==
  /\ db = [journals |-> <<>>,
           instalments |-> [i \in Instalments |-> [status |-> "PENDING", journal |-> NoJournal]],
           charges |-> [c \in Charges |-> "NONE"],
           adjustments |-> <<>>, receipts |-> <<>>, allocations |-> <<>>]
  /\ pending = NoTransaction

\* A whole transaction: nobody else holds the property's lock.
Transaction(tables) == ~pending.open /\ db' = tables /\ UNCHANGED pending

InstalmentTotal(i) == SumOver([l \in Lots |-> ShareOf[<<i, l>>]], Lots)

\* issue: one journal for the whole instalment, one charge row per lot.
Issue(i) ==
  LET posted == Post(db, "LEVY", i, "LOT_LEVY_RECEIVABLE", "LEVY_INCOME",
                     FundOf[i], InstalmentTotal(i)) IN
  /\ db.instalments[i].status = "PENDING"
  /\ InstalmentTotal(i) > 0
  /\ MayPost(db, "LEVY", i)
  /\ Transaction([posted EXCEPT
       !.instalments[i] = [status |-> "ISSUED", journal |-> NextJournal(db)],
       !.charges = [c \in Charges |->
                      IF c[1] = i /\ ShareOf[c] > 0 THEN "ISSUED" ELSE db.charges[c]]])

\* reverseInstallment: its journal is reversed and every charge of it cancelled.
ReverseInstalment(i) ==
  /\ db.instalments[i].status = "ISSUED"
  /\ MayReverse(db, db.instalments[i].journal)
  /\ Transaction([PostReversal(db, db.instalments[i].journal) EXCEPT
       !.instalments[i].status = "REVERSED",
       !.charges = [c \in Charges |->
                      IF c[1] = i /\ db.charges[c] # "NONE" THEN "CANCELLED" ELSE db.charges[c]]])

CreateAdjustment(c, amount, source) ==
  LET magnitude == IF amount > 0 THEN amount ELSE -amount
      posted == IF amount > 0
        THEN Post(db, "LEVY_ADJUSTMENT", source, "LOT_LEVY_RECEIVABLE", "LEVY_INCOME",
                  FundOf[c[1]], magnitude)
        ELSE Post(db, "LEVY_ADJUSTMENT", source, "LEVY_INCOME", "LOT_LEVY_RECEIVABLE",
                  FundOf[c[1]], magnitude)
  IN /\ db.charges[c] \notin {"NONE", "CANCELLED"}
     /\ MayPost(db, "LEVY_ADJUSTMENT", source)
     /\ Transaction([posted EXCEPT !.adjustments =
          Append(@, [charge |-> c, amount |-> amount, journal |-> NextJournal(db)])])

-----------------------------------------------------------------------------
(***************************************************************************)
(* ReceiptsService.recordReceipt.                                          *)
(***************************************************************************)

Payable(d, l, fund) ==
  {i \in Instalments : FundOf[i] = fund /\ d.charges[<<i, l>>] \in {"ISSUED", "PART_PAID"}}

\* Faulty variant: youngest due date first.
CandidatesDescending(d, l, fund) ==
  LET order == Ascending(Payable(d, l, fund))
  IN [k \in DOMAIN order |-> [charge |-> <<order[Len(order) + 1 - k], l>>, amount |-> AutoAmount]]

\* The lot's payable charges in the receipt's fund, oldest due date first.
Candidates(d, l, fund) ==
  LET order == Ascending(Payable(d, l, fund))
  IN [k \in DOMAIN order |-> [charge |-> <<order[k], l>>, amount |-> AutoAmount]]

\* The transaction posts the receipt, then turns to the allocations.
RecordReceipt(l, fund, amount, source, auto, requested) ==
  LET posted == Post(db, "RECEIPT", source, "FUND_CASH", "UNAPPLIED_CASH", fund, amount)
      row == [lot |-> l, fund |-> fund, amount |-> amount,
              status |-> "RECORDED", journal |-> NextJournal(db)]
  IN /\ ~pending.open
     /\ MayPost(db, "RECEIPT", source)
     /\ pending' = [open |-> TRUE, receipt |-> Len(db.receipts) + 1, auto |-> auto,
                    tables |-> [posted EXCEPT !.receipts = Append(@, row)],
                    todo |-> IF auto THEN Candidates(db, l, fund) ELSE requested]
     /\ UNCHANGED db

\* Allocates what the item asks for, all that is left of the receipt or of
\* the debt when the service decides, and nothing when nothing is owed.
AllocateNext ==
  LET d == pending.tables
      r == pending.receipt
      c == Head(pending.todo).charge
      asked == Head(pending.todo).amount
      most == Min({Unapplied(d, r), Outstanding(d, c)})
      amount == IF asked = AutoAmount THEN most ELSE asked
  IN /\ pending.open /\ pending.todo # <<>>
     /\ \/ /\ asked = AutoAmount /\ most <= 0
           /\ pending' = [pending EXCEPT !.todo =
                           IF Unapplied(d, r) <= 0 THEN <<>> ELSE Tail(@)]
        \/ /\ amount > 0 /\ MayAllocate(d, r, c, amount)
           /\ MayPost(d, "PAYMENT_ALLOCATION", NextJournal(d))
           /\ pending' = [pending EXCEPT !.todo = Tail(@),
                           !.tables = Allocate(d, r, c, amount, NextJournal(d))]
     /\ UNCHANGED db

CommitReceipt ==
  /\ pending.open /\ pending.todo = <<>>
  /\ db' = pending.tables
  /\ pending' = NoTransaction

\* An allocation that is refused, a crash or a timeout: all of it is undone.
RollbackReceipt ==
  /\ pending.open
  /\ pending' = NoTransaction
  /\ UNCHANGED db

-----------------------------------------------------------------------------
(***************************************************************************)
(* The other operations of ReceiptsService, and the ledger's own.          *)
(***************************************************************************)

CreateAllocation(r, c, amount, source) ==
  /\ MayPost(db, "PAYMENT_ALLOCATION", source)
  /\ MayAllocate(db, r, c, amount)
  /\ Transaction(Allocate(db, r, c, amount, source))

ReverseAllocation(a) ==
  LET row == db.allocations[a] IN
  /\ row.status = "APPLIED"
  /\ MayReverse(db, row.journal)
  /\ Transaction(Refresh([PostReversal(db, row.journal) EXCEPT !.allocations[a].status = "REVERSED"],
                         row.charge))

\* Faulty variant: a receipt is reversed from under its allocations.
ReverseReceiptApplied(r) ==
  /\ db.receipts[r].status = "RECORDED"
  /\ MayReverse(db, db.receipts[r].journal)
  /\ Transaction([PostReversal(db, db.receipts[r].journal) EXCEPT
                    !.receipts[r].status = "REVERSED"])

ReverseReceipt(r) ==
  /\ db.receipts[r].status = "RECORDED"
  /\ \A a \in DOMAIN db.allocations :
       db.allocations[a].receipt = r => db.allocations[a].status # "APPLIED"
  /\ MayReverse(db, db.receipts[r].journal)
  /\ Transaction([PostReversal(db, db.receipts[r].journal) EXCEPT !.receipts[r].status = "REVERSED"])

\* Faulty variant: the generic endpoint reverses subledger journals too.
ReverseAnything(k) == MayReverse(db, k) /\ Transaction(PostReversal(db, k))

\* LedgerPostingService.reverse: whatever no subledger owns, reversals included.
ReverseThroughLedger(k) ==
  /\ db.journals[k].type = "REVERSAL"
  /\ MayReverse(db, k)
  /\ Transaction(PostReversal(db, k))

Next ==
  \/ \E i \in Instalments : Issue(i) \/ ReverseInstalment(i)
  \/ \E c \in Charges, n \in AdjustmentAmounts, s \in Sources(db) : CreateAdjustment(c, n, s)
  \/ \E l \in Lots, f \in Funds, n \in ReceiptAmounts, s \in Sources(db) :
       \/ RecordReceipt(l, f, n, s, TRUE, <<>>)
       \/ \E list \in Requested : RecordReceipt(l, f, n, s, FALSE, list)
  \/ AllocateNext \/ CommitReceipt \/ RollbackReceipt
  \/ \E r \in DOMAIN db.receipts, c \in Charges, n \in AllocationAmounts, s \in Sources(db) :
       CreateAllocation(r, c, n, s)
  \/ \E a \in DOMAIN db.allocations : ReverseAllocation(a)
  \/ \E r \in DOMAIN db.receipts : ReverseReceipt(r)
  \/ \E k \in DOMAIN db.journals : ReverseThroughLedger(k)

Spec == Init /\ [][Next]_vars

-----------------------------------------------------------------------------
(***************************************************************************)
(* What the reports derive.                                                *)
(***************************************************************************)

\* Journals that are not reversals of reversals: what the two services and
\* their reversals posted.
Own(d) ==
  {k \in DOMAIN d.journals :
     d.journals[k].of # NoJournal => d.journals[d.journals[k].of].type # "REVERSAL"}

\* Debit minus credit of an account in a fund, over the journals in S.
BalanceOver(d, S, account, fund) ==
  LET amounts == [k \in S |-> d.journals[k].amount]
  IN SumOver(amounts, {k \in S : d.journals[k].fund = fund /\ d.journals[k].dr = account})
       - SumOver(amounts, {k \in S : d.journals[k].fund = fund /\ d.journals[k].cr = account})

OwnBalance(d, account, fund) == BalanceOver(d, Own(d), account, fund)

ReceiptsOf(d, status, fund) ==
  {r \in DOMAIN d.receipts : d.receipts[r].status = status /\ d.receipts[r].fund = fund}

\* The Lot Ledger's running balance of a lot and fund: every charge at face
\* value, its reversal, every adjustment, every receipt and its reversal.
LotBalance(d, l, fund) ==
  LET mine == {c \in Charges : c[2] = l /\ FundOf[c[1]] = fund /\ d.charges[c] # "NONE"}
      charged == SumOver(ShareOf, mine)
      reversed == SumOver(ShareOf, {c \in mine : d.charges[c] = "CANCELLED"})
      adjusted == SumOver([c \in Charges |-> Adjusted(d, c)], mine)
      received == SumOver([r \in DOMAIN d.receipts |-> d.receipts[r].amount],
                          {r \in ReceiptsOf(d, "RECORDED", fund) : d.receipts[r].lot = l})
  IN charged - reversed + adjusted - received

-----------------------------------------------------------------------------
(***************************************************************************)
(* Properties.                                                             *)
(***************************************************************************)

\* What the rows say and what the general ledger says never part, fund by
\* fund: the liability for money not yet applied to a debt is what the recorded
\* receipts still have to give, and the lots' ledgers, which never read a
\* journal, add up to what lots owe net of that money.
LedgersTie ==
  \A f \in Funds :
    /\ -OwnBalance(db, "UNAPPLIED_CASH", f)
         = SumOver([r \in DOMAIN db.receipts |-> Unapplied(db, r)], ReceiptsOf(db, "RECORDED", f))
    /\ SumOver([l \in Lots |-> LotBalance(db, l, f)], Lots)
         = OwnBalance(db, "LOT_LEVY_RECEIVABLE", f) + OwnBalance(db, "UNAPPLIED_CASH", f)

\* A receipt never gives more than it holds, and a reversed receipt has
\* nothing applied, whatever was reversed, retried or reallocated before.
ReceiptsCoverAllocations ==
  \A r \in DOMAIN db.receipts :
    /\ Unapplied(db, r) >= 0
    /\ db.receipts[r].status = "REVERSED" => AppliedFrom(db, r) = 0

\* The rows that own a journal, each with the journal's id and whether the
\* row counts as reversed.
Owners(d) ==
  {<<"LEVY", d.instalments[i].journal, d.instalments[i].status = "REVERSED">> :
     i \in {x \in Instalments : d.instalments[x].status # "PENDING"}}
  \cup {<<"RECEIPT", d.receipts[r].journal, d.receipts[r].status = "REVERSED">> :
          r \in DOMAIN d.receipts}
  \cup {<<"PAYMENT_ALLOCATION", d.allocations[a].journal, d.allocations[a].status = "REVERSED">> :
          a \in DOMAIN d.allocations}
  \cup {<<"LEVY_ADJUSTMENT", d.adjustments[a].journal, FALSE>> : a \in DOMAIN d.adjustments}

\* Every journal of a subledger has its row, of its kind, and the row is
\* marked reversed exactly when the journal has been: neither half of a
\* two-part write is ever missing, through whichever endpoint it came.
RowsFollowJournals ==
  Owners(db) = {<<db.journals[k].type, k, ReversalsOf(db, k) # {}>> :
                  k \in {x \in DOMAIN db.journals : db.journals[x].type # "REVERSAL"}}

\* An automatic allocation pays nothing on a younger charge while an older
\* one of the lot and fund, not marked paid, is still owed.
OldestFirst ==
  pending.open /\ pending.auto =>
    \A young \in Charges : 
      (\E a \in DOMAIN pending.tables.allocations :
         /\ pending.tables.allocations[a].receipt = pending.receipt
         /\ pending.tables.allocations[a].charge = young)
      => \A old \in Charges :
           /\ old[1] < young[1] /\ old[2] = young[2] /\ FundOf[old[1]] = FundOf[young[1]]
           /\ pending.tables.charges[old] # "PAID"
           => Outstanding(pending.tables, old) <= 0

=============================================================================
