----------------------------- MODULE LotAccount -----------------------------
(***************************************************************************)
(* What one lot is told of its account.  Two services read the same rows:  *)
(* LotLedgerService lists every movement with a running balance and cuts   *)
(* statements out of the list; ArrearsService works out what was owed, and *)
(* overdue, on any day up to today from the times on the rows.  The        *)
(* transactions that write the rows are those of Receivables, here with    *)
(* the time they leave, and without the journals.                          *)
(***************************************************************************)
EXTENDS Integers, Sequences, FiniteSets, Collections

CONSTANTS
  Days,            \* the days on which something happens, 0 before them all
  Opening,         \* the lot's opening position: [owing, credit]
  Instalments,
  FundOf,          \* the fund of an instalment's schedule
  ChargeOf,        \* what the lot is charged for an instalment
  DueOn,           \* the day an instalment is due
  ReceiptAmounts, AdjustmentAmounts,
  MaxEvents,       \* bounds: transactions in a behaviour,
  MaxRows          \* and rows of a table

VARIABLES
  today,
  events,          \* transactions so far: tells moments of a day apart
  charges,         \* per instalment: when it was issued and reversed
  adjustments,     \* LevyAdjustment rows: [of, amount, at]
  receipts,        \* Receipt rows: [fund, amount, posted, at, reversed]
  allocations,     \* PaymentAllocation rows: [receipt, to, amount, at, reversed]
  said             \* history: the arrears reported at the end of each day

vars == <<today, events, charges, adjustments, receipts, allocations, said>>

\* A moment, and none.  A date without a time is the first moment of its day.
Never == [day |-> -1, tick |-> 0]
Now == [day |-> today, tick |-> events + 1]
Midnight(day) == [day |-> day, tick |-> 0]
Happened(at) == at # Never
By(at, day) == Happened(at) /\ at.day <= day

FundsUsed == {FundOf[i] : i \in Instalments}
Greater(a, b) == IF a > b THEN a ELSE b

-----------------------------------------------------------------------------
(***************************************************************************)
(* Arrears as of a day.                                                    *)
(***************************************************************************)
\* Wrong: an allocation reversed by now counts as never made.
StandingIgnoringTime(a, day) == By(allocations[a].at, day) /\ ~Happened(allocations[a].reversed)

\* The allocation was there at the end of the day.
Standing(a, day) == By(allocations[a].at, day) /\ ~By(allocations[a].reversed, day)

AppliedTo(i, day) ==
  LET applied == {a \in DOMAIN allocations : allocations[a].to = i /\ Standing(a, day)}
  IN SumOver([a \in applied |-> allocations[a].amount], applied)
AppliedFrom(r, day) ==
  LET applied == {a \in DOMAIN allocations : allocations[a].receipt = r /\ Standing(a, day)}
  IN SumOver([a \in applied |-> allocations[a].amount], applied)
Adjusted(i, day) ==
  LET made == {a \in DOMAIN adjustments : adjustments[a].of = i /\ By(adjustments[a].at, day)}
  IN SumOver([a \in made |-> adjustments[a].amount], made)

Cancelled(i, day) == By(charges[i].reversed, day)
Outstanding(i, day) == IF Cancelled(i, day) THEN 0 ELSE ChargeOf[i] + Adjusted(i, day) - AppliedTo(i, day)
DaysOverdue(i, day) == Greater(0, day - DueOn[i])
IsOverdue(i, day) == ~Cancelled(i, day) /\ DueOn[i] < day /\ Outstanding(i, day) > 0

AgeingBucketFor(days) ==
  IF days <= 0 THEN "CURRENT" ELSE IF days <= 30 THEN "DAYS_1_30" ELSE IF days <= 60 THEN "DAYS_31_60"
  ELSE IF days <= 90 THEN "DAYS_61_90" ELSE "DAYS_90_PLUS"

ChargeArrears(i, day) ==
  [outstanding |-> Outstanding(i, day), applied |-> AppliedTo(i, day), overdue |-> IsOverdue(i, day),
   days |-> IF IsOverdue(i, day) THEN DaysOverdue(i, day) ELSE 0,
   bucket |-> IF Outstanding(i, day) <= 0 THEN "CURRENT" ELSE AgeingBucketFor(DaysOverdue(i, day))]

\* Only what had been issued by the end of the day.
Arrears(day) == [i \in {k \in Instalments : By(charges[k].issued, day)} |-> ChargeArrears(i, day)]

\* What is outstanding of some charges.
OutstandingOf(S, day) == SumOver([i \in S |-> Outstanding(i, day)], S)

TotalOutstanding(day) == OutstandingOf(DOMAIN Arrears(day), day)

\* Money not applied: of the receipts not reversed by now.
UnappliedCredits(day) ==
  LET held == {r \in DOMAIN receipts : ~Happened(receipts[r].reversed) /\ By(receipts[r].at, day)}
  IN SumOver([r \in held |-> Greater(0, receipts[r].amount - AppliedFrom(r, day))], held)

\* The summary: what is overdue by its age, and what is not.
Owed(day) == {i \in DOMAIN Arrears(day) : Outstanding(i, day) > 0}
OverdueAged(bucket, day) ==
  OutstandingOf({i \in Owed(day) : IsOverdue(i, day) /\ Arrears(day)[i].bucket = bucket}, day)
TotalCurrentOutstanding(day) == OutstandingOf({i \in Owed(day) : ~IsOverdue(i, day)}, day)

-----------------------------------------------------------------------------
(***************************************************************************)
(* The lot ledger.                                                         *)
(***************************************************************************)
Row(at, type, id, fund, amount) == [at |-> at, type |-> type, id |-> id, fund |-> fund, amount |-> amount]
NoFund == "no fund"

\* Debits are positive.  A reversal has a row of its own: no row is changed.
ChargeRows(i) ==
  {Row(charges[i].issued, "LEVY_CHARGE", i, FundOf[i], ChargeOf[i])}
  \cup {Row(at, "LEVY_REVERSAL", i, FundOf[i], -ChargeOf[i]) : at \in {charges[i].reversed} \ {Never}}
  \cup {Row(adjustments[a].at, "LEVY_ADJUSTMENT", a, FundOf[i], adjustments[a].amount) :
          a \in {k \in DOMAIN adjustments : adjustments[k].of = i}}

\* The allocation of a receipt moves no money, reversed or not.
AllocationRows(r) ==
  {Row(allocations[a].at, "PAYMENT_ALLOCATION", a, receipts[r].fund, 0) :
    a \in {k \in DOMAIN allocations : allocations[k].receipt = r}}

ReceiptRows(r) ==
  {Row(Midnight(receipts[r].posted), "RECEIPT", r, receipts[r].fund, -receipts[r].amount)}
  \cup {Row(at, "RECEIPT_REVERSAL", r, receipts[r].fund, receipts[r].amount) : at \in {receipts[r].reversed} \ {Never}}

Rows ==
  {Row(Midnight(0), "OPENING_POSITION", 0, NoFund, Opening.owing - Opening.credit)}
  \cup (UNION {ChargeRows(i) : i \in {k \in Instalments : Happened(charges[k].issued)}})
  \cup (UNION {ReceiptRows(r) \cup AllocationRows(r) : r \in DOMAIN receipts})

TypePriority(type) ==
  CASE type = "OPENING_POSITION" -> 0 [] type = "LEVY_CHARGE" -> 1 [] type = "RECEIPT" -> 2
    [] type = "LEVY_ADJUSTMENT" -> 3 [] type = "PAYMENT_ALLOCATION" -> 4 [] OTHER -> 5

\* Wrong: rows are sorted by what they are before when they are.
PrecedesByType(r, s) ==
  LET earlier(x, y) == x.at.day < y.at.day \/ (x.at.day = y.at.day /\ x.at.tick < y.at.tick)
      before(x, y) == TypePriority(x.type) < TypePriority(y.type)
  IN before(r, s) \/ (~before(s, r) /\ (earlier(r, s) \/ (~earlier(s, r) /\ r.id < s.id)))

\* By the moment, then by what they are, then by their names.
Precedes(r, s) ==
  LET earlier(x, y) == x.at.day < y.at.day \/ (x.at.day = y.at.day /\ x.at.tick < y.at.tick)
      before(x, y) == TypePriority(x.type) < TypePriority(y.type)
  IN earlier(r, s) \/ (~earlier(s, r) /\ (before(r, s) \/ (~before(s, r) /\ r.id < s.id)))

SumOfRows(rows) == SumOver([r \in rows |-> r.amount], rows)

\* The rows, each with the balance it leaves.
FullLedger ==
  LET rows == Rows
  IN [row \in rows |-> SumOfRows({r \in rows : r = row \/ Precedes(r, row)})]

\* The balance the last of some rows of the full ledger shows.
LastBalance(full, rows, otherwise) ==
  IF rows = {} THEN otherwise ELSE full[CHOOSE r \in rows : \A s \in rows \ {r} : Precedes(s, r)]

CurrentBalance(full) == LastBalance(full, DOMAIN full, 0)

\* The statement of some days, cut out of the full ledger.
OpeningBalance(full, first) == LastBalance(full, {r \in DOMAIN full : r.at.day < first}, 0)
Movements(full, first, last) == {r \in DOMAIN full : r.at.day \in first .. last}
ClosingBalance(full, first, last) == LastBalance(full, Movements(full, first, last), OpeningBalance(full, first))
TotalDebits(rows) == SumOver([r \in rows |-> Greater(0, r.amount)], rows)
TotalCredits(rows) == SumOver([r \in rows |-> Greater(0, -r.amount)], rows)

\* The net balance of one fund.
FundBalance(full, fund) == SumOfRows({r \in DOMAIN full : r.fund = fund})

-----------------------------------------------------------------------------
(***************************************************************************)
(* The transactions that write the rows.                                   *)
(***************************************************************************)
Event == events < MaxEvents /\ events' = events + 1 /\ UNCHANGED <<today, said>>

Issue(i) ==
  /\ Event
  /\ ~Happened(charges[i].issued)
  /\ charges' = [charges EXCEPT ![i].issued = Now]
  /\ UNCHANGED <<adjustments, receipts, allocations>>

\* What was paid on a charge, or adjusted, does not hinder its reversal.
ReverseInstalment(i) ==
  /\ Event
  /\ Happened(charges[i].issued) /\ ~Happened(charges[i].reversed)
  /\ charges' = [charges EXCEPT ![i].reversed = Now]
  /\ UNCHANGED <<adjustments, receipts, allocations>>

Open(i) == Happened(charges[i].issued) /\ ~Happened(charges[i].reversed)

CreateAdjustment(i, amount) ==
  /\ Event
  /\ Open(i)
  /\ Len(adjustments) < MaxRows
  /\ adjustments' = Append(adjustments, [of |-> i, amount |-> amount, at |-> Now])
  /\ UNCHANGED <<charges, receipts, allocations>>

\* The posting date is the client's.
RecordReceipt(fund, amount, posted) ==
  /\ Event
  /\ Len(receipts) < MaxRows
  /\ receipts' = Append(receipts, [fund |-> fund, amount |-> amount, posted |-> posted, at |-> Now, reversed |-> Never])
  /\ UNCHANGED <<charges, adjustments, allocations>>

MayAllocate(r, i, amount) ==
  /\ ~Happened(receipts[r].reversed) /\ Open(i)
  /\ receipts[r].fund = FundOf[i]
  /\ amount <= receipts[r].amount - AppliedFrom(r, today)
  /\ amount <= Outstanding(i, today)

CreateAllocation(r, i, amount) ==
  /\ Event
  /\ MayAllocate(r, i, amount)
  /\ Len(allocations) < MaxRows
  /\ allocations' = Append(allocations, [receipt |-> r, to |-> i, amount |-> amount, at |-> Now, reversed |-> Never])
  /\ UNCHANGED <<charges, adjustments, receipts>>

ReverseAllocation(a) ==
  /\ Event
  /\ ~Happened(allocations[a].reversed)
  /\ allocations' = [allocations EXCEPT ![a].reversed = Now]
  /\ UNCHANGED <<charges, adjustments, receipts>>

ReverseReceipt(r) ==
  /\ Event
  /\ ~Happened(receipts[r].reversed)
  /\ \A a \in DOMAIN allocations : allocations[a].receipt = r => Happened(allocations[a].reversed)
  /\ receipts' = [receipts EXCEPT ![r].reversed = Now]
  /\ UNCHANGED <<charges, adjustments, allocations>>

\* The day ends, and nothing more happens on it.
DayEnds ==
  \E day \in {d \in Days : d > today} :
    /\ today' = day
    /\ said' = [d \in DOMAIN said \cup {today} |-> IF d = today THEN Arrears(today) ELSE said[d]]
    /\ UNCHANGED <<events, charges, adjustments, receipts, allocations>>

-----------------------------------------------------------------------------
Init ==
  /\ today = 0 /\ events = 0
  /\ charges = [i \in Instalments |-> [issued |-> Never, reversed |-> Never]]
  /\ adjustments = <<>> /\ receipts = <<>> /\ allocations = <<>>
  /\ said = <<>>

Next ==
  \/ \E i \in Instalments : Issue(i) \/ ReverseInstalment(i)
  \/ \E i \in Instalments, amount \in AdjustmentAmounts : CreateAdjustment(i, amount)
  \/ \E fund \in FundsUsed, amount \in ReceiptAmounts, posted \in Days : RecordReceipt(fund, amount, posted)
  \/ \E r \in DOMAIN receipts, i \in Instalments, amount \in ReceiptAmounts : CreateAllocation(r, i, amount)
  \/ \E a \in DOMAIN allocations : ReverseAllocation(a)
  \/ \E r \in DOMAIN receipts : ReverseReceipt(r)
  \/ DayEnds

Spec == Init /\ [][Next]_vars

-----------------------------------------------------------------------------
\* The arrears as of a past day never change: whatever is issued, adjusted,
\* paid and reversed later, the report of a day says of every charge what it
\* said when that day ended.
ArrearsStand == \A day \in DOMAIN said : Arrears(day) = said[day]

\* The reports agree with each other however backdated a receipt is.  A
\* statement closes with what it opened with and its movements, and the next
\* one opens with that; the funds' balances add up to the balance; the summary
\* ages everything overdue and leaves nothing out; and the balance is the
\* opening position and what is outstanding, less the money not applied, but
\* for what a reversed instalment leaves: its adjustments, and what was paid
\* on it and never taken back.
ReportsAgree ==
  LET full == FullLedger
      start == Opening.owing - Opening.credit
      reversed == {i \in Instalments : Happened(charges[i].reversed)}
  IN /\ \A first, last \in Days : first <= last =>
          LET rows == Movements(full, first, last)
              closing == ClosingBalance(full, first, last)
          IN closing = OpeningBalance(full, first) + TotalDebits(rows) - TotalCredits(rows)
               /\ closing = OpeningBalance(full, last + 1)
     /\ CurrentBalance(full) = start + SumOver([fund \in FundsUsed |-> FundBalance(full, fund)], FundsUsed)
     /\ CurrentBalance(full) = start + TotalOutstanding(today) - UnappliedCredits(today)
                                 + SumOver([i \in reversed |-> Adjusted(i, today) - AppliedTo(i, today)], reversed)
     /\ OverdueAged("CURRENT", today) = 0
     /\ TotalCurrentOutstanding(today)
          + OverdueAged("DAYS_1_30", today) + OverdueAged("DAYS_31_60", today)
          + OverdueAged("DAYS_61_90", today) + OverdueAged("DAYS_90_PLUS", today)
          = LET issued == DOMAIN Arrears(today)
            IN SumOver([i \in issued |-> Greater(0, Outstanding(i, today))], issued)
=============================================================================
