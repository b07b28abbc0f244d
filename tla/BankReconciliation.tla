------------------------- MODULE BankReconciliation -------------------------
(***************************************************************************)
(* BankReconciliationService on top of the statements and matches of       *)
(* BankMatching: the reconciliations of one bank account, drafted,         *)
(* recalculated, completed and reopened while matching goes on.  One       *)
(* covers the days from first to last.                                     *)
(***************************************************************************)
EXTENDS BankMatching

CONSTANTS
  Spans,            \* periods a reconciliation may cover: [first, last]
  Closings,         \* Closings[day]: balances a manager may enter of a period that starts then
  OpeningBalance,   \* the account's openingReconciledBalance
  MaxReconciliations

VARIABLES
  recons,       \* BankReconciliation rows
  overtaken     \* history: transactions that were being handled when they were marked

allVars == <<vars, recons, overtaken>>

ReconIds == 1..Len(recons)
Within(span, day) == span.first <= day /\ day <= span.last
With(status) == {k \in ReconIds : recons[k].status = status}
SumOf(S, f(_)) == FoldSet(LAMBDA x, acc : acc + f(x), 0, S)

\* The cash lines of the ledger: receipts debit it, reversals and payments
\* credit it.
CashLines == {Receipt(r) : r \in ReceiptIds} \cup CreditLines
Net(l) == IF l.table = "RECEIPT" THEN receipts[l.id].amount ELSE -Credit(l)

LinesIn(span) == {l \in CashLines : Within(span, LineDay(l))}
LinesBefore(span) == {l \in CashLines : LineDay(l) < span.first}

\* computeGlPosition and the equation of recalculateAndPersist: unmatched
\* deposits of the period are taken out, unmatched payments put back.
AdjustedClosing(span) ==
  LET outstanding == {l \in LinesIn(span) : ~Confirmed(l)} IN
  SumOf(LinesBefore(span) \cup LinesIn(span), Net) - SumOf(outstanding, Net)

Difference(k) == AdjustedClosing(recons[k].span) - recons[k].closing

StatementConsistent(k) ==
  recons[k].opening + SumOf({t \in Present : Within(recons[k].span, Day[t])}, LAMBDA t : Amount[t])
    = recons[k].closing

\* The completed reconciliation whose period ends last.
Latest == {k \in With("RECONCILED") : \A j \in With("RECONCILED") : recons[j].span.last <= recons[k].span.last}

ExpectedOpening == IF Latest = {} THEN OpeningBalance ELSE recons[CHOOSE k \in Latest : TRUE].closing

Overlaps(span, k) == recons[k].span.first <= span.last /\ recons[k].span.last >= span.first

\* A period that was reopened after the latest completed one, whether or not
\* a correcting reconciliation has superseded it since.
Unresolved == {k \in With("REOPENED") : \A j \in Latest : recons[k].span.last > recons[j].span.last}

DraftAllowed(span, supersedes) ==
  /\ \A k \in With("DRAFT") \cup With("RECONCILED") : ~Overlaps(span, k)
  /\ \/ supersedes = 0 /\ Unresolved = {}
     \/ /\ supersedes \in With("REOPENED") /\ recons[supersedes].span = span
        /\ \A k \in ReconIds : recons[k].supersedes # supersedes     \* a unique column

Draft(span, closing, supersedes) ==
  recons' = Append(recons, [span |-> span, opening |-> ExpectedOpening, closing |-> closing,
                            status |-> "DRAFT", supersedes |-> supersedes])

\* Faulty variant: every row of the period that balanced is marked.
ReadyWhenBalanced(k) == {t \in Present : Within(recons[k].span, Day[t])}

\* The rows a reconciliation marks.
Ready(k) == {t \in Rows : txns[t].match = "MATCHED" /\ Within(recons[k].span, Day[t])}

\* Matched transactions of the period become RECONCILED; others carry over.
MarkReconciled(k) ==
  /\ txns' = [t \in Rows |-> IF t \in Ready(k) THEN [txns[t] EXCEPT !.recon = k] ELSE txns[t]]
  /\ overtaken' = (overtaken \ Ready(k)) \cup {t \in Ready(k) : Handling(t) # {}}

Complete(k) ==
  /\ MarkReconciled(k)
  /\ recons' = [recons EXCEPT ![k].status = "RECONCILED"]
  /\ UNCHANGED <<imported, receipts, matches>>

ReopenAllowed(k) ==
  /\ recons[k].status = "RECONCILED"
  /\ \A j \in With("RECONCILED") : recons[j].span.first <= recons[k].span.last

Reopen(k) ==
  /\ txns' = [t \in Rows |-> IF txns[t].recon = k THEN [txns[t] EXCEPT !.recon = 0] ELSE txns[t]]
  /\ recons' = [recons EXCEPT ![k].status = "REOPENED"]
  /\ UNCHANGED <<imported, receipts, matches, overtaken>>

ReadRecon(c) ==
  /\ UNCHANGED <<imported, txns, receipts, matches, recons, overtaken>>
  /\ \/ \E span \in Spans, supersedes \in {0} \cup ReconIds : \E closing \in Closings[span.first] :
          /\ DraftAllowed(span, supersedes)
          /\ Begin(c, [op |-> "DRAFT", span |-> span, closing |-> closing, supersedes |-> supersedes])
     \* complete recomputes the figures and refuses unless they agree
     \/ \E k \in With("DRAFT") : Difference(k) = 0 /\ StatementConsistent(k)
          /\ Begin(c, [op |-> "COMPLETE", recon |-> k])
     \/ \E k \in ReconIds : ReopenAllowed(k) /\ Begin(c, [op |-> "REOPEN", recon |-> k])

WriteRecon(c) ==
  \/ /\ job[c].op = "DRAFT" /\ Len(recons) < MaxReconciliations
     /\ Draft(job[c].span, job[c].closing, job[c].supersedes) /\ End(c)
     /\ UNCHANGED <<imported, txns, receipts, matches, overtaken>>
  \/ job[c].op = "COMPLETE" /\ Complete(job[c].recon) /\ End(c)
  \/ job[c].op = "REOPEN" /\ Reopen(job[c].recon) /\ End(c)

Step ==
  \/ (RecordByHand \/ ReverseReceipt) /\ UNCHANGED <<recons, overtaken>>
  \/ \E c \in Clients :
       \/ (Read(c) \/ Write(c) \/ WriteReceipt(c) \/ Abandon(c)) /\ UNCHANGED <<recons, overtaken>>
       \/ ReadRecon(c)
       \/ WriteRecon(c)

Next == Step /\ Notice

InitAll == Init /\ recons = <<>> /\ overtaken = {}
Spec == InitAll /\ [][Next]_allVars

-----------------------------------------------------------------------------
(***************************************************************************)
(* Properties                                                              *)
(***************************************************************************)

\* A transaction counted as RECONCILED belongs to a completed reconciliation
\* that covers its date.  It is still matched, even if its match was reversed
\* between the recalculation of complete and its marking, unless a request
\* about it was under way at the very moment it was marked.
ReconciledIsBacked ==
  \A t \in Rows : txns[t].recon # 0 =>
    /\ recons[txns[t].recon].status = "RECONCILED"
    /\ Within(recons[txns[t].recon].span, Day[t])
    /\ txns[t].match = "MATCHED" \/ t \in overtaken
=============================================================================
