----------------------------- MODULE MCBanking ------------------------------
(***************************************************************************)
(* The parts share nothing, so a behaviour takes the steps of one of them: *)
(*   MATCHING     deposits and payments of a bank account are imported and *)
(*                matched;                                                 *)
(*   DEPOSITS     a deposit is matched, and made a receipt of;             *)
(*   RECONCILING  a deposit is made a receipt of, matched and reconciled;  *)
(*   CHART        the chart of accounts the account is registered on.      *)
(***************************************************************************)
EXTENDS Integers, Sequences, TLC

CONSTANTS
  Handlers,       \* what serves the requests about the bank account
  Rows, Amount, Day, BadRows, Files, Keys, KeyAmount, KeyDay, Today, Payments, Evidence, DateWindow,
  MaxMatches, MaxReceipts,
  Spans, Closings, OpeningBalance, MaxReconciliations,
  ChartRequests, NoFund, Unknown, CashFunds, CashRules, NewAccounts, Updates, ChartFiles, Chosen, Provisions,
  MaxAccounts, MaxBatches, MaxTemplates, MaxBankAccounts

VARIABLES
  part,
  imported, txns, receipts, matches, recons, serving, crossed, overtaken,
  chart, imports, templates, bankAccounts, provisioned, requests

bankVars == <<imported, txns, receipts, matches, recons, serving, crossed, overtaken>>
chartVars == <<chart, imports, templates, bankAccounts, provisioned, requests>>

Bank == INSTANCE BankReconciliation WITH Clients <- Handlers, job <- serving

Chart == INSTANCE ChartOfAccounts WITH
  Requests <- ChartRequests, Funds <- CashFunds,
  ByHand <- NewAccounts, Changes <- Updates, Files <- ChartFiles, Overrides <- Chosen, Templates <- Provisions,
  accounts <- chart, batches <- imports, job <- requests

\* Rows are numbered from 1, and no update changes a code.
ASSUME ChartAssumption ==
  /\ \A rows \in ChartFiles \cup Provisions : Len(rows) \in Nat /\ DOMAIN rows = 1 .. Len(rows)
  /\ \A change \in Updates : DOMAIN change \subseteq {"name", "classification", "parent", "fund"}

ASSUME RowsAssumption ==
  /\ Today \in Nat
  /\ Amount \in [Rows -> Int \ {0}] /\ Day \in [Rows -> 0..Today]
  /\ BadRows \subseteq Rows /\ Files \subseteq Seq(Rows)
ASSUME KeysAssumption ==
  /\ Keys \cap Rows = {}
  /\ KeyAmount \in [Keys -> Nat \ {0}] /\ KeyDay \in [Keys -> 0..Today]
ASSUME BalancesAssumption ==
  OpeningBalance \in Int /\ \A span \in Spans : Closings[span.first] \subseteq Int

-----------------------------------------------------------------------------
\* A deposit and a payment on overlapping files; a receipt recorded by hand
\* that fits the deposit, and one ledger payment that fits the other row, as
\* the reversal of a receipt does too.
MCRows == {"d1", "p2", "bad"}
MCAmount == [t \in MCRows |-> IF t = "p2" THEN -1 ELSE 1]
MCDay == [t \in MCRows |-> IF t = "d1" THEN 1 ELSE 3]
MCFiles == {<<"d1">>, <<"d1", "p2", "d1">>, <<"bad", "d1">>}
MCKeys == {"r"}
MCKeyAmount == [k \in MCKeys |-> 1]
MCKeyDay == [k \in MCKeys |-> 2]
MCPayments == <<[amount |-> 1, day |-> 4]>>
MCEvidence == <<{<<"d1", "r">>}, {<<"d1", "d1">>}>>
MCSpans == {[first |-> 1, last |-> 2], [first |-> 3, last |-> 4]}
MCClosings == [first \in {1, 3} |-> {1}]

\* A cash account made by hand, by a file that needs a choice, or by a template
\* that puts another under it; a file with a row too many; the account of the
\* cash rule may be moved to another fund, class or parent.
ChartRow(code, suggested, confidence) ==
  [code |-> code, name |-> "Cash", suggested |-> suggested, confidence |-> confidence]
ChartLine(code, parent) == [code |-> code, name |-> "Cash", classification |-> "ASSET", parent |-> parent]
MCCashRules == {[code |-> "100", fund |-> "ADMIN"]}
MCNewAccounts == {[code |-> "100", name |-> "Cash", classification |-> "ASSET", parent |-> 0, fund |-> NoFund]}
MCUpdates == {[parent |-> 1, classification |-> "EXPENSE", fund |-> "ADMIN"]}
MCChartFiles ==
  {<<ChartRow("100", "ASSET", "heuristic"), ChartRow("200", Unknown, "none")>>,
   <<ChartRow("300", "ASSET", "explicit"), ChartRow("300", "ASSET", "explicit")>>}
MCChosen == {<<>>, [n \in {2} |-> "EXPENSE"]}
MCProvisions == {<<ChartLine("100", Unknown), ChartLine("110", "100")>>}

MCInit == Bank!InitAll /\ Chart!Init /\ part \in {"MATCHING", "DEPOSITS", "RECONCILING", "CHART"}

\* What the parts of the bank account leave out.
Limits ==
  /\ part # "DEPOSITS" => Len(receipts') <= 1
  /\ part = "RECONCILING" => \A r \in DOMAIN receipts' : receipts'[r].key = "d1"
  /\ part # "RECONCILING" => \A c \in Handlers : serving'[c].op # "DRAFT"
  /\ part # "MATCHING" => \A c \in Handlers : serving'[c].op = "APPLY" => serving'[c].file = <<"d1">>

MCNext ==
  \/ part # "CHART" /\ Bank!Next /\ Limits /\ UNCHANGED <<part, chartVars>>
  \/ part = "CHART" /\ Chart!Next /\ UNCHANGED <<part, bankVars>>

MCSpec == MCInit /\ [][MCNext]_<<part, bankVars, chartVars>>

\* A MATCHED transaction has a confirmed match, whatever overlaps; exactly one,
\* and no transaction else, unless two requests have handled it at once.
MatchedIffConfirmed == Bank!MatchedIffConfirmed

\* The rule of schema.prisma: a transaction and a receipt are matched once.
ConfirmedOnce == Bank!ConfirmedOnce

\* However often it dies and is called again, one receipt is made of a deposit.
OneReceiptPerDeposit == Bank!OneReceiptPerDeposit

\* What is counted as reconciled is of a completed reconciliation, and matched
\* unless a request about it was under way when it was marked.
ReconciledIsBacked == Bank!ReconciledIsBacked

\* An import or a template arrives on the chart whole, or leaves no trace.
WholeOrNothing == Chart!WholeOrNothing

MCSymmetry == Permutations(ChartRequests) \cup Permutations(Handlers)
=============================================================================
