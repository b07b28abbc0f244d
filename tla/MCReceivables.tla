--------------------------- MODULE MCReceivables ----------------------------
(***************************************************************************)
(* What lots owe and paid.  The parts share nothing, so every behaviour    *)
(* takes the steps of one of them and leaves the other as it is:           *)
(*   ROWS     the transactions that write rows and journals;               *)
(*   REPORTS  what one lot is told of its account as days go by.           *)
(***************************************************************************)
EXTENDS Receivables

CONSTANTS
  l1, l2, admin, capital,
  Days, Opening, Levies, LevyFund, LevyAmount, LevyDue, Deposits, Corrections, MaxEvents, MaxLotRows

VARIABLES part, today, events, charges, adjustments, receipts, allocations, said

lotVars == <<today, events, charges, adjustments, receipts, allocations, said>>

-----------------------------------------------------------------------------
\* Lot l1 owes on both instalments of the administration fund, lot l2 only on
\* the first (its share of the second rounds to nothing).
MCFundOf == [i \in Instalments |-> IF i = 3 THEN capital ELSE admin]
MCLots == {l1, l2}
MCFunds == {admin, capital}
MCShareOf == [c \in Instalments \X MCLots |->
  CASE c = <<1, l1>> -> 2 [] c = <<2, l1>> -> 1 [] c = <<1, l2>> -> 1 [] OTHER -> 0]

MCAdjustmentAmounts == {-1, 1}

\* No allocation, one, and two of which the second may be refused.
MCRequested ==
  { <<>>, <<[charge |-> <<1, l1>>, amount |-> 1]>>,
    <<[charge |-> <<1, l2>>, amount |-> 1], [charge |-> <<1, l1>>, amount |-> 2]>> }

\* A lot that starts in credit, and an instalment of each fund: the first is
\* due the day after the takeover, so it is 30 and 61 days overdue on the days
\* that follow; the second is never overdue by more than 31.
MCOpening == [owing |-> 0, credit |-> 1]
MCLevyFund == <<"admin", "capital">>
MCLevyAmount == <<3, 1>>
MCLevyDue == <<1, 31>>
MCCorrections == {-1}

Lot == INSTANCE LotAccount WITH
  Instalments <- Levies, FundOf <- LevyFund, ChargeOf <- LevyAmount, DueOn <- LevyDue,
  ReceiptAmounts <- Deposits, AdjustmentAmounts <- Corrections, MaxRows <- MaxLotRows

\* Rows are told apart by number in the end; the opening position is of no fund.
ASSUME LotAssumption ==
  /\ Days \subseteq Int /\ IsFiniteSet(Levies) /\ Levies \subseteq Int
  /\ Lot!NoFund \notin Lot!FundsUsed
  /\ Opening.owing \in Int /\ Opening.credit \in Int
  /\ LevyAmount \in [Levies -> Nat] /\ LevyDue \in [Levies -> Int]
  /\ Deposits \subseteq Nat /\ Corrections \subseteq Int

MCInit == part \in {"ROWS", "REPORTS"} /\ Init /\ Lot!Init

MCNext ==
  \/ part = "ROWS" /\ Next /\ UNCHANGED <<part, lotVars>>
  \/ part = "REPORTS" /\ Lot!Next /\ UNCHANGED <<part, vars>>

MCSpec == MCInit /\ [][MCNext]_<<part, vars, lotVars>>

\* The arrears as of a past day never change.
ArrearsStand == Lot!ArrearsStand

\* What the lot's reports say agrees, however backdated a receipt is.
ReportsAgree == part = "REPORTS" => Lot!ReportsAgree
=============================================================================
