-------------------------- MODULE MCLedgerPosting ---------------------------
EXTENDS FinancialReports

CONSTANTS cash, levies, admin, capital

Debit(a, f, n) == [account |-> a, fund |-> f, amount |-> n]
Credit(a, f, n) == [account |-> a, fund |-> f, amount |-> -n]

\* A manual posting; a retry of its key with other lines and another date; a
\* posting that moves value between funds; and a levy posted by its subledger.
MCCommands ==
  { [type |-> "MANUAL", source |-> 1, date |-> 2,
     lines |-> <<Debit(cash, admin, 5), Credit(levies, admin, 5)>>],
    [type |-> "MANUAL", source |-> 1, date |-> 3,
     lines |-> <<Debit(levies, capital, 2), Credit(cash, capital, 2)>>],
    [type |-> "MANUAL", source |-> 2, date |-> 2,
     lines |-> <<Debit(cash, admin, 5), Credit(cash, capital, 5)>>],
    [type |-> "LEVY_REGULAR", source |-> 1, date |-> 2,
     lines |-> <<Debit(cash, admin, 3), Credit(levies, admin, 2), Credit(levies, admin, 1)>>] }
MCAccounts == {cash, levies}
MCClassification == (cash :> "ASSET") @@ (levies :> "INCOME")
MCFunds == {admin, capital}
MCDates == 1 .. 4
MCSourceIds == {1, 2}
MCSymmetry == Permutations(Clients) \cup Permutations(Reasons)
=============================================================================
