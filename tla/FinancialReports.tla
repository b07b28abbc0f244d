-------------------------- MODULE FinancialReports --------------------------
(***************************************************************************)
(* What LedgerPostingService and FinancialReportsService report from the   *)
(* journals of one property.  Nothing is stored: every figure is summed    *)
(* from the lines up to a day, or between two days, of one fund or of all. *)
(***************************************************************************)
EXTENDS LedgerPosting

CONSTANTS
  Classification,   \* of each account
  Cutover           \* the day the scheme's finances were taken over

ASSUME ClassificationAssumption ==
  Classification \in [Accounts -> {"ASSET", "LIABILITY", "EQUITY", "INCOME", "EXPENSE"}]
ASSUME CutoverAssumption == Cutover \in Int

Scopes == {{f} : f \in Funds} \cup {Funds}
CreditNormal == {"LIABILITY", "EQUITY", "INCOME"}
OfClass(classes) == {a \in Accounts : Classification[a] \in classes}

UpTo(day) == {d \in Dates : d <= day}
SinceCutover(days) == {d \in days : d >= Cutover}

\* The net of a journal's lines of some accounts and funds, debit positive.
NetOf(journal, accounts, funds) ==
  SumOf(journal.lines, {i \in DOMAIN journal.lines :
                          journal.lines[i].account \in accounts /\ journal.lines[i].fund \in funds})

\* The same of all the journals dated on some days.
Net(accounts, funds, days) ==
  LET dated == {j \in DOMAIN journals : journals[j].date \in days}
  IN SumOver([j \in dated |-> NetOf(journals[j], accounts, funds)], dated)

-----------------------------------------------------------------------------
TrialBalance(funds, day) == [a \in Accounts |-> Net({a}, funds, UpTo(day))]

PresentedSide(account, net) ==
  IF net = 0 THEN IF Classification[account] \in CreditNormal THEN "CREDIT" ELSE "DEBIT"
  ELSE IF net > 0 THEN "DEBIT" ELSE "CREDIT"

Presented(side, balances) ==
  LET on == {a \in Accounts : PresentedSide(a, balances[a]) = side}
  IN SumOver([a \in on |-> IF side = "DEBIT" THEN balances[a] ELSE -balances[a]], on)

\* An account's net as its classification counts it.
AccountNet(class, net) == IF class \in CreditNormal THEN -net ELSE net

Total(class, funds, days) == AccountNet(class, Net(OfClass({class}), funds, days))

\* The income and expense statement of some funds over some days.
Surplus(funds, days) == Total("INCOME", funds, days) - Total("EXPENSE", funds, days)

\* The balance sheet: accounts from the beginning, earnings since the cutover.
TotalAssets(funds, day) == Total("ASSET", funds, UpTo(day))
CurrentEarnings(funds, day) == Surplus(funds, SinceCutover(UpTo(day)))
TotalLiabilitiesAndEquity(funds, day) ==
  Total("LIABILITY", funds, UpTo(day)) + Total("EQUITY", funds, UpTo(day)) + CurrentEarnings(funds, day)
BalanceCheckDifference(funds, day) == TotalAssets(funds, day) - TotalLiabilitiesAndEquity(funds, day)

-----------------------------------------------------------------------------
\* Whatever was posted, reversed and retried, the books balance on every day,
\* fund by fund and together: both columns of the trial balance are equal, and
\* what the balance sheet is out by is what was earned before the cutover and
\* nothing else.
BooksBalance ==
  \A funds \in Scopes, day \in Dates :
    /\ LET balances == TrialBalance(funds, day) IN Presented("DEBIT", balances) = Presented("CREDIT", balances)
    /\ BalanceCheckDifference(funds, day) = Surplus(funds, UpTo(day) \ SinceCutover(UpTo(day)))
=============================================================================
