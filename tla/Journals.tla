------------------------------ MODULE Journals ------------------------------
(***************************************************************************)
(* The data of one property's general ledger: journals, their lines, the   *)
(* accounting periods, and the pure questions LedgerPostingService and     *)
(* AccountingPeriodsService ask of them.  A journal's identity is its      *)
(* position in the log, an amount is debit minus credit in cents, and a    *)
(* calendar date is an integer.                                            *)
(***************************************************************************)
EXTENDS Integers, Sequences, FiniteSets, Collections

CONSTANTS
  Accounts,     \* accounts of the property's chart of accounts
  Funds,        \* its financial funds
  Dates,        \* the calendar dates a command may name
  SourceIds,    \* ids of the business events that cause postings
  Reasons,      \* reasons a reversal may record
  Commands      \* the posting commands producers may issue

ASSUME AccountsAssumption == IsFiniteSet(Accounts)
ASSUME DatesAssumption == Dates \subseteq Int
ASSUME SourceIdsAssumption == SourceIds \subseteq Nat

\* Journals a subledger service owns; only that service may reverse them.
SubledgerTypes ==
  {"LEVY_REGULAR", "LEVY_SPECIAL", "LEVY_ADJUSTMENT", "RECEIPT", "PAYMENT_ALLOCATION"}

ProducerTypes == {"MANUAL", "OPENING_BALANCE"} \cup SubledgerTypes

NoReason == "none"
NotAReversal == 0

\* Exactly one of debit and credit of a line is positive, so amount # 0.
Line == [account : Accounts, fund : Funds, amount : Int \ {0}]

ASSUME CommandsAssumption ==
  Commands \subseteq [type : ProducerTypes, source : SourceIds, lines : Seq(Line), date : Dates]

Journal == [type : ProducerTypes \cup {"REVERSAL"}, source : Nat,
            lines : Seq(Line), date : Dates, period : Nat \ {0},
            reversalOf : Nat, reason : Reasons \cup {NoReason}]

Period == [start : Dates, end : Dates, status : {"OPEN", "CLOSED"}]

-----------------------------------------------------------------------------
(***************************************************************************)
(* Balance.                                                                *)
(***************************************************************************)

SumOf(lines, S) == SumOver([i \in S |-> lines[i].amount], S)

\* Total debits equal total credits.
Balances(lines) == SumOf(lines, DOMAIN lines) = 0

\* The same within every fund: no value crosses funds unflagged.
FundBalanced(lines) ==
  \A f \in Funds : SumOf(lines, {i \in DOMAIN lines : lines[i].fund = f}) = 0

\* Faulty variant: only the overall balance is looked at.
WellFormedOverall(lines, allowCrossFund) ==
  /\ Len(lines) >= 2
  /\ Balances(lines)

WellFormed(lines, allowCrossFund) ==
  /\ Len(lines) >= 2
  /\ Balances(lines)
  /\ allowCrossFund \/ FundBalanced(lines)

\* Every line of the opposite sign: what reverse() posts.
Swapped(lines) == [i \in DOMAIN lines |-> [lines[i] EXCEPT !.amount = -@]]

AccountsOf(lines) == {lines[i].account : i \in DOMAIN lines}

-----------------------------------------------------------------------------
(***************************************************************************)
(* Looking things up.  js is a log of journals, ps a sequence of periods.  *)
(***************************************************************************)

\* The reversals linked to journal k.
ReversalsOf(js, k) == {i \in DOMAIN js : js[i].reversalOf = k}

\* Faulty variant: a reversed journal no longer occupies its source key.
PostedForUnreversed(js, type, source) ==
  {i \in DOMAIN js : js[i].type = type /\ js[i].source = source /\ ReversalsOf(js, i) = {}}

\* The journals already posted for a source key.
PostedFor(js, type, source) == {i \in DOMAIN js : js[i].type = type /\ js[i].source = source}

Covering(ps, date) == {i \in DOMAIN ps : ps[i].start <= date /\ date <= ps[i].end}

OpenFor(ps, date) == {i \in Covering(ps, date) : ps[i].status = "OPEN"}

Overlap(a, b) == a.start <= b.end /\ b.start <= a.end
=============================================================================
