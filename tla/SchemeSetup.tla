---------------------------- MODULE SchemeSetup -----------------------------
(***************************************************************************)
(* The guided financial setup of a scheme (FinancialsService) and the      *)
(* opening journal made from it (OpeningJournalService).  Every edit reads *)
(* the configuration's status and writes in a later statement of the same  *)
(* transaction, with no lock in between; activating and generating read    *)
(* before any transaction begins.  Amounts are natural numbers; currencies *)
(* all come from the configuration and are left out.  What the posting     *)
(* checks of periods and accounts is LedgerPosting's: here it may refuse.  *)
(***************************************************************************)
EXTENDS Integers, Sequences, Collections

CONSTANTS
  Nil,
  Clients,
  Spaces,        \* spaces of the property
  Years,         \* the date fields a request may carry, those it leaves alone missing
  Openings,      \* opening balances of a fund
  Balances,      \* opening positions of a lot: what it owes and its credit
  Splits,        \* per lot: how its position is divided over funds
  Rules,         \* rules of the posting profile: a role, and a fund or Nil for any
  MaxFunds

VARIABLES
  strata,        \* whether the property's strata scheme is active
  config,        \* the FinancialConfiguration: status, start, end and cutover
  funds,         \* FinancialFund rows in order of creation, with their opening balance
  lots,          \* the spaces classified as lots
  positions,     \* LotOpeningPosition per space, or Nil
  profile,       \* the PostingProfileRules there are
  journal,       \* lines of the opening journal, {} before it is posted
  job,           \* per client: what it has read and is about to write
  late           \* history: what was written after the activation

vars == <<strata, config, funds, lots, positions, profile, journal, job, late>>

Idle == [op |-> "IDLE"]
Become(c, next) == job' = [job EXCEPT ![c] = next]
Started == config.status # "NOT_CONFIGURED"

\* assertMutable, as the transaction reads it.
Mutable == config.status = "SETUP_IN_PROGRESS"

\* An edit has read what it needs; what it will write is fixed.
Reads(c, request) ==
  /\ job[c] = Idle /\ Become(c, request)
  /\ UNCHANGED <<strata, config, funds, lots, positions, profile, journal, late>>

Late(what) == late' = IF config.status = "ACTIVE" THEN late \cup what ELSE late

-----------------------------------------------------------------------------
(***************************************************************************)
(* Setup                                                                   *)
(***************************************************************************)

\* dateFieldsFromInput: the fields given replace those stored.
WithDates(dates) ==
  [f \in DOMAIN config |-> IF f \in DOMAIN dates THEN dates[f] ELSE config[f]]

\* startSetup creates the configuration; a second one loses to the unique
\* index on the property.
StartSetup ==
  /\ ~Started
  /\ \E dates \in Years :
       config' = [WithDates(dates) EXCEPT !.status = "SETUP_IN_PROGRESS"]
  /\ UNCHANGED <<strata, funds, lots, positions, profile, journal, job, late>>

\* startSetup called again, and updateFinancialYear.
ReadYear(c) == Mutable /\ \E dates \in Years : Reads(c, [op |-> "YEAR", dates |-> dates])

WriteYear(c) ==
  /\ job[c].op = "YEAR" /\ config' = WithDates(job[c].dates)
  /\ Become(c, Idle)
  /\ UNCHANGED <<strata, funds, lots, positions, profile, journal, late>>

FundTypes == {"ADMINISTRATION", "CAPITAL_WORKS", "OTHER"}
OfType(type) == {f \in DOMAIN funds : funds[f].type = type}

\* Only OTHER funds may come twice.
ReadFund(c) ==
  /\ Mutable
  /\ \E type \in FundTypes, opening \in Openings \cup {Nil} :
       /\ type # "OTHER" => OfType(type) = {}
       /\ Reads(c, [op |-> "FUND", type |-> type, opening |-> opening])

WriteFund(c) ==
  /\ job[c].op = "FUND" /\ Len(funds) < MaxFunds
  /\ funds' = Append(funds, [type |-> job[c].type, opening |-> job[c].opening])
  /\ Late({<<"FUND", Len(funds) + 1>>})
  /\ Become(c, Idle)
  /\ UNCHANGED <<strata, config, lots, positions, profile, journal>>

ReadBalance(c) ==
  /\ Mutable
  /\ \E f \in DOMAIN funds, opening \in Openings :
       Reads(c, [op |-> "BALANCE", fund |-> f, opening |-> opening])

WriteBalance(c) ==
  /\ job[c].op = "BALANCE"
  /\ funds' = [funds EXCEPT ![job[c].fund].opening = job[c].opening]
  /\ Late({<<"FUND", job[c].fund>>})
  /\ Become(c, Idle)
  /\ UNCHANGED <<strata, config, lots, positions, profile, journal>>

\* bulkSetLotOpeningPositions: one transaction for all the lots given.
ReadPositions(c) ==
  /\ Mutable
  /\ \E S \in (SUBSET lots) \ {{}} : \E given \in [S -> Balances] :
       Reads(c, [op |-> "POSITIONS", given |-> given])

WritePositions(c) ==
  /\ job[c].op = "POSITIONS"
  /\ positions' = [l \in Spaces |-> IF l \in DOMAIN job[c].given THEN job[c].given[l] ELSE positions[l]]
  /\ Late({<<"LOT", l>> : l \in DOMAIN job[c].given})
  /\ Become(c, Idle)
  /\ UNCHANGED <<strata, config, funds, lots, profile, journal>>

\* PostingProfileService.upsert, allowed at any time: a rule for a role and
\* fund is there from then on, whatever account it names.
SetRule ==
  /\ Started
  /\ \E rule \in Rules :
       /\ rule.fund = Nil \/ rule.fund \in DOMAIN funds
       /\ profile' = profile \cup {rule}
  /\ UNCHANGED <<strata, config, funds, lots, positions, journal, job, late>>

\* A space becomes, or ceases to be, a lot.
Reclassify ==
  /\ \E l \in Spaces : lots' = (lots \ {l}) \cup ({l} \ lots)
  /\ UNCHANGED <<strata, config, funds, positions, profile, journal, job, late>>

\* The strata scheme is completed (StrataRegister's CompleteSetup), for good.
CompleteStrata ==
  /\ ~strata /\ strata' = TRUE
  /\ UNCHANGED <<config, funds, lots, positions, profile, journal, job, late>>

-----------------------------------------------------------------------------
(***************************************************************************)
(* Activation                                                              *)
(***************************************************************************)

\* The errors of getReconciliation.
Errors ==
  LET found ==
        [STRATA_NOT_ACTIVE |-> ~strata,
         FINANCIAL_YEAR_MISSING |-> Nil \in {config.start, config.end},
         FINANCIAL_YEAR_INVALID |-> Nil \notin {config.start, config.end} /\ config.end <= config.start,
         CUTOVER_DATE_MISSING |-> config.cutover = Nil,
         ADMINISTRATION_FUND_MISSING |-> OfType("ADMINISTRATION") = {},
         CAPITAL_WORKS_FUND_MISSING |-> OfType("CAPITAL_WORKS") = {}]
  IN {code \in DOMAIN found : found[code]}

ReadActivate(c) == Mutable /\ Errors = {} /\ Reads(c, [op |-> "ACTIVATE"])

WriteActivate(c) ==
  /\ job[c].op = "ACTIVATE" /\ config' = [config EXCEPT !.status = "ACTIVE"]
  /\ Become(c, Idle)
  /\ UNCHANGED <<strata, funds, lots, positions, profile, journal, late>>

-----------------------------------------------------------------------------
(***************************************************************************)
(* The opening journal.  A line stands for the pair the code writes: the   *)
(* account of its role, and opening balance equity in the same fund.       *)
(***************************************************************************)

Line(role, fund, lot, amount) == [role |-> role, fund |-> fund, lot |-> lot, amount |-> amount]
Amounts(shares, field) == SumOver([f \in DOMAIN shares |-> shares[f][field]], DOMAIN shares)

\* Faulty variant: it is enough that a lot has a split.
SplitsAgreeAny(splits) ==
  \A l \in Spaces : positions[l] \notin {Nil, [owing |-> 0, credit |-> 0]} => l \in DOMAIN splits

\* A lot with a position has a split that adds up to it.
SplitsAgree(splits) ==
  \A l \in Spaces : positions[l] \notin {Nil, [owing |-> 0, credit |-> 0]} =>
    /\ l \in DOMAIN splits
    /\ \A field \in {"owing", "credit"} : Amounts(splits[l], field) = positions[l][field]

CashLines ==
  {Line("FUND_CASH", f, Nil, funds[f].opening) : f \in {f \in DOMAIN funds : funds[f].opening \notin {Nil, 0}}}

\* Also of lots whose position is nothing at all.
LotLines(splits) ==
  LET Of(role, field) ==
        UNION {{Line(role, f, l, splits[l][f][field]) : f \in {f \in DOMAIN splits[l] : splits[l][f][field] > 0}} :
                 l \in {l \in DOMAIN splits : positions[l] # Nil}}
  IN Of("LOT_LEVY_RECEIVABLE", "owing") \cup Of("UNAPPLIED_CASH", "credit")

\* resolve: a rule for the fund, or one for any fund.
Resolved(role, fund) == \E rule \in profile : rule.role = role /\ rule.fund \in {fund, Nil}

\* The posting itself refuses a fund that is not the property's.
Postable(lines) ==
  /\ lines # {}
  /\ \A line \in lines : line.fund \in DOMAIN funds
  /\ \A line \in lines : Resolved(line.role, line.fund) /\ Resolved("OPENING_BALANCE_EQUITY", line.fund)

\* Faulty variant: the journal may be made while the setup is still going on.
ReadGenerateEarly(c) ==
  /\ Started
  /\ \E splits \in Splits :
       LET lines == CashLines \cup LotLines(splits) IN
       /\ SplitsAgree(splits) /\ Postable(lines)
       /\ Reads(c, [op |-> "GENERATE", lines |-> lines])

\* The effective date is the request's, or else the cutover date.
ReadGenerate(c) ==
  /\ config.status = "ACTIVE"
  /\ \E splits \in Splits :
       LET lines == CashLines \cup LotLines(splits) IN
       /\ SplitsAgree(splits) /\ Postable(lines)
       /\ Reads(c, [op |-> "GENERATE", lines |-> lines])

\* One journal per configuration: who comes second is given the first's.
Post(c) ==
  /\ job[c].op = "GENERATE"
  /\ journal' = IF journal = {} THEN job[c].lines ELSE journal
  /\ Become(c, Idle)
  /\ UNCHANGED <<strata, config, funds, lots, positions, profile, late>>

Abandon(c) ==
  /\ job[c] # Idle /\ Become(c, Idle)
  /\ UNCHANGED <<strata, config, funds, lots, positions, profile, journal, late>>

-----------------------------------------------------------------------------
Init ==
  /\ strata \in BOOLEAN
  /\ config = [status |-> "NOT_CONFIGURED", start |-> Nil, end |-> Nil, cutover |-> Nil]
  /\ funds = <<>> /\ lots = Spaces /\ positions = [l \in Spaces |-> Nil]
  /\ profile = {} /\ journal = {} /\ job = [c \in Clients |-> Idle] /\ late = {}

Next ==
  \/ StartSetup \/ SetRule \/ Reclassify \/ CompleteStrata
  \/ \E c \in Clients :
       \/ ReadYear(c) \/ WriteYear(c) \/ ReadFund(c) \/ WriteFund(c)
       \/ ReadBalance(c) \/ WriteBalance(c) \/ ReadPositions(c) \/ WritePositions(c)
       \/ ReadActivate(c) \/ WriteActivate(c) \/ ReadGenerate(c) \/ Post(c) \/ Abandon(c)

Spec == Init /\ [][Next]_vars

-----------------------------------------------------------------------------
(***************************************************************************)
(* Properties                                                              *)
(***************************************************************************)

Posted(role, on) ==
  LET lines == {line \in journal : line.role = role /\ <<line.fund, line.lot>> \in on}
  IN SumOver([line \in lines |-> line.amount], lines)

\* The opening journal carries what the setup shows, fund by fund and lot by
\* lot, for good: whichever edits, activations and splits raced.  Exempt are
\* an edit that had read the status before the activation and wrote after
\* it, and a lot whose position is nothing, whose split nobody checks.
OpeningTies ==
  journal # {} =>
    /\ \A f \in DOMAIN funds : <<"FUND", f>> \notin late =>
         Posted("FUND_CASH", {<<f, Nil>>}) = IF funds[f].opening = Nil THEN 0 ELSE funds[f].opening
    /\ \A l \in Spaces : positions[l] \notin {Nil, [owing |-> 0, credit |-> 0]} /\ <<"LOT", l>> \notin late =>
         /\ Posted("LOT_LEVY_RECEIVABLE", (DOMAIN funds) \X {l}) = positions[l].owing
         /\ Posted("UNAPPLIED_CASH", (DOMAIN funds) \X {l}) = positions[l].credit
=============================================================================
