-------------------------- MODULE MCSchemeFinances --------------------------
(***************************************************************************)
(* What a scheme plans to spend, what it levies, and what it starts from.  *)
(* The parts share nothing, so every behaviour takes the steps of one of   *)
(* them and leaves the others as they are:                                 *)
(*   SETUP       the guided setup and the opening journal made from it;    *)
(*   BUDGET      the budgets of some financial years;                      *)
(*   ALLOCATION  one instalment split over the lots of a scheme;           *)
(*   SCHEDULE    one schedule, approved, issued, reversed and notified.    *)
(***************************************************************************)
EXTENDS LevySchedules, Collections, TLC

CONSTANTS
  Nil, l1, l2,
  Spaces, Years, Openings, Balances, Splits, Rules, MaxFunds,   \* of the setup
  Staff,                                               \* who sets up and budgets
  Starts, Span, Lines, Planned, MaxAttempts, MaxBudgets,  \* of the budgets
  Holders, Units, Totals, Precision                      \* of the allocation

ASSUME BudgetAssumption ==
  /\ "FREE" \notin Staff
  /\ Starts \subseteq Int /\ Span \in Nat \ {0}
  /\ Planned \subseteq Nat \ {0}
  /\ MaxAttempts \in Nat \ {0}

ASSUME SetupAssumption ==
  /\ Nil \notin Nat /\ Openings \subseteq Nat
  /\ \A dates \in Years : "status" \notin DOMAIN dates
  /\ Balances \subseteq [owing : Nat, credit : Nat]
  /\ \A splits \in Splits :
       /\ DOMAIN splits \subseteq Spaces /\ IsFiniteSet(DOMAIN splits)
       /\ \A l \in DOMAIN splits :
            IsFiniteSet(DOMAIN splits[l]) /\ \A f \in DOMAIN splits[l] : splits[l][f] \in [owing : Nat, credit : Nat]

VARIABLES
  part,
  strata, config, funds, lots, positions, profile, journal, job, late,
  budgets, budgetLock, budgetJob,
  amount, entitlement, listing, outcome, shares

allocationVars == <<amount, entitlement, listing, outcome, shares>>
setupVars == <<strata, config, funds, lots, positions, profile, journal, job, late>>
budgetVars == <<budgets, budgetLock, budgetJob>>

-----------------------------------------------------------------------------
\* The second instalment is too small for lot l2's share to reach one cent.
MCLots == {l1, l2}
MCChargedLots == [i \in Instalments |-> IF i = 1 THEN {l1, l2} ELSE {l1}]

\* Up to three lots listed in any order, equal and very unequal entitlements,
\* none and a negative one; half a cent more than one, none, a few cents, a
\* dollar.
MCUnits == {-1, 0, 1, 2, 3, 7, 16, 20}

Allocation == INSTANCE LevyAllocation WITH Lots <- Holders, Entitlements <- Units, Amounts <- Totals

\* Precision is enough for instalments of so many digits, divided by so much
\* entitlement.
ASSUME AllocationAssumption ==
  /\ Holders \subseteq Nat /\ IsFiniteSet(Holders)
  /\ Units \subseteq Int /\ Totals \subseteq Nat
  /\ Precision \in Nat
  /\ \E digits \in 0 .. Precision - 1 :
       /\ \A total \in Totals : total <= 10 * TenTo[digits]
       /\ \A units \in [Holders -> Units], S \in SUBSET Holders :
            (TenTo[digits + 2] + 1) * SumOver(units, S) <= TenTo[Precision + 2]

\* One lot, owing or in credit or neither, split rightly, wrongly or not, and
\* over a fund that is not there.
Position(owing, credit) == [owing |-> owing, credit |-> credit]
MCSpaces == {l1}
MCYears == {<<>>, [start |-> 1, end |-> 2, cutover |-> 1]}
MCBalances == {Position(0, 0), Position(1, 0), Position(0, 1)}
MCSplits ==
  {<<>>, [l \in {l1} |-> <<Position(1, 0)>>], [l \in {l1} |-> <<Position(0, 1), Position(1, 0)>>],
   [l \in {l1} |-> <<Position(0, 0), Position(0, 0), Position(1, 0)>>]}
MCRules ==
  {[role |-> "FUND_CASH", fund |-> Nil], [role |-> "LOT_LEVY_RECEIVABLE", fund |-> 1],
   [role |-> "LOT_LEVY_RECEIVABLE", fund |-> Nil], [role |-> "OPENING_BALANCE_EQUITY", fund |-> Nil]}

Setup == INSTANCE SchemeSetup WITH Clients <- Staff

Budget == INSTANCE Budgets WITH Clients <- Staff, lock <- budgetLock, job <- budgetJob

\* An allocation that nobody asks for.
NoAllocation == amount = 0 /\ entitlement = <<>> /\ listing = <<>> /\ outcome = "REFUSED" /\ shares = <<>>

MCInit ==
  /\ Init /\ Budget!Init
  /\ \/ part = "ALLOCATION" /\ Allocation!Init /\ Setup!Init
     \/ part \in {"SETUP", "BUDGET", "SCHEDULE"} /\ NoAllocation /\ Setup!Init
  /\ part # "SETUP" => strata

MCNext ==
  \/ part = "SCHEDULE" /\ Next /\ UNCHANGED <<part, allocationVars, setupVars, budgetVars>>
  \/ part = "ALLOCATION" /\ Allocation!Next /\ UNCHANGED <<part, vars, setupVars, budgetVars>>
  \/ part = "SETUP" /\ Setup!Next /\ UNCHANGED <<part, vars, allocationVars, budgetVars>>
  \/ part = "BUDGET" /\ Budget!Next /\ UNCHANGED <<part, vars, allocationVars, setupVars>>

MCSpec == MCInit /\ [][MCNext]_<<part, vars, allocationVars, setupVars, budgetVars>>

\* An instalment is shared out exactly, by entitlement, however lots are listed.
SharedByEntitlement == Allocation!SharedByEntitlement

\* The opening journal carries what the setup shows.
OpeningTies == Setup!OpeningTies

\* A financial year has one ACTIVE budget at most, and the lock sees to it.
OneActivePerYear == Budget!OneActivePerYear

MCSymmetry == Permutations(Staff)
=============================================================================
