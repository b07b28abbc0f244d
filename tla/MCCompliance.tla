---------------------------- MODULE MCCompliance ----------------------------
(***************************************************************************)
(* A contractor of two trades, or of none that was ever recorded.          *)
(***************************************************************************)
EXTENDS Integers

CONSTANTS Staff, Requirements, Classifications, Expiries, Covers, SoonDays, LastDay, MaxCredentials, MaxRenewals
VARIABLES today, credentials, request, notifier, notices

ASSUME ComplianceAssumption ==
  /\ \A r \in Requirements :
       {r.required, r.blocks, r.verified, r.unexpired} \subseteq BOOLEAN /\ r.cover \in Int
  /\ Expiries \subseteq Nat \cup {-1} /\ Covers \subseteq Int
  /\ SoonDays \in Nat /\ LastDay \in Nat

Compliance == INSTANCE Compliance

ComplianceSpec == Compliance!Spec

\* The defaults with a minimum of cover, and rows that relax some demands.
Default == [trade |-> "PLUMBING", required |-> TRUE, blocks |-> TRUE, verified |-> TRUE, unexpired |-> TRUE, cover |-> 2]
MCRequirements ==
  {Default, [Default EXCEPT !.verified = FALSE, !.unexpired = FALSE],
   [Default EXCEPT !.required = FALSE, !.trade = "ELECTRICAL"],
   [Default EXCEPT !.cover = 0, !.blocks = FALSE, !.trade = "ELECTRICAL"]}
MCClassifications == {{}, {"PLUMBING", "ELECTRICAL"}}

\* Never, or the first day.
MCExpiries == {-1, 1}

\* The two evaluations of a requirement agree, and so do the overview's status
\* and its rows.
OneAnswer == Compliance!OneAnswer

\* A contractor who may be given an order is covered.
EligibleIsCovered == Compliance!EligibleIsCovered

\* Staff are told once of each expiry, and again only of one whose marks were
\* cleared while its date stayed.
ToldOncePerReset == Compliance!ToldOncePerReset

\* "Each credential is notified at most once per expiry-cycle-per-state", as
\* the notification service says of itself.
NotifiedOncePerCycle == Compliance!NotifiedOncePerCycle
=============================================================================
