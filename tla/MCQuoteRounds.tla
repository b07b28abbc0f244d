--------------------------- MODULE MCQuoteRounds ----------------------------
(***************************************************************************)
(* A maintenance request and what comes of it.  The parts share nothing,   *)
(* so a behaviour takes the steps of one of them:                          *)
(*   PROCUREMENT  the request's rounds of quotes and its orders;           *)
(*   ATTENTION    the request's own status, and what needs attention.      *)
(* Where the request is moved nothing else is watched, and the other way   *)
(* round.                                                                  *)
(***************************************************************************)
EXTENDS QuoteRounds, TLC

CONSTANTS Properties, Watchable, Moments, ExpiryDays, HardCap, PeriodDays, MaxRequests

VARIABLES part, now, requests, watched, move

maintenanceVars == <<now, requests, watched, move>>

-----------------------------------------------------------------------------
ASSUME MaintenanceAssumption ==
  /\ 0 \in Moments /\ Moments \subseteq Nat
  /\ PeriodDays \in Nat \ {0} /\ ExpiryDays \in Nat /\ HardCap \in Nat \ {0}
  /\ \A x \in Watchable :
       \/ x.kind = "ORDER" /\ {x.created, x.scheduled} \subseteq Int /\ x.ineligible \subseteq Moments
       \/ x.kind = "QUOTE" /\ {x.since, x.rejected} \subseteq Int
       \/ x.kind = "CREDENTIAL" /\ {x.created, x.expires} \subseteq Int
  \* A signature that waits for an approval is asked for once that is given.
  /\ \A x \in Watchable : x.kind = "QUOTE" /\ x.mode = "APPROVAL_THEN_SIGNATURE" /\ x.approval # "APPROVED" =>
       x.signature = "NONE"

Never == 1000000

\* The hour of every threshold, and the hour after it.
MCMoments ==
  {0, 4, 5, 6, 24, 25, 48, 49, 72, 73, 79, 80, 81, 120, 121, 168, 169, 336, 337, 619, 620, 621, 799, 800, 801}
RequestMoments == {0, 4, 5, 24, 25, 168, 169}

\* When the contractor is not eligible: never, from some hour on, up to one,
\* and for a while.
MCIneligible == {{}, {h \in MCMoments : h >= 49}, {h \in MCMoments : h < 49}, {h \in MCMoments : 25 <= h /\ h < 120}}

\* The property of what is watched makes no difference but to the dashboard.
MCOrders ==
  [kind : {"ORDER"}, property : Properties, status : {"DRAFT", "READY", "SCHEDULED", "IN_PROGRESS", "COMPLETED"},
   created : {0}, scheduled : {0, 24}, completed : {0}, contractor : BOOLEAN, ineligible : MCIneligible]

\* A quote is rejected where its approval is.
MCQuotes ==
  {q \in [kind : {"QUOTE"}, property : Properties, mode : {"APPROVAL_ONLY", "SIGNATURE_ONLY", "APPROVAL_THEN_SIGNATURE"},
          approval : {"NONE", "PENDING", "APPROVED", "REJECTED"}, signature : {"NONE", "PENDING", "PARTIALLY_SIGNED", "SIGNED"},
          status : {"SUBMITTED", "REJECTED"}, since : {0}, rejected : {0}, newest : BOOLEAN] :
     /\ q.status = "REJECTED" <=> q.approval = "REJECTED"
     /\ q.mode = "APPROVAL_THEN_SIGNATURE" /\ q.approval # "APPROVED" => q.signature = "NONE"}

\* Thirty days before the second expiry is hour 80.
MCCredentials ==
  [kind : {"CREDENTIAL"}, status : {"PENDING", "VERIFIED", "REJECTED"}, created : {0}, expires : {5, 800, Never}]
MCWatchable == MCOrders \cup MCQuotes \cup MCCredentials

Maintenance == INSTANCE Maintenance WITH
  Users <- Clients, SoonDays <- ExpiryDays, job <- move

\* Never an item of the list.
Quiet == [kind |-> "CREDENTIAL", status |-> "REJECTED", created |-> 0, expires |-> 5]

MCInit ==
  /\ Init /\ Maintenance!Init
  /\ part \in {"PROCUREMENT", "ATTENTION"}
  /\ part = "PROCUREMENT" => watched = Quiet

MCNext ==
  \/ part = "PROCUREMENT" /\ Next /\ UNCHANGED <<part, maintenanceVars>>
  \/ /\ part = "ATTENTION" /\ Maintenance!Next /\ UNCHANGED <<part, vars>>
     /\ IF watched = Quiet THEN now' \in RequestMoments ELSE requests' = <<>>

MCSpec == MCInit /\ [][MCNext]_<<part, vars, maintenanceVars>>

\* The dashboard's figures agree with each other, whatever properties its
\* reader may see and however stale the moves that overwrite one another.
FiguresAgree == Maintenance!FiguresAgree

\* The passing of time alone makes nothing that needs attention less severe,
\* but for the nudge about a rejected quote and a contractor who is eligible
\* again.
SeverityNeverFalls == Maintenance!SeverityNeverFalls

Symmetry == Permutations(Clients) \cup Permutations(Contractors)
=============================================================================
