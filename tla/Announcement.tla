---------------------------- MODULE Announcement ----------------------------
(***************************************************************************)
(* What an announcement promises: nobody is told or mailed who is not on   *)
(* the record of those it was addressed to, no mail leaves before it has   *)
(* gone out, and what is reported as delivered was delivered.  The record  *)
(* only grows; a report may be withdrawn by a later attempt that fails.    *)
(***************************************************************************)
CONSTANT Contacts

VARIABLES
  addressed,    \* contacts on the record
  out,          \* it has gone out
  told, mailed, \* contacts it has reached, in the app and by e-mail
  reported      \* <<contact, channel>> reported as delivered

vars == <<addressed, out, told, mailed, reported>>

Init ==
  /\ addressed = {} /\ told = {} /\ mailed = {} /\ reported = {}
  /\ out = FALSE

Address ==
  /\ \E S \in SUBSET Contacts : addressed' = addressed \cup S
  /\ UNCHANGED <<out, told, mailed, reported>>

Tell ==
  /\ \E S \in SUBSET addressed : told' = told \cup S
  /\ UNCHANGED <<addressed, out, mailed, reported>>

GoOut ==
  /\ out' = TRUE
  /\ UNCHANGED <<addressed, told, mailed, reported>>

Mail ==
  /\ out /\ \E c \in addressed : mailed' = mailed \cup {c}
  /\ UNCHANGED <<addressed, out, told, reported>>

Report ==
  /\ \/ \E S \in SUBSET told : reported' = reported \cup (S \X {"IN_APP"})
     \/ \E c \in mailed : reported' = reported \cup {<<c, "EMAIL">>}
     \/ \E c \in Contacts : reported' = reported \ {<<c, "EMAIL">>}
  /\ UNCHANGED <<addressed, out, told, mailed>>

Next == Address \/ Tell \/ GoOut \/ Mail \/ Report

Spec == Init /\ [][Next]_vars
=============================================================================
