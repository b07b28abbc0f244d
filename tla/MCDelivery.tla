----------------------------- MODULE MCDelivery -----------------------------
(***************************************************************************)
(* What goes out by mail: payment reminders, with interchangeable managers *)
(* and workers, and announcements.  The two share nothing, so a behaviour  *)
(* takes the steps of one of them and leaves the other as it is:           *)
(*   REMINDERS      what becomes of reminders;                             *)
(*   ANNOUNCEMENTS  polls that overlap deliver to one recipient;           *)
(*   MAILINGS       one poll delivers to several, who stay the same, in a  *)
(*                  process that does not die.                             *)
(* Checks of liveness take no symmetry.                                    *)
(***************************************************************************)
EXTENDS ReminderDelivery, TLC

CONSTANTS Contacts, Users, Polls, MaxCrashes

\* The variables of CommunicationDelivery; those whose names ReminderDelivery
\* also uses are: announcement for status, sheet for the recipients' mail, asked
\* for a request, accepted for the mails handed over and gone for those out.
VARIABLES part, announcement, audience, sheet, shown, inbox, asked, poll, accepted, gone, lost, overlapped, crashes

Communication == INSTANCE CommunicationDelivery WITH
  status <- announcement, mail <- sheet, request <- asked, mails <- accepted, out <- gone

ASSUME UsersAreContacts == Users \subseteq Contacts

communicationVars ==
  <<announcement, audience, sheet, shown, inbox, asked, poll, accepted, gone, lost, overlapped, crashes>>
MCVars == <<part, vars, communicationVars>>

MCInit == Init /\ Communication!Init /\ part \in {"REMINDERS", "ANNOUNCEMENTS", "MAILINGS"}

MCNext ==
  \/ part = "REMINDERS" /\ Next /\ UNCHANGED <<part, communicationVars>>
  \/ /\ part # "REMINDERS" /\ Communication!Next /\ UNCHANGED <<part, vars>>
     /\ part = "ANNOUNCEMENTS" => audience \cup audience' \subseteq {CHOOSE c \in Contacts : TRUE}
     /\ part = "MAILINGS" =>
          /\ audience = Contacts /\ UNCHANGED <<audience, crashes>>
          /\ \E p \in Polls : \A q \in Polls \ {p} : ~Communication!Active(q)'

MCSpec == MCInit /\ [][MCNext]_MCVars /\ Fairness /\ Communication!Fairness

\* Reminders alone.
ReminderInit == MCInit /\ part = "REMINDERS" /\ audience = {}

ReminderSpec == ReminderInit /\ [][MCNext]_MCVars

\* Nobody is mailed an announcement twice without a cause.
RepeatHasCause == Communication!RepeatHasCause

\* An announcement is delivered as Announcement promises.
KeepsPromise == Communication!KeepsPromise

\* An announcement that is to be sent comes to an end.
Settles == Communication!Settles

Symmetry == Permutations(Managers) \cup Permutations(Workers)
=============================================================================
