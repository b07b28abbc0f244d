----------------------- MODULE CommunicationDelivery ------------------------
(***************************************************************************)
(* One announcement: what managers ask of it (CommunicationsService), and  *)
(* its delivery by a poller that runs every 20 seconds, whatever has       *)
(* become of the run before (CommunicationDeliveryService).  Every await   *)
(* is a step: polls overlap, the process dies and another one resumes,     *)
(* and a request writes by id what it decided on an earlier read.          *)
(***************************************************************************)
EXTENDS Integers, FiniteSets

CONSTANTS
  Contacts,
  Users,            \* the contacts who have a login
  Managers,         \* concurrent requests
  Polls,            \* runs of processDue that may be under way at once
  MaxCrashes        \* bound on the deaths of the process, and on failures not recorded

VARIABLES
  status,       \* Communication.status
  audience,     \* the contacts that its criteria resolve to at present
  mail,         \* EMAIL delivery row of each contact, NONE before it is there
  shown,        \* users whose IN_APP delivery row is DELIVERED
  inbox,        \* notifications of the announcement in each user's inbox
  request,      \* per manager: the status still to be written
  poll,         \* per poll: [pc, to], and for each contact where its mail is
  mails,        \* at the provider: mails accepted for each contact
  out,          \* history: the announcement has been SENT
  lost,         \* history: contacts with a mail that was accepted and not recorded
  overlapped,   \* history: it was claimed while a poll was delivering it
  crashes

vars == <<status, audience, mail, shown, inbox, request, poll, mails, out, lost, overlapped, crashes>>

\* Notifications and mails are counted as none, one and more.
Again(n) == IF n = 2 THEN 2 ELSE n + 1

Addressed == {c \in Contacts : mail[c] # "NONE"}
Resting == [pc |-> "RESTING", to |-> {}, lane |-> [c \in Contacts |-> "DONE"]]
GoTo(p, pc) == poll' = [poll EXCEPT ![p].pc = pc]
Lane(p, c, phase) == poll' = [poll EXCEPT ![p].lane[c] = phase]

-----------------------------------------------------------------------------
(***************************************************************************)
(* Managers                                                                *)
(***************************************************************************)

\* Memberships change, or the criteria are edited before it is sent.
ChangeAudience ==
  /\ \E S \in SUBSET Contacts : audience' = S
  /\ UNCHANGED <<status, mail, shown, inbox, request, poll, mails, out, lost, overlapped, crashes>>

\* send, now or for later, and cancel.
Ask(m) ==
  /\ request[m] = "NONE"
  /\ \/ status \in {"DRAFT", "SCHEDULED"} /\ request' = [request EXCEPT ![m] = "SCHEDULED"]
     \/ status = "SCHEDULED" /\ request' = [request EXCEPT ![m] = "CANCELLED"]
  /\ UNCHANGED <<status, audience, mail, shown, inbox, poll, mails, out, lost, overlapped, crashes>>

Answer(m) ==
  /\ request[m] # "NONE"
  /\ status' = request[m]
  /\ request' = [request EXCEPT ![m] = "NONE"]
  /\ UNCHANGED <<audience, mail, shown, inbox, poll, mails, out, lost, overlapped, crashes>>

-----------------------------------------------------------------------------
(***************************************************************************)
(* Delivery                                                                *)
(***************************************************************************)

\* Faulty variant: what is stuck is given back to its author.
ReclaimToDraft ==
  /\ status = "SENDING" /\ status' = "DRAFT"
  /\ UNCHANGED <<audience, mail, shown, inbox, request, poll, mails, out, lost, overlapped, crashes>>

\* Whatever has been SENDING for long goes back to SCHEDULED: its process
\* has died, or it is slow.
Reclaim ==
  /\ status = "SENDING" /\ status' = "SCHEDULED"
  /\ UNCHANGED <<audience, mail, shown, inbox, request, poll, mails, out, lost, overlapped, crashes>>

Active(p) == poll[p] # Resting

\* updateMany where it is still SCHEDULED; then deliverOne.
Claim(p) ==
  /\ ~Active(p)
  /\ status = "SCHEDULED" /\ status' = "SENDING"
  /\ GoTo(p, "RESOLVE")
  /\ overlapped' = (overlapped \/ \E q \in Polls : Active(q))
  /\ UNCHANGED <<audience, mail, shown, inbox, request, mails, out, lost, crashes>>

Resolve(p) ==
  /\ poll[p].pc = "RESOLVE"
  /\ poll' = [poll EXCEPT ![p].to = audience, ![p].pc = IF audience = {} THEN "COMMIT" ELSE "ROWS"]
  /\ UNCHANGED <<status, audience, mail, shown, inbox, request, mails, out, lost, overlapped, crashes>>

\* Recipients, then their delivery rows, skipping those already there.
CreateRows(p) ==
  /\ poll[p].pc = "ROWS"
  /\ mail' = [c \in Contacts |-> IF c \in poll[p].to /\ mail[c] = "NONE" THEN "PENDING" ELSE mail[c]]
  /\ GoTo(p, IF poll[p].to \cap Users = {} THEN "COMMIT" ELSE "NOTIFY")
  /\ UNCHANGED <<status, audience, shown, inbox, request, mails, out, lost, overlapped, crashes>>

\* Notifications have no unique key: they are inserted again by each run.
Notify(p) ==
  /\ poll[p].pc = "NOTIFY"
  /\ inbox' = [u \in Users |-> IF u \in poll[p].to THEN Again(inbox[u]) ELSE inbox[u]]
  /\ GoTo(p, "SHOW")
  /\ UNCHANGED <<status, audience, mail, shown, request, mails, out, lost, overlapped, crashes>>

Show(p) ==
  /\ poll[p].pc = "SHOW"
  /\ shown' = shown \cup (poll[p].to \cap Users)
  /\ GoTo(p, "COMMIT")
  /\ UNCHANGED <<status, audience, mail, inbox, request, mails, out, lost, overlapped, crashes>>

\* SENT, by id, before any mail.
Commit(p) ==
  /\ poll[p].pc = "COMMIT"
  /\ status' = "SENT" /\ out' = TRUE
  /\ poll' = [poll EXCEPT ![p].pc = "MAIL", ![p].lane = [c \in Contacts |-> IF c \in poll[p].to THEN "READ" ELSE "DONE"]]
  /\ UNCHANGED <<audience, mail, shown, inbox, request, mails, lost, overlapped, crashes>>

\* Faulty variant: the row is not looked at before the mail is sent.
ReadRowBlindly(p, c) ==
  /\ poll[p].lane[c] = "READ" /\ Lane(p, c, "SEND")
  /\ UNCHANGED <<status, audience, mail, shown, inbox, request, mails, out, lost, overlapped, crashes>>

\* A mail recorded as SENT is not sent again; a FAILED one is.
ReadRow(p, c) ==
  /\ poll[p].lane[c] = "READ"
  /\ Lane(p, c, IF mail[c] = "SENT" THEN "DONE" ELSE "SEND")
  /\ UNCHANGED <<status, audience, mail, shown, inbox, request, mails, out, lost, overlapped, crashes>>

\* The provider accepts or refuses; its answer may be lost.
Send(p, c) ==
  /\ poll[p].lane[c] = "SEND"
  /\ \/ /\ mails' = [mails EXCEPT ![c] = Again(@)]
        /\ \/ Lane(p, c, "SENT") /\ UNCHANGED lost
           \/ Lane(p, c, "FAILED") /\ lost' = lost \cup {c}
     \/ Lane(p, c, "FAILED") /\ UNCHANGED <<mails, lost>>
  /\ UNCHANGED <<status, audience, mail, shown, inbox, request, out, overlapped, crashes>>

\* Faulty variant: the outcome is recorded as sent whatever it was.
RecordSent(p, c) ==
  /\ poll[p].lane[c] \in {"SENT", "FAILED"}
  /\ mail' = [mail EXCEPT ![c] = "SENT"]
  /\ Lane(p, c, "DONE")
  /\ UNCHANGED <<status, audience, shown, inbox, request, mails, out, lost, overlapped, crashes>>

Record(p, c) ==
  /\ poll[p].lane[c] \in {"SENT", "FAILED"}
  /\ mail' = [mail EXCEPT ![c] = poll[p].lane[c]]
  /\ Lane(p, c, "DONE")
  /\ UNCHANGED <<status, audience, shown, inbox, request, mails, out, lost, overlapped, crashes>>

\* Recording that it was sent is inside the try block of the send.
RecordFails(p, c) ==
  /\ poll[p].lane[c] = "SENT"
  /\ Lane(p, c, "FAILED") /\ lost' = lost \cup {c}
  /\ UNCHANGED <<status, audience, mail, shown, inbox, request, mails, out, overlapped, crashes>>

Finish(p) ==
  /\ poll[p].pc \in {"MAIL", "DRAIN"} /\ \A c \in Contacts : poll[p].lane[c] = "DONE"
  /\ poll' = [poll EXCEPT ![p] = Resting]
  /\ UNCHANGED <<status, audience, mail, shown, inbox, request, mails, out, lost, overlapped, crashes>>

\* A statement throws before any mail.
Break(p) ==
  /\ poll[p].pc \in {"RESOLVE", "ROWS", "NOTIFY", "SHOW", "COMMIT"} /\ GoTo(p, "BROKEN")
  /\ UNCHANGED <<status, audience, mail, shown, inbox, request, mails, out, lost, overlapped, crashes>>

\* A statement about one recipient throws outside the try block of the send,
\* or in its handler.  The first to throw is caught; the workers that mail
\* the other recipients go on, and a recipient no worker is left for is done.
BreakLane(p, c) ==
  /\ poll[p].lane[c] \in {"READ", "FAILED"}
  /\ poll' = [poll EXCEPT ![p].lane[c] = "DONE", ![p].pc = IF @ = "MAIL" THEN "BROKEN" ELSE @]
  /\ UNCHANGED <<status, audience, mail, shown, inbox, request, mails, out, lost, overlapped, crashes>>

\* A poll is through with the announcement when its workers are.
Leave(p) ==
  poll' = [poll EXCEPT ![p] = IF \A c \in Contacts : @.lane[c] = "DONE" THEN Resting ELSE [@ EXCEPT !.pc = "DRAIN"]]

\* What threw is caught: the announcement is FAILED, even when it was SENT.
MarkFailed(p) ==
  /\ poll[p].pc = "BROKEN" /\ Leave(p)
  /\ status' = "FAILED"
  /\ UNCHANGED <<audience, mail, shown, inbox, request, mails, out, lost, overlapped, crashes>>

\* That statement throws too: counted with the deaths of the process.
MarkNothing(p) ==
  /\ poll[p].pc = "BROKEN" /\ Leave(p)
  /\ crashes < MaxCrashes /\ crashes' = crashes + 1
  /\ UNCHANGED <<status, audience, mail, shown, inbox, request, mails, out, lost, overlapped>>

Crash ==
  /\ crashes < MaxCrashes /\ crashes' = crashes + 1
  /\ poll' = [p \in Polls |-> Resting]
  /\ request' = [m \in Managers |-> "NONE"]
  /\ lost' = lost \cup {c \in Contacts : \E p \in Polls : poll[p].lane[c] = "SENT"}
  /\ UNCHANGED <<status, audience, mail, shown, inbox, mails, out, overlapped>>

Init ==
  /\ status = "DRAFT" /\ audience \in SUBSET Contacts
  /\ mail = [c \in Contacts |-> "NONE"] /\ shown = {} /\ inbox = [u \in Users |-> 0]
  /\ request = [m \in Managers |-> "NONE"] /\ poll = [p \in Polls |-> Resting]
  /\ mails = [c \in Contacts |-> 0] /\ out = FALSE
  /\ lost = {} /\ overlapped = FALSE /\ crashes = 0

DeliveryStep(p) ==
  \/ Resolve(p) \/ CreateRows(p) \/ Notify(p) \/ Show(p) \/ Commit(p) \/ MarkFailed(p) \/ Finish(p)
  \/ \E c \in Contacts : ReadRow(p, c) \/ Send(p, c) \/ Record(p, c)

Next ==
  \/ ChangeAudience \/ Reclaim \/ Crash
  \/ \E m \in Managers : Ask(m) \/ Answer(m)
  \/ \E p \in Polls :
       \/ Claim(p) \/ DeliveryStep(p) \/ Break(p) \/ MarkNothing(p)
       \/ \E c \in Contacts : RecordFails(p, c) \/ BreakLane(p, c)

\* The timer polls for ever, what is stuck gets old, and awaited calls return.
Fairness ==
  /\ WF_vars(Reclaim)
  /\ \A p \in Polls : WF_vars(Claim(p)) /\ WF_vars(DeliveryStep(p))

Spec == Init /\ [][Next]_vars /\ Fairness

-----------------------------------------------------------------------------
(***************************************************************************)
(* Properties                                                              *)
(***************************************************************************)

\* An announcement as its records show it.
Promise ==
  INSTANCE Announcement WITH
    addressed <- Addressed,
    told <- {u \in Users : inbox[u] > 0},
    mailed <- {c \in Contacts : mails[c] > 0},
    reported <- (shown \X {"IN_APP"}) \cup ({c \in Contacts : mail[c] = "SENT"} \X {"EMAIL"})

\* However polls overlap, die and are resumed, the records keep what an
\* announcement promises: the delivery implements module Announcement.
KeepsPromise == Promise!Spec

\* Nobody is mailed twice unless the record of a mail was lost, or two polls
\* were delivering at once.
RepeatHasCause == \A c \in Contacts : mails[c] > 1 => c \in lost \/ overlapped

\* An announcement that is to be sent is sent, fails or is cancelled, however
\* often the process dies meanwhile.
Settles == (status \in {"SCHEDULED", "SENDING"}) ~> (status \in {"SENT", "FAILED", "CANCELLED"})

=============================================================================
