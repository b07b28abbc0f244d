--------------------------- MODULE ResidentAccounts -------------------------
(***************************************************************************)
(* How people get into the portal: contacts and their memberships          *)
(* (PeopleService), the invitation that opens or links an account          *)
(* (InvitesService) and the registration of staff (AuthService.register).  *)
(* An account belongs to an email address; so does a contact, within one   *)
(* organisation.  A request reads, and writes in a later statement what    *)
(* follows from what it read; unique indexes are all that stands between.  *)
(* Who holds an invitation's link holds its present token: a resend makes  *)
(* the older ones unknown.                                                 *)
(***************************************************************************)
EXTENDS Integers, Sequences, FiniteSetsExt

CONSTANTS
  Clients,          \* concurrent requests
  Organisations,
  Emails,
  Posts,            \* a role for the property or for one of its spaces
  MaxInvites, MaxMemberships

VARIABLES
  users,            \* addresses with an account
  staff,            \* those of them with an OrganisationMembership
  contacts,         \* per organisation and address: no contact, one without or one with an account
  invites,          \* ContactInvite rows in order of creation
  memberships,      \* PropertyMembership rows in order of creation
  job               \* per client: what it has read and is about to write

vars == <<users, staff, contacts, invites, memberships, job>>

Idle == [op |-> "IDLE"]
Become(c, next) == job' = [job EXCEPT ![c] = next]

Reads(c, request) ==
  /\ job[c] = Idle /\ Become(c, request)
  /\ UNCHANGED <<users, staff, contacts, invites, memberships>>

Contact == Organisations \X Emails
Email(k) == k[2]

-----------------------------------------------------------------------------
(***************************************************************************)
(* People                                                                  *)
(***************************************************************************)

Holds(k, post) ==
  \E m \in DOMAIN memberships : memberships[m] = [contact |-> k, post |-> post, status |-> "ACTIVE"]

\* addPerson: a contact that is not there yet is created with the account
\* that its address has by now.
ReadPerson(c) ==
  \E k \in Contact, post \in Posts :
    /\ ~Holds(k, post)
    /\ Reads(c, [op |-> "PERSON", contact |-> k, post |-> post,
                 new |-> IF contacts[k] # "NONE" THEN "NONE"
                         ELSE IF Email(k) \in users THEN "LINKED" ELSE "UNLINKED"])

\* assignExistingPerson: the contact must be there.
ReadAssign(c) ==
  \E k \in Contact, post \in Posts :
    /\ contacts[k] # "NONE" /\ ~Holds(k, post)
    /\ Reads(c, [op |-> "PERSON", contact |-> k, post |-> post, new |-> "NONE"])

\* One transaction; a contact that another request created in between is a
\* conflict of the unique index.
WritePerson(c) ==
  /\ job[c].op = "PERSON" /\ Len(memberships) < MaxMemberships
  /\ job[c].new # "NONE" => contacts[job[c].contact] = "NONE"
  /\ contacts' = IF job[c].new = "NONE" THEN contacts ELSE [contacts EXCEPT ![job[c].contact] = job[c].new]
  /\ memberships' = Append(memberships,
       [contact |-> job[c].contact, post |-> job[c].post, status |-> "ACTIVE"])
  /\ Become(c, Idle)
  /\ UNCHANGED <<users, staff, invites>>

Active == {m \in DOMAIN memberships : memberships[m].status = "ACTIVE"}

ReadMembership(c) ==
  \E m \in Active :
    \/ Reads(c, [op |-> "END", membership |-> m])
    \/ \E post \in Posts : Reads(c, [op |-> "MOVE", membership |-> m, post |-> post])

\* updateMembership does not ask whether the post is held already.
Move(c) ==
  /\ job[c].op = "MOVE" /\ memberships' = [memberships EXCEPT ![job[c].membership].post = job[c].post]
  /\ Become(c, Idle) /\ UNCHANGED <<users, staff, contacts, invites>>

End(c) ==
  /\ job[c].op = "END" /\ memberships' = [memberships EXCEPT ![job[c].membership].status = "ENDED"]
  /\ Become(c, Idle) /\ UNCHANGED <<users, staff, contacts, invites>>

-----------------------------------------------------------------------------
(***************************************************************************)
(* Invitations                                                             *)
(***************************************************************************)

Of(k) == {i \in DOMAIN invites : invites[i].contact = k}
Pending(k) == {i \in Of(k) : invites[i].status = "PENDING"}

Mark(i, status) == invites' = [invites EXCEPT ![i].status = status]

\* A pending invitation stands in the way until it has expired; then it is
\* first marked so.
ReadInvite(c) ==
  \E k \in Contact :
    /\ contacts[k] = "UNLINKED"
    /\ \/ Pending(k) = {} /\ Reads(c, [op |-> "INVITE", contact |-> k])
       \/ \E i \in Pending(k) :
            /\ invites[i].expired
            /\ Reads(c, [op |-> "EXPIRE", invite |-> i, then |-> [op |-> "INVITE", contact |-> k]])

\* Also what findUsableInviteOrThrow does to a link that is opened too late.
MarkExpired(c) ==
  /\ job[c].op = "EXPIRE" /\ Mark(job[c].invite, "EXPIRED")
  /\ Become(c, job[c].then)
  /\ UNCHANGED <<users, staff, contacts, memberships>>

Invite(c) ==
  /\ job[c].op = "INVITE" /\ Len(invites) < MaxInvites
  /\ invites' = Append(invites, [contact |-> job[c].contact, status |-> "PENDING", expired |-> FALSE])
  /\ Become(c, Idle)
  /\ UNCHANGED <<users, staff, contacts, memberships>>

ReadResend(c) ==
  \E k \in Contact :
    /\ contacts[k] = "UNLINKED" /\ Of(k) # {} /\ invites[Max(Of(k))].status # "ACCEPTED"
    /\ Reads(c, [op |-> "RESEND", invite |-> Max(Of(k))])

Resend(c) ==
  /\ job[c].op = "RESEND"
  /\ invites' = [invites EXCEPT ![job[c].invite].status = "PENDING", ![job[c].invite].expired = FALSE]
  /\ Become(c, Idle)
  /\ UNCHANGED <<users, staff, contacts, memberships>>

ReadRevoke(c) ==
  \E k \in Contact : Pending(k) # {} /\ Reads(c, [op |-> "REVOKE", invite |-> Max(Pending(k))])

Revoke(c) ==
  /\ job[c].op = "REVOKE" /\ Mark(job[c].invite, "REVOKED")
  /\ Become(c, Idle)
  /\ UNCHANGED <<users, staff, contacts, memberships>>

Expire ==
  /\ \E i \in DOMAIN invites : ~invites[i].expired /\ invites' = [invites EXCEPT ![i].expired = TRUE]
  /\ UNCHANGED <<users, staff, contacts, memberships, job>>

\* findUsableInviteOrThrow, outside the transaction that follows.
OpenLink(c) ==
  \E i \in DOMAIN invites :
    /\ invites[i].status = "PENDING"
    /\ IF invites[i].expired THEN Reads(c, [op |-> "EXPIRE", invite |-> i, then |-> Idle])
       ELSE Reads(c, [op |-> "ACCEPT", invite |-> i])

\* acceptInvite opens an account, acceptInviteForExistingUser links the one
\* that its owner is signed in to.
CheckContact(c) ==
  /\ job[c].op = "ACCEPT"
  /\ LET k == invites[job[c].invite].contact IN
       /\ contacts[k] = "UNLINKED"
       /\ Become(c, [job[c] EXCEPT !.op = IF Email(k) \in users THEN "LINK" ELSE "OPEN"])
  /\ UNCHANGED <<users, staff, contacts, invites, memberships>>

Accepted(c) ==
  /\ contacts' = [contacts EXCEPT ![invites[job[c].invite].contact] = "LINKED"]
  /\ Mark(job[c].invite, "ACCEPTED")
  /\ Become(c, Idle)
  /\ UNCHANGED <<staff, memberships>>

Link(c) == job[c].op = "LINK" /\ Accepted(c) /\ UNCHANGED users

\* Faulty variant: the account is opened before the transaction begins.
OpenFirst(c) ==
  LET email == Email(invites[job[c].invite].contact) IN
  /\ job[c].op = "OPEN" /\ email \notin users
  /\ users' = users \cup {email} /\ Become(c, [job[c] EXCEPT !.op = "LINK"])
  /\ UNCHANGED <<staff, contacts, invites, memberships>>

\* Account, link and invitation commit together; an address that has got an
\* account in between is a conflict of the unique index.
Open(c) ==
  LET email == Email(invites[job[c].invite].contact) IN
  /\ job[c].op = "OPEN" /\ email \notin users
  /\ users' = users \cup {email} /\ Accepted(c)

-----------------------------------------------------------------------------
(***************************************************************************)
(* Registration                                                            *)
(***************************************************************************)

ReadRegister(c) == \E email \in Emails \ users : Reads(c, [op |-> "REGISTER", email |-> email])

\* Organisation, account and its OWNER membership commit together.
Register(c) ==
  /\ job[c].op = "REGISTER" /\ job[c].email \notin users
  /\ users' = users \cup {job[c].email} /\ staff' = staff \cup {job[c].email}
  /\ Become(c, Idle)
  /\ UNCHANGED <<contacts, invites, memberships>>

\* An error, a conflict or a restart.
Abandon(c) ==
  /\ job[c] # Idle /\ Become(c, Idle)
  /\ UNCHANGED <<users, staff, contacts, invites, memberships>>

-----------------------------------------------------------------------------
Init ==
  /\ users = {} /\ staff = {} /\ contacts = [k \in Contact |-> "NONE"]
  /\ invites = <<>> /\ memberships = <<>> /\ job = [c \in Clients |-> Idle]

People(c) == ReadPerson(c) \/ ReadAssign(c) \/ WritePerson(c) \/ ReadMembership(c) \/ Move(c) \/ End(c)

Invitations(c) ==
  \/ ReadInvite(c) \/ MarkExpired(c) \/ Invite(c) \/ ReadResend(c) \/ Resend(c) \/ ReadRevoke(c) \/ Revoke(c)
  \/ OpenLink(c) \/ CheckContact(c) \/ Link(c) \/ Open(c)

Next ==
  \/ Expire
  \/ \E c \in Clients : People(c) \/ Invitations(c) \/ ReadRegister(c) \/ Register(c) \/ Abandon(c)

Spec == Init /\ [][Next]_vars

-----------------------------------------------------------------------------
(***************************************************************************)
(* Properties                                                              *)
(***************************************************************************)

\* Nobody is left outside half way: an account always leads somewhere (staff
\* or the contact it was opened for), and as long as a contact has no
\* account, it can be invited, once more if need be: no invitation it has
\* counts as used.
NobodyLeftOutside ==
  /\ \A email \in users : email \in staff \/ \E o \in Organisations : contacts[<<o, email>>] = "LINKED"
  /\ \A i \in DOMAIN invites : invites[i].status = "ACCEPTED" => contacts[invites[i].contact] = "LINKED"
=============================================================================
