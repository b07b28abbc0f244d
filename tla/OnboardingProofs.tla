-------------------------- MODULE OnboardingProofs --------------------------
(***************************************************************************)
(* Proofs about how a property and its people enter the system.  First     *)
(* ResidentAccounts, for any number of requests, organisations, addresses, *)
(* invitations and memberships; then StrataRegister, for any units and     *)
(* declared entitlements; then PlanAnalysis, for any plan pages and runs;  *)
(* then PlanReading, for whatever two readings of a plan may return.       *)
(***************************************************************************)
EXTENDS MCOnboarding, CollectionTheorems

Links == {"NONE", "UNLINKED", "LINKED"}
InviteRows == [contact : Contact, status : {"PENDING", "ACCEPTED", "EXPIRED", "REVOKED"}, expired : BOOLEAN]
MembershipRows == [contact : Contact, post : Posts, status : {"ACTIVE", "ENDED"}]

Invitings == [op : {"INVITE"}, contact : Contact]
Jobs ==
  {Idle} \cup Invitings
    \cup [op : {"PERSON"}, contact : Contact, post : Posts, new : Links]
    \cup [op : {"END"}, membership : Nat]
    \cup [op : {"MOVE"}, membership : Nat, post : Posts]
    \cup [op : {"EXPIRE"}, invite : Nat, then : {Idle} \cup Invitings]
    \cup [op : {"RESEND", "REVOKE", "ACCEPT", "LINK", "OPEN"}, invite : Nat]
    \cup [op : {"REGISTER"}, email : Emails]

\* Every variable has its type.
TypeOK ==
  /\ users \in SUBSET Emails /\ staff \in SUBSET Emails
  /\ contacts \in [Contact -> Links]
  /\ invites \in Seq(InviteRows)
  /\ memberships \in Seq(MembershipRows)
  /\ job \in [Clients -> Jobs]

\* The invitation that a request has read is still a row.
OfInvite == {"EXPIRE", "RESEND", "REVOKE", "ACCEPT", "LINK", "OPEN"}
LinksFound == \A c \in Clients : job[c].op \in OfInvite => job[c].invite \in DOMAIN invites

\* The inductive invariant.
Inductive == TypeOK /\ LinksFound /\ NobodyLeftOutside

-----------------------------------------------------------------------------
(***************************************************************************)
(* Rows                                                                    *)
(***************************************************************************)

\* The latest of some rows is one of them.
LEMMA LatestIsOne ==
  ASSUME NEW n \in Nat, NEW S \in SUBSET (1 .. n), S # {}
  PROVE  Max(S) \in S
<1> DEFINE Above(i) == i + 1 .. n
           Segments == {Above(i) : i \in S}
           Shorter == StrictSubsetOrdering(1 .. n)
<1>1. Segments \in SUBSET (SUBSET (1 .. n)) /\ Segments # {}
  <2>1. \A i \in S : Above(i) \subseteq 1 .. n
    OBVIOUS
  <2>2. PICK i \in S : TRUE
    OBVIOUS
  <2>3. Above(i) \in Segments
    OBVIOUS
  <2> HIDE DEF Above
  <2> QED
    BY <2>1, <2>3
<1>2. IsWellFoundedOn(Shorter, SUBSET (1 .. n))
  <2>1. IsFiniteSet(1 .. n)
    BY FS_Interval
  <2> QED
    BY <2>1, FS_FiniteSubsetsOfFinite, FS_StrictSubsetOrderingWellFounded
<1>3. PICK x \in Segments : \A y \in Segments : ~ (<<y, x>> \in Shorter)
  <2> HIDE DEF Segments, Shorter
  <2> QED
    BY <1>1, <1>2, WFMin
<1>4. PICK most \in S : x = Above(most)
  BY <1>3
<1>5. \A i \in S : most >= i
  <2> SUFFICES ASSUME NEW i \in S, i > most PROVE FALSE
    OBVIOUS
  <2>1. Above(i) \subseteq Above(most) /\ i \in Above(most) /\ i \notin Above(i)
    OBVIOUS
  <2>2. Above(i) # Above(most)
    BY <2>1
  <2>3. <<Above(i), Above(most)>> \in Shorter
    BY <1>1, <2>1, <2>2 DEF StrictSubsetOrdering
  <2> QED
    BY <1>3, <1>4, <2>3
<1> QED
  BY <1>5 DEF Max

\* What a row of the table of invitations is.
LEMMA InviteRow ==
  ASSUME TypeOK, NEW i \in DOMAIN invites
  PROVE  /\ invites[i] \in InviteRows /\ invites[i].contact \in Contact
         /\ Email(invites[i].contact) \in Emails /\ i \in Nat
<1>1. invites[i] \in InviteRows /\ i \in Nat
  BY DEF TypeOK
<1> QED
  BY <1>1 DEF InviteRows, Contact, Email

-----------------------------------------------------------------------------
(***************************************************************************)
(* What a step that changes little leaves as it was                        *)
(***************************************************************************)

\* A request that goes on with a well formed errand keeps the type.
LEMMA BecomeType ==
  ASSUME TypeOK, NEW c \in Clients, NEW next \in Jobs, Become(c, next)
  PROVE  job' \in [Clients -> Jobs]
  BY DEF TypeOK, Become

\* Invitations are never deleted: what a link has led to stays there.
LEMMA FoundStays ==
  ASSUME TypeOK, LinksFound, NEW c \in Clients, NEW next, Become(c, next),
         DOMAIN invites \subseteq DOMAIN invites',
         next.op \in OfInvite => next.invite \in DOMAIN invites
  PROVE  LinksFound'
<1> SUFFICES ASSUME NEW d \in Clients, job'[d].op \in OfInvite
             PROVE  job'[d].invite \in DOMAIN invites'
  BY DEF LinksFound
<1>1. CASE d = c
  BY <1>1 DEF TypeOK, Become
<1>2. CASE d # c
  <2>1. job'[d] = job[d]
    BY <1>2 DEF TypeOK, Become
  <2> QED
    BY <2>1 DEF LinksFound
<1> QED
  BY <1>1, <1>2

\* Links are never undone, and nothing but accepting marks an invitation as
\* used.
LEMMA InsideStays ==
  ASSUME TypeOK, NobodyLeftOutside, users' = users, staff' = staff,
         \A k \in Contact : contacts[k] = "LINKED" => contacts'[k] = "LINKED",
         \A i \in DOMAIN invites' : invites'[i].status = "ACCEPTED" =>
           /\ i \in DOMAIN invites /\ invites[i].status = "ACCEPTED"
           /\ invites'[i].contact = invites[i].contact
  PROVE  NobodyLeftOutside'
<1>1. \A email \in users', o \in Organisations :
        contacts[<<o, email>>] = "LINKED" => contacts'[<<o, email>>] = "LINKED"
  BY DEF TypeOK, Contact
<1>2. ASSUME NEW i \in DOMAIN invites', invites'[i].status = "ACCEPTED"
      PROVE  contacts'[invites'[i].contact] = "LINKED"
  <2>1. i \in DOMAIN invites /\ invites[i].status = "ACCEPTED" /\ invites'[i].contact = invites[i].contact
    BY <1>2
  <2>2. contacts[invites[i].contact] = "LINKED" /\ invites[i].contact \in Contact
    BY <2>1, InviteRow DEF NobodyLeftOutside
  <2> QED
    BY <2>1, <2>2
<1> QED
  BY <1>1, <1>2 DEF NobodyLeftOutside

\* A step that only lets one request go on with an errand.
LEMMA OnlyBecomes ==
  ASSUME Inductive, NEW c \in Clients, NEW next \in Jobs, Become(c, next),
         UNCHANGED <<users, staff, contacts, invites, memberships>>,
         next.op \in OfInvite => next.invite \in DOMAIN invites
  PROVE  Inductive'
<1>1. TypeOK'
  BY BecomeType DEF Inductive, TypeOK
<1>2. LinksFound'
  BY FoundStays DEF Inductive
<1>3. NobodyLeftOutside'
  BY DEF Inductive, NobodyLeftOutside
<1> QED
  BY <1>1, <1>2, <1>3 DEF Inductive

\* A step that changes the status of an invitation, to anything but used.
LEMMA OnlyMarks ==
  ASSUME Inductive, NEW c \in Clients, NEW next \in Jobs, Become(c, next),
         next.op \notin OfInvite,
         NEW i \in DOMAIN invites, NEW row \in InviteRows, row.status # "ACCEPTED",
         row.contact = invites[i].contact,
         invites' = [invites EXCEPT ![i] = row],
         UNCHANGED <<users, staff, contacts, memberships>>
  PROVE  Inductive'
<1>1. invites' \in Seq(InviteRows) /\ DOMAIN invites' = DOMAIN invites
  BY DEF Inductive, TypeOK
<1>2. TypeOK'
  BY <1>1, BecomeType DEF Inductive, TypeOK
<1>3. LinksFound'
  BY <1>1, FoundStays DEF Inductive
<1>4. \A k \in DOMAIN invites' : invites'[k].status = "ACCEPTED" =>
        /\ k \in DOMAIN invites /\ invites[k].status = "ACCEPTED"
        /\ invites'[k].contact = invites[k].contact
  <2> TAKE k \in DOMAIN invites'
  <2>1. invites'[k] = IF k = i THEN row ELSE invites[k]
    BY <1>1 DEF Inductive, TypeOK
  <2> QED
    BY <1>1, <2>1
<1>5. NobodyLeftOutside'
  BY <1>4, InsideStays DEF Inductive
<1> QED
  BY <1>2, <1>3, <1>5 DEF Inductive

-----------------------------------------------------------------------------
(***************************************************************************)
(* People                                                                  *)
(***************************************************************************)

LEMMA ReadingPeople ==
  ASSUME Inductive, NEW c \in Clients, ReadPerson(c) \/ ReadAssign(c) \/ ReadMembership(c)
  PROVE  Inductive'
<1>1. ASSUME NEW k \in Contact, NEW post \in Posts, NEW new \in Links,
             Reads(c, [op |-> "PERSON", contact |-> k, post |-> post, new |-> new])
      PROVE  Inductive'
  BY <1>1, OnlyBecomes DEF Reads, Jobs, OfInvite
<1>2. CASE ReadPerson(c)
  BY <1>1, <1>2 DEF ReadPerson, Links
<1>3. CASE ReadAssign(c)
  BY <1>1, <1>3 DEF ReadAssign, Links
<1>4. CASE ReadMembership(c)
  <2>1. PICK m \in Active :
          \/ Reads(c, [op |-> "END", membership |-> m])
          \/ \E post \in Posts : Reads(c, [op |-> "MOVE", membership |-> m, post |-> post])
    BY <1>4 DEF ReadMembership
  <2>2. m \in Nat
    BY DEF Active, Inductive, TypeOK
  <2>3. CASE Reads(c, [op |-> "END", membership |-> m])
    BY <2>2, <2>3, OnlyBecomes DEF Reads, Jobs, OfInvite
  <2>4. ASSUME NEW post \in Posts, Reads(c, [op |-> "MOVE", membership |-> m, post |-> post])
        PROVE  Inductive'
    BY <2>2, <2>4, OnlyBecomes DEF Reads, Jobs, OfInvite
  <2> QED
    BY <2>1, <2>3, <2>4
<1> QED
  BY <1>2, <1>3, <1>4

\* A request done, with no trace but in the memberships and new contacts.
LEMMA WritingPeople ==
  ASSUME Inductive, NEW c \in Clients, Become(c, Idle),
         memberships' \in Seq(MembershipRows), contacts' \in [Contact -> Links],
         \A k \in Contact : contacts[k] = "LINKED" => contacts'[k] = "LINKED",
         UNCHANGED <<users, staff, invites>>
  PROVE  Inductive'
<1>1. Idle \in Jobs /\ Idle.op \notin OfInvite
  BY DEF Jobs, Idle, OfInvite
<1>2. TypeOK'
  BY <1>1, BecomeType DEF Inductive, TypeOK
<1>3. LinksFound'
  BY <1>1, FoundStays DEF Inductive
<1>4. NobodyLeftOutside'
  BY InsideStays DEF Inductive
<1> QED
  BY <1>2, <1>3, <1>4 DEF Inductive

\* The record of a request, once its operation is known.
LEMMA JobFields ==
  ASSUME TypeOK, NEW c \in Clients
  PROVE  /\ job[c].op = "PERSON" =>
              job[c].contact \in Contact /\ job[c].post \in Posts /\ job[c].new \in Links
         /\ job[c].op = "MOVE" => job[c].post \in Posts
         /\ job[c].op = "EXPIRE" => job[c].then \in {Idle} \cup Invitings
         /\ job[c].op = "INVITE" => job[c].contact \in Contact
         /\ job[c].op = "REGISTER" => job[c].email \in Emails
<1>1. job[c] \in Jobs
  BY DEF TypeOK
<1> QED
  BY <1>1 DEF Jobs, Idle, Invitings

\* A row of the memberships is written, if it is there.
LEMMA MembershipWritten ==
  ASSUME TypeOK, NEW m, NEW row, m \in DOMAIN memberships => row \in MembershipRows,
         memberships' = [memberships EXCEPT ![m] = row]
  PROVE  memberships' \in Seq(MembershipRows)
<1>1. CASE m \in DOMAIN memberships
  BY <1>1 DEF TypeOK
<1>2. CASE m \notin DOMAIN memberships
  <2>1. memberships' = memberships
    BY <1>2 DEF TypeOK
  <2> QED
    BY <2>1 DEF TypeOK
<1> QED
  BY <1>1, <1>2

LEMMA WritingPeopleKeeps ==
  ASSUME Inductive, NEW c \in Clients, WritePerson(c) \/ Move(c) \/ End(c)
  PROVE  Inductive'
<1>1. CASE WritePerson(c)
  <2>1. /\ job[c].contact \in Contact /\ job[c].post \in Posts /\ job[c].new \in Links
    BY <1>1, JobFields DEF WritePerson, Inductive
  <2>2. [contact |-> job[c].contact, post |-> job[c].post, status |-> "ACTIVE"] \in MembershipRows
    BY <2>1 DEF MembershipRows
  <2>3. memberships' \in Seq(MembershipRows)
    BY <1>1, <2>2 DEF WritePerson, Inductive, TypeOK
  <2>4. contacts' \in [Contact -> Links] /\ \A k \in Contact : contacts[k] = "LINKED" => contacts'[k] = "LINKED"
    BY <1>1, <2>1 DEF WritePerson, Inductive, TypeOK
  <2> QED
    BY <1>1, <2>3, <2>4, WritingPeople DEF WritePerson
<1>2. CASE Move(c)
  <2> DEFINE m == job[c].membership
             row == [memberships[m] EXCEPT !.post = job[c].post]
  <2>1. m \in DOMAIN memberships => row \in MembershipRows
    <3>1. job[c].post \in Posts
      BY <1>2, JobFields DEF Move, Inductive
    <3>2. m \in DOMAIN memberships => memberships[m] \in MembershipRows
      BY DEF Inductive, TypeOK
    <3> HIDE DEF m
    <3> QED
      BY <3>1, <3>2 DEF MembershipRows
  <2>2. memberships' = [memberships EXCEPT ![m] = row]
    BY <1>2 DEF Move
  <2>3. memberships' \in Seq(MembershipRows)
    <3> HIDE DEF m, row
    <3> QED
      BY <2>1, <2>2, MembershipWritten DEF Inductive
  <2>4. contacts' \in [Contact -> Links] /\ contacts' = contacts
    BY <1>2 DEF Move, Inductive, TypeOK
  <2> HIDE DEF m, row
  <2> QED
    BY <1>2, <2>3, <2>4, WritingPeople DEF Move
<1>3. CASE End(c)
  <2> DEFINE m == job[c].membership
             row == [memberships[m] EXCEPT !.status = "ENDED"]
  <2>1. m \in DOMAIN memberships => row \in MembershipRows
    <3>1. m \in DOMAIN memberships => memberships[m] \in MembershipRows
      BY DEF Inductive, TypeOK
    <3> HIDE DEF m
    <3> QED
      BY <3>1 DEF MembershipRows
  <2>2. memberships' = [memberships EXCEPT ![m] = row]
    BY <1>3 DEF End
  <2>3. memberships' \in Seq(MembershipRows)
    <3> HIDE DEF m, row
    <3> QED
      BY <2>1, <2>2, MembershipWritten DEF Inductive
  <2>4. contacts' \in [Contact -> Links] /\ contacts' = contacts
    BY <1>3 DEF End, Inductive, TypeOK
  <2> HIDE DEF m, row
  <2> QED
    BY <1>3, <2>3, <2>4, WritingPeople DEF End
<1> QED
  BY <1>1, <1>2, <1>3

-----------------------------------------------------------------------------
(***************************************************************************)
(* Invitations                                                             *)
(***************************************************************************)

LEMMA OfContact ==
  ASSUME TypeOK, NEW k
  PROVE  Of(k) \in SUBSET (1 .. Len(invites)) /\ Pending(k) \in SUBSET (1 .. Len(invites)) /\ Len(invites) \in Nat
  BY DEF TypeOK, Of, Pending

LEMMA ReadingInvitations ==
  ASSUME Inductive, NEW c \in Clients, ReadInvite(c) \/ ReadResend(c) \/ ReadRevoke(c) \/ OpenLink(c)
  PROVE  Inductive'
<1>1. ASSUME NEW k \in Contact, Reads(c, [op |-> "INVITE", contact |-> k])
      PROVE  Inductive'
  BY <1>1, OnlyBecomes DEF Reads, Jobs, Invitings, OfInvite
<1>2. ASSUME NEW i \in DOMAIN invites, NEW then \in {Idle} \cup Invitings,
             Reads(c, [op |-> "EXPIRE", invite |-> i, then |-> then])
      PROVE  Inductive'
  <2>1. i \in Nat
    BY InviteRow DEF Inductive
  <2> QED
    BY <1>2, <2>1, OnlyBecomes DEF Reads, Jobs, OfInvite
<1>3. ASSUME NEW i \in DOMAIN invites, NEW op \in {"RESEND", "REVOKE", "ACCEPT"},
             Reads(c, [op |-> op, invite |-> i])
      PROVE  Inductive'
  <2>1. i \in Nat
    BY InviteRow DEF Inductive
  <2> QED
    BY <1>3, <2>1, OnlyBecomes DEF Reads, Jobs, OfInvite
<1>4. CASE ReadInvite(c)
  BY <1>1, <1>2, <1>4 DEF ReadInvite, Pending, Of, Invitings
<1>5. CASE ReadResend(c)
  <2>1. PICK k \in Contact : Of(k) # {} /\ Reads(c, [op |-> "RESEND", invite |-> Max(Of(k))])
    BY <1>5 DEF ReadResend
  <2>2. Max(Of(k)) \in Of(k)
    BY <2>1, OfContact, LatestIsOne DEF Inductive
  <2> QED
    BY <1>3, <2>1, <2>2 DEF Of
<1>6. CASE ReadRevoke(c)
  <2>1. PICK k \in Contact : Pending(k) # {} /\ Reads(c, [op |-> "REVOKE", invite |-> Max(Pending(k))])
    BY <1>6 DEF ReadRevoke
  <2>2. Max(Pending(k)) \in Pending(k)
    BY <2>1, OfContact, LatestIsOne DEF Inductive
  <2> QED
    BY <1>3, <2>1, <2>2 DEF Pending, Of
<1>7. CASE OpenLink(c)
  BY <1>2, <1>3, <1>7 DEF OpenLink
<1> QED
  BY <1>4, <1>5, <1>6, <1>7

LEMMA Marking ==
  ASSUME Inductive, NEW c \in Clients, MarkExpired(c) \/ Resend(c) \/ Revoke(c)
  PROVE  Inductive'
<1> DEFINE i == job[c].invite
<1>1. i \in DOMAIN invites
  BY DEF MarkExpired, Resend, Revoke, Inductive, LinksFound, OfInvite
<1>2. invites[i] \in InviteRows
  BY <1>1, InviteRow DEF Inductive
<1>3. Idle \in Jobs /\ Idle.op \notin OfInvite
  BY DEF Jobs, Idle, OfInvite
<1>4. CASE MarkExpired(c)
  <2> DEFINE row == [invites[i] EXCEPT !.status = "EXPIRED"]
  <2>1. job[c].then \in Jobs /\ job[c].then.op \notin OfInvite
    BY <1>4, <1>3, JobFields DEF MarkExpired, Inductive, Jobs, Invitings, OfInvite
  <2>2. row \in InviteRows /\ row.status # "ACCEPTED" /\ row.contact = invites[i].contact
    BY <1>2 DEF InviteRows
  <2>3. invites' = [invites EXCEPT ![i] = row]
    BY <1>4 DEF MarkExpired, Mark
  <2> HIDE DEF row, i
  <2> QED
    BY <1>1, <1>4, <2>1, <2>2, <2>3, OnlyMarks DEF MarkExpired
<1>5. CASE Resend(c)
  <2> DEFINE row == [invites[i] EXCEPT !.status = "PENDING", !.expired = FALSE]
  <2>1. row \in InviteRows /\ row.status # "ACCEPTED" /\ row.contact = invites[i].contact
    BY <1>2 DEF InviteRows
  <2>2. invites' = [invites EXCEPT ![i] = row]
    BY <1>1, <1>5 DEF Resend
  <2> HIDE DEF row, i
  <2> QED
    BY <1>1, <1>3, <1>5, <2>1, <2>2, OnlyMarks DEF Resend
<1>6. CASE Revoke(c)
  <2> DEFINE row == [invites[i] EXCEPT !.status = "REVOKED"]
  <2>1. row \in InviteRows /\ row.status # "ACCEPTED" /\ row.contact = invites[i].contact
    BY <1>2 DEF InviteRows
  <2>2. invites' = [invites EXCEPT ![i] = row]
    BY <1>6 DEF Revoke, Mark
  <2> HIDE DEF row, i
  <2> QED
    BY <1>1, <1>3, <1>6, <2>1, <2>2, OnlyMarks DEF Revoke
<1> QED
  BY <1>4, <1>5, <1>6

LEMMA Inviting ==
  ASSUME Inductive, NEW c \in Clients, Invite(c)
  PROVE  Inductive'
<1> DEFINE row == [contact |-> job[c].contact, status |-> "PENDING", expired |-> FALSE]
<1>1. row \in InviteRows /\ row.status # "ACCEPTED"
  BY JobFields DEF Invite, Inductive, InviteRows
<1>2. invites' = Append(invites, row)
  BY DEF Invite
<1> HIDE DEF row
<1>3. /\ invites' \in Seq(InviteRows) /\ DOMAIN invites \subseteq DOMAIN invites'
      /\ \A k \in DOMAIN invites' : invites'[k] = IF k \in DOMAIN invites THEN invites[k] ELSE row
  BY <1>1, <1>2 DEF Inductive, TypeOK
<1>4. Idle \in Jobs /\ Idle.op \notin OfInvite
  BY DEF Jobs, Idle, OfInvite
<1>5. TypeOK'
  BY <1>3, <1>4, BecomeType DEF Invite, Inductive, TypeOK
<1>6. LinksFound'
  BY <1>3, <1>4, FoundStays DEF Invite, Inductive
<1>7. NobodyLeftOutside'
  BY <1>1, <1>3, InsideStays DEF Invite, Inductive
<1> QED
  BY <1>5, <1>6, <1>7 DEF Inductive

\* Time passes for an invitation.
LEMMA Expiring ==
  ASSUME Inductive, Expire
  PROVE  Inductive'
<1>1. PICK i \in DOMAIN invites : invites' = [invites EXCEPT ![i].expired = TRUE]
  BY DEF Expire
<1>2. /\ invites' \in Seq(InviteRows) /\ DOMAIN invites' = DOMAIN invites
      /\ \A k \in DOMAIN invites : invites'[k].status = invites[k].status /\ invites'[k].contact = invites[k].contact
  <2> DEFINE row == [invites[i] EXCEPT !.expired = TRUE]
  <2>1. row \in InviteRows /\ row.status = invites[i].status /\ row.contact = invites[i].contact
    BY InviteRow DEF Inductive, InviteRows
  <2>2. invites' = [invites EXCEPT ![i] = row]
    BY <1>1
  <2> HIDE DEF row
  <2> QED
    BY <2>1, <2>2 DEF Inductive, TypeOK
<1>3. TypeOK'
  BY <1>2 DEF Expire, Inductive, TypeOK
<1>4. LinksFound'
  BY <1>2 DEF Expire, Inductive, LinksFound
<1>5. NobodyLeftOutside'
  BY <1>2, InsideStays DEF Expire, Inductive
<1> QED
  BY <1>3, <1>4, <1>5 DEF Inductive

-----------------------------------------------------------------------------
(***************************************************************************)
(* Accounts                                                                *)
(***************************************************************************)

LEMMA Checking ==
  ASSUME Inductive, NEW c \in Clients, CheckContact(c)
  PROVE  Inductive'
<1> DEFINE i == job[c].invite
<1>1. i \in DOMAIN invites /\ i \in Nat /\ job[c] = [op |-> "ACCEPT", invite |-> i]
  <2>1. i \in DOMAIN invites
    BY DEF CheckContact, Inductive, LinksFound, OfInvite
  <2>2. job[c] \in Jobs
    BY DEF Inductive, TypeOK
  <2> QED
    BY <2>1, <2>2, InviteRow DEF CheckContact, Inductive, Jobs, Idle, Invitings
<1>2. PICK op \in {"LINK", "OPEN"} : Become(c, [op |-> op, invite |-> i])
  BY <1>1 DEF CheckContact
<1> QED
  BY <1>1, <1>2, OnlyBecomes DEF CheckContact, Jobs, OfInvite

\* The account is there, its contact is linked to it and the invitation used,
\* all in one step.
LEMMA Accepting ==
  ASSUME Inductive, NEW c \in Clients, Link(c) \/ Open(c)
  PROVE  Inductive'
<1> DEFINE i == job[c].invite
           k == invites[i].contact
<1>1. i \in DOMAIN invites
  BY DEF Link, Open, Inductive, LinksFound, OfInvite
<1>2. invites[i] \in InviteRows /\ k \in Contact /\ Email(k) \in Emails
  BY <1>1, InviteRow DEF Inductive
<1>3. Accepted(c) /\ users' \in {users, users \cup {Email(k)}}
  BY DEF Link, Open
<1>4. /\ contacts' = [contacts EXCEPT ![k] = "LINKED"]
      /\ contacts' \in [Contact -> Links] /\ contacts'[k] = "LINKED"
      /\ \A l \in Contact : contacts[l] = "LINKED" => contacts'[l] = "LINKED"
  BY <1>2, <1>3 DEF Accepted, Inductive, TypeOK, Links
<1>5. /\ invites' \in Seq(InviteRows) /\ DOMAIN invites' = DOMAIN invites
      /\ \A j \in DOMAIN invites : invites'[j].contact = invites[j].contact
                                   /\ (j # i => invites'[j].status = invites[j].status)
  <2> DEFINE row == [invites[i] EXCEPT !.status = "ACCEPTED"]
  <2>1. row \in InviteRows /\ row.contact = invites[i].contact
    BY <1>2 DEF InviteRows
  <2>2. invites' = [invites EXCEPT ![i] = row]
    BY <1>3 DEF Accepted, Mark
  <2> HIDE DEF row, i
  <2> QED
    BY <1>1, <2>1, <2>2 DEF Inductive, TypeOK
<1>6. Become(c, Idle) /\ UNCHANGED <<staff, memberships>> /\ Idle \in Jobs /\ Idle.op \notin OfInvite
  BY <1>3 DEF Accepted, Jobs, Idle, OfInvite
<1>7. TypeOK'
  BY <1>2, <1>3, <1>4, <1>5, <1>6, BecomeType DEF Inductive, TypeOK
<1>8. LinksFound'
  BY <1>5, <1>6, FoundStays DEF Inductive
<1>9. ASSUME NEW email \in users', email \notin staff'
      PROVE  \E o \in Organisations : contacts'[<<o, email>>] = "LINKED"
  <2>1. CASE email \in users
    <3>1. PICK o \in Organisations : contacts[<<o, email>>] = "LINKED"
      BY <1>6, <1>9, <2>1 DEF Inductive, NobodyLeftOutside
    <3>2. <<o, email>> \in Contact
      BY <2>1 DEF Contact, Inductive, TypeOK
    <3> QED
      BY <1>4, <3>1, <3>2
  <2>2. CASE email = Email(k)
    <3>1. PICK o \in Organisations : k = <<o, email>>
      BY <1>2, <2>2 DEF Contact, Email
    <3> QED
      BY <1>4, <3>1
  <2> QED
    BY <1>3, <2>1, <2>2
<1>10. ASSUME NEW j \in DOMAIN invites', invites'[j].status = "ACCEPTED"
       PROVE  contacts'[invites'[j].contact] = "LINKED"
  <2>1. CASE j = i
    BY <1>4, <1>5, <2>1
  <2>2. CASE j # i
    <3>1. j \in DOMAIN invites /\ invites[j].status = "ACCEPTED" /\ invites'[j].contact = invites[j].contact
      BY <1>5, <1>10, <2>2
    <3>2. contacts[invites[j].contact] = "LINKED" /\ invites[j].contact \in Contact
      BY <3>1, InviteRow DEF Inductive, NobodyLeftOutside
    <3> QED
      BY <1>4, <3>1, <3>2
  <2> QED
    BY <2>1, <2>2
<1>11. NobodyLeftOutside'
  BY <1>9, <1>10 DEF NobodyLeftOutside
<1> QED
  BY <1>7, <1>8, <1>11 DEF Inductive

LEMMA Registering ==
  ASSUME Inductive, NEW c \in Clients, ReadRegister(c) \/ Register(c)
  PROVE  Inductive'
<1>1. CASE ReadRegister(c)
  <2>1. PICK email \in Emails : Reads(c, [op |-> "REGISTER", email |-> email])
    BY <1>1 DEF ReadRegister
  <2> QED
    BY <2>1, OnlyBecomes DEF Reads, Jobs, OfInvite
<1>2. CASE Register(c)
  <2>1. job[c].email \in Emails /\ Idle \in Jobs /\ Idle.op \notin OfInvite
    BY <1>2, JobFields DEF Register, Inductive, Jobs, Idle, OfInvite
  <2>2. TypeOK'
    BY <1>2, <2>1, BecomeType DEF Register, Inductive, TypeOK
  <2>3. LinksFound'
    BY <1>2, <2>1, FoundStays DEF Register, Inductive
  <2>4. NobodyLeftOutside'
    BY <1>2 DEF Register, Inductive, NobodyLeftOutside
  <2> QED
    BY <2>2, <2>3, <2>4 DEF Inductive
<1> QED
  BY <1>1, <1>2

LEMMA Abandoning ==
  ASSUME Inductive, NEW c \in Clients, Abandon(c)
  PROVE  Inductive'
  BY OnlyBecomes DEF Abandon, Jobs, Idle, OfInvite

-----------------------------------------------------------------------------
(***************************************************************************)
(* The theorems                                                            *)
(***************************************************************************)

LEMMA InductiveInit == Init => Inductive
<1> SUFFICES ASSUME Init PROVE Inductive
  OBVIOUS
<1>1. TypeOK
  BY DEF Init, TypeOK, Links, Jobs
<1>2. LinksFound /\ NobodyLeftOutside
  BY DEF Init, LinksFound, OfInvite, Idle, NobodyLeftOutside
<1> QED
  BY <1>1, <1>2 DEF Inductive

LEMMA InductiveStep == Inductive /\ [Next]_vars => Inductive'
<1> SUFFICES ASSUME Inductive, [Next]_vars PROVE Inductive'
  OBVIOUS
<1>1. ASSUME NEW c \in Clients, People(c) PROVE Inductive'
  BY <1>1, ReadingPeople, WritingPeopleKeeps DEF People
<1>2. ASSUME NEW c \in Clients, Invitations(c) PROVE Inductive'
  BY <1>2, ReadingInvitations, Marking, Inviting, Checking, Accepting DEF Invitations
<1>3. CASE UNCHANGED vars
  BY <1>3 DEF vars, Inductive, TypeOK, LinksFound, NobodyLeftOutside
<1> QED
  BY <1>1, <1>2, <1>3, Expiring, Registering, Abandoning DEF Next

LEMMA InductiveHolds == Spec => []Inductive
  BY InductiveInit, InductiveStep, PTL DEF Spec

\* Accounts, contacts, invitations, memberships and the requests in flight
\* keep their types.
THEOREM TypeCorrect == Spec => []TypeOK
<1>1. Inductive => TypeOK
  BY DEF Inductive
<1> QED
  BY <1>1, InductiveHolds, PTL

\* However invitations, resends, revocations, acceptances, registrations and
\* new contacts interleave, an account leads somewhere and no invitation is
\* used up without one (InvitesService, PeopleService, AuthService.register).
THEOREM NobodyIsLeftOutside == Spec => []NobodyLeftOutside
<1>1. Inductive => NobodyLeftOutside
  BY DEF Inductive
<1> QED
  BY <1>1, InductiveHolds, PTL
-----------------------------------------------------------------------------
(***************************************************************************)
(* The strata register.  Its inductive invariant speaks of a plan, a list  *)
(* of spaces, what every client is doing and the ceiling.  A request that  *)
(* has found room holds it until it writes, and what all of them hold      *)
(* counts with the lots; whoever looks for room finds it under the         *)
(* ceiling, so that only what the others hold can come on top of it.       *)
(***************************************************************************)

Statuses == {"NOT_ENABLED", "SETUP_IN_PROGRESS", "ACTIVE"}
Declarable == Nat \cup {Nil}
PlanOK(p) == /\ DOMAIN p = {"status", "managed", "plan", "declared"}
             /\ p.status \in Statuses /\ p.declared \in Declarable
FieldsOK(g) == /\ "status" \in DOMAIN g => g.status \in Statuses
               /\ "declared" \in DOMAIN g => g.declared \in Declarable

SpaceClasses == {"LOT", "COMMON_PROPERTY", "UNCLASSIFIED"}
SpaceRows == [class : SpaceClasses, uoe : Units \cup {Nil}]

\* What a request puts in the place of some spaces, and adds to them.
Sendings == [class : SpaceClasses] \cup SpaceRows
Puts == UNION {[S -> Sendings] : S \in SUBSET Nat}
Adds == {<<>>} \cup {<<r>> : r \in SpaceRows}

Asking ==
  [op : {"ASK", "FITS"}, put : Puts, add : Adds, new : 0 .. MaxNew, edit : BOOLEAN, total : {Nil}, fresh : BOOLEAN]
Looking ==
  [op : {"LOOKED"}, put : Puts, add : Adds, new : 0 .. MaxNew, edit : BOOLEAN, total : Nat, fresh : BOOLEAN]

ErrandOK(j) ==
  \/ j \in {[op |-> "IDLE"], [op |-> "SUMMARISE"]}
  \/ j = [op |-> "PLAN", fields |-> j.fields] /\ FieldsOK(j.fields)
  \/ j \in [op : {"ACTIVATE"}, fresh : BOOLEAN]
  \/ j \in Asking \cup Looking

Changed(list, put, add) ==
  [s \in DOMAIN list |-> IF s \in DOMAIN put THEN Strata!Sent(list[s], put[s]) ELSE list[s]] \o add

\* What a request has read still tells what its writing will do.
Prepared(p, list, j) ==
  /\ j \in [op : {"ACTIVATE"}, fresh : {TRUE}] => Strata!Remaining(list, p.declared) \in {0, Nil}
  /\ j \in Asking \cup Looking /\ j.fresh /\ ~j.edit =>
       Strata!TotalOf(Changed(list, j.put, j.add)) <= Strata!TotalOf(list) + j.new

\* The room that a request holds: what it has found, or will find too late.
Holding(j, top) ==
  IF j.op = "FITS" THEN j.new ELSE IF j.op = "LOOKED" THEN IF j.total > top THEN j.new ELSE 0 ELSE 0
Held(jobs, top) == SumOver([d \in Clients |-> Holding(jobs[d], top)], Clients)
Slack == MaxNew * (Cardinality(Clients) - 1)

Bounded(p) == p.status = "ACTIVE" /\ p.declared # Nil

RoomOK(p, list, jobs, top) ==
  Bounded(p) => p.declared <= top /\ Strata!TotalOf(list) + Held(jobs, top) <= top + Slack

RegisterOK(p, list, jobs, top) ==
  /\ PlanOK(p) /\ list \in Seq(SpaceRows) /\ top \in Int
  /\ jobs = [c \in Clients |-> jobs[c]]
  /\ \A c \in Clients : ErrandOK(jobs[c]) /\ Prepared(p, list, jobs[c])
  /\ RoomOK(p, list, jobs, top)

RegisterSound == RegisterOK(property, spaces, errand, ceiling)

\* What a space counts.
Weigh(space) == IF space.class = "LOT" /\ space.uoe # Nil THEN space.uoe ELSE 0
Weights(list) == [s \in DOMAIN list |-> Weigh(list[s])]

LEMMA RowsTyped ==
  ASSUME NEW list \in Seq(SpaceRows)
  PROVE  /\ IsFiniteSet(DOMAIN list) /\ Len(list) \in Nat /\ DOMAIN list = 1 .. Len(list)
         /\ \A s \in DOMAIN list : list[s] \in SpaceRows /\ Weigh(list[s]) \in Nat /\ Weights(list)[s] = Weigh(list[s])
<1>1. Len(list) \in Nat /\ DOMAIN list = 1 .. Len(list)
  OBVIOUS
<1>2. IsFiniteSet(DOMAIN list)
  BY <1>1, FS_Interval
<1>3. \A s \in DOMAIN list : list[s] \in SpaceRows
  OBVIOUS
<1>4. \A r \in SpaceRows : Weigh(r) \in Nat
  BY StrataAssumption DEF Weigh, SpaceRows
<1> QED
  BY <1>1, <1>2, <1>3, <1>4 DEF Weights

LEMMA TotalIsWeights ==
  ASSUME NEW list \in Seq(SpaceRows)
  PROVE  Strata!TotalOf(list) = SumOver(Weights(list), DOMAIN list) /\ Strata!TotalOf(list) \in Int
<1> DEFINE L == Strata!LotsOf(list)
           R == (DOMAIN list) \ L
           f == [s \in L |-> Strata!Uoe(list[s])]
           w == Weights(list)
<1>1. L \in SUBSET DOMAIN list /\ R \in SUBSET DOMAIN list /\ L \cap R = {} /\ L \cup R = DOMAIN list
  BY DEF Strata!LotsOf
<1>2. /\ \A s \in DOMAIN list : w[s] \in Int
      /\ \A s \in L : w[s] \in Int /\ f[s] = w[s]
      /\ \A s \in R : w[s] = 0
  BY RowsTyped, <1>1 DEF Weigh, Strata!Uoe, Strata!LotsOf
<1>3. Strata!TotalOf(list) = SumOver(f, L)
  BY DEF Strata!TotalOf, Strata!SumOver, SumOver
<1>4. IsFiniteSet(DOMAIN list) /\ IsFiniteSet(L) /\ IsFiniteSet(R)
  BY RowsTyped, <1>1, FS_Subset
<1> HIDE DEF L, R, f, w
<1>5. SumOver(f, L) = SumOver(w, L) /\ SumOver(w, L) \in Int
  BY <1>2, <1>4, SumCongruent, SumType
<1>6. SumOver(w, R) = 0
  BY <1>2, <1>4, SumZero
<1>7. SumOver(w, L \cup R) = SumOver(w, L) + SumOver(w, R)
  BY <1>1, <1>2, <1>4, SumUnion
<1> QED
  BY <1>1, <1>3, <1>5, <1>6, <1>7 DEF w

\* Of spaces that are replaced, none counts more than before and what is
\* asked for it.
LEMMA Replaced ==
  ASSUME NEW list \in Seq(SpaceRows), NEW new \in Seq(SpaceRows), DOMAIN new = DOMAIN list, NEW asked,
         \A s \in DOMAIN list : asked[s] \in Nat /\ Weigh(new[s]) <= Weigh(list[s]) + asked[s]
  PROVE  Strata!TotalOf(new) <= Strata!TotalOf(list) + SumOver(asked, DOMAIN list)
<1> DEFINE D == DOMAIN list
           v == Weights(list)
           w == Weights(new)
           both == [s \in D |-> v[s] + asked[s]]
<1>1. IsFiniteSet(D)
  BY RowsTyped
<1>2. \A s \in D : /\ v[s] \in Int /\ asked[s] \in Int /\ both[s] = v[s] + asked[s]
                   /\ w[s] \in Int /\ both[s] \in Int /\ w[s] <= both[s]
  BY RowsTyped
<1>3. Strata!TotalOf(list) = SumOver(v, D) /\ Strata!TotalOf(new) = SumOver(w, D)
  BY TotalIsWeights
<1> HIDE DEF D, v, w, both
<1>4. SumOver(both, D) = SumOver(v, D) + SumOver(asked, D)
  BY <1>1, <1>2, SumPlus
<1>5. SumOver(w, D) <= SumOver(both, D)
  BY <1>1, <1>2, SumMonotone
<1> QED
  BY <1>3, <1>4, <1>5 DEF D

LEMMA Added ==
  ASSUME NEW list \in Seq(SpaceRows), NEW space \in SpaceRows
  PROVE  /\ Append(list, space) \in Seq(SpaceRows)
         /\ Strata!TotalOf(Append(list, space)) = Strata!TotalOf(list) + Weigh(space)
<1> DEFINE new == Append(list, space)
           n == Len(list) + 1
           v == Weights(list)
           w == Weights(new)
<1>1. new \in Seq(SpaceRows) /\ DOMAIN new = DOMAIN list \cup {n} /\ n \notin DOMAIN list /\ n \in DOMAIN new
      /\ new[n] = space /\ \A s \in DOMAIN list : new[s] = list[s]
  OBVIOUS
<1>2. /\ IsFiniteSet(DOMAIN list)
      /\ \A s \in DOMAIN list : v[s] \in Int /\ w[s] = v[s]
      /\ \A s \in DOMAIN list \cup {n} : w[s] \in Int
      /\ w[n] = Weigh(space)
  <2>1. \A s \in DOMAIN list : v[s] = Weigh(list[s]) /\ w[s] = Weigh(list[s]) /\ Weigh(list[s]) \in Nat
    BY RowsTyped, <1>1 DEF Weights
  <2>2. w[n] = Weigh(space)
    BY <1>1 DEF Weights
  <2>3. Weigh(space) \in Nat
    BY StrataAssumption DEF Weigh, SpaceRows
  <2> HIDE DEF v, w, new
  <2> QED
    BY RowsTyped, <2>1, <2>2, <2>3
<1>3. Strata!TotalOf(list) = SumOver(v, DOMAIN list) /\ Strata!TotalOf(new) = SumOver(w, DOMAIN list \cup {n})
  BY <1>1, TotalIsWeights
<1> HIDE DEF v, w, new, n
<1>4. SumOver(w, DOMAIN list) = SumOver(v, DOMAIN list)
  BY <1>2, SumCongruent
<1>5. SumOver(w, DOMAIN list \cup {n}) = SumOver(w, DOMAIN list) + w[n]
  BY <1>1, <1>2, SumAdd
<1> QED
  BY <1>1, <1>2, <1>3, <1>4, <1>5 DEF new

\* What is asked for some of the spaces, as what is asked for each.
Asked(list, given, T) == [s \in DOMAIN list |-> IF s \in T THEN given[s] ELSE 0]

LEMMA AskedSum ==
  ASSUME NEW list \in Seq(SpaceRows), NEW given, NEW T \in SUBSET DOMAIN list, \A s \in T : given[s] \in Nat
  PROVE  /\ \A s \in DOMAIN list : Asked(list, given, T)[s] \in Nat
         /\ SumOver(Asked(list, given, T), DOMAIN list) = SumOver(given, T)
         /\ SumOver(given, T) \in Nat
<1> DEFINE D == DOMAIN list
           R == D \ T
           f == Asked(list, given, T)
<1>1. R \in SUBSET D /\ T \cap R = {} /\ T \cup R = D /\ IsFiniteSet(D) /\ IsFiniteSet(T) /\ IsFiniteSet(R)
  BY RowsTyped, FS_Subset
<1>2. /\ \A s \in D : f[s] \in Nat /\ f[s] \in Int
      /\ \A s \in T : given[s] \in Int /\ f[s] = given[s]
      /\ \A s \in R : f[s] = 0
  BY DEF Asked
<1> HIDE DEF D, R, f
<1>3. SumOver(f, T \cup R) = SumOver(f, T) + SumOver(f, R)
  BY <1>1, <1>2, SumUnion DEF D
<1>4. SumOver(f, T) = SumOver(given, T) /\ SumOver(f, R) = 0 /\ SumOver(given, T) \in Nat
  BY <1>1, <1>2, SumCongruent, SumZero, SumNatural
<1> QED
  BY <1>1, <1>2, <1>3, <1>4 DEF f, D

LEMMA MaxOfTwo ==
  ASSUME NEW a \in Int, NEW b \in Int
  PROVE  Strata!Max({a, b}) \in Int /\ a <= Strata!Max({a, b}) /\ b <= Strata!Max({a, b})
<1> DEFINE S == {a, b}
<1>1. \E x \in S : \A y \in S : x >= y
  BY SMT
<1>2. Strata!Max(S) \in S /\ \A y \in S : Strata!Max(S) >= y
  <2> HIDE DEF S
  <2> QED
    BY <1>1 DEF Strata!Max
<1> QED
  BY <1>2

\* An edit of the plan or of existing lots raises the ceiling as far as needed.
LEMMA Raised ==
  ASSUME NEW p, PlanOK(p), NEW list \in Seq(SpaceRows)
  PROVE  /\ Strata!Allowed(p, list) \in Int
         /\ Bounded(p) => p.declared <= Strata!Allowed(p, list) /\ Strata!TotalOf(list) <= Strata!Allowed(p, list)
<1>1. Strata!TotalOf(list) \in Int
  BY TotalIsWeights
<1>2. CASE Bounded(p)
  <2>1. p.declared \in Int
    BY <1>2 DEF PlanOK, Declarable, Bounded
  <2>2. Strata!Allowed(p, list) = Strata!Max({p.declared, Strata!TotalOf(list)})
    BY <1>2 DEF Bounded, Strata!Allowed
  <2> QED
    BY <1>1, <2>1, <2>2, MaxOfTwo
<1>3. CASE ~Bounded(p)
  <2>1. Strata!Allowed(p, list) = 0
    BY <1>3 DEF Bounded, Strata!Allowed
  <2> QED
    BY <1>3, <2>1
<1> QED
  BY <1>2, <1>3

LEMMA TotalOfAdds ==
  ASSUME NEW list \in Seq(SpaceRows), NEW add \in Adds
  PROVE  /\ list \o add \in Seq(SpaceRows) /\ add \in Seq(SpaceRows)
         /\ Strata!TotalOf(add) \in Nat
         /\ Strata!TotalOf(list \o add) = Strata!TotalOf(list) + Strata!TotalOf(add)
<1>0. Strata!TotalOf(list) \in Int
  BY TotalIsWeights
<1>1. <<>> \in Seq(SpaceRows) /\ Strata!TotalOf(<<>>) = 0
  <2>1. <<>> \in Seq(SpaceRows) /\ DOMAIN <<>> = {}
    OBVIOUS
  <2>2. Strata!TotalOf(<<>>) = SumOver(Weights(<<>>), DOMAIN <<>>)
    BY <2>1, TotalIsWeights
  <2>3. SumOver(Weights(<<>>), DOMAIN <<>>) = SumOver(Weights(<<>>), {})
    BY <2>1
  <2> QED
    BY <2>1, <2>2, <2>3, SumEmpty
<1>2. CASE add = <<>>
  <2>1. list \o add = list
    BY <1>2
  <2> QED
    BY <1>0, <1>1, <1>2, <2>1
<1>3. ASSUME NEW r \in SpaceRows, add = <<r>>
      PROVE  /\ list \o add \in Seq(SpaceRows) /\ add \in Seq(SpaceRows)
             /\ Strata!TotalOf(add) \in Nat
             /\ Strata!TotalOf(list \o add) = Strata!TotalOf(list) + Strata!TotalOf(add)
  <2>1. list \o add = Append(list, r) /\ add = Append(<<>>, r)
    BY <1>3
  <2>2. Strata!TotalOf(Append(<<>>, r)) = Strata!TotalOf(<<>>) + Weigh(r) /\ Append(<<>>, r) \in Seq(SpaceRows)
    BY <1>1, Added
  <2>3. Weigh(r) \in Nat
    BY StrataAssumption DEF Weigh, SpaceRows
  <2>4. Strata!TotalOf(add) = Weigh(r)
    BY <1>1, <2>1, <2>2, <2>3
  <2>5. Strata!TotalOf(list \o add) = Strata!TotalOf(list) + Weigh(r) /\ list \o add \in Seq(SpaceRows)
    BY <2>1, Added
  <2> QED
    BY <2>1, <2>2, <2>3, <2>4, <2>5
<1> QED
  BY <1>2, <1>3 DEF Adds

LEMMA PutTyped ==
  ASSUME NEW put \in Puts
  PROVE  \A s \in DOMAIN put : put[s] \in Sendings
<1>1. PICK S \in SUBSET Nat : put \in [S -> Sendings]
  BY DEF Puts
<1> QED
  BY <1>1

LEMMA PutMade ==
  ASSUME NEW S \in SUBSET Nat, NEW put \in [S -> Sendings]
  PROVE  put \in Puts
BY DEF Puts

LEMMA SentTyped ==
  ASSUME NEW row \in SpaceRows, NEW fields \in Sendings
  PROVE  /\ Strata!Sent(row, fields) \in SpaceRows
         /\ fields \in SpaceRows => Strata!Sent(row, fields) = fields
         /\ fields \in [class : SpaceClasses] =>
              Strata!Sent(row, fields) = [class |-> fields.class, uoe |-> row.uoe]
<1>1. CASE fields \in SpaceRows
  <2>1. DOMAIN fields = {"class", "uoe"} /\ DOMAIN row = {"class", "uoe"} /\ fields = [f \in {"class", "uoe"} |-> fields[f]]
    BY <1>1 DEF SpaceRows
  <2>2. Strata!Sent(row, fields) = fields
    BY <2>1 DEF Strata!Sent
  <2>3. fields \notin [class : SpaceClasses]
    BY <2>1
  <2> QED
    BY <1>1, <2>2, <2>3
<1>2. CASE fields \in [class : SpaceClasses]
  <2>1. DOMAIN fields = {"class"} /\ DOMAIN row = {"class", "uoe"} /\ row.uoe \in Units \cup {Nil}
        /\ fields.class \in SpaceClasses
    BY <1>2 DEF SpaceRows
  <2>2. Strata!Sent(row, fields) = [class |-> fields.class, uoe |-> row.uoe]
    BY <2>1 DEF Strata!Sent
  <2>3. fields \notin SpaceRows
    BY <2>1 DEF SpaceRows
  <2> QED
    BY <2>1, <2>2, <2>3 DEF SpaceRows
<1> QED
  BY <1>1, <1>2 DEF Sendings

\* The spaces as a request leaves those that were there.
Kept(list, put) == [s \in DOMAIN list |-> IF s \in DOMAIN put THEN Strata!Sent(list[s], put[s]) ELSE list[s]]

LEMMA KeptTyped ==
  ASSUME NEW list \in Seq(SpaceRows), NEW put \in Puts
  PROVE  Kept(list, put) \in Seq(SpaceRows) /\ DOMAIN Kept(list, put) = DOMAIN list
<1>1. /\ Len(list) \in Nat /\ DOMAIN list = 1 .. Len(list)
      /\ \A s \in DOMAIN list : list[s] \in SpaceRows
  BY RowsTyped
<1>2. \A s \in DOMAIN list : Kept(list, put)[s] \in SpaceRows
  BY <1>1, PutTyped, SentTyped DEF Kept
<1>3. Kept(list, put) = [s \in 1 .. Len(list) |-> Kept(list, put)[s]]
  BY <1>1 DEF Kept
<1> QED
  BY <1>1, <1>2, <1>3

LEMMA ChangedTyped ==
  ASSUME NEW list \in Seq(SpaceRows), NEW put \in Puts, NEW add \in Adds
  PROVE  /\ Changed(list, put, add) \in Seq(SpaceRows)
         /\ Strata!TotalOf(Changed(list, put, add)) = Strata!TotalOf(Kept(list, put)) + Strata!TotalOf(add)
         /\ Strata!TotalOf(Changed(list, put, add)) \in Int /\ Strata!TotalOf(list) \in Int
<1>1. Changed(list, put, add) = Kept(list, put) \o add
  BY DEF Changed, Kept
<1>2. Kept(list, put) \in Seq(SpaceRows)
  BY KeptTyped
<1> QED
  BY <1>1, <1>2, TotalOfAdds, TotalIsWeights

\* The room held by all requests, when one of them holds so much.
LEMMA Spread ==
  ASSUME NEW f, \A d \in Clients : f[d] \in 0 .. MaxNew, NEW c \in Clients
  PROVE  /\ SumOver(f, Clients) \in Nat /\ Slack \in Int
         /\ SumOver(f, Clients) <= f[c] + Slack
<1> DEFINE R == Clients \ {c}
           ones == [d \in R |-> 1]
           all == [d \in R |-> MaxNew * ones[d]]
<1>1. /\ IsFiniteSet(Clients) /\ MaxNew \in Nat /\ IsFiniteSet(R) /\ R \in SUBSET R
      /\ Cardinality(R) = Cardinality(Clients) - 1 /\ Cardinality(R) \in Nat
  BY StrataAssumption, FS_RemoveElement, FS_CardinalityType
<1>2. \A d \in Clients : f[d] \in Nat /\ f[d] \in Int /\ f[d] <= MaxNew
  BY <1>1
<1>3. \A d \in R : ones[d] = 1 /\ ones[d] \in Int /\ all[d] = MaxNew * ones[d] /\ all[d] = MaxNew
                   /\ all[d] \in Int /\ f[d] \in Int /\ f[d] <= all[d] /\ ones[d] = IF d \in R THEN 1 ELSE 0
  BY <1>1, <1>2
<1> HIDE DEF R, ones, all
<1>4. SumOver(f, Clients) \in Nat
  BY <1>1, <1>2, SumNatural
<1>5. SumOver(f, Clients) = SumOver(f, R) + f[c] /\ SumOver(f, R) \in Int
  <2>1. SumOver(f, R) \in Int
    BY <1>1, <1>3, SumType
  <2>2. SumOver(f, Clients) = SumOver(f, Clients \ {c}) + f[c]
    BY <1>1, <1>2, SumRemove
  <2> QED
    BY <2>1, <2>2 DEF R
<1>6. SumOver(f, R) <= SumOver(all, R)
  BY <1>1, <1>3, SumMonotone
<1>7. SumOver(ones, R) = Cardinality(R)
  <2>1. \A d \in R : ones[d] = IF d \in R THEN 1 ELSE 0
    BY <1>3
  <2> QED
    BY <1>1, <2>1, SumOnes
<1>8. SumOver(all, R) = MaxNew * SumOver(ones, R)
  <2>1. MaxNew \in Int /\ \A d \in R : ones[d] \in Int /\ all[d] = MaxNew * ones[d]
    BY <1>1, <1>3
  <2> QED
    BY <1>1, <2>1, SumScaled
<1>9. SumOver(all, R) = Slack
  BY <1>1, <1>7, <1>8 DEF Slack
<1>10. Slack \in Int
  <2>1. \A m, n \in Nat : m * n \in Int
    OBVIOUS
  <2>2. Slack = MaxNew * Cardinality(R)
    BY <1>1 DEF Slack
  <2> QED
    BY <1>1, <2>1, <2>2
<1> QED
  BY <1>2, <1>4, <1>5, <1>6, <1>9, <1>10

\* What a space becomes in bulk.
LEMMA NewRows ==
  /\ \A u \in Units : /\ Strata!Lot(u) \in SpaceRows /\ Strata!Lot(u).class = "LOT"
                      /\ Weigh(Strata!Lot(u)) = u /\ u \in Nat
  /\ Strata!CommonProperty \in SpaceRows /\ Strata!CommonProperty.class = "COMMON_PROPERTY"
  /\ Weigh(Strata!CommonProperty) = 0
BY StrataAssumption DEF Strata!Lot, Strata!CommonProperty, SpaceRows, SpaceClasses, Weigh

LEMMA HoldingType ==
  ASSUME NEW j, ErrandOK(j), NEW top
  PROVE  Holding(j, top) \in 0 .. MaxNew
<1>1. 0 \in 0 .. MaxNew
  BY StrataAssumption
<1>2. CASE j \in Asking \cup Looking
  <2>1. j.new \in 0 .. MaxNew
    BY <1>2 DEF Asking, Looking
  <2> QED
    BY <1>1, <2>1 DEF Holding
<1>3. CASE j \notin Asking \cup Looking
  <2>1. j.op \notin {"FITS", "LOOKED"}
    BY <1>3 DEF ErrandOK
  <2> QED
    BY <1>1, <2>1 DEF Holding
<1> QED
  BY <1>2, <1>3

Faded(j) == IF "fresh" \in DOMAIN j THEN [j EXCEPT !.fresh = FALSE] ELSE j

LEMMA FadedOK ==
  ASSUME NEW j, ErrandOK(j)
  PROVE  /\ ErrandOK(Faded(j)) /\ \A top : Holding(Faded(j), top) = Holding(j, top)
         /\ \A p, list : Prepared(p, list, Faded(j))
<1>1. CASE j \in Asking \cup Looking
  <2>1. Faded(j) = [j EXCEPT !.fresh = FALSE]
    BY <1>1 DEF Faded, Asking, Looking
  <2>2. /\ Faded(j) \in Asking \cup Looking /\ Faded(j).fresh = FALSE
        /\ Faded(j).op = j.op /\ Faded(j).new = j.new /\ Faded(j).total = j.total
    BY <1>1, <2>1 DEF Asking, Looking
  <2>3. Faded(j) \notin [op : {"ACTIVATE"}, fresh : {TRUE}]
    BY <2>2
  <2> QED
    BY <2>2, <2>3 DEF ErrandOK, Holding, Prepared
<1>2. CASE j \in [op : {"ACTIVATE"}, fresh : BOOLEAN]
  <2>1. Faded(j) = [op |-> "ACTIVATE", fresh |-> FALSE]
    BY <1>2 DEF Faded
  <2>2. Faded(j) \notin Asking \cup Looking /\ j.op = "ACTIVATE"
    BY <1>2, <2>1 DEF Asking, Looking
  <2> QED
    BY <2>1, <2>2 DEF ErrandOK, Holding, Prepared
<1>3. CASE ~(j \in Asking \cup Looking \/ j \in [op : {"ACTIVATE"}, fresh : BOOLEAN])
  <2>1. Faded(j) = j /\ j \notin [op : {"ACTIVATE"}, fresh : {TRUE}]
    BY <1>3 DEF ErrandOK, Faded
  <2> QED
    BY <1>3, <2>1 DEF Prepared
<1> QED
  BY <1>1, <1>2, <1>3

ErrandsOK(jobs) == \A d \in Clients : ErrandOK(jobs[d])
HeldAlike(after, jobs, c, top) == \A d \in Clients \ {c} : Holding(after[d], top) = Holding(jobs[d], top)
Spends(p, list, before, q, new, later, top) ==
  Bounded(q) => /\ Bounded(p) /\ q.declared <= top
                /\ Strata!TotalOf(new) + later <= Strata!TotalOf(list) + before

\* Who finds room under the ceiling leaves to the others what they hold.
LEMMA RoomFound ==
  ASSUME NEW p, NEW list \in Seq(SpaceRows), NEW jobs, NEW top \in Int, NEW c \in Clients,
         \A d \in Clients : ErrandOK(jobs[d]),
         Bounded(p) => p.declared <= top /\ Strata!TotalOf(list) + Holding(jobs[c], top) <= top
  PROVE  RoomOK(p, list, jobs, top)
<1> DEFINE f == [d \in Clients |-> Holding(jobs[d], top)]
<1>1. \A d \in Clients : f[d] \in 0 .. MaxNew
  BY HoldingType
<1>2. f[c] = Holding(jobs[c], top) /\ Held(jobs, top) = SumOver(f, Clients) /\ f[c] \in Int
  BY <1>1 DEF Held
<1> HIDE DEF f
<1>3. SumOver(f, Clients) \in Nat /\ Slack \in Int /\ SumOver(f, Clients) <= f[c] + Slack
  BY <1>1, Spread
<1>4. Strata!TotalOf(list) \in Int
  BY TotalIsWeights
<1> QED
  BY <1>2, <1>3, <1>4 DEF RoomOK

\* Who writes no more than it holds takes nothing from anyone.
LEMMA RoomKept ==
  ASSUME NEW p, NEW list \in Seq(SpaceRows), NEW jobs, ErrandsOK(jobs), NEW top \in Int, RoomOK(p, list, jobs, top),
         NEW q, NEW new \in Seq(SpaceRows), NEW after, ErrandsOK(after),
         NEW c \in Clients, HeldAlike(after, jobs, c, top),
         Spends(p, list, Holding(jobs[c], top), q, new, Holding(after[c], top), top)
  PROVE  RoomOK(q, new, after, top)
<1> DEFINE f == [d \in Clients |-> Holding(jobs[d], top)]
           g == [d \in Clients |-> Holding(after[d], top)]
<1>1. \A d \in Clients : f[d] \in 0 .. MaxNew /\ g[d] \in 0 .. MaxNew /\ (d # c => g[d] = f[d])
  BY HoldingType DEF ErrandsOK, HeldAlike
<1>2. /\ f[c] = Holding(jobs[c], top) /\ Held(jobs, top) = SumOver(f, Clients)
      /\ g[c] = Holding(after[c], top) /\ Held(after, top) = SumOver(g, Clients)
  BY DEF Held
<1> HIDE DEF f, g
<1>3. SumOver(f, Clients) \in Nat /\ Slack \in Int
  BY <1>1, Spread
<1>4. SumOver(g, Clients) = SumOver(f, Clients) - f[c] + g[c]
  <2>1. IsFiniteSet(Clients)
    BY StrataAssumption
  <2> DEFINE R == Clients \ {c}
  <2>2. \A d \in Clients : f[d] \in Int /\ g[d] \in Int
    BY <1>1
  <2>3. IsFiniteSet(R) /\ \A d \in R : f[d] \in Int /\ g[d] = f[d]
    BY <1>1, <2>1, FS_RemoveElement
  <2>4. SumOver(f, Clients) = SumOver(f, R) + f[c] /\ SumOver(g, Clients) = SumOver(g, R) + g[c]
    BY <2>1, <2>2, SumRemove
  <2> HIDE DEF R
  <2>5. SumOver(g, R) = SumOver(f, R) /\ SumOver(f, R) \in Int
    BY <2>3, SumCongruent, SumType
  <2> QED
    BY <2>2, <2>4, <2>5
<1>5. Strata!TotalOf(list) \in Int /\ Strata!TotalOf(new) \in Int /\ f[c] \in Int /\ g[c] \in Int
  BY <1>1, TotalIsWeights
<1> QED
  BY <1>2, <1>3, <1>4, <1>5 DEF RoomOK, Spends

\* A step of a request that writes nothing.
LEMMA ErrandMoves ==
  ASSUME NEW p, NEW list, NEW jobs, NEW top, RegisterOK(p, list, jobs, top), NEW c \in Clients,
         NEW next, ErrandOK(next), Prepared(p, list, next),
         Bounded(p) => \/ Holding(next, top) <= Holding(jobs[c], top)
                       \/ Strata!TotalOf(list) + Holding(next, top) <= top
  PROVE  RegisterOK(p, list, [jobs EXCEPT ![c] = next], top)
<1> DEFINE after == [jobs EXCEPT ![c] = next]
<1>1. /\ PlanOK(p) /\ list \in Seq(SpaceRows) /\ top \in Int /\ jobs = [d \in Clients |-> jobs[d]]
      /\ \A d \in Clients : ErrandOK(jobs[d]) /\ Prepared(p, list, jobs[d])
      /\ RoomOK(p, list, jobs, top)
  BY DEF RegisterOK
<1>2. after = [d \in Clients |-> after[d]] /\ after[c] = next /\ \A d \in Clients \ {c} : after[d] = jobs[d]
  BY <1>1
<1> HIDE DEF after
<1>3. \A d \in Clients : ErrandOK(after[d]) /\ Prepared(p, list, after[d])
  BY <1>1, <1>2
<1>4. /\ Strata!TotalOf(list) \in Int /\ Holding(next, top) \in Int /\ Holding(jobs[c], top) \in Int
      /\ Bounded(p) => p.declared <= top
  BY <1>1, TotalIsWeights, HoldingType DEF RoomOK
<1>5. CASE Bounded(p) => Strata!TotalOf(list) + Holding(next, top) <= top
  <2>1. RoomOK(p, list, after, top)
    BY <1>1, <1>2, <1>3, <1>4, <1>5, RoomFound
  <2> QED
    BY <1>1, <1>2, <1>3, <2>1 DEF RegisterOK, after
<1>6. CASE Bounded(p) => Holding(next, top) <= Holding(jobs[c], top)
  <2>1. Spends(p, list, Holding(jobs[c], top), p, list, Holding(after[c], top), top)
    BY <1>2, <1>4, <1>6 DEF Spends
  <2>2. ErrandsOK(jobs) /\ ErrandsOK(after) /\ HeldAlike(after, jobs, c, top)
    BY <1>1, <1>2, <1>3 DEF ErrandsOK, HeldAlike
  <2>3. RoomOK(p, list, after, top)
    BY <1>1, <2>1, <2>2, RoomKept
  <2> QED
    BY <1>1, <1>2, <1>3, <2>3 DEF RegisterOK, after
<1> QED
  BY <1>5, <1>6

\* A step that writes: the plan or the spaces, and perhaps the ceiling.
LEMMA RegisterWritten ==
  ASSUME NEW p, NEW list, NEW jobs, NEW top, RegisterOK(p, list, jobs, top), NEW c \in Clients,
         NEW q, PlanOK(q), NEW new \in Seq(SpaceRows), NEW most \in Int,
         NEW after, after = [d \in Clients |-> IF d = c THEN Strata!Idle ELSE Faded(jobs[d])],
         Bounded(q) => /\ q.declared <= most
                       /\ \/ Strata!TotalOf(new) <= most
                          \/ /\ most = top /\ Bounded(p)
                             /\ Strata!TotalOf(new) <= Strata!TotalOf(list) + Holding(jobs[c], top)
  PROVE  RegisterOK(q, new, after, most)
<1>1. /\ list \in Seq(SpaceRows) /\ top \in Int /\ \A d \in Clients : ErrandOK(jobs[d])
      /\ RoomOK(p, list, jobs, top)
  BY DEF RegisterOK
<1>2. ErrandOK(Strata!Idle) /\ Holding(Strata!Idle, most) = 0 /\ Prepared(q, new, Strata!Idle)
  BY DEF ErrandOK, Strata!Idle, Holding, Prepared, Asking, Looking
<1>3. \A d \in Clients : ErrandOK(after[d]) /\ Prepared(q, new, after[d])
  BY <1>1, <1>2, FadedOK
<1>4. /\ \A d \in Clients \ {c} : Holding(after[d], top) = Holding(jobs[d], top)
      /\ Holding(after[c], most) = 0 /\ after = [d \in Clients |-> after[d]]
  BY <1>1, <1>2, FadedOK
<1>5. Strata!TotalOf(new) \in Int
  BY TotalIsWeights
<1>6. RoomOK(q, new, after, most)
  <2>1. CASE Bounded(q) => q.declared <= most /\ Strata!TotalOf(new) <= most
    <3>1. Bounded(q) => q.declared <= most /\ Strata!TotalOf(new) + Holding(after[c], most) <= most
      BY <1>4, <1>5, <2>1
    <3> QED
      BY <1>3, <3>1, RoomFound
  <2>2. CASE /\ Bounded(q) /\ most = top /\ Bounded(p) /\ q.declared <= top
             /\ Strata!TotalOf(new) <= Strata!TotalOf(list) + Holding(jobs[c], top)
    <3>1. Spends(p, list, Holding(jobs[c], top), q, new, Holding(after[c], top), top)
      BY <1>4, <1>5, <2>2 DEF Spends
    <3>2. ErrandsOK(jobs) /\ ErrandsOK(after) /\ HeldAlike(after, jobs, c, top)
      BY <1>1, <1>3, <1>4 DEF ErrandsOK, HeldAlike
    <3>3. RoomOK(q, new, after, top)
      BY <1>1, <3>1, <3>2, RoomKept
    <3> QED
      BY <2>2, <3>3
  <2> QED
    BY <2>1, <2>2
<1> QED
  BY <1>3, <1>4, <1>6 DEF RegisterOK

-----------------------------------------------------------------------------
\* The invariant after a step, of what the step makes of the variables.
LEMMA SoundAfter ==
  ASSUME RegisterOK(property', spaces', errand', ceiling')
  PROVE  RegisterSound'
BY DEF RegisterSound, RegisterOK, PlanOK, ErrandOK, FieldsOK, Prepared, RoomOK, Bounded, Held, Holding, Changed,
       Strata!TotalOf, Strata!LotsOf, Strata!Uoe, Strata!SumOver, SumOver, Strata!Remaining, Strata!Sent

LEMMA SoundBefore ==
  ASSUME RegisterSound
  PROVE  /\ RegisterOK(property, spaces, errand, ceiling)
         /\ PlanOK(property) /\ spaces \in Seq(SpaceRows) /\ ceiling \in Int
         /\ \A c \in Clients : ErrandOK(errand[c]) /\ Prepared(property, spaces, errand[c])
         /\ Bounded(property) => property.declared <= ceiling
BY DEF RegisterSound, RegisterOK, RoomOK

\* A request that reads, moves on or fails.
LEMMA Moved ==
  ASSUME RegisterSound, NEW c \in Clients, NEW next, Strata!Become(c, next), UNCHANGED <<property, spaces, ceiling>>,
         ErrandOK(next), Prepared(property, spaces, next),
         Bounded(property) => \/ Holding(next, ceiling) <= Holding(errand[c], ceiling)
                              \/ Strata!TotalOf(spaces) + Holding(next, ceiling) <= ceiling
  PROVE  RegisterSound'
<1>1. RegisterOK(property, spaces, [errand EXCEPT ![c] = next], ceiling)
  BY SoundBefore, ErrandMoves
<1>2. errand' = [errand EXCEPT ![c] = next] /\ property' = property /\ spaces' = spaces /\ ceiling' = ceiling
  BY DEF Strata!Become
<1>3. RegisterOK(property', spaces', errand', ceiling')
  BY <1>1, <1>2
<1> QED
  BY <1>3, SoundAfter

\* Nothing is held before room is looked for.
LEMMA HoldsNothing ==
  ASSUME NEW j, j.op \notin {"FITS", "LOOKED"}, NEW top
  PROVE  Holding(j, top) = 0
BY DEF Holding

LEMMA NothingPrepared ==
  ASSUME NEW j, j.op \notin {"ACTIVATE", "ASK", "LOOKED", "FITS"}, NEW p, NEW list
  PROVE  Prepared(p, list, j)
BY DEF Prepared, Asking, Looking

LEMMA MovedFreely ==
  ASSUME RegisterSound, NEW c \in Clients, NEW next, Strata!Become(c, next), UNCHANGED <<property, spaces, ceiling>>,
         ErrandOK(next), Prepared(property, spaces, next), Holding(next, ceiling) = 0
  PROVE  RegisterSound'
<1>1. Holding(errand[c], ceiling) \in 0 .. MaxNew
  BY SoundBefore, HoldingType
<1>2. Holding(next, ceiling) <= Holding(errand[c], ceiling)
  BY <1>1
<1> QED
  BY <1>2, Moved

\* A request that writes.
LEMMA Wrote ==
  ASSUME RegisterSound, NEW c \in Clients, Strata!Done(c), PlanOK(property'), spaces' \in Seq(SpaceRows),
         ceiling' \in Int,
         Bounded(property') =>
           /\ property'.declared <= ceiling'
           /\ \/ Strata!TotalOf(spaces') <= ceiling'
              \/ /\ ceiling' = ceiling /\ Bounded(property)
                 /\ Strata!TotalOf(spaces') <= Strata!TotalOf(spaces) + Holding(errand[c], ceiling)
  PROVE  RegisterSound'
<1>1. errand' = [d \in Clients |-> IF d = c THEN Strata!Idle ELSE Faded(errand[d])]
  BY DEF Strata!Done, Faded
<1>2. PICK q, new, most, after : q = property' /\ new = spaces' /\ most = ceiling' /\ after = errand'
  OBVIOUS
<1>3. RegisterOK(property, spaces, errand, ceiling)
  BY SoundBefore
<1>4. PlanOK(q) /\ new \in Seq(SpaceRows) /\ most \in Int
  BY <1>2
<1>5. after = [d \in Clients |-> IF d = c THEN Strata!Idle ELSE Faded(errand[d])]
  BY <1>1, <1>2
<1>6. Bounded(q) => /\ q.declared <= most
                    /\ \/ Strata!TotalOf(new) <= most
                       \/ /\ most = ceiling /\ Bounded(property)
                          /\ Strata!TotalOf(new) <= Strata!TotalOf(spaces) + Holding(errand[c], ceiling)
  BY <1>2
<1>7. RegisterOK(q, new, after, most)
  BY <1>3, <1>4, <1>5, <1>6, RegisterWritten
<1> QED
  BY <1>2, <1>7, SoundAfter

\* A ceiling that is raised as far as needed is enough.
LEMMA WroteRaised ==
  ASSUME RegisterSound, NEW c \in Clients, Strata!Done(c), PlanOK(property'), spaces' \in Seq(SpaceRows),
         ceiling' = Strata!Allowed(property', spaces')
  PROVE  RegisterSound'
<1>1. PICK q, new : q = property' /\ new = spaces'
  OBVIOUS
<1>2. PlanOK(q) /\ new \in Seq(SpaceRows) /\ ceiling' = Strata!Allowed(q, new)
  BY <1>1
<1>3. /\ Strata!Allowed(q, new) \in Int
      /\ Bounded(q) => q.declared <= Strata!Allowed(q, new) /\ Strata!TotalOf(new) <= Strata!Allowed(q, new)
  BY <1>2, Raised
<1>4. /\ ceiling' \in Int
      /\ Bounded(property') => property'.declared <= ceiling' /\ Strata!TotalOf(spaces') <= ceiling'
  BY <1>1, <1>2, <1>3
<1> QED
  BY <1>4, Wrote

-----------------------------------------------------------------------------
LEMMA PlanRead ==
  ASSUME RegisterSound, NEW c \in Clients, Strata!ReadPlan(c)
  PROVE  RegisterSound'
<1>1. \E fields : FieldsOK(fields) /\ Strata!Write(c, fields)
  <2>1. CASE Strata!Enable(c)
    <3>1. PICK edit \in PlanEdits :
            Strata!Write(c, [f \in {"status", "managed"} \cup DOMAIN edit |->
                   CASE f = "status" -> IF Strata!Enabled THEN property.status ELSE "SETUP_IN_PROGRESS"
                     [] f = "managed" -> TRUE
                     [] OTHER -> edit[f]])
      BY <2>1 DEF Strata!Enable
    <3> DEFINE fields == [f \in {"status", "managed"} \cup DOMAIN edit |->
                   CASE f = "status" -> IF Strata!Enabled THEN property.status ELSE "SETUP_IN_PROGRESS"
                     [] f = "managed" -> TRUE
                     [] OTHER -> edit[f]]
    <3>2. /\ DOMAIN fields = {"status", "managed"} \cup DOMAIN edit
          /\ fields.status \in {property.status, "SETUP_IN_PROGRESS"}
          /\ "declared" \in DOMAIN edit => fields.declared = edit.declared
      OBVIOUS
    <3>3. property.status \in Statuses /\ ("declared" \in DOMAIN edit => edit.declared \in Declarable)
      BY SoundBefore, StrataAssumption DEF PlanOK, Declarable
    <3>4. FieldsOK(fields)
      <4> HIDE DEF fields
      <4> QED
        BY <3>2, <3>3 DEF FieldsOK, Statuses
    <3> QED
      BY <3>1, <3>4
  <2>2. CASE Strata!UpdatePlan(c)
    <3>1. PICK edit \in PlanEdits : Strata!Write(c, edit)
      BY <2>2 DEF Strata!UpdatePlan
    <3>2. FieldsOK(edit)
      BY StrataAssumption DEF FieldsOK, Declarable
    <3> QED
      BY <3>1, <3>2
  <2>3. CASE Strata!SetManaged(c)
    <3>1. PICK desired \in BOOLEAN :
            Strata!Write(c, [managed |-> desired,
                             status |-> IF ~desired THEN "NOT_ENABLED"
                                        ELSE IF Strata!Enabled THEN property.status ELSE "SETUP_IN_PROGRESS"])
      BY <2>3 DEF Strata!SetManaged
    <3>2. property.status \in Statuses
      BY SoundBefore DEF PlanOK
    <3>3. FieldsOK([managed |-> desired,
                    status |-> IF ~desired THEN "NOT_ENABLED"
                               ELSE IF Strata!Enabled THEN property.status ELSE "SETUP_IN_PROGRESS"])
      BY <3>2 DEF FieldsOK, Statuses
    <3> QED
      BY <3>1, <3>3
  <2> QED
    BY <2>1, <2>2, <2>3 DEF Strata!ReadPlan
<1>2. PICK fields : FieldsOK(fields) /\ Strata!Write(c, fields)
  BY <1>1
<1> DEFINE next == [op |-> "PLAN", fields |-> fields]
<1>3. Strata!Become(c, next) /\ UNCHANGED <<property, spaces, ceiling>>
  BY <1>2 DEF Strata!Write, Strata!ReadPlan
<1>4. ErrandOK(next) /\ Prepared(property, spaces, next) /\ Holding(next, ceiling) = 0
  BY <1>2 DEF ErrandOK, Prepared, Holding, Asking, Looking
<1> HIDE DEF next
<1> QED
  BY <1>3, <1>4, MovedFreely

LEMMA PlanWritten ==
  ASSUME RegisterSound, NEW c \in Clients, Strata!WritePlan(c)
  PROVE  RegisterSound'
<1>1. /\ errand[c].op = "PLAN" /\ property' = Strata!Sent(property, errand[c].fields)
      /\ Strata!Done(c) /\ spaces' = spaces
  BY DEF Strata!WritePlan
<1>2. /\ FieldsOK(errand[c].fields) /\ PlanOK(property) /\ spaces \in Seq(SpaceRows) /\ ceiling \in Int
      /\ Bounded(property) => property.declared <= ceiling
  <2>1. PICK j : j = errand[c]
    OBVIOUS
  <2>2. ErrandOK(j) /\ j.op = "PLAN"
    BY <1>1, <2>1, SoundBefore
  <2>3. FieldsOK(j.fields)
    BY <2>2 DEF ErrandOK, Asking, Looking
  <2> QED
    BY <2>1, <2>3, SoundBefore
<1>3. PlanOK(property') /\ spaces' \in Seq(SpaceRows)
  <2>1. PICK g : g = errand[c].fields
    OBVIOUS
  <2>2. FieldsOK(g) /\ property' = Strata!Sent(property, g)
    BY <1>1, <1>2, <2>1
  <2> QED
    BY <1>1, <1>2, <2>2 DEF PlanOK, FieldsOK, Strata!Sent
<1>4. CASE property'.status = property.status /\ property'.declared = property.declared
  <2>1. ceiling' = ceiling
    BY <1>4 DEF Strata!WritePlan
  <2>2. Holding(errand[c], ceiling) = 0
    BY <1>1, HoldsNothing
  <2>3. Strata!TotalOf(spaces') = Strata!TotalOf(spaces) /\ Strata!TotalOf(spaces) \in Int
    BY <1>1, <1>2, TotalIsWeights
  <2>4. Bounded(property') =>
          /\ property'.declared <= ceiling' /\ ceiling' = ceiling /\ Bounded(property)
          /\ Strata!TotalOf(spaces') <= Strata!TotalOf(spaces) + Holding(errand[c], ceiling)
    BY <1>2, <1>4, <2>1, <2>2, <2>3 DEF Bounded
  <2> QED
    BY <1>1, <1>2, <1>3, <2>1, <2>4, Wrote
<1>5. CASE ~(property'.status = property.status /\ property'.declared = property.declared)
  <2>1. ceiling' = Strata!Allowed(property', spaces')
    BY <1>1, <1>5 DEF Strata!WritePlan
  <2> QED
    BY <1>1, <1>3, <2>1, WroteRaised
<1> QED
  BY <1>4, <1>5

LEMMA SetupSteps ==
  ASSUME RegisterSound, NEW c \in Clients, Strata!ReadSetup(c) \/ Strata!CompareSummary(c) \/ Strata!Fail(c)
  PROVE  RegisterSound'
<1>1. PICK next : /\ Strata!Become(c, next) /\ UNCHANGED <<property, spaces, ceiling>>
                  /\ ErrandOK(next) /\ Prepared(property, spaces, next) /\ Holding(next, ceiling) = 0
  <2>1. CASE Strata!ReadSetup(c)
    <3>1. Strata!Become(c, [op |-> "SUMMARISE"]) /\ UNCHANGED <<property, spaces, ceiling>>
      BY <2>1 DEF Strata!ReadSetup
    <3>2. ErrandOK([op |-> "SUMMARISE"])
      BY DEF ErrandOK
    <3> QED
      BY <3>1, <3>2, NothingPrepared, HoldsNothing
  <2>2. CASE Strata!CompareSummary(c)
    <3>1. /\ Strata!Become(c, [op |-> "ACTIVATE", fresh |-> TRUE]) /\ UNCHANGED <<property, spaces, ceiling>>
          /\ Strata!Remaining(spaces, property.declared) \in {0, Nil}
      BY <2>2 DEF Strata!CompareSummary, Strata!Summary
    <3> DEFINE next == [op |-> "ACTIVATE", fresh |-> TRUE]
    <3>2. next.op = "ACTIVATE" /\ next \in [op : {"ACTIVATE"}, fresh : BOOLEAN] /\ next \notin Asking \cup Looking
      BY DEF Asking, Looking
    <3> HIDE DEF next
    <3>3. Strata!Become(c, next)
      BY <3>1 DEF next
    <3>4. ErrandOK(next) /\ Prepared(property, spaces, next) /\ Holding(next, ceiling) = 0
      BY <3>1, <3>2 DEF ErrandOK, Prepared, Holding
    <3> QED
      BY <3>1, <3>3, <3>4
  <2>3. CASE Strata!Fail(c)
    <3>1. Strata!Become(c, Strata!Idle) /\ UNCHANGED <<property, spaces, ceiling>>
      BY <2>3 DEF Strata!Fail
    <3>2. ErrandOK(Strata!Idle) /\ Strata!Idle.op = "IDLE"
      BY DEF ErrandOK, Strata!Idle
    <3> QED
      BY <3>1, <3>2, NothingPrepared, HoldsNothing
  <2> QED
    BY <2>1, <2>2, <2>3
<1> QED
  BY <1>1, MovedFreely

LEMMA SetupCompleted ==
  ASSUME RegisterSound, NEW c \in Clients, Strata!CompleteSetup(c)
  PROVE  RegisterSound'
<1>1. /\ errand[c].op = "ACTIVATE" /\ property' = [property EXCEPT !.status = "ACTIVE"]
      /\ Strata!Done(c) /\ spaces' = spaces
  BY DEF Strata!CompleteSetup
<1>2. /\ PlanOK(property) /\ spaces \in Seq(SpaceRows) /\ ceiling \in Int
      /\ Bounded(property) => property.declared <= ceiling
      /\ errand[c] \in [op : {"ACTIVATE"}, fresh : BOOLEAN]
      /\ errand[c].fresh => Strata!Remaining(spaces, property.declared) \in {0, Nil}
  <2>1. errand[c] \in [op : {"ACTIVATE"}, fresh : BOOLEAN] /\ Prepared(property, spaces, errand[c])
    <3>1. PICK j : j = errand[c]
      OBVIOUS
    <3>2. ErrandOK(j) /\ j.op = "ACTIVATE"
      BY <1>1, <3>1, SoundBefore
    <3>3. j \in [op : {"ACTIVATE"}, fresh : BOOLEAN]
      BY <3>2 DEF ErrandOK, Asking, Looking
    <3> QED
      BY <3>1, <3>3, SoundBefore
  <2>2. errand[c].fresh => errand[c] \in [op : {"ACTIVATE"}, fresh : {TRUE}]
    BY <2>1
  <2> QED
    BY <2>1, <2>2, SoundBefore DEF Prepared
<1>3. /\ PlanOK(property') /\ spaces' \in Seq(SpaceRows)
      /\ property'.declared = property.declared /\ property'.status = "ACTIVE"
  BY <1>1, <1>2 DEF PlanOK, Statuses
<1>4. Strata!TotalOf(spaces') = Strata!TotalOf(spaces) /\ Strata!TotalOf(spaces) \in Int
  BY <1>1, <1>2, TotalIsWeights
<1>5. CASE property.status = "ACTIVE"
  <2>1. ceiling' = ceiling
    BY <1>5 DEF Strata!CompleteSetup, Strata!ActiveScheme
  <2>2. Holding(errand[c], ceiling) = 0
    BY <1>1, HoldsNothing
  <2>3. Bounded(property') =>
          /\ property'.declared <= ceiling' /\ ceiling' = ceiling /\ Bounded(property)
          /\ Strata!TotalOf(spaces') <= Strata!TotalOf(spaces) + Holding(errand[c], ceiling)
    BY <1>2, <1>3, <1>4, <1>5, <2>1, <2>2 DEF Bounded
  <2> QED
    BY <1>1, <1>2, <1>3, <2>1, <2>3, Wrote
<1>6. CASE property.status # "ACTIVE" /\ errand[c].fresh /\ property.declared # Nil
  <2>1. ceiling' = property.declared
    BY <1>6 DEF Strata!CompleteSetup, Strata!ActiveScheme
  <2>2. property.declared \in Int
    BY <1>2, <1>6 DEF PlanOK, Declarable
  <2>3. property.declared - Strata!TotalOf(spaces) \in {0, Nil}
    BY <1>2, <1>6 DEF Strata!Remaining
  <2>4. Nil \notin Int
    BY StrataAssumption
  <2>5. Strata!TotalOf(spaces) = property.declared
    BY <1>4, <2>2, <2>3, <2>4
  <2>6. property'.declared <= ceiling' /\ Strata!TotalOf(spaces') <= ceiling' /\ ceiling' \in Int
    BY <1>3, <1>4, <2>1, <2>2, <2>5
  <2> QED
    BY <1>1, <1>3, <2>6, Wrote
<1>7. CASE property.status # "ACTIVE" /\ ~(errand[c].fresh /\ property.declared # Nil)
  <2>1. ceiling' = Strata!Allowed(property', spaces')
    BY <1>1, <1>7 DEF Strata!CompleteSetup, Strata!ActiveScheme
  <2> QED
    BY <1>1, <1>3, <2>1, WroteRaised
<1> QED
  BY <1>5, <1>6, <1>7

-----------------------------------------------------------------------------
\* Spaces some of which become lots with what is asked for them, and others
\* cease to count.
LEMMA MadeLots ==
  ASSUME NEW list \in Seq(SpaceRows), NEW new \in Seq(SpaceRows), DOMAIN new = DOMAIN list,
         NEW given, NEW T \in SUBSET DOMAIN list, \A s \in T : given[s] \in Nat /\ Weigh(new[s]) = given[s],
         \A s \in DOMAIN list \ T : new[s] = list[s] \/ Weigh(new[s]) = 0
  PROVE  Strata!TotalOf(new) <= Strata!TotalOf(list) + SumOver(given, T)
<1> DEFINE asked == Asked(list, given, T)
<1>1. (\A s \in DOMAIN list : asked[s] \in Nat) /\ SumOver(asked, DOMAIN list) = SumOver(given, T)
  BY AskedSum
<1>2. \A s \in DOMAIN list : Weigh(new[s]) <= Weigh(list[s]) + asked[s]
  <2> TAKE s \in DOMAIN list
  <2>1. Weigh(list[s]) \in Nat /\ Weigh(new[s]) \in Nat
    BY RowsTyped
  <2>2. (s \in T => asked[s] = given[s]) /\ (s \notin T => asked[s] = 0)
    BY DEF Asked
  <2> HIDE DEF asked
  <2> QED
    BY <2>1, <2>2
<1> HIDE DEF asked
<1>3. Strata!TotalOf(new) <= Strata!TotalOf(list) + SumOver(asked, DOMAIN list)
  BY <1>1, <1>2, Replaced
<1> QED
  BY <1>1, <1>3

\* A request that asks for what is new.
LEMMA AskedFor ==
  ASSUME RegisterSound, NEW c \in Clients, UNCHANGED <<property, spaces, ceiling>>,
         NEW put \in Puts, NEW add \in Adds, NEW new \in Nat, NEW edit \in BOOLEAN, Strata!Ask(c, put, add, new, edit),
         ~edit => Strata!TotalOf(Kept(spaces, put)) + Strata!TotalOf(add) <= Strata!TotalOf(spaces) + new
  PROVE  RegisterSound'
<1> DEFINE next == [op |-> IF new > 0 THEN "ASK" ELSE "FITS", put |-> put, add |-> add, new |-> new,
                    edit |-> edit, total |-> Nil, fresh |-> TRUE]
<1>1. new <= MaxNew /\ Strata!Become(c, next)
  BY DEF Strata!Ask
<1>2. next \in Asking /\ next.op \in {"ASK", "FITS"}
  BY <1>1, StrataAssumption DEF Asking
<1>3. next.put = put /\ next.add = add /\ next.new = new /\ next.edit = edit /\ (next.op = "FITS" => new = 0)
  OBVIOUS
<1> HIDE DEF next
<1>4. next \notin [op : {"ACTIVATE"}, fresh : {TRUE}]
  BY <1>2
<1>5. Strata!TotalOf(Changed(spaces, put, add)) = Strata!TotalOf(Kept(spaces, put)) + Strata!TotalOf(add)
  BY SoundBefore, ChangedTyped
<1>6. ErrandOK(next) /\ Prepared(property, spaces, next) /\ Holding(next, ceiling) = 0
  BY <1>2, <1>3, <1>4, <1>5 DEF ErrandOK, Prepared, Holding
<1> QED
  BY <1>1, <1>6, MovedFreely

LEMMA BulkRead ==
  ASSUME RegisterSound, NEW c \in Clients, Strata!BulkSetLots(c), UNCHANGED <<property, spaces, ceiling>>
  PROVE  RegisterSound'
<1>1. PICK S \in SUBSET DOMAIN spaces : \E given \in [S -> Units], add \in {<<>>} \cup {<<Strata!Lot(u)>> : u \in Units} :
        Strata!Ask(c, [s \in S |-> Strata!Lot(given[s])], add,
                   Strata!SumOver(given, S \ Strata!Lots) + Strata!TotalOf(add), S \cap Strata!Lots # {})
  BY Zenon DEF Strata!BulkSetLots
<1>2. PICK given \in [S -> Units], add \in {<<>>} \cup {<<Strata!Lot(u)>> : u \in Units} :
        Strata!Ask(c, [s \in S |-> Strata!Lot(given[s])], add,
                   Strata!SumOver(given, S \ Strata!Lots) + Strata!TotalOf(add), S \cap Strata!Lots # {})
  BY <1>1
<1> DEFINE put == [s \in S |-> Strata!Lot(given[s])]
           T == S \ Strata!Lots
           kept == Kept(spaces, put)
           new == SumOver(given, T) + Strata!TotalOf(add)
           edit == S \cap Strata!Lots # {}
<1>3. /\ spaces \in Seq(SpaceRows) /\ S \in SUBSET Nat /\ T \in SUBSET DOMAIN spaces
      /\ \A s \in S : given[s] \in Nat /\ given[s] \in Units
  <2>1. spaces \in Seq(SpaceRows) /\ Units \subseteq Nat
    BY SoundBefore, StrataAssumption
  <2>2. DOMAIN spaces = 1 .. Len(spaces) /\ Len(spaces) \in Nat
    BY <2>1, RowsTyped
  <2>3. S \in SUBSET Nat
    BY <2>2
  <2>4. \A s \in S : given[s] \in Nat /\ given[s] \in Units
    BY <2>1
  <2> QED
    BY <2>1, <2>3, <2>4
<1>4. put \in Puts
  <2>1. put \in [S -> Sendings]
    BY <1>3, NewRows DEF Sendings
  <2> HIDE DEF put
  <2> QED
    BY <1>3, <2>1, PutMade
<1>5. add \in Adds
  BY NewRows DEF Adds
<1>6. SumOver(given, T) \in Nat /\ Strata!TotalOf(add) \in Nat /\ Strata!TotalOf(spaces) \in Int
  <2>1. \A s \in T : given[s] \in Nat
    BY <1>3
  <2> HIDE DEF T
  <2> QED
    BY <1>3, <1>5, <2>1, AskedSum, TotalOfAdds, TotalIsWeights
<1>7. kept \in Seq(SpaceRows) /\ DOMAIN kept = DOMAIN spaces /\ Strata!TotalOf(kept) \in Int
  <2> HIDE DEF put
  <2> QED
    BY <1>3, <1>4, KeptTyped, TotalIsWeights
<1>8. ~edit => Strata!TotalOf(kept) + Strata!TotalOf(add) <= Strata!TotalOf(spaces) + new
  <2> SUFFICES ASSUME ~edit PROVE Strata!TotalOf(kept) + Strata!TotalOf(add) <= Strata!TotalOf(spaces) + new
    OBVIOUS
  <2>1. T = S
    OBVIOUS
  <2>2. \A s \in S : kept[s] = Strata!Lot(given[s])
    <3>1. \A s \in S : spaces[s] \in SpaceRows /\ put[s] = Strata!Lot(given[s]) /\ Strata!Lot(given[s]) \in SpaceRows
      BY <1>3, NewRows, RowsTyped
    <3>2. \A s \in S : Strata!Sent(spaces[s], put[s]) = Strata!Lot(given[s])
      BY <3>1, SentTyped DEF Sendings
    <3> QED
      BY <3>2 DEF Kept
  <2>3. \A s \in S : given[s] \in Nat /\ Weigh(kept[s]) = given[s]
    <3> HIDE DEF kept
    <3> QED
      BY <1>3, <2>2, NewRows
  <2>4. \A s \in DOMAIN spaces \ S : kept[s] = spaces[s] \/ Weigh(kept[s]) = 0
    BY DEF Kept
  <2> HIDE DEF kept, T
  <2>5. Strata!TotalOf(kept) <= Strata!TotalOf(spaces) + SumOver(given, S)
    BY <1>3, <1>7, <2>3, <2>4, MadeLots
  <2> QED
    BY <1>6, <1>7, <2>1, <2>5
<1>9. Strata!Ask(c, put, add, new, edit)
  BY <1>2 DEF Strata!SumOver, SumOver
<1>10. new \in Nat /\ edit \in BOOLEAN
  BY <1>6
<1> HIDE DEF put, new, edit, kept
<1>11. ~edit => Strata!TotalOf(Kept(spaces, put)) + Strata!TotalOf(add) <= Strata!TotalOf(spaces) + new
  BY <1>8 DEF kept
<1> QED
  BY <1>4, <1>5, <1>9, <1>10, <1>11, AskedFor

LEMMA ClassifyRead ==
  ASSUME RegisterSound, NEW c \in Clients, Strata!ClassifySpaces(c), UNCHANGED <<property, spaces, ceiling>>
  PROVE  RegisterSound'
<1>1. PICK S \in SUBSET DOMAIN spaces : \E given \in [S -> Units \cup {Nil}] :
        LET asLot == {s \in S : given[s] # Nil} IN
        Strata!Ask(c, [s \in S |-> IF s \in asLot THEN Strata!Lot(given[s]) ELSE Strata!CommonProperty], <<>>,
                   Strata!SumOver(given, asLot \ Strata!Lots), asLot \cap Strata!Lots # {})
  BY Zenon DEF Strata!ClassifySpaces
<1>2. PICK given \in [S -> Units \cup {Nil}] :
        LET asLot == {s \in S : given[s] # Nil} IN
        Strata!Ask(c, [s \in S |-> IF s \in asLot THEN Strata!Lot(given[s]) ELSE Strata!CommonProperty], <<>>,
                   Strata!SumOver(given, asLot \ Strata!Lots), asLot \cap Strata!Lots # {})
  BY <1>1
<1> DEFINE asLot == {s \in S : given[s] # Nil}
           put == [s \in S |-> IF s \in asLot THEN Strata!Lot(given[s]) ELSE Strata!CommonProperty]
           T == asLot \ Strata!Lots
           kept == Kept(spaces, put)
           new == SumOver(given, T)
           edit == asLot \cap Strata!Lots # {}
<1>3. /\ spaces \in Seq(SpaceRows) /\ S \in SUBSET Nat /\ S \in SUBSET DOMAIN spaces
      /\ asLot \in SUBSET S /\ asLot \in SUBSET DOMAIN spaces /\ T \in SUBSET DOMAIN spaces
      /\ \A s \in asLot : given[s] \in Nat /\ given[s] \in Units
  <2>1. spaces \in Seq(SpaceRows) /\ Units \subseteq Nat
    BY SoundBefore, StrataAssumption
  <2>2. DOMAIN spaces = 1 .. Len(spaces) /\ Len(spaces) \in Nat
    BY <2>1, RowsTyped
  <2>3. S \in SUBSET Nat
    BY <2>2
  <2>4. \A s \in asLot : s \in S /\ given[s] \in Units /\ given[s] \in Nat
    BY <2>1
  <2> QED
    BY <2>1, <2>3, <2>4
<1>4. put \in Puts
  <2>1. put \in [S -> Sendings]
    <3> HIDE DEF asLot
    <3> QED
      BY <1>3, NewRows DEF Sendings
  <2> HIDE DEF put
  <2> QED
    BY <1>3, <2>1, PutMade
<1>5. <<>> \in Adds
  BY DEF Adds
<1>6. new \in Nat /\ Strata!TotalOf(<<>>) = 0 /\ Strata!TotalOf(spaces) \in Int
  <2>1. \A s \in T : given[s] \in Nat
    BY <1>3
  <2>2. Strata!TotalOf(spaces \o <<>>) = Strata!TotalOf(spaces) + Strata!TotalOf(<<>>)
        /\ Strata!TotalOf(<<>>) \in Nat /\ Strata!TotalOf(spaces) \in Int
    BY <1>3, <1>5, TotalOfAdds, TotalIsWeights
  <2>3. spaces \o <<>> = spaces
    BY <1>3
  <2> HIDE DEF T
  <2> QED
    BY <1>3, <2>1, <2>2, <2>3, AskedSum
<1>7. kept \in Seq(SpaceRows) /\ DOMAIN kept = DOMAIN spaces /\ Strata!TotalOf(kept) \in Int
  <2> HIDE DEF put
  <2> QED
    BY <1>3, <1>4, KeptTyped, TotalIsWeights
<1>8. ~edit => Strata!TotalOf(kept) + Strata!TotalOf(<<>>) <= Strata!TotalOf(spaces) + new
  <2> SUFFICES ASSUME ~edit PROVE Strata!TotalOf(kept) + Strata!TotalOf(<<>>) <= Strata!TotalOf(spaces) + new
    OBVIOUS
  <2>1. T = asLot
    OBVIOUS
  <2>2. /\ \A s \in asLot : kept[s] = Strata!Lot(given[s])
        /\ \A s \in S \ asLot : kept[s] = Strata!CommonProperty
    <3> HIDE DEF asLot
    <3>1. \A s \in S : spaces[s] \in SpaceRows /\ put[s] \in SpaceRows
      BY <1>3, NewRows, RowsTyped
    <3>2. \A s \in S : Strata!Sent(spaces[s], put[s]) = put[s]
      <4> HIDE DEF put
      <4> QED
        BY <3>1, SentTyped DEF Sendings
    <3> QED
      BY <1>3, <3>2 DEF Kept
  <2>3. \A s \in asLot : given[s] \in Nat /\ Weigh(kept[s]) = given[s]
    <3> HIDE DEF kept, asLot
    <3> QED
      BY <1>3, <2>2, NewRows
  <2>4. \A s \in DOMAIN spaces \ asLot : kept[s] = spaces[s] \/ Weigh(kept[s]) = 0
    <3>1. \A s \in DOMAIN spaces \ S : kept[s] = spaces[s]
      BY DEF Kept
    <3>2. \A s \in S \ asLot : Weigh(kept[s]) = 0
      <4> HIDE DEF kept, asLot
      <4> QED
        BY <2>2, NewRows
    <3> HIDE DEF kept, asLot
    <3> QED
      BY <1>3, <3>1, <3>2
  <2> HIDE DEF kept, asLot
  <2>5. Strata!TotalOf(kept) <= Strata!TotalOf(spaces) + SumOver(given, asLot)
    BY <1>3, <1>7, <2>3, <2>4, MadeLots
  <2> HIDE DEF T
  <2> QED
    BY <1>6, <1>7, <2>1, <2>5
<1>9. Strata!Ask(c, put, <<>>, new, edit)
  BY <1>2 DEF Strata!SumOver, SumOver
<1>10. edit \in BOOLEAN
  OBVIOUS
<1> HIDE DEF put, new, edit, kept
<1>11. ~edit => Strata!TotalOf(Kept(spaces, put)) + Strata!TotalOf(<<>>) <= Strata!TotalOf(spaces) + new
  BY <1>8 DEF kept
<1> QED
  BY <1>4, <1>5, <1>6, <1>9, <1>10, <1>11, AskedFor

LEMMA ResolveType ==
  ASSUME NEW current \in SpaceClasses, NEW class \in Strata!Classes, NEW flag \in BOOLEAN \cup {Nil}
  PROVE  Strata!Resolve(current, class, flag) \in SpaceClasses
<1>1. CASE class # Nil
  BY <1>1 DEF Strata!Resolve, Strata!Classes, SpaceClasses
<1>2. CASE class = Nil /\ flag = TRUE
  BY <1>2 DEF Strata!Resolve, SpaceClasses
<1>3. CASE class = Nil /\ flag # TRUE /\ flag = FALSE /\ current = "LOT"
  BY <1>3 DEF Strata!Resolve, SpaceClasses
<1>4. CASE class = Nil /\ flag # TRUE /\ ~(flag = FALSE /\ current = "LOT")
  BY <1>4 DEF Strata!Resolve
<1> QED
  BY <1>1, <1>2, <1>3, <1>4

LEMMA CreateRead ==
  ASSUME RegisterSound, NEW c \in Clients, Strata!CreateSpace(c), UNCHANGED <<property, spaces, ceiling>>
  PROVE  RegisterSound'
<1>1. PICK class \in Strata!Classes, flag \in BOOLEAN, uoe \in Units \cup {Nil} :
        LET add == <<[class |-> Strata!Resolve("UNCLASSIFIED", class, flag), uoe |-> uoe]>> IN
        Strata!Ask(c, Strata!NoPut, add, Strata!TotalOf(add), FALSE)
  BY DEF Strata!CreateSpace
<1> DEFINE becomes == Strata!Resolve("UNCLASSIFIED", class, flag)
           add == <<[class |-> becomes, uoe |-> uoe]>>
<1>2. becomes \in SpaceClasses
  BY ResolveType DEF SpaceClasses
<1> HIDE DEF becomes
<1>3. add \in Adds
  BY <1>2 DEF Adds, SpaceRows
<1>4. Strata!Ask(c, Strata!NoPut, add, Strata!TotalOf(add), FALSE)
  BY <1>1 DEF becomes
<1> HIDE DEF add
<1>5. spaces \in Seq(SpaceRows)
  BY SoundBefore
<1>6. Strata!TotalOf(add) \in Nat
  BY <1>3, <1>5, TotalOfAdds
<1>7. Strata!NoPut \in Puts /\ DOMAIN Strata!NoPut = {}
  <2>1. Strata!NoPut \in [{} -> Sendings] /\ DOMAIN Strata!NoPut = {} /\ {} \in SUBSET Nat
    BY DEF Strata!NoPut
  <2> QED
    BY <2>1, PutMade
<1>8. Strata!TotalOf(Kept(spaces, Strata!NoPut)) + Strata!TotalOf(add) <= Strata!TotalOf(spaces) + Strata!TotalOf(add)
  <2>1. Kept(spaces, Strata!NoPut) = spaces
    BY <1>5, <1>7 DEF Kept
  <2>2. Strata!TotalOf(spaces) \in Int
    BY <1>5, TotalIsWeights
  <2> QED
    BY <1>6, <2>1, <2>2
<1> QED
  BY <1>3, <1>4, <1>6, <1>7, <1>8, AskedFor

LEMMA UpdateRead ==
  ASSUME RegisterSound, NEW c \in Clients, Strata!UpdateSpace(c), UNCHANGED <<property, spaces, ceiling>>
  PROVE  RegisterSound'
<1>1. PICK s \in DOMAIN spaces, class \in Strata!Classes, flag \in BOOLEAN \cup {Nil}, given \in Units \cup {Nil} :
        LET becomes == Strata!Resolve(spaces[s].class, class, flag)
            space == [class |-> becomes, uoe |-> IF given = Nil THEN spaces[s].uoe ELSE given]
            sent == IF given = Nil THEN [class |-> becomes] ELSE space
            touched == class # Nil \/ flag # Nil \/ given # Nil
        IN /\ Strata!Acceptable(class, IF flag = Nil /\ touched THEN s \in Strata!Lots ELSE flag, space.uoe)
           /\ Strata!Ask(c, [x \in {s} |-> sent], <<>>,
                         IF becomes = "LOT" /\ s \notin Strata!Lots THEN Strata!Uoe(space) ELSE 0,
                         becomes = "LOT" /\ s \in Strata!Lots)
  BY Zenon DEF Strata!UpdateSpace
<1> DEFINE becomes == Strata!Resolve(spaces[s].class, class, flag)
           space == [class |-> becomes, uoe |-> IF given = Nil THEN spaces[s].uoe ELSE given]
           sent == IF given = Nil THEN [class |-> becomes] ELSE space
           put == [x \in {s} |-> sent]
           new == IF becomes = "LOT" /\ s \notin Strata!Lots THEN Strata!Uoe(space) ELSE 0
           edit == becomes = "LOT" /\ s \in Strata!Lots
           kept == Kept(spaces, put)
<1>2. Strata!Ask(c, put, <<>>, new, edit)
  BY <1>1, Zenon
<1>3. spaces \in Seq(SpaceRows) /\ s \in Nat /\ spaces[s] \in SpaceRows
  <2>1. spaces \in Seq(SpaceRows)
    BY SoundBefore
  <2> QED
    BY <2>1, RowsTyped
<1>4. becomes \in SpaceClasses
  BY <1>3, ResolveType DEF SpaceRows
<1>5. space \in SpaceRows /\ sent \in Sendings /\ Strata!Sent(spaces[s], sent) = space
      /\ space.class = becomes
  <2> HIDE DEF becomes
  <2>1. space \in SpaceRows /\ space.class = becomes
    BY <1>3, <1>4 DEF SpaceRows
  <2>2. CASE given = Nil
    <3>1. sent = [class |-> becomes] /\ space = [class |-> becomes, uoe |-> spaces[s].uoe]
      BY <2>2
    <3>2. sent \in [class : SpaceClasses] /\ sent \in Sendings /\ sent.class = becomes
      BY <1>4, <3>1 DEF Sendings
    <3> HIDE DEF sent, space
    <3> QED
      BY <1>3, <2>1, <3>1, <3>2, SentTyped
  <2>3. CASE given # Nil
    <3>1. sent = space
      BY <2>3
    <3> HIDE DEF sent, space
    <3> QED
      BY <1>3, <2>1, <3>1, SentTyped DEF Sendings
  <2> QED
    BY <2>2, <2>3
<1> HIDE DEF becomes, space, sent
<1>6. put \in Puts /\ DOMAIN put = {s} /\ put[s] = sent
  <2>1. put \in [{s} -> Sendings] /\ {s} \in SUBSET Nat
    BY <1>3, <1>5
  <2> HIDE DEF put
  <2>2. put \in Puts
    BY <2>1, PutMade
  <2> QED
    BY <2>1, <2>2 DEF put
<1> HIDE DEF put
<1>7. kept \in Seq(SpaceRows) /\ DOMAIN kept = DOMAIN spaces
  BY <1>3, <1>6, KeptTyped
<1>8. kept[s] = space /\ \A x \in DOMAIN spaces \ {s} : kept[x] = spaces[x]
  BY <1>5, <1>6 DEF Kept
<1>9. Weigh(space) \in Nat /\ (becomes = "LOT" => Weigh(space) = Strata!Uoe(space))
      /\ (becomes # "LOT" => Weigh(space) = 0)
  BY <1>5, StrataAssumption DEF Weigh, Strata!Uoe, SpaceRows
<1>10. new \in Nat
  BY <1>9
<1>11. <<>> \in Adds /\ Strata!TotalOf(<<>>) = 0 /\ Strata!TotalOf(spaces) \in Int /\ Strata!TotalOf(kept) \in Int
  <2>1. <<>> \in Adds
    BY DEF Adds
  <2>2. Strata!TotalOf(spaces \o <<>>) = Strata!TotalOf(spaces) + Strata!TotalOf(<<>>)
        /\ Strata!TotalOf(<<>>) \in Nat /\ Strata!TotalOf(spaces) \in Int
    BY <1>3, <2>1, TotalOfAdds, TotalIsWeights
  <2>3. spaces \o <<>> = spaces
    BY <1>3
  <2>4. Strata!TotalOf(kept) \in Int
    BY <1>7, TotalIsWeights
  <2> QED
    BY <2>1, <2>2, <2>3, <2>4
<1>12. ~edit => Strata!TotalOf(kept) + Strata!TotalOf(<<>>) <= Strata!TotalOf(spaces) + new
  <2> HIDE DEF kept
  <2>1. CASE becomes = "LOT"
    <3> SUFFICES ASSUME s \notin Strata!Lots PROVE Strata!TotalOf(kept) <= Strata!TotalOf(spaces) + new
      BY <1>11, <2>1
    <3> DEFINE gain == [x \in {s} |-> new]
    <3>1. SumOver(gain, {s}) = new
      <4>1. IsFiniteSet({}) /\ s \notin {} /\ \A y \in {} \cup {s} : gain[y] \in Int
        BY <1>10, FS_EmptySet
      <4>2. gain[s] = new /\ {} \cup {s} = {s} /\ new \in Int
        BY <1>10
      <4> HIDE DEF gain, new
      <4>3. SumOver(gain, {} \cup {s}) = SumOver(gain, {}) + gain[s]
        BY <4>1, SumAdd
      <4>4. SumOver(gain, {}) = 0
        BY SumEmpty
      <4> QED
        BY <4>2, <4>3, <4>4
    <3>2. Weigh(kept[s]) = new
      BY <1>8, <1>9, <2>1
    <3>3. /\ {s} \in SUBSET DOMAIN spaces
          /\ \A x \in {s} : gain[x] \in Nat /\ Weigh(kept[x]) = gain[x]
          /\ \A x \in DOMAIN spaces \ {s} : kept[x] = spaces[x] \/ Weigh(kept[x]) = 0
      BY <1>8, <1>10, <3>2
    <3> HIDE DEF gain, new
    <3>4. Strata!TotalOf(kept) <= Strata!TotalOf(spaces) + SumOver(gain, {s})
      BY <1>3, <1>7, <3>3, MadeLots
    <3> QED
      BY <3>1, <3>4
  <2>2. CASE becomes # "LOT"
    <3> DEFINE none == [x \in {} |-> 0]
    <3>1. /\ {} \in SUBSET DOMAIN spaces
          /\ \A x \in {} : none[x] \in Nat /\ Weigh(kept[x]) = none[x]
          /\ \A x \in DOMAIN spaces \ {} : kept[x] = spaces[x] \/ Weigh(kept[x]) = 0
      <4>1. Weigh(kept[s]) = 0
        BY <1>8, <1>9, <2>2
      <4> QED
        BY <1>8, <4>1
    <3> HIDE DEF none
    <3>2. Strata!TotalOf(kept) <= Strata!TotalOf(spaces) + SumOver(none, {})
      BY <1>3, <1>7, <3>1, MadeLots
    <3>3. SumOver(none, {}) = 0 /\ new = 0
      BY <2>2, SumEmpty
    <3> HIDE DEF new
    <3> QED
      BY <1>11, <3>2, <3>3
  <2> QED
    BY <2>1, <2>2
<1>13. edit \in BOOLEAN
  BY DEF becomes
<1> HIDE DEF new, edit, kept
<1>14. ~edit => Strata!TotalOf(Kept(spaces, put)) + Strata!TotalOf(<<>>) <= Strata!TotalOf(spaces) + new
  BY <1>12 DEF kept
<1> QED
  BY <1>2, <1>6, <1>10, <1>11, <1>13, <1>14, AskedFor

LEMMA LookedUp ==
  ASSUME RegisterSound, NEW c \in Clients, Strata!LookUpTotal(c)
  PROVE  RegisterSound'
<1>1. PICK j : j = errand[c]
  OBVIOUS
<1> DEFINE next == IF property.status = "ACTIVE" /\ property.declared # Nil
                   THEN [j EXCEPT !.op = "LOOKED", !.total = property.declared]
                   ELSE [j EXCEPT !.op = "FITS"]
<1>2. Strata!Become(c, next) /\ UNCHANGED <<property, spaces, ceiling>> /\ j.op = "ASK"
  BY <1>1 DEF Strata!LookUpTotal, Strata!ActiveScheme
<1>3. ErrandOK(j) /\ Prepared(property, spaces, j) /\ PlanOK(property)
  BY <1>1, SoundBefore
<1>4. j \in Asking
  BY <1>2, <1>3 DEF ErrandOK, Asking, Looking
<1>5. /\ next.put = j.put /\ next.add = j.add /\ next.new = j.new /\ next.edit = j.edit /\ next.fresh = j.fresh
      /\ next \in Asking \cup Looking
      /\ Bounded(property) => next.op = "LOOKED" /\ next.total = property.declared
  <2>1. CASE Bounded(property)
    <3>1. property.declared \in Nat
      BY <1>3, <2>1 DEF PlanOK, Declarable, Bounded
    <3>2. next = [j EXCEPT !.op = "LOOKED", !.total = property.declared]
      BY <2>1 DEF Bounded
    <3> QED
      BY <1>4, <3>1, <3>2 DEF Asking, Looking
  <2>2. CASE ~Bounded(property)
    <3>1. next = [j EXCEPT !.op = "FITS"]
      BY <2>2 DEF Bounded
    <3> QED
      BY <1>4, <2>2, <3>1 DEF Asking, Looking
  <2> QED
    BY <2>1, <2>2
<1> HIDE DEF next
<1>6. next \notin [op : {"ACTIVATE"}, fresh : {TRUE}]
  BY <1>5 DEF Asking, Looking
<1>7. ErrandOK(next) /\ Prepared(property, spaces, next)
  BY <1>3, <1>4, <1>5, <1>6 DEF ErrandOK, Prepared
<1>8. Bounded(property) => Holding(next, ceiling) <= Holding(errand[c], ceiling)
  <2> SUFFICES ASSUME Bounded(property) PROVE Holding(next, ceiling) <= Holding(errand[c], ceiling)
    OBVIOUS
  <2>1. property.declared <= ceiling /\ ceiling \in Int /\ property.declared \in Int
    BY <1>3, SoundBefore DEF PlanOK, Declarable, Bounded
  <2>2. ~(next.total > ceiling)
    BY <1>5, <2>1
  <2>3. Holding(next, ceiling) = 0
    BY <1>5, <2>2 DEF Holding
  <2>4. Holding(errand[c], ceiling) = 0
    BY <1>1, <1>2, HoldsNothing
  <2> QED
    BY <2>3, <2>4
<1> QED
  BY <1>2, <1>7, <1>8, Moved

LEMMA RoomLookedFor ==
  ASSUME RegisterSound, NEW c \in Clients, Strata!Fits(c)
  PROVE  RegisterSound'
<1>1. PICK j : j = errand[c]
  OBVIOUS
<1> DEFINE next == [j EXCEPT !.op = "FITS", !.total = Nil]
<1>2. /\ Strata!Become(c, IF j.new <= Strata!Remaining(spaces, j.total) THEN next ELSE Strata!Idle)
      /\ UNCHANGED <<property, spaces, ceiling>> /\ j.op = "LOOKED"
  BY <1>1 DEF Strata!Fits
<1>3. ErrandOK(j) /\ Prepared(property, spaces, j) /\ spaces \in Seq(SpaceRows) /\ ceiling \in Int
  BY <1>1, SoundBefore
<1>4. j \in Looking /\ j.new \in Nat /\ j.total \in Nat
  BY <1>2, <1>3 DEF ErrandOK, Asking, Looking
<1>5. /\ next.put = j.put /\ next.add = j.add /\ next.new = j.new /\ next.edit = j.edit /\ next.fresh = j.fresh
      /\ next \in Asking /\ next.op = "FITS"
  BY <1>4 DEF Asking, Looking
<1> HIDE DEF next
<1>6. next \notin [op : {"ACTIVATE"}, fresh : {TRUE}]
  BY <1>5
<1>7. ErrandOK(next) /\ Prepared(property, spaces, next) /\ Holding(next, ceiling) = j.new
  BY <1>3, <1>4, <1>5, <1>6 DEF ErrandOK, Prepared, Holding
<1>8. CASE j.new <= Strata!Remaining(spaces, j.total)
  <2>1. Strata!Remaining(spaces, j.total) = j.total - Strata!TotalOf(spaces)
    BY <1>4, StrataAssumption DEF Strata!Remaining
  <2>2. Strata!TotalOf(spaces) \in Int
    BY <1>3, TotalIsWeights
  <2>3. Strata!TotalOf(spaces) + j.new <= j.total
    BY <1>4, <1>8, <2>1, <2>2
  <2>4. CASE j.total > ceiling
    <3>1. Holding(j, ceiling) = j.new
      BY <1>2, <2>4 DEF Holding
    <3>2. Holding(next, ceiling) <= Holding(errand[c], ceiling)
      BY <1>1, <1>4, <1>7, <3>1
    <3>3. Strata!Become(c, next)
      BY <1>2, <1>8
    <3> QED
      BY <1>2, <1>7, <3>2, <3>3, Moved
  <2>5. CASE ~(j.total > ceiling)
    <3>1. Strata!TotalOf(spaces) + Holding(next, ceiling) <= ceiling
      BY <1>3, <1>4, <1>7, <2>2, <2>3, <2>5
    <3>2. Strata!Become(c, next)
      BY <1>2, <1>8
    <3> QED
      BY <1>2, <1>7, <3>1, <3>2, Moved
  <2> QED
    BY <2>4, <2>5
<1>9. CASE ~(j.new <= Strata!Remaining(spaces, j.total))
  <2>1. Strata!Become(c, Strata!Idle)
    BY <1>2, <1>9
  <2>2. ErrandOK(Strata!Idle) /\ Strata!Idle.op = "IDLE"
    BY DEF ErrandOK, Strata!Idle
  <2>3. Prepared(property, spaces, Strata!Idle) /\ Holding(Strata!Idle, ceiling) = 0
    BY <2>2, NothingPrepared, HoldsNothing
  <2> QED
    BY <1>2, <2>1, <2>2, <2>3, MovedFreely
<1> QED
  BY <1>8, <1>9

LEMMA SpacesWritten ==
  ASSUME RegisterSound, NEW c \in Clients, Strata!WriteSpaces(c)
  PROVE  RegisterSound'
<1>1. PICK j : j = errand[c]
  OBVIOUS
<1>2. /\ j.op = "FITS" /\ spaces' = Changed(spaces, j.put, j.add)
      /\ ceiling' = IF j.edit \/ (~j.fresh /\ Strata!TotalOf(spaces') > Strata!TotalOf(spaces) + j.new)
                    THEN Strata!Allowed(property, spaces') ELSE ceiling
      /\ Strata!Done(c) /\ property' = property
  BY <1>1 DEF Strata!WriteSpaces, Strata!After, Changed
<1>3. ErrandOK(j) /\ Prepared(property, spaces, j) /\ PlanOK(property) /\ spaces \in Seq(SpaceRows) /\ ceiling \in Int
  BY <1>1, SoundBefore
<1>4. j \in Asking /\ j.new \in Nat /\ j.put \in Puts /\ j.add \in Adds /\ j.edit \in BOOLEAN /\ j.fresh \in BOOLEAN
  BY <1>2, <1>3 DEF ErrandOK, Asking, Looking
<1>5. PICK new : new = Changed(spaces, j.put, j.add)
  OBVIOUS
<1>6. new \in Seq(SpaceRows) /\ Strata!TotalOf(new) \in Int /\ Strata!TotalOf(spaces) \in Int
  BY <1>3, <1>4, <1>5, ChangedTyped
<1>7. spaces' = new /\ spaces' \in Seq(SpaceRows) /\ PlanOK(property')
  BY <1>2, <1>3, <1>5, <1>6
<1>8. CASE j.edit \/ (~j.fresh /\ Strata!TotalOf(spaces') > Strata!TotalOf(spaces) + j.new)
  <2>1. ceiling' = Strata!Allowed(property', spaces')
    BY <1>2, <1>8
  <2> QED
    BY <1>2, <1>7, <2>1, WroteRaised
<1>9. CASE ~(j.edit \/ (~j.fresh /\ Strata!TotalOf(spaces') > Strata!TotalOf(spaces) + j.new))
  <2>1. ceiling' = ceiling
    BY <1>2, <1>9
  <2>2. Strata!TotalOf(new) <= Strata!TotalOf(spaces) + j.new
    <3>1. CASE j.fresh
      BY <1>3, <1>4, <1>5, <1>9, <3>1 DEF Prepared
    <3>2. CASE ~j.fresh
      <4>1. ~(Strata!TotalOf(new) > Strata!TotalOf(spaces) + j.new)
        BY <1>7, <1>9, <3>2
      <4> QED
        BY <1>4, <1>6, <4>1
    <3> QED
      BY <3>1, <3>2
  <2>3. Holding(errand[c], ceiling) = j.new
    BY <1>1, <1>2 DEF Holding
  <2>4. Bounded(property') =>
          /\ property'.declared <= ceiling' /\ ceiling' = ceiling /\ Bounded(property)
          /\ Strata!TotalOf(spaces') <= Strata!TotalOf(spaces) + Holding(errand[c], ceiling)
    <3>1. Bounded(property) => property.declared <= ceiling
      BY SoundBefore
    <3>2. Bounded(property') => Bounded(property)
      BY <1>2
    <3> QED
      BY <1>2, <1>7, <2>1, <2>2, <2>3, <3>1, <3>2
  <2>5. ceiling' \in Int
    BY <1>3, <2>1
  <2> QED
    BY <1>2, <1>7, <2>4, <2>5, Wrote
<1> QED
  BY <1>8, <1>9

\* The register's inductive invariant.
THEOREM RegisterSoundHolds == Strata!Spec => []RegisterSound
<1>1. Strata!Init => RegisterSound
  <2> SUFFICES ASSUME Strata!Init PROVE RegisterSound
    OBVIOUS
  <2>1. /\ PlanOK(property) /\ property.status # "ACTIVE"
        /\ spaces \in Seq(SpaceRows) /\ ceiling \in Int
    BY DEF Strata!Init, PlanOK, Statuses, Declarable
  <2>2. errand = [c \in Clients |-> errand[c]] /\ \A c \in Clients : errand[c] = Strata!Idle
    BY DEF Strata!Init
  <2>3. ErrandOK(Strata!Idle) /\ Strata!Idle.op = "IDLE"
    BY DEF ErrandOK, Strata!Idle
  <2>4. Prepared(property, spaces, Strata!Idle)
    BY <2>3, NothingPrepared
  <2>5. RoomOK(property, spaces, errand, ceiling)
    BY <2>1 DEF RoomOK, Bounded
  <2> QED
    BY <2>1, <2>2, <2>3, <2>4, <2>5 DEF RegisterSound, RegisterOK
<1>2. RegisterSound /\ [Strata!Next]_(Strata!vars) => RegisterSound'
  <2> SUFFICES ASSUME RegisterSound, [Strata!Next]_(Strata!vars) PROVE RegisterSound'
    OBVIOUS
  <2>1. ASSUME NEW c \in Clients, Strata!ReadPlan(c) PROVE RegisterSound'
    BY <2>1, PlanRead
  <2>2. ASSUME NEW c \in Clients, Strata!WritePlan(c) PROVE RegisterSound'
    BY <2>2, PlanWritten
  <2>3. ASSUME NEW c \in Clients, Strata!ReadSetup(c) \/ Strata!CompareSummary(c) \/ Strata!Fail(c)
        PROVE  RegisterSound'
    BY <2>3, SetupSteps
  <2>4. ASSUME NEW c \in Clients, Strata!CompleteSetup(c) PROVE RegisterSound'
    BY <2>4, SetupCompleted
  <2>5. ASSUME NEW c \in Clients, Strata!ReadSpaces(c) PROVE RegisterSound'
    <3>1. /\ Strata!BulkSetLots(c) \/ Strata!ClassifySpaces(c) \/ Strata!CreateSpace(c) \/ Strata!UpdateSpace(c)
          /\ UNCHANGED <<property, spaces, ceiling>>
      BY <2>5 DEF Strata!ReadSpaces
    <3> QED
      BY <3>1, BulkRead, ClassifyRead, CreateRead, UpdateRead
  <2>6. ASSUME NEW c \in Clients, Strata!LookUpTotal(c) PROVE RegisterSound'
    BY <2>6, LookedUp
  <2>7. ASSUME NEW c \in Clients, Strata!Fits(c) PROVE RegisterSound'
    BY <2>7, RoomLookedFor
  <2>8. ASSUME NEW c \in Clients, Strata!WriteSpaces(c) PROVE RegisterSound'
    BY <2>8, SpacesWritten
  <2>9. CASE UNCHANGED Strata!vars
    <3>1. property' = property /\ spaces' = spaces /\ ceiling' = ceiling /\ errand' = errand
      BY <2>9 DEF Strata!vars
    <3>2. RegisterOK(property', spaces', errand', ceiling')
      BY <3>1, SoundBefore
    <3> QED
      BY <3>2, SoundAfter
  <2> QED
    BY <2>1, <2>2, <2>3, <2>4, <2>5, <2>6, <2>7, <2>8, <2>9 DEF Strata!Next
<1> QED
  BY <1>1, <1>2, PTL DEF Strata!Spec

\* However the requests of any number of clients interleave, over any lots,
\* entitlements and declared totals: what an active scheme's lots add up to
\* stays under the ceiling but for what all requests but one allocate at once
\* (assertNewAllocationFits).
THEOREM ActiveSchemesHold == Strata!Spec => []ActiveSchemeHolds
<1>1. RegisterSound => ActiveSchemeHolds
  <2> SUFFICES ASSUME RegisterSound, Bounded(property)
               PROVE  Strata!TotalOf(spaces) <= ceiling + Slack
    BY DEF ActiveSchemeHolds, Strata!ActiveSchemeHolds, Strata!ActiveScheme, Bounded, Slack,
           Cardinality, Strata!Cardinality
  <2> DEFINE f == [d \in Clients |-> Holding(errand[d], ceiling)]
  <2>1. \A d \in Clients : f[d] \in 0 .. MaxNew
    BY SoundBefore, HoldingType
  <2>2. Strata!TotalOf(spaces) + SumOver(f, Clients) <= ceiling + Slack
    BY DEF RegisterSound, RegisterOK, RoomOK, Held
  <2> HIDE DEF f
  <2>3. PICK c \in Clients : TRUE
    BY StrataAssumption
  <2>4. SumOver(f, Clients) \in Nat /\ Slack \in Int
    BY <2>1, <2>3, Spread
  <2>5. Strata!TotalOf(spaces) \in Int /\ ceiling \in Int
    BY SoundBefore, TotalIsWeights
  <2> QED
    BY <2>2, <2>4, <2>5
<1> QED
  BY <1>1, RegisterSoundHolds, PTL
-----------------------------------------------------------------------------
(***************************************************************************)
(* The analysis of a plan.  Everyone who confirms is answered with the     *)
(* property that the document names, or that this very request makes; so   *)
(* the invariant has to say of the document what it says of the answers.   *)
(***************************************************************************)

PropertyRows(codes) == [code : codes, confirmed : BOOLEAN]
MadeFromPlan == {p \in DOMAIN properties : properties[p].confirmed}

AnswersSound ==
  /\ \E codes : properties \in Seq(PropertyRows(codes))
  /\ document = [status |-> document.status, draft |-> document.draft, property |-> document.property]
  /\ answered \subseteq MadeFromPlan
  /\ document.property # 0 => document.property \in MadeFromPlan

\* A step of the analysis, of a repair or of an edit: neither the properties
\* nor the link to one of them change.
LinkKept ==
  /\ properties' = properties /\ answered' = answered
  /\ \E s, d : document' = [status |-> s, draft |-> d, property |-> document.property]

LEMMA LinkKeptSound ==
  ASSUME AnswersSound, LinkKept
  PROVE  AnswersSound'
<1>1. PICK s, d : document' = [status |-> s, draft |-> d, property |-> document.property]
  BY DEF LinkKept
<1>2. /\ document'.property = document.property
      /\ document' = [status |-> document'.status, draft |-> document'.draft, property |-> document'.property]
  BY <1>1
<1> QED
  BY <1>2 DEF AnswersSound, LinkKept, MadeFromPlan

\* What the steps write of the document.
LEMMA LinkKeptBy ==
  ASSUME AnswersSound, properties' = properties, answered' = answered,
         \/ document' = document
         \/ \E s : document' = [document EXCEPT !.status = s]
         \/ \E s, d : document' = [document EXCEPT !.draft = d, !.status = s]
  PROVE  LinkKept
<1>1. document = [status |-> document.status, draft |-> document.draft, property |-> document.property]
  BY DEF AnswersSound
<1>2. CASE document' = document
  BY <1>1, <1>2 DEF LinkKept
<1>3. ASSUME NEW s, document' = [document EXCEPT !.status = s] PROVE LinkKept
  <2>1. document' = [status |-> s, draft |-> document.draft, property |-> document.property]
    BY <1>1, <1>3
  <2> QED
    BY <2>1 DEF LinkKept
<1>4. ASSUME NEW s, NEW d, document' = [document EXCEPT !.draft = d, !.status = s] PROVE LinkKept
  <2>1. document' = [status |-> s, draft |-> d, property |-> document.property]
    BY <1>1, <1>4
  <2> QED
    BY <2>1 DEF LinkKept
<1> QED
  BY <1>2, <1>3, <1>4

LEMMA AnalysisKeepsLink ==
  ASSUME AnswersSound,
         \/ Analysis!Register \/ Analysis!Crash \/ Analysis!Heal
         \/ \E s \in Slots : Analysis!Analyse(s) \/ Analysis!Watch(s)
  PROVE  LinkKept
<1>1. CASE Analysis!Register
  BY <1>1, LinkKeptBy DEF Analysis!Register, Analysis!Status
<1>2. CASE Analysis!Crash
  BY <1>2, LinkKeptBy DEF Analysis!Crash
<1>3. CASE Analysis!Heal
  BY <1>3, LinkKeptBy DEF Analysis!Heal, Analysis!Poll, Analysis!HealDocument, Analysis!HealRows, Analysis!Status
<1>4. ASSUME NEW s \in Slots, Analysis!Analyse(s) PROVE LinkKept
  <2>1. CASE Analysis!CreateRow(s) \/ Analysis!Refuse(s) \/ Analysis!Interpret(s) \/ Analysis!Tell(s) \/ Analysis!Throw(s)
    <3>1. document' = document /\ properties' = properties /\ answered' = answered
      BY <2>1 DEF Analysis!CreateRow, Analysis!Refuse, Analysis!Interpret, Analysis!Tell, Analysis!Throw
    <3> QED
      BY <3>1, LinkKeptBy
  <2>2. CASE Analysis!Announce(s) \/ Analysis!RefuseDocument(s)
    BY <2>2, LinkKeptBy DEF Analysis!Announce, Analysis!RefuseDocument, Analysis!Status
  <2>3. CASE Analysis!SaveDraft(s)
    <3>1. properties' = properties /\ answered' = answered /\ \E x, d : document' = [document EXCEPT !.draft = d, !.status = x]
      BY <2>3 DEF Analysis!SaveDraft, Analysis!WithDraft
    <3> QED
      BY <3>1, LinkKeptBy
  <2> QED
    BY <1>4, <2>1, <2>2, <2>3 DEF Analysis!Analyse
<1>5. ASSUME NEW s \in Slots, Analysis!Watch(s) PROVE LinkKept
  BY <1>5, LinkKeptBy DEF Analysis!Watch, Analysis!TimeOut, Analysis!MarkRow, Analysis!MarkDocument, Analysis!Status
<1> QED
  BY <1>1, <1>2, <1>3, <1>4, <1>5

LEMMA RequestsKeepLink ==
  ASSUME AnswersSound, NEW c \in Clients,
         \/ Analysis!Edit(c) \/ Analysis!Retry(c) \/ Analysis!LookUpCode(c) \/ Analysis!Collide(c)
         \/ Analysis!Abandon(c)
  PROVE  LinkKept
<1>1. CASE Analysis!Edit(c)
  <2>1. properties' = properties /\ answered' = answered /\ \E x, d : document' = [document EXCEPT !.draft = d, !.status = x]
    BY <1>1 DEF Analysis!Edit, Analysis!WithDraft
  <2> QED
    BY <2>1, LinkKeptBy
<1>2. CASE Analysis!Retry(c)
  BY <1>2, LinkKeptBy DEF Analysis!Retry, Analysis!Status
<1>3. CASE Analysis!LookUpCode(c) \/ Analysis!Collide(c) \/ Analysis!Abandon(c)
  BY <1>3, LinkKeptBy DEF Analysis!LookUpCode, Analysis!Collide, Analysis!Abandon
<1> QED
  BY <1>1, <1>2, <1>3

\* A request that reads, or that lost its code to another, is answered with
\* the property that the document names.
LEMMA NamedAnswer ==
  ASSUME AnswersSound, UNCHANGED <<document, properties>>,
         \/ answered' = answered
         \/ document.property # 0 /\ answered' = answered \cup {document.property}
  PROVE  AnswersSound'
BY DEF AnswersSound, MadeFromPlan

LEMMA ReadOrRecover ==
  ASSUME AnswersSound, NEW c \in Clients, Analysis!Read(c) \/ Analysis!Recover(c)
  PROVE  AnswersSound'
<1>1. CASE Analysis!Read(c)
  BY <1>1, NamedAnswer
     DEF Analysis!Read, Analysis!ReadEdit, Analysis!ReadRetry, Analysis!ReadConfirm
<1>2. CASE Analysis!Recover(c)
  BY <1>2, NamedAnswer DEF Analysis!Recover
<1> QED
  BY <1>1, <1>2

\* A property joins the organisation's.
LEMMA PropertyAdded ==
  ASSUME AnswersSound, NEW code, NEW made \in BOOLEAN,
         properties' = Append(properties, [code |-> code, confirmed |-> made])
  PROVE  /\ \E codes : properties' \in Seq(PropertyRows(codes))
         /\ MadeFromPlan \subseteq MadeFromPlan'
         /\ Len(properties) + 1 # 0
         /\ made => Len(properties) + 1 \in MadeFromPlan'
<1>1. PICK codes : properties \in Seq(PropertyRows(codes))
  BY DEF AnswersSound
<1> DEFINE more == codes \cup {code}
           row == [code |-> code, confirmed |-> made]
<1>2. properties \in Seq(PropertyRows(more)) /\ row \in PropertyRows(more)
  <2>1. \A p \in DOMAIN properties : properties[p] \in PropertyRows(codes)
    BY <1>1
  <2>2. \A r \in PropertyRows(codes) : r \in PropertyRows(more)
    BY DEF PropertyRows
  <2>3. Len(properties) \in Nat /\ properties = [p \in 1 .. Len(properties) |-> properties[p]]
        /\ DOMAIN properties = 1 .. Len(properties)
    BY <1>1
  <2>4. row \in PropertyRows(more)
    BY DEF PropertyRows
  <2> HIDE DEF more, row
  <2> QED
    BY <2>1, <2>2, <2>3, <2>4
<1>3. row.confirmed = made /\ properties' = Append(properties, row)
  OBVIOUS
<1> HIDE DEF more, row
<1>4. /\ properties' \in Seq(PropertyRows(more)) /\ Len(properties) \in Nat
      /\ \A p \in DOMAIN properties : p \in DOMAIN properties' /\ properties'[p] = properties[p]
      /\ Len(properties) + 1 \in DOMAIN properties' /\ properties'[Len(properties) + 1] = row
  BY <1>2, <1>3
<1> QED
  BY <1>3, <1>4 DEF MadeFromPlan

LEMMA ConfirmSound ==
  ASSUME AnswersSound, NEW c \in Clients, Analysis!Confirm(c)
  PROVE  AnswersSound'
<1>1. /\ properties' = Append(properties, [code |-> task[c].draft.code, confirmed |-> TRUE])
      /\ document' = [document EXCEPT !.status = "CONFIRMED", !.property = Len(properties) + 1]
      /\ answered' = answered \cup {Len(properties) + 1}
  BY DEF Analysis!Confirm
<1>2. /\ \E codes : properties' \in Seq(PropertyRows(codes))
      /\ MadeFromPlan \subseteq MadeFromPlan' /\ Len(properties) + 1 \in MadeFromPlan'
  BY <1>1, PropertyAdded
<1>3. document' = [status |-> "CONFIRMED", draft |-> document.draft, property |-> Len(properties) + 1]
  BY <1>1 DEF AnswersSound
<1>4. answered \subseteq MadeFromPlan
  BY DEF AnswersSound
<1>5. document'.property = Len(properties) + 1
      /\ document' = [status |-> document'.status, draft |-> document'.draft, property |-> document'.property]
  BY <1>3
<1>6. answered' \subseteq MadeFromPlan' /\ (document'.property # 0 => document'.property \in MadeFromPlan')
  BY <1>1, <1>2, <1>4, <1>5
<1> QED
  BY <1>2, <1>5, <1>6 DEF AnswersSound

LEMMA ElsewhereSound ==
  ASSUME AnswersSound, Analysis!CreateElsewhere \/ Analysis!Recode
  PROVE  AnswersSound'
<1>1. document' = document /\ answered' = answered
  BY DEF Analysis!CreateElsewhere, Analysis!Recode
<1>2. (\E codes : properties' \in Seq(PropertyRows(codes))) /\ MadeFromPlan \subseteq MadeFromPlan'
  <2>1. ASSUME NEW code, properties' = Append(properties, [code |-> code, confirmed |-> FALSE])
        PROVE  (\E codes : properties' \in Seq(PropertyRows(codes))) /\ MadeFromPlan \subseteq MadeFromPlan'
    BY <2>1, PropertyAdded
  <2>2. ASSUME NEW q \in DOMAIN properties, NEW code, properties' = [properties EXCEPT ![q].code = code]
        PROVE  (\E codes : properties' \in Seq(PropertyRows(codes))) /\ MadeFromPlan \subseteq MadeFromPlan'
    <3>1. PICK codes : properties \in Seq(PropertyRows(codes))
      BY DEF AnswersSound
    <3> DEFINE more == codes \cup {code}
    <3>2. \A p \in DOMAIN properties : properties[p] \in PropertyRows(codes)
      BY <3>1
    <3>3. /\ Len(properties) \in Nat /\ DOMAIN properties = 1 .. Len(properties) /\ DOMAIN properties' = DOMAIN properties
          /\ properties' = [p \in 1 .. Len(properties) |-> properties'[p]]
          /\ \A p \in DOMAIN properties : p # q => properties'[p] = properties[p]
          /\ properties'[q] = [properties[q] EXCEPT !.code = code]
      <4> DEFINE row == [properties[q] EXCEPT !.code = code]
      <4>1. properties' = [properties EXCEPT ![q] = row]
        BY <2>2
      <4>2. /\ Len(properties) \in Nat /\ DOMAIN properties = 1 .. Len(properties)
            /\ properties = [p \in 1 .. Len(properties) |-> properties[p]]
        BY <3>1
      <4> HIDE DEF row
      <4>3. /\ DOMAIN properties' = DOMAIN properties
            /\ \A p \in DOMAIN properties : p # q => properties'[p] = properties[p]
            /\ properties'[q] = row
        BY <4>1, <4>2
      <4>4. properties' = [p \in 1 .. Len(properties) |-> properties'[p]]
        BY <4>1, <4>2
      <4> QED
        BY <4>2, <4>3, <4>4 DEF row
    <3>4. \A r \in PropertyRows(codes) :
            /\ r \in PropertyRows(more)
            /\ [r EXCEPT !.code = code] \in PropertyRows(more) /\ [r EXCEPT !.code = code].confirmed = r.confirmed
      BY DEF PropertyRows
    <3> HIDE DEF more
    <3>5. \A p \in DOMAIN properties :
            properties'[p] \in PropertyRows(more) /\ properties'[p].confirmed = properties[p].confirmed
      BY <3>2, <3>3, <3>4
    <3>6. properties' \in Seq(PropertyRows(more))
      BY <3>3, <3>5
    <3> QED
      BY <3>3, <3>5, <3>6 DEF MadeFromPlan
  <2> QED
    BY <2>1, <2>2 DEF Analysis!CreateElsewhere, Analysis!Recode
<1> QED
  BY <1>1, <1>2 DEF AnswersSound

\* The inductive invariant of the analysis.
THEOREM AnswersSoundHolds == Analysis!Spec => []AnswersSound
<1>1. Analysis!Init => AnswersSound
  BY DEF Analysis!Init, AnswersSound
<1>2. AnswersSound /\ [Analysis!Next]_(Analysis!vars) => AnswersSound'
  <2> SUFFICES ASSUME AnswersSound, [Analysis!Next]_(Analysis!vars) PROVE AnswersSound'
    OBVIOUS
  <2>1. CASE \/ Analysis!Register \/ Analysis!Crash \/ Analysis!Heal
             \/ \E s \in Slots : Analysis!Analyse(s) \/ Analysis!Watch(s)
    BY <2>1, AnalysisKeepsLink, LinkKeptSound
  <2>2. CASE Analysis!CreateElsewhere \/ Analysis!Recode
    BY <2>2, ElsewhereSound
  <2>3. ASSUME NEW c \in Clients,
               \/ Analysis!Edit(c) \/ Analysis!Retry(c) \/ Analysis!LookUpCode(c) \/ Analysis!Collide(c)
               \/ Analysis!Abandon(c)
        PROVE  AnswersSound'
    BY <2>3, RequestsKeepLink, LinkKeptSound
  <2>4. ASSUME NEW c \in Clients, Analysis!Read(c) \/ Analysis!Recover(c)
        PROVE  AnswersSound'
    BY <2>4, ReadOrRecover
  <2>5. ASSUME NEW c \in Clients, Analysis!Confirm(c)
        PROVE  AnswersSound'
    BY <2>5, ConfirmSound
  <2>6. CASE UNCHANGED Analysis!vars
    BY <2>6, NamedAnswer DEF Analysis!vars
  <2> QED
    BY <2>1, <2>2, <2>3, <2>4, <2>5, <2>6 DEF Analysis!Next
<1> QED
  BY <1>1, <1>2, PTL DEF Analysis!Spec

\* However many people confirm a plan at once, and whatever its code is taken
\* by: nobody is handed a property that was not made from that plan.
THEOREM ConfirmationsAnswerOwn == Analysis!Spec => []ConfirmAnswersOwn
<1>1. AnswersSound => ConfirmAnswersOwn
  BY DEF AnswersSound, MadeFromPlan, ConfirmAnswersOwn, Analysis!ConfirmAnswersOwn
<1> QED
  BY <1>1, AnswersSoundHolds, PTL

-----------------------------------------------------------------------------
(***************************************************************************)
(* A plan is read.  What has been extracted is at any time a function of   *)
(* the two readings, so the properties are about that function: where each *)
(* row of a merged schedule comes from, and what its score can be.         *)
(***************************************************************************)
\* Rows numbered from 1.
Rowed(list) == Len(list) \in Nat /\ DOMAIN list = 1 .. Len(list)

LEMMA RowedIsList ==
  ASSUME NEW f, NEW n \in Nat, f = [k \in 1 .. n |-> f[k]]
  PROVE  IsList(f) /\ Rowed(f) /\ Len(f) = n
<1>1. IsList(f) /\ Len(f) = n
  BY ListOf
<1>2. DOMAIN f = 1 .. n
  BY SMT
<1> QED
  BY <1>1, <1>2 DEF Rowed

LEMMA ReadingExtremes ==
  ASSUME NEW n \in Nat, NEW S \in SUBSET (1 .. n), S # {}
  PROVE  Reading!Max(S) \in S /\ Reading!Min(S) \in S
<1>1. PICK top \in S : \A y \in S : top >= y
  <2> DEFINE T == {n - i : i \in S}
  <2>1. T \in SUBSET Nat /\ T # {}
    <3>1. PICK one \in S : TRUE
      OBVIOUS
    <3>2. n - one \in T
      OBVIOUS
    <3>3. \A i \in S : n - i \in Nat
      OBVIOUS
    <3> QED
      BY <3>2, <3>3
  <2>2. PICK t \in T : \A u \in T : t <= u
    <3> HIDE DEF T
    <3> QED
      BY <2>1, Smallest
  <2>3. PICK i \in S : t = n - i
    OBVIOUS
  <2>4. \A y \in S : n - i <= n - y
    BY <2>2, <2>3
  <2> QED
    BY <2>4
<1>2. PICK low \in S : \A y \in S : low <= y
  BY Smallest
<1> QED
  BY <1>1, <1>2 DEF Reading!Max, Reading!Min

LEMMA MinOfTwo ==
  ASSUME NEW a \in Int, NEW b \in Int
  PROVE  Reading!Min({a, b}) \in Int /\ Reading!Min({a, b}) <= b
<1> DEFINE S == {a, b}
<1>1. \E x \in S : \A y \in S : x <= y
  BY SMT
<1>2. Reading!Min(S) \in S /\ \A y \in S : Reading!Min(S) <= y
  <2> HIDE DEF S
  <2> QED
    BY <1>1 DEF Reading!Min
<1> QED
  BY <1>2

-----------------------------------------------------------------------------
(***************************************************************************)
(* Scores                                                                  *)
(***************************************************************************)
LEMMA ScoreBound ==
  ASSUME NEW value, NEW page \in Int, NEW boost \in Int
  PROVE  /\ Reading!Score(value, page, boost) \in Int
         /\ \/ Reading!Score(value, page, boost) = 0
            \/ page = -1 /\ Reading!Score(value, page, boost) <= 60 + boost
            \/ page # -1 /\ Reading!Score(value, page, boost) <= page + boost
<1> DEFINE base == IF page = -1 THEN 60 ELSE page
<1>1. base + boost \in Int
  OBVIOUS
<1>2. Reading!Score(value, page, boost) = IF Reading!Absent(value) THEN 0 ELSE Reading!Min({100, base + boost})
  BY DEF Reading!Score, Reading!NoPage, Reading!VisionBase
<1>3. Reading!Min({100, base + boost}) \in Int /\ Reading!Min({100, base + boost}) <= base + boost
  <2> HIDE DEF base
  <2> QED
    BY <1>1, MinOfTwo
<1> QED
  BY <1>2, <1>3

IsHigh(field) == field.score >= 85
LEMMA HighMeans == ASSUME NEW field PROVE Reading!Level(field) = "HIGH" => IsHigh(field)
BY DEF Reading!Level, Reading!HighThreshold, IsHigh

\* What vision alone supplies stays below.
LEMMA VisionNotHigh ==
  ASSUME NEW value, NEW boost \in {0, 15}
  PROVE  /\ Reading!ByVision(value, Reading!VisionBase, boost).value = value
         /\ ~IsHigh(Reading!ByVision(value, Reading!VisionBase, boost))
<1>1. Reading!VisionBase = 60
  BY DEF Reading!VisionBase
<1>2. Reading!Score(value, 60, boost) \in Int /\ Reading!Score(value, 60, boost) <= 75
  BY ScoreBound
<1> QED
  BY <1>1, <1>2 DEF Reading!ByVision, Reading!Field, IsHigh

LEMMA CorroborateKeeps ==
  ASSUME NEW row
  PROVE  /\ Reading!Corroborate(row).lot.value = row.lot.value /\ Reading!Corroborate(row).uoe.value = row.uoe.value
         /\ IsHigh(Reading!Corroborate(row).uoe) => IsHigh(row.uoe)
<1>1. CASE row.uoe.by = "VISION" /\ Reading!Level(row.uoe) # "HIGH"
  <2>1. PICK lot, uoe : /\ lot = Reading!ByVision(row.lot.value, Reading!VisionBase, 15)
                        /\ uoe = Reading!ByVision(row.uoe.value, Reading!VisionBase, 15)
    OBVIOUS
  <2>2. Reading!Corroborate(row) = [lot |-> lot, uoe |-> uoe]
    BY <1>1, <2>1 DEF Reading!Corroborate, Reading!ReconcileBoost
  <2>3. lot.value = row.lot.value /\ uoe.value = row.uoe.value /\ ~IsHigh(uoe)
    BY <2>1, VisionNotHigh
  <2> QED
    BY <2>2, <2>3
<1>2. CASE ~(row.uoe.by = "VISION" /\ Reading!Level(row.uoe) # "HIGH")
  BY <1>2 DEF Reading!Corroborate
<1> QED
  BY <1>1, <1>2

-----------------------------------------------------------------------------
(***************************************************************************)
(* The first reading                                                       *)
(***************************************************************************)
LEMMA AssembleHas ==
  ASSUME NEW r \in RawReadings, NEW lots, lots = Reading!Assemble(r).lots
  PROVE  /\ Rowed(lots) /\ DOMAIN lots = DOMAIN r.lots
         /\ \A i \in DOMAIN lots :
              /\ lots[i].lot.value = r.lots[i].lot /\ lots[i].uoe.value = r.lots[i].uoe
              /\ IsHigh(lots[i].uoe) => r.lots[i].page >= 70
<1>1. PICK status : status = Reading!ReconciliationStatus(
                              [i \in DOMAIN r.lots |-> [lot |-> r.lots[i].lot, uoe |-> r.lots[i].uoe]], r.declared.value)
  OBVIOUS
<1>2. PICK boost : boost = IF status = "RECONCILED" THEN 15 ELSE 0
  OBVIOUS
<1> DEFINE Scored(value, page) == Reading!Wrap([value |-> value, page |-> page], boost)
<1>3. lots = [i \in DOMAIN r.lots |->
                [lot |-> Scored(r.lots[i].lot, r.lots[i].page), uoe |-> Scored(r.lots[i].uoe, r.lots[i].page)]]
  BY <1>1, <1>2 DEF Reading!Assemble, Reading!ReconcileBoost
<1>4. ASSUME NEW value, NEW page \in Int
      PROVE  Scored(value, page).value = value /\ (IsHigh(Scored(value, page)) => page >= 70)
  <2>1. /\ Scored(value, page).value = value
        /\ Scored(value, page).score = Reading!Score(value, page, boost)
    BY DEF Reading!Wrap, Reading!Field
  <2>2. boost \in Int /\ boost <= 15
    BY <1>2
  <2>3. \/ Reading!Score(value, page, boost) = 0
        \/ page = -1 /\ Reading!Score(value, page, boost) <= 60 + boost
        \/ page # -1 /\ Reading!Score(value, page, boost) <= page + boost
    BY <2>2, ScoreBound
  <2>4. Reading!Score(value, page, boost) \in Int
    BY <2>2, ScoreBound
  <2> HIDE DEF Scored
  <2> QED
    BY <2>1, <2>2, <2>3, <2>4 DEF IsHigh
<1>5. Len(r.lots) \in Nat /\ DOMAIN r.lots = 1 .. Len(r.lots) /\ \A i \in DOMAIN r.lots : r.lots[i].page \in Int
  BY ReadingAssumption
<1> HIDE DEF Scored
<1>6. Rowed(lots)
  <2>1. PICK n \in Nat : n = Len(r.lots)
    BY <1>5
  <2>2. lots = [k \in 1 .. n |-> lots[k]]
    BY <1>3, <1>5, <2>1
  <2> QED
    BY <2>2, RowedIsList
<1> QED
  BY <1>3, <1>4, <1>5, <1>6

-----------------------------------------------------------------------------
(***************************************************************************)
(* The second reading                                                      *)
(***************************************************************************)
\* The row of a number is a row with that number.
LEMMA RowOfNumber ==
  ASSUME NEW lots, Rowed(lots), NEW v, Reading!RowsOf(lots, v) # {}
  PROVE  \E k \in DOMAIN lots : Reading!RowOf(lots, v) = lots[k] /\ lots[k].lot.value = v
<1>1. Reading!RowsOf(lots, v) \in SUBSET (1 .. Len(lots)) /\ Len(lots) \in Nat
  BY DEF Reading!RowsOf, Rowed
<1>2. Reading!Max(Reading!RowsOf(lots, v)) \in Reading!RowsOf(lots, v)
  BY <1>1, ReadingExtremes
<1> QED
  BY <1>2 DEF Reading!RowOf, Reading!RowsOf

\* Every row has a first row of its number.
LEMMA FirstOfNumber ==
  ASSUME NEW lots, Rowed(lots), NEW i \in DOMAIN lots
  PROVE  \E k \in Reading!FirstRows(lots) : lots[k].lot.value = lots[i].lot.value
<1>1. PICK v : v = lots[i].lot.value
  OBVIOUS
<1>2. Reading!RowsOf(lots, v) \in SUBSET (1 .. Len(lots)) /\ Len(lots) \in Nat /\ i \in Reading!RowsOf(lots, v)
  BY <1>1 DEF Reading!RowsOf, Rowed
<1>3. Reading!Min(Reading!RowsOf(lots, v)) \in Reading!RowsOf(lots, v)
  BY <1>2, ReadingExtremes
<1>4. PICK k : k = Reading!Min(Reading!RowsOf(lots, v))
  OBVIOUS
<1>5. k \in DOMAIN lots /\ lots[k].lot.value = v
  BY <1>3, <1>4 DEF Reading!RowsOf
<1>6. k \in Reading!FirstRows(lots)
  BY <1>4, <1>5 DEF Reading!FirstRows
<1> QED
  BY <1>1, <1>5, <1>6

LEMMA MergeLotHas ==
  ASSUME NEW lots, Rowed(lots), NEW look, NEW row, row = Reading!MergeLot(lots, look)
  PROVE  /\ row.lot.value = look.lot /\ row.uoe.value = look.uoe
         /\ IsHigh(row.uoe) => \E k \in DOMAIN lots : lots[k].lot.value = look.lot /\ lots[k].uoe.value = look.uoe
<1> DEFINE Guess == [lot |-> Reading!ByVision(look.lot, Reading!VisionBase, 0), uoe |-> Reading!ByVision(look.uoe, Reading!VisionBase, 0)]
<1>1. Guess.lot.value = look.lot /\ Guess.uoe.value = look.uoe /\ ~IsHigh(Guess.uoe)
  BY VisionNotHigh
<1>2. CASE row = Guess
  <2> HIDE DEF Guess
  <2> QED
    BY <1>1, <1>2
<1>3. CASE row # Guess
  <2>1. PICK old : old = Reading!RowOf(lots, look.lot)
    OBVIOUS
  <2>2. /\ Reading!RowsOf(lots, look.lot) # {} /\ old.uoe.value = look.uoe
        /\ row = [lot |-> Reading!ByVision(look.lot, old.lot.score, Reading!AgreementBoost),
                  uoe |-> Reading!ByVision(look.uoe, old.uoe.score, Reading!AgreementBoost)]
    BY <1>3, <2>1 DEF Reading!MergeLot
  <2>3. PICK k \in DOMAIN lots : old = lots[k] /\ lots[k].lot.value = look.lot
    BY <2>1, <2>2, RowOfNumber
  <2>4. row.lot.value = look.lot /\ row.uoe.value = look.uoe
    BY <2>2 DEF Reading!ByVision, Reading!Field
  <2> QED
    BY <2>2, <2>3, <2>4
<1> QED
  BY <1>2, <1>3

\* What vision saw comes first, then the rows of each number it did not see.
LEMMA MergeLotsHas ==
  ASSUME NEW lots, Rowed(lots), NEW looks, Rowed(looks), NEW merged, merged = Reading!MergeLots(lots, looks)
  PROVE  /\ Rowed(merged) /\ Len(looks) <= Len(merged)
         /\ \A j \in DOMAIN looks : merged[j] = Reading!MergeLot(lots, looks[j])
         /\ \A k \in DOMAIN merged : k \notin DOMAIN looks =>
              \E i \in DOMAIN lots : merged[k] = lots[i]
         /\ \A i \in DOMAIN lots :
              \/ \E j \in DOMAIN looks : looks[j].lot = lots[i].lot.value
              \/ \E k \in DOMAIN merged : merged[k].lot.value = lots[i].lot.value
<1> DEFINE unseen == {i \in Reading!FirstRows(lots) : \A j \in DOMAIN looks : looks[j].lot # lots[i].lot.value}
<1>1. PICK order : order = Reading!Ascending(unseen)
  OBVIOUS
<1>2. PICK m \in Nat, n \in Nat : m = Len(looks) /\ n = Cardinality(unseen) /\ IsFiniteSet(unseen) /\ unseen \in SUBSET (DOMAIN lots)
  <2>1. unseen \in SUBSET (1 .. Len(lots)) /\ IsFiniteSet(1 .. Len(lots)) /\ Len(looks) \in Nat
    BY FS_Interval DEF Reading!FirstRows, Rowed
  <2>2. IsFiniteSet(unseen)
    BY <2>1, FS_Subset
  <2>3. Cardinality(unseen) \in Nat
    BY <2>2, FS_CardinalityType
  <2> QED
    BY <2>1, <2>2, <2>3 DEF Rowed
<1>3. order \in [1 .. n -> unseen] /\ \A i \in unseen : \E k \in 1 .. n : order[k] = i
  <2>1. order = Ascending(unseen)
    BY <1>1 DEF Reading!Ascending, Ascending, Reading!Cardinality, Cardinality
  <2>2. unseen \in SUBSET Nat
    BY <1>2 DEF Rowed
  <2> HIDE DEF unseen
  <2> QED
    BY <1>2, <2>1, <2>2, AscendingOrder DEF Ascends
<1>4. PICK old : old = [k \in DOMAIN order |-> Reading!RowOf(lots, lots[order[k]].lot.value)]
  OBVIOUS
<1>5. PICK new : new = [j \in DOMAIN looks |-> Reading!MergeLot(lots, looks[j])]
  OBVIOUS
<1>6. merged = new \o old
  BY <1>1, <1>4, <1>5 DEF Reading!MergeLots, Reading!Unseen
<1>7. IsList(new) /\ Len(new) = m /\ \A j \in DOMAIN looks : new[j] = Reading!MergeLot(lots, looks[j])
  <2>1. new = [k \in 1 .. m |-> new[k]]
    BY <1>2, <1>5 DEF Rowed
  <2>2. IsList(new) /\ Len(new) = m
    BY <2>1, RowedIsList
  <2> QED
    BY <2>2, <1>5
<1> HIDE DEF unseen
<1>8. IsList(old) /\ Len(old) = n /\ \A k \in 1 .. n : old[k] = Reading!RowOf(lots, lots[order[k]].lot.value)
  <2>1. old = [k \in 1 .. n |-> old[k]]
    BY <1>3, <1>4
  <2>2. IsList(old) /\ Len(old) = n
    BY <2>1, RowedIsList
  <2> QED
    BY <2>2, <1>3, <1>4
<1>9. /\ IsList(merged) /\ Len(merged) = m + n
      /\ \A k \in 1 .. m : merged[k] = new[k]
      /\ \A k \in 1 .. n : merged[m + k] = old[k]
  <2>1. IsList(new) /\ IsList(old)
    BY <1>7, <1>8
  <2>2. /\ IsList(new \o old) /\ Len(new \o old) = Len(new) + Len(old)
        /\ \A k \in 1..Len(new) : (new \o old)[k] = new[k]
        /\ \A k \in 1..Len(old) : (new \o old)[Len(new) + k] = old[k]
    BY <2>1, ListJoin
  <2>3. Len(new) = m /\ Len(old) = n
    BY <1>7, <1>8
  <2> QED
    BY <1>6, <2>2, <2>3
<1>10. DOMAIN merged = 1 .. m + n /\ DOMAIN looks = 1 .. m
  BY <1>2, <1>9, ListHas DEF Rowed
<1>11. \A k \in 1 .. n : \E i \in DOMAIN lots : merged[m + k] = lots[i] /\ lots[i].lot.value = lots[order[k]].lot.value
  <2> SUFFICES ASSUME NEW k \in 1 .. n
               PROVE  \E i \in DOMAIN lots : merged[m + k] = lots[i] /\ lots[i].lot.value = lots[order[k]].lot.value
    OBVIOUS
  <2>1. order[k] \in unseen
    BY <1>3
  <2>2. PICK v : v = lots[order[k]].lot.value
    OBVIOUS
  <2>3. order[k] \in Reading!RowsOf(lots, v)
    BY <2>1, <2>2 DEF unseen, Reading!FirstRows, Reading!RowsOf
  <2>4. PICK i \in DOMAIN lots : Reading!RowOf(lots, v) = lots[i] /\ lots[i].lot.value = v
    BY <2>3, RowOfNumber
  <2> QED
    BY <1>8, <1>9, <2>2, <2>4
<1>12. ASSUME NEW k \in DOMAIN merged, k \notin DOMAIN looks PROVE \E i \in DOMAIN lots : merged[k] = lots[i]
  <2>1. k - m \in 1 .. n /\ k = m + (k - m)
    BY <1>10, <1>12
  <2> QED
    BY <2>1, <1>11
<1>13. ASSUME NEW i \in DOMAIN lots, ~\E j \in DOMAIN looks : looks[j].lot = lots[i].lot.value
       PROVE  \E k \in DOMAIN merged : merged[k].lot.value = lots[i].lot.value
  <2>1. PICK f \in Reading!FirstRows(lots) : lots[f].lot.value = lots[i].lot.value
    BY <1>13, FirstOfNumber
  <2>2. f \in unseen
    BY <1>13, <2>1 DEF unseen
  <2>3. PICK k \in 1 .. n : order[k] = f
    BY <1>3, <2>2
  <2>4. merged[m + k].lot.value = lots[f].lot.value /\ m + k \in DOMAIN merged
    BY <1>10, <1>11, <2>3
  <2> QED
    BY <2>1, <2>4
<1>14. Rowed(merged) /\ Len(looks) <= Len(merged)
  BY <1>2, <1>9, <1>10 DEF Rowed
<1>15. \A j \in DOMAIN looks : merged[j] = Reading!MergeLot(lots, looks[j])
  BY <1>7, <1>9, <1>10
<1> QED
  BY <1>12, <1>13, <1>14, <1>15

-----------------------------------------------------------------------------
(***************************************************************************)
(* Both readings                                                           *)
(***************************************************************************)
\* Where a row comes from, and what a certain entitlement rests on.
Text(r, row) == {i \in DOMAIN r.lots : r.lots[i].lot = row.lot.value /\ r.lots[i].uoe = row.uoe.value}
Sighted(s, row) == IF s = Nil THEN {} ELSE {j \in DOMAIN s.lots : s.lots[j].lot = row.lot.value /\ s.lots[j].uoe = row.uoe.value}
Corroborated(r, s, row) == IsHigh(row.uoe) => \E i \in Text(r, row) : r.lots[i].page >= 70 \/ Sighted(s, row) # {}

Looked(s) == IF s = Nil THEN {} ELSE {s.lots[j].lot : j \in DOMAIN s.lots}
Listed(r) == {r.lots[i].lot : i \in DOMAIN r.lots}
Shown(lots) == {lots[k].lot.value : k \in DOMAIN lots}

\* The reading that came last.
Last(r, s) == IF s = Nil THEN r.lots ELSE s.lots

\* A schedule that both readings account for.
Accounted(r, s, lots) ==
  /\ Rowed(lots)
  /\ \A k \in DOMAIN lots : Corroborated(r, s, lots[k])
  /\ Shown(lots) = Listed(r) \cup Looked(s)
  /\ DOMAIN Last(r, s) \subseteq DOMAIN lots
  /\ \A j \in DOMAIN Last(r, s) : lots[j].lot.value = Last(r, s)[j].lot

LEMMA TextAccounted ==
  ASSUME NEW r \in RawReadings, NEW lots, lots = Reading!Assemble(r).lots
  PROVE  Accounted(r, Nil, lots)
<1>1. /\ Rowed(lots) /\ DOMAIN lots = DOMAIN r.lots
      /\ \A i \in DOMAIN lots :
           /\ lots[i].lot.value = r.lots[i].lot /\ lots[i].uoe.value = r.lots[i].uoe
           /\ IsHigh(lots[i].uoe) => r.lots[i].page >= 70
  BY AssembleHas
<1>2. ASSUME NEW k \in DOMAIN lots PROVE Corroborated(r, Nil, lots[k])
  <2>1. k \in Text(r, lots[k]) /\ (IsHigh(lots[k].uoe) => r.lots[k].page >= 70)
    BY <1>1 DEF Text
  <2> QED
    BY <2>1 DEF Corroborated
<1>3. Shown(lots) = Listed(r)
  BY <1>1 DEF Shown, Listed
<1> QED
  BY <1>1, <1>2, <1>3 DEF Accounted, Looked, Last

LEMMA MergedAccounted ==
  ASSUME NEW r \in RawReadings, NEW s \in Sightings \ {Nil}, NEW lots, lots = Reading!Assemble(r).lots,
         NEW merged, merged = Reading!MergeLots(lots, s.lots)
  PROVE  Accounted(r, s, merged)
<1>1. /\ Rowed(lots) /\ DOMAIN lots = DOMAIN r.lots
      /\ \A i \in DOMAIN lots :
           /\ lots[i].lot.value = r.lots[i].lot /\ lots[i].uoe.value = r.lots[i].uoe
           /\ IsHigh(lots[i].uoe) => r.lots[i].page >= 70
  BY AssembleHas
<1>2. PICK looks : looks = s.lots
  OBVIOUS
<1>3. Rowed(looks)
  BY <1>2, ReadingAssumption DEF Rowed
<1>4. merged = Reading!MergeLots(lots, looks)
  BY <1>2
<1>5. /\ Rowed(merged) /\ Len(looks) <= Len(merged)
      /\ \A j \in DOMAIN looks : merged[j] = Reading!MergeLot(lots, looks[j])
      /\ \A k \in DOMAIN merged : k \notin DOMAIN looks => \E i \in DOMAIN lots : merged[k] = lots[i]
      /\ \A i \in DOMAIN lots :
           \/ \E j \in DOMAIN looks : looks[j].lot = lots[i].lot.value
           \/ \E k \in DOMAIN merged : merged[k].lot.value = lots[i].lot.value
  BY <1>1, <1>3, <1>4, MergeLotsHas
<1>6. ASSUME NEW j \in DOMAIN looks
      PROVE  /\ merged[j].lot.value = looks[j].lot /\ merged[j].uoe.value = looks[j].uoe
             /\ IsHigh(merged[j].uoe) =>
                  \E k \in DOMAIN lots : lots[k].lot.value = looks[j].lot /\ lots[k].uoe.value = looks[j].uoe
  <2>1. PICK row : row = Reading!MergeLot(lots, looks[j])
    OBVIOUS
  <2>2. /\ row.lot.value = looks[j].lot /\ row.uoe.value = looks[j].uoe
        /\ IsHigh(row.uoe) => \E k \in DOMAIN lots : lots[k].lot.value = looks[j].lot /\ lots[k].uoe.value = looks[j].uoe
    BY <1>1, <2>1, MergeLotHas
  <2> QED
    BY <1>5, <2>1, <2>2
<1>7. DOMAIN looks \subseteq DOMAIN merged
  BY <1>3, <1>5 DEF Rowed
<1>8. ASSUME NEW k \in DOMAIN merged PROVE Corroborated(r, s, merged[k])
  <2>1. CASE k \in DOMAIN looks
    <3> SUFFICES ASSUME IsHigh(merged[k].uoe) PROVE \E i \in Text(r, merged[k]) : Sighted(s, merged[k]) # {}
      BY DEF Corroborated
    <3>1. PICK i \in DOMAIN lots : lots[i].lot.value = looks[k].lot /\ lots[i].uoe.value = looks[k].uoe
      BY <2>1, <1>6
    <3>2. i \in Text(r, merged[k])
      BY <3>1, <2>1, <1>1, <1>6 DEF Text
    <3>3. k \in Sighted(s, merged[k])
      BY <2>1, <1>2, <1>6 DEF Sighted
    <3> QED
      BY <3>2, <3>3
  <2>2. CASE k \notin DOMAIN looks
    <3>1. PICK i \in DOMAIN lots : merged[k] = lots[i]
      BY <2>2, <1>5
    <3>2. i \in Text(r, merged[k]) /\ (IsHigh(merged[k].uoe) => r.lots[i].page >= 70)
      BY <3>1, <1>1 DEF Text
    <3> QED
      BY <3>2 DEF Corroborated
  <2> QED
    BY <2>1, <2>2
<1>9. Shown(merged) = Listed(r) \cup Looked(s)
  <2>1. Looked(s) = {looks[j].lot : j \in DOMAIN looks} /\ Listed(r) = {lots[i].lot.value : i \in DOMAIN lots}
    BY <1>1, <1>2 DEF Looked, Listed
  <2>2. ASSUME NEW v \in Shown(merged) PROVE v \in Listed(r) \cup Looked(s)
    <3>1. PICK k \in DOMAIN merged : v = merged[k].lot.value
      BY DEF Shown
    <3>2. CASE k \in DOMAIN looks
      BY <3>1, <3>2, <1>6, <2>1
    <3>3. CASE k \notin DOMAIN looks
      BY <3>1, <3>3, <1>5, <2>1
    <3> QED
      BY <3>2, <3>3
  <2>3. ASSUME NEW v \in Looked(s) PROVE v \in Shown(merged)
    BY <1>6, <1>7, <2>1 DEF Shown
  <2>4. ASSUME NEW v \in Listed(r) PROVE v \in Shown(merged)
    <3>1. PICK i \in DOMAIN lots : v = lots[i].lot.value
      BY <2>1
    <3>2. CASE \E j \in DOMAIN looks : looks[j].lot = v
      BY <3>2, <2>1, <2>3
    <3>3. CASE \E k \in DOMAIN merged : merged[k].lot.value = v
      BY <3>3 DEF Shown
    <3> QED
      BY <3>1, <3>2, <3>3, <1>5
  <2> QED
    BY <2>2, <2>3, <2>4
<1>10. Last(r, s) = looks
  BY <1>2 DEF Last
<1> QED
  BY <1>5, <1>6, <1>7, <1>8, <1>9, <1>10 DEF Accounted

\* Corroborating a schedule makes no entitlement certain.
LEMMA CorroboratedAccounted ==
  ASSUME NEW r, NEW s, NEW merged, Accounted(r, s, merged),
         NEW lots, lots = [i \in DOMAIN merged |-> Reading!Corroborate(merged[i])]
  PROVE  Accounted(r, s, lots)
<1>1. /\ DOMAIN lots = DOMAIN merged
      /\ \A k \in DOMAIN merged : /\ lots[k].lot.value = merged[k].lot.value /\ lots[k].uoe.value = merged[k].uoe.value
                                  /\ IsHigh(lots[k].uoe) => IsHigh(merged[k].uoe)
  BY CorroborateKeeps
<1>2. Rowed(lots) /\ Len(lots) = Len(merged)
  <2>1. PICK n \in Nat : n = Len(merged) /\ DOMAIN merged = 1 .. n
    BY DEF Accounted, Rowed
  <2>2. lots = [k \in 1 .. n |-> lots[k]]
    BY <2>1
  <2>3. Rowed(lots) /\ Len(lots) = n
    BY <2>2, RowedIsList
  <2> QED
    BY <2>1, <2>3
<1>3. ASSUME NEW k \in DOMAIN lots PROVE Corroborated(r, s, lots[k])
  <2>1. Text(r, lots[k]) = Text(r, merged[k]) /\ Sighted(s, lots[k]) = Sighted(s, merged[k])
    BY <1>1 DEF Text, Sighted
  <2>2. Corroborated(r, s, merged[k])
    BY <1>1 DEF Accounted
  <2> QED
    BY <1>1, <2>1, <2>2 DEF Corroborated
<1>4. Shown(lots) = Shown(merged)
  BY <1>1 DEF Shown
<1>5. /\ DOMAIN Last(r, s) \subseteq DOMAIN lots
      /\ \A j \in DOMAIN Last(r, s) : lots[j].lot.value = Last(r, s)[j].lot
  <2>1. /\ DOMAIN Last(r, s) \subseteq DOMAIN merged
        /\ \A j \in DOMAIN Last(r, s) : merged[j].lot.value = Last(r, s)[j].lot
    BY DEF Accounted
  <2> QED
    BY <1>1, <2>1
<1> QED
  BY <1>2, <1>3, <1>4, <1>5 DEF Accounted

LEMMA ExtractAccounted ==
  ASSUME NEW r \in RawReadings, NEW s \in Sightings \cup {Nil},
         s # Nil => Reading!HasGaps(Reading!Assemble(r))
  PROVE  Accounted(r, s, Reading!Extract(r, s).lots)
<1>1. CASE s = Nil
  <2>1. Reading!Extract(r, s) = Reading!Assemble(r)
    BY <1>1 DEF Reading!Extract
  <2> QED
    BY <1>1, <2>1, TextAccounted
<1>2. CASE s # Nil
  <2>1. PICK x : x = Reading!Assemble(r)
    OBVIOUS
  <2>2. Reading!Extract(r, s) = Reading!Merge(x, s)
    BY <1>2, <2>1 DEF Reading!Extract
  <2>3. PICK merged : merged = Reading!MergeLots(x.lots, s.lots)
    OBVIOUS
  <2>4. Accounted(r, s, merged)
    BY <1>2, <2>1, <2>3, MergedAccounted
  <2>5. PICK lots : lots = [i \in DOMAIN merged |-> Reading!Corroborate(merged[i])]
    OBVIOUS
  <2>6. Accounted(r, s, lots)
    BY <2>4, <2>5, CorroboratedAccounted
  <2>7. Reading!Merge(x, s).lots = lots \/ Reading!Merge(x, s).lots = merged
    BY <2>3, <2>5 DEF Reading!Merge
  <2> QED
    BY <2>2, <2>4, <2>6, <2>7
<1> QED
  BY <1>1, <1>2

-----------------------------------------------------------------------------
(***************************************************************************)
(* The draft                                                               *)
(***************************************************************************)
\* A draft that can be confirmed has a number for each of its rows, and no
\* two rows with the same.
LEMMA ConfirmableLots ==
  ASSUME NEW d, Reading!CanConfirm(d)
  PROVE  /\ \A i \in DOMAIN d.lots : Trimmed[d.lots[i].lot] # Blank
         /\ \A i, j \in DOMAIN d.lots : Trimmed[d.lots[i].lot] = Trimmed[d.lots[j].lot] => i = j
<1>1. PICK issues : issues = Reading!ScheduleIssues(d.lots, d.declared)
  OBVIOUS
<1>2. "MISSING_LOT_NUMBER" \notin issues /\ "DUPLICATE_LOT_NUMBER" \notin issues
  BY <1>1 DEF Reading!CanConfirm, Reading!DraftIssues, Reading!Blocking
<1>3. Reading!Unnumbered(d.lots) = {}
  BY <1>1, <1>2 DEF Reading!ScheduleIssues
<1>4. \A i, j \in DOMAIN d.lots : Trimmed[d.lots[i].lot] = Trimmed[d.lots[j].lot] => i = j
  <2>1. ~\E i, j \in DOMAIN d.lots \ Reading!Unnumbered(d.lots) :
            i # j /\ Trimmed[d.lots[i].lot] = Trimmed[d.lots[j].lot]
    BY <1>1, <1>2 DEF Reading!ScheduleIssues
  <2> QED
    BY <1>3, <2>1
<1>5. \A i \in DOMAIN d.lots : Trimmed[d.lots[i].lot] # Blank
  BY <1>3 DEF Reading!Unnumbered
<1> QED
  BY <1>4, <1>5

-----------------------------------------------------------------------------
\* The inductive invariant: nothing is kept but what the two readings make,
\* and the lots of the draft stay as they were seeded.
ReadingSound ==
  /\ raw \in RawReadings
  /\ \/ Reading!Unread
     \/ /\ seen \in Sightings \cup {Nil} /\ (seen # Nil => Reading!HasGaps(Reading!Assemble(raw)))
        /\ extraction = Reading!Extract(raw, seen)
        /\ draft # Nil => "lots" \in DOMAIN draft /\ draft.lots = Reading!Values(extraction.lots)

THEOREM ReadingStaysSound == Reading!Spec => []ReadingSound
<1>1. Reading!Init => ReadingSound
  BY DEF Reading!Init, ReadingSound
<1>2. ReadingSound /\ [Reading!Next]_(Reading!vars) => ReadingSound'
  <2> SUFFICES ASSUME ReadingSound, [Reading!Next]_(Reading!vars) PROVE ReadingSound'
    OBVIOUS
  <2>0. raw \in RawReadings /\ \A s \in Sightings \cup {Nil} : Reading!Extract(raw, s) # Nil
    BY ReadingAssumption DEF ReadingSound
  <2>1. CASE Reading!Interpret
    <3>1. extraction = Nil /\ extraction' = Reading!Assemble(raw) /\ UNCHANGED <<raw, seen, draft>>
      BY <2>1 DEF Reading!Interpret
    <3>2. Reading!Unread
      BY <3>1, <2>0 DEF ReadingSound
    <3>3. Reading!Extract(raw, Nil) = Reading!Assemble(raw)
      BY DEF Reading!Extract
    <3> QED
      BY <3>1, <3>2, <3>3, <2>0 DEF ReadingSound, Reading!Unread
  <2>2. CASE Reading!LookAgain
    <3>1. /\ extraction # Nil /\ draft = Nil /\ seen = Nil /\ Reading!HasGaps(extraction)
          /\ seen' \in Sightings \ {Nil}
          /\ extraction' = Reading!Merge(extraction, seen') /\ UNCHANGED <<raw, draft>>
      BY <2>2 DEF Reading!LookAgain
    <3>2. extraction = Reading!Assemble(raw)
      BY <3>1 DEF ReadingSound, Reading!Unread, Reading!Extract
    <3>3. extraction' = Reading!Extract(raw, seen')
      BY <3>1, <3>2 DEF Reading!Extract
    <3> QED
      BY <3>1, <3>2, <3>3, <2>0 DEF ReadingSound
  <2>3. CASE Reading!SeedDraft
    <3>1. extraction # Nil /\ draft' = Reading!Seed(extraction) /\ UNCHANGED <<raw, seen, extraction>>
      BY <2>3 DEF Reading!SeedDraft
    <3>2. "lots" \in DOMAIN Reading!Seed(extraction) /\ Reading!Seed(extraction).lots = Reading!Values(extraction.lots)
      BY DEF Reading!Seed
    <3> QED
      BY <3>1, <3>2 DEF ReadingSound, Reading!Unread
  <2>4. CASE Reading!FillIn
    <3>1. PICK f \in Fillings : draft # Nil /\ draft' = Reading!Edited(draft, f) /\ UNCHANGED <<raw, seen, extraction>>
      BY <2>4 DEF Reading!FillIn
    <3>2. "lots" \in DOMAIN draft /\ draft.lots = Reading!Values(extraction.lots)
      BY <3>1 DEF ReadingSound, Reading!Unread
    <3>3. "lots" \in DOMAIN draft' /\ draft'.lots = draft.lots
      <4>1. "lots" \notin DOMAIN f
        BY ReadingAssumption
      <4> QED
        BY <3>1, <3>2, <4>1 DEF Reading!Edited
    <3> QED
      BY <3>1, <3>2, <3>3 DEF ReadingSound, Reading!Unread
  <2>5. CASE UNCHANGED Reading!vars
    BY <2>5 DEF Reading!vars, ReadingSound, Reading!Unread
  <2> QED
    BY <2>1, <2>2, <2>3, <2>4, <2>5 DEF Reading!Next
<1> QED
  BY <1>1, <1>2, PTL DEF Reading!Spec

\* Whatever the text interpretation and vision return: an entitlement is shown
\* as certain only if the text reads so for that lot, and either its page was
\* read well or vision read the same (confidence.ts, vision-fallback.ts).
THEOREM CertaintyIsCorroborated == Reading!Spec => []HighIsCorroborated
<1>1. ReadingSound => HighIsCorroborated
  <2> SUFFICES ASSUME ReadingSound, extraction # Nil, NEW row \in Reading!ToSet(extraction.lots), Reading!Level(row.uoe) = "HIGH"
               PROVE  \E i \in {i \in DOMAIN raw.lots : raw.lots[i].lot = row.lot.value /\ raw.lots[i].uoe = row.uoe.value} :
                        \/ raw.lots[i].page >= Reading!HighThreshold - Reading!ReconcileBoost
                        \/ seen # Nil /\ {j \in DOMAIN seen.lots : seen.lots[j].lot = row.lot.value /\ seen.lots[j].uoe = row.uoe.value} # {}
    BY DEF HighIsCorroborated, Reading!HighIsCorroborated
  <2>1. Accounted(raw, seen, extraction.lots)
    BY ExtractAccounted DEF ReadingSound, Reading!Unread
  <2>2. PICK k \in DOMAIN extraction.lots : row = extraction.lots[k]
    BY DEF Reading!ToSet
  <2>3. Corroborated(raw, seen, row)
    BY <2>1, <2>2 DEF Accounted
  <2>4. PICK i \in Text(raw, row) : raw.lots[i].page >= 70 \/ Sighted(seen, row) # {}
    BY <2>3, HighMeans DEF Corroborated
  <2>5. Reading!HighThreshold - Reading!ReconcileBoost = 70
    BY DEF Reading!HighThreshold, Reading!ReconcileBoost
  <2> QED
    BY <2>4, <2>5 DEF Text, Sighted
<1> QED
  BY <1>1, ReadingStaysSound, PTL

\* Whatever they return, and whatever a person fills in beside the lots: every
\* row that either found is in the draft, and the draft can be confirmed only
\* if all rows have a number, no number is spelt in two ways, and the last
\* reading lists none twice (vision-fallback.ts mergeVisionIntoExtraction,
\* draft.ts, validation.ts).
THEOREM NoReadingIsLost == Reading!Spec => []NothingReadIsLost
<1>1. ReadingSound => NothingReadIsLost
  <2> SUFFICES ASSUME ReadingSound, draft # Nil PROVE NothingReadIsLost
    BY DEF NothingReadIsLost, Reading!NothingReadIsLost
  <2>1. PICK lots : lots = extraction.lots
    OBVIOUS
  <2>2. draft.lots = Reading!Values(lots) /\ Accounted(raw, seen, lots)
    BY <2>1, ExtractAccounted DEF ReadingSound, Reading!Unread
  <2>3. DOMAIN draft.lots = DOMAIN lots /\ \A k \in DOMAIN lots : draft.lots[k].lot = lots[k].lot.value
    BY <2>2 DEF Reading!Values
  <2>4. PICK read : read = IF seen = Nil THEN {raw.lots[i].lot : i \in DOMAIN raw.lots}
                           ELSE {raw.lots[i].lot : i \in DOMAIN raw.lots} \cup {seen.lots[i].lot : i \in DOMAIN seen.lots}
    OBVIOUS
  <2>5. PICK last : last = IF seen = Nil THEN raw.lots ELSE seen.lots
    OBVIOUS
  <2>6. {draft.lots[k].lot : k \in DOMAIN draft.lots} = read
    <3>1. Shown(lots) = read
      BY <2>2, <2>4 DEF Accounted, Listed, Looked
    <3>2. {draft.lots[k].lot : k \in DOMAIN draft.lots} = Shown(lots)
      BY <2>3 DEF Shown
    <3> QED
      BY <3>1, <3>2
  <2>7. ASSUME Reading!CanConfirm(draft)
        PROVE  /\ \A lot \in read : Trimmed[lot] # Blank
               /\ \A lot, other \in read : Trimmed[lot] = Trimmed[other] => lot = other
               /\ \A i, j \in DOMAIN last : last[i].lot = last[j].lot => i = j
    <3>1. /\ \A i \in DOMAIN draft.lots : Trimmed[draft.lots[i].lot] # Blank
          /\ \A i, j \in DOMAIN draft.lots : Trimmed[draft.lots[i].lot] = Trimmed[draft.lots[j].lot] => i = j
      BY <2>7, ConfirmableLots
    <3>2. ASSUME NEW lot \in read PROVE Trimmed[lot] # Blank
      BY <2>6, <3>1
    <3>3. ASSUME NEW lot \in read, NEW other \in read, Trimmed[lot] = Trimmed[other] PROVE lot = other
      BY <2>6, <3>1, <3>3
    <3>4. ASSUME NEW i \in DOMAIN last, NEW j \in DOMAIN last, last[i].lot = last[j].lot PROVE i = j
      <4>1. last = Last(raw, seen)
        BY <2>5 DEF Last
      <4>2. /\ i \in DOMAIN lots /\ lots[i].lot.value = last[i].lot
            /\ j \in DOMAIN lots /\ lots[j].lot.value = last[j].lot
        BY <2>2, <4>1 DEF Accounted
      <4> QED
        BY <2>3, <3>1, <3>4, <4>2
    <3> QED
      BY <3>2, <3>3, <3>4
  <2> QED
    BY <2>4, <2>5, <2>6, <2>7 DEF NothingReadIsLost, Reading!NothingReadIsLost
<1> QED
  BY <1>1, ReadingStaysSound, PTL
=============================================================================
