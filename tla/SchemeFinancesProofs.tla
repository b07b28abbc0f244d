------------------------ MODULE SchemeFinancesProofs ------------------------
(***************************************************************************)
(* Proofs about LevySchedules, for any number of requests, instalments and *)
(* lots, about Budgets, for any number of clients, years and budgets,      *)
(* about SchemeSetup, for any number of clients, funds and lots, and about *)
(* LevyAllocation, for any number of lots.                                 *)
(***************************************************************************)
EXTENDS MCSchemeFinances, Sequences, CollectionTheorems

(***************************************************************************)
(* Levy schedules.  The inductive invariant says what a request that has   *)
(* passed its checks may still rely on: under the lock its instalment has  *)
(* not moved, and after the commit nobody else notifies it.                *)
(***************************************************************************)

Locked(r) == r.phase \in {"ISSUE", "REVERSE"}

\* Issuing and reversing requests hold the lock.
LockHeld == \A p \in Clients : Locked(request[p]) => lock = p

\* What a locked request read still holds.
StillCurrent ==
  \A p \in Clients :
    /\ request[p].phase = "ISSUE" =>
         instalments[request[p].target] = "PENDING" /\ approved
    /\ request[p].phase = "REVERSE" => instalments[request[p].target] = "ISSUED"
    /\ Locked(request[p]) /\ request[p].seen \notin {"DRAFT", "CANCELLED"} => approved

\* Notices still to be sent have not been sent, and each by one request.
NoticesDue ==
  \A p \in Clients : request[p].phase = "NOTIFY" =>
    /\ instalments[request[p].target] # "PENDING"
    /\ \A l \in request[p].todo : notices[request[p].target][l] = 0
    /\ \A q \in Clients : request[q].phase = "NOTIFY" /\ request[q].target = request[p].target
                          => q = p

\* approvedAt is set once a schedule has left DRAFT other than by cancelling.
ApprovedFirst == status \notin {"DRAFT", "CANCELLED"} => approved

Inductive ==
  /\ TypeOK /\ LockHeld /\ StillCurrent /\ NoticesDue /\ ApprovedFirst
  /\ ChargedOnce /\ IssuedOnlyApproved /\ NoticedOnce

-----------------------------------------------------------------------------
\* What a typed request record is, by its phase.
LEMMA RequestType ==
  ASSUME TypeOK, NEW p \in Clients
  PROVE  /\ request[p] \in Requests
         /\ Locked(request[p]) =>
              /\ request[p].target \in Instalments /\ request[p].seen \in ScheduleStatus
              /\ request[p] # Idle
         /\ request[p].phase = "NOTIFY" =>
              /\ request[p].target \in Instalments /\ request[p].todo \in SUBSET Lots
              /\ request[p] # Idle
BY DEF TypeOK, Requests, Idle, Locked

LEMMA ComputedStatusType ==
  ASSUME NEW s \in ScheduleStatus, NEW inst
  PROVE  ComputeScheduleStatus(s, inst) \in ScheduleStatus
BY DEF ComputeScheduleStatus, ScheduleStatus

LEMMA IdleType == Idle \in Requests /\ ~Locked(Idle) /\ Idle.phase = "IDLE"
BY DEF Idle, Requests, Locked

LEMMA InitInductive == Init => Inductive
<1> SUFFICES ASSUME Init PROVE Inductive
  OBVIOUS
<1>1. TypeOK
  BY IdleType DEF Init, TypeOK, ScheduleStatus, InstalmentStatus
<1>2. \A p \in Clients : request[p].phase = "IDLE"
  BY IdleType DEF Init
<1>3. LockHeld /\ StillCurrent /\ NoticesDue
  BY <1>2 DEF LockHeld, StillCurrent, NoticesDue, Locked
<1>4. ChargedOnce /\ NoticedOnce
  BY DEF Init, ChargedOnce, NoticedOnce
<1> QED
  BY <1>1, <1>3, <1>4 DEF Init, Inductive, ApprovedFirst, IssuedOnlyApproved

\* A request's slot can take any typed request.
LEMMA BecomeType ==
  ASSUME TypeOK, NEW p \in Clients, NEW r \in Requests, Become(p, r)
  PROVE  request' \in [Clients -> Requests]
BY DEF TypeOK, Become

\* Every step keeps the types.
LEMMA StepType == TypeOK /\ [Next]_vars => TypeOK'
<1> SUFFICES ASSUME TypeOK, [Next]_vars PROVE TypeOK'
  OBVIOUS
<1>1. CASE UNCHANGED vars
  BY <1>1 DEF TypeOK, vars
<1>2. ASSUME NEW p \in Clients,
             ReadApprove(p) \/ ReadCancel(p) \/ WriteApprove(p) \/ WriteCancel(p) \/ Abandon(p)
      PROVE  TypeOK'
  <2>1. [phase |-> "APPROVE"] \in Requests /\ [phase |-> "CANCEL"] \in Requests
    BY DEF Requests
  <2>2. request' \in [Clients -> Requests]
    BY <1>2, <2>1, IdleType, BecomeType
       DEF ReadApprove, ReadCancel, Read, WriteApprove, WriteCancel, Abandon
  <2> QED
    BY <1>2, <2>2 DEF TypeOK, ReadApprove, ReadCancel, Read, WriteApprove, WriteCancel, Abandon,
                      ScheduleStatus
<1>3. ASSUME NEW p \in Clients, NEW i \in Instalments, BeginIssue(p, i) \/ BeginReverse(p, i)
      PROVE  TypeOK'
  <2>1. PICK phase \in {"ISSUE", "REVERSE"} : Begin(p, phase, i)
    BY <1>3 DEF BeginIssue, BeginReverse
  <2>2. [phase |-> phase, target |-> i, seen |-> status] \in Requests
    BY DEF TypeOK, Requests
  <2>3. request' \in [Clients -> Requests]
    BY <2>1, <2>2, BecomeType DEF Begin
  <2> QED
    BY <2>1, <2>3 DEF Begin, TypeOK
<1>4. ASSUME NEW p \in Clients, CommitIssue(p)
      PROVE  TypeOK'
  <2> DEFINE i == request[p].target
  <2>1. i \in Instalments /\ request[p].seen \in ScheduleStatus
    BY <1>4, RequestType DEF CommitIssue, Locked
  <2>2. charges' \in [Instalments -> [Lots -> Nat]]
    <3>1. ChargedAgain(i) \in [Lots -> Nat]
      BY <2>1 DEF ChargedAgain, TypeOK
    <3> QED
      BY <1>4, <2>1, <3>1 DEF CommitIssue, TypeOK
  <2>3. status' \in ScheduleStatus
    BY <1>4, <2>1, ComputedStatusType DEF CommitIssue, WriteSchedule, TypeOK
  <2>4. [phase |-> "NOTIFY", target |-> i, todo |-> Lots] \in Requests
    BY <2>1 DEF Requests
  <2>5. request' \in [Clients -> Requests]
    BY <1>4, <2>4, BecomeType DEF CommitIssue
  <2>6. instalments' \in [Instalments -> InstalmentStatus]
    BY <1>4, <2>1 DEF CommitIssue, WriteSchedule, TypeOK, InstalmentStatus
  <2> QED
    BY <1>4, <2>1, <2>2, <2>3, <2>5, <2>6 DEF CommitIssue, WriteSchedule, TypeOK
<1>5. ASSUME NEW p \in Clients, CommitReverse(p)
      PROVE  TypeOK'
  <2>1. request[p].target \in Instalments /\ request[p].seen \in ScheduleStatus
    BY <1>5, RequestType DEF CommitReverse, Locked
  <2>2. status' \in ScheduleStatus
    BY <1>5, <2>1, ComputedStatusType DEF CommitReverse, WriteSchedule, TypeOK
  <2>3. request' \in [Clients -> Requests]
    BY <1>5, IdleType, BecomeType DEF CommitReverse
  <2>4. instalments' \in [Instalments -> InstalmentStatus]
    BY <1>5, <2>1 DEF CommitReverse, WriteSchedule, TypeOK, InstalmentStatus
  <2> QED
    BY <1>5, <2>2, <2>3, <2>4 DEF CommitReverse, WriteSchedule, TypeOK
<1>6. ASSUME NEW p \in Clients, NEW l \in Lots, SendNotice(p, l) \/ FailNotice(p, l)
      PROVE  TypeOK'
  <2>1. /\ request[p] \in [phase : {"NOTIFY"}, target : Instalments, todo : SUBSET Lots]
        /\ request[p].target \in Instalments
    BY <1>6, RequestType DEF SendNotice, FailNotice, Requests, Idle
  <2>2. [request[p] EXCEPT !.todo = @ \ {l}] \in Requests
    BY <2>1 DEF Requests
  <2>3. request' \in [Clients -> Requests]
    BY <1>6, <2>2, BecomeType DEF SendNotice, FailNotice
  <2> QED
    BY <1>6, <2>1, <2>3 DEF SendNotice, FailNotice, TypeOK
<1> QED
  BY <1>1, <1>2, <1>3, <1>4, <1>5, <1>6 DEF Next

-----------------------------------------------------------------------------
\* Every step keeps the invariant.  Each conjunct is treated on its own.
LEMMA StepInductive == Inductive /\ [Next]_vars => Inductive'
<1> SUFFICES ASSUME Inductive, [Next]_vars PROVE Inductive'
  OBVIOUS
<1> USE DEF Inductive
<1>0. TypeOK'
  BY StepType
<1>1. CASE UNCHANGED vars
  BY <1>1, <1>0 DEF vars, LockHeld, StillCurrent, NoticesDue, ApprovedFirst, ChargedOnce,
                    IssuedOnlyApproved, NoticedOnce
<1>2. ASSUME NEW p \in Clients, NEW phase \in {"APPROVE", "CANCEL"}, Read(p, phase)
      PROVE  Inductive'
  <2>1. \A q \in Clients : request'[q] = IF q = p THEN [phase |-> phase] ELSE request[q]
    BY <1>2 DEF Read, Become, TypeOK
  <2>2. LockHeld' /\ StillCurrent' /\ NoticesDue'
    BY <1>2, <2>1 DEF Read, LockHeld, StillCurrent, NoticesDue, Locked
  <2> QED
    BY <1>0, <1>2, <2>2 DEF Read, ApprovedFirst, ChargedOnce, IssuedOnlyApproved, NoticedOnce
<1>3. ASSUME NEW p \in Clients, WriteApprove(p) \/ WriteCancel(p)
      PROVE  Inductive'
  <2>1. \A q \in Clients : request'[q] = IF q = p THEN Idle ELSE request[q]
    BY <1>3 DEF WriteApprove, WriteCancel, Become, TypeOK
  <2>2. /\ UNCHANGED <<instalments, charges, journals, notices, lock>>
        /\ approved => approved'
        /\ status' = "CANCELLED" \/ approved'
    BY <1>3 DEF WriteApprove, WriteCancel
  <2>3. LockHeld' /\ StillCurrent' /\ NoticesDue'
    BY <2>1, <2>2, IdleType DEF LockHeld, StillCurrent, NoticesDue, Locked, Idle
  <2> QED
    BY <1>0, <2>2, <2>3 DEF ApprovedFirst, ChargedOnce, IssuedOnlyApproved, NoticedOnce
<1>4. ASSUME NEW p \in Clients, Abandon(p)
      PROVE  Inductive'
  <2>1. \A q \in Clients : request'[q] = IF q = p THEN Idle ELSE request[q]
    BY <1>4 DEF Abandon, Become, TypeOK
  <2>2. UNCHANGED <<status, approved, instalments, charges, journals, notices>>
    BY <1>4 DEF Abandon
  <2>3. LockHeld'
    BY <1>4, <2>1, IdleType DEF Abandon, LockHeld
  <2>4. StillCurrent' /\ NoticesDue'
    BY <2>1, <2>2, IdleType DEF StillCurrent, NoticesDue, Locked, Idle
  <2> QED
    BY <1>0, <2>2, <2>3, <2>4 DEF ApprovedFirst, ChargedOnce, IssuedOnlyApproved, NoticedOnce
<1>5. ASSUME NEW p \in Clients, NEW i \in Instalments, BeginIssue(p, i)
      PROVE  Inductive'
  <2>1. \A q \in Clients : request'[q] =
          IF q = p THEN [phase |-> "ISSUE", target |-> i, seen |-> status] ELSE request[q]
    BY <1>5 DEF BeginIssue, Begin, Become, TypeOK
  <2>2. UNCHANGED <<status, approved, instalments, charges, journals, notices>> /\ lock' = p
    BY <1>5 DEF BeginIssue, Begin
  <2>3. LockHeld'
    BY <1>5, <2>1, <2>2, NoClientAssumption DEF BeginIssue, Begin, LockHeld
  <2>4. StillCurrent' /\ NoticesDue'
    BY <1>5, <2>1, <2>2 DEF BeginIssue, StillCurrent, NoticesDue, ApprovedFirst, Locked
  <2> QED
    BY <1>0, <2>2, <2>3, <2>4 DEF ApprovedFirst, ChargedOnce, IssuedOnlyApproved, NoticedOnce
<1>6. ASSUME NEW p \in Clients, NEW i \in Instalments, BeginReverse(p, i)
      PROVE  Inductive'
  <2>1. \A q \in Clients : request'[q] =
          IF q = p THEN [phase |-> "REVERSE", target |-> i, seen |-> status] ELSE request[q]
    BY <1>6 DEF BeginReverse, Begin, Become, TypeOK
  <2>2. UNCHANGED <<status, approved, instalments, charges, journals, notices>> /\ lock' = p
    BY <1>6 DEF BeginReverse, Begin
  <2>3. LockHeld'
    BY <1>6, <2>1, <2>2, NoClientAssumption DEF BeginReverse, Begin, LockHeld
  <2>4. StillCurrent' /\ NoticesDue'
    BY <1>6, <2>1, <2>2 DEF BeginReverse, StillCurrent, NoticesDue, ApprovedFirst, Locked
  <2> QED
    BY <1>0, <2>2, <2>3, <2>4 DEF ApprovedFirst, ChargedOnce, IssuedOnlyApproved, NoticedOnce
<1>7. ASSUME NEW p \in Clients, CommitIssue(p)
      PROVE  Inductive'
  <2> DEFINE i == request[p].target
  <2>1. /\ i \in Instalments /\ lock = p /\ instalments[i] = "PENDING" /\ approved
        /\ i \notin journals
    BY <1>7, RequestType DEF CommitIssue, Locked, LockHeld, StillCurrent, ChargedOnce
  <2>2. \A q \in Clients : request'[q] =
          IF q = p THEN [phase |-> "NOTIFY", target |-> i, todo |-> Lots] ELSE request[q]
    BY <1>7 DEF CommitIssue, Become, TypeOK
  <2>3. \A x \in Instalments : instalments'[x] = IF x = i THEN "ISSUED" ELSE instalments[x]
    BY <1>7 DEF CommitIssue, WriteSchedule, TypeOK
  <2>4. \A q \in Clients : q # p => ~Locked(request[q])
    BY <2>1 DEF LockHeld
  <2>5. LockHeld' /\ StillCurrent'
    BY <2>2, <2>4 DEF LockHeld, StillCurrent, Locked
  <2>6. NoticesDue'
    <3>1. \A q \in Clients : request[q].phase = "NOTIFY" => request[q].target # i
      BY <2>1 DEF NoticesDue
    <3>2. \A l \in Lots : notices[i][l] = 0
      <4>1. \A l \in Lots : notices[i][l] \in Nat /\ notices[i][l] <= 0
        BY <2>1 DEF NoticedOnce, TypeOK
      <4> QED
        BY <4>1
    <3>3. ASSUME NEW q \in Clients, request'[q].phase = "NOTIFY"
          PROVE  /\ instalments'[request'[q].target] # "PENDING"
                 /\ \A l \in request'[q].todo : notices'[request'[q].target][l] = 0
                 /\ \A r \in Clients : request'[r].phase = "NOTIFY"
                       /\ request'[r].target = request'[q].target => r = q
      <4>1. CASE q = p
        BY <1>7, <2>1, <2>2, <2>3, <3>1, <3>2, <4>1 DEF CommitIssue
      <4>2. CASE q # p
        <5>1. request'[q] = request[q] /\ request[q].target \in Instalments
          BY <2>2, <3>3, <4>2, RequestType
        <5> QED
          BY <1>7, <2>2, <2>3, <3>1, <3>3, <4>2, <5>1 DEF CommitIssue, NoticesDue
      <4> QED
        BY <4>1, <4>2
    <3> QED
      BY <3>3 DEF NoticesDue
  <2>7. approved'
    BY <1>7, <2>1 DEF CommitIssue, WriteSchedule
  <2>8. ChargedOnce'
    <3>1. ASSUME NEW x \in Instalments, x # i
          PROVE  instalments'[x] = instalments[x] /\ charges'[x] = charges[x]
                 /\ (x \in journals' <=> x \in journals)
      BY <1>7, <2>3, <3>1 DEF CommitIssue, TypeOK
    <3>2. instalments'[i] = "ISSUED" /\ i \in journals' /\ charges'[i] = ChargedAgain(i)
      BY <1>7, <2>1, <2>3 DEF CommitIssue, TypeOK
    <3>3. ASSUME NEW l \in Lots
          PROVE  charges'[i][l] = IF l \in ChargedLots[i] THEN 1 ELSE 0
      <4>1. charges[i][l] = 0
        BY <2>1 DEF ChargedOnce
      <4> QED
        BY <3>2, <4>1 DEF ChargedAgain
    <3> QED
      BY <3>1, <3>2, <3>3 DEF ChargedOnce
  <2>9. NoticedOnce'
    BY <1>7, <2>3 DEF CommitIssue, NoticedOnce, TypeOK
  <2> QED
    BY <1>0, <2>5, <2>6, <2>7, <2>8, <2>9 DEF ApprovedFirst, IssuedOnlyApproved
<1>8. ASSUME NEW p \in Clients, CommitReverse(p)
      PROVE  Inductive'
  <2> DEFINE i == request[p].target
  <2>1. i \in Instalments /\ lock = p /\ instalments[i] = "ISSUED"
    BY <1>8, RequestType DEF CommitReverse, Locked, LockHeld, StillCurrent
  <2>2. \A q \in Clients : request'[q] = IF q = p THEN Idle ELSE request[q]
    BY <1>8 DEF CommitReverse, Become, TypeOK
  <2>3. \A x \in Instalments : instalments'[x] = IF x = i THEN "REVERSED" ELSE instalments[x]
    BY <1>8 DEF CommitReverse, WriteSchedule, TypeOK
  <2>4. \A q \in Clients : q # p => ~Locked(request[q])
    BY <2>1 DEF LockHeld
  <2>5. LockHeld' /\ StillCurrent'
    BY <2>2, <2>4, IdleType DEF LockHeld, StillCurrent, Locked
  <2>6. NoticesDue'
    <3>1. \A q \in Clients : request'[q].phase = "NOTIFY" =>
             request'[q] = request[q] /\ request[q].target \in Instalments
      BY <2>2, IdleType, RequestType
    <3> QED
      BY <1>8, <2>3, <3>1 DEF CommitReverse, NoticesDue
  <2>7. approved' = approved /\ approved
    BY <1>8, <2>1 DEF CommitReverse, WriteSchedule, IssuedOnlyApproved
  <2>8. ChargedOnce' /\ NoticedOnce'
    BY <1>8, <2>1, <2>3 DEF CommitReverse, ChargedOnce, NoticedOnce
  <2> QED
    BY <1>0, <2>5, <2>6, <2>7, <2>8 DEF ApprovedFirst, IssuedOnlyApproved
<1>9. ASSUME NEW p \in Clients, NEW l \in Lots, SendNotice(p, l) \/ FailNotice(p, l)
      PROVE  Inductive'
  <2> DEFINE i == request[p].target
             rest == [request[p] EXCEPT !.todo = @ \ {l}]
  <2>1. /\ request[p] \in [phase : {"NOTIFY"}, target : Instalments, todo : SUBSET Lots]
        /\ l \in request[p].todo
    BY <1>9, RequestType DEF SendNotice, FailNotice, Requests, Idle
  <2>2. /\ rest.phase = "NOTIFY" /\ rest.target = i /\ rest.todo = request[p].todo \ {l}
        /\ i \in Instalments
    BY <2>1
  <2> HIDE DEF rest
  <2>3. \A q \in Clients : request'[q] = IF q = p THEN rest ELSE request[q]
    BY <1>9 DEF SendNotice, FailNotice, Become, TypeOK, rest
  <2>4. UNCHANGED <<status, approved, instalments, charges, journals, lock>>
    BY <1>9 DEF SendNotice, FailNotice
  <2>5. /\ instalments[i] # "PENDING" /\ notices[i][l] = 0
        /\ \A q \in Clients : q # p /\ request[q].phase = "NOTIFY" => request[q].target # i
    BY <2>1 DEF NoticesDue
  <2>6. \A x \in Instalments, k \in Lots :
           /\ x # i \/ k # l => notices'[x][k] = notices[x][k]
           /\ notices'[i][l] <= 1
    BY <1>9, <2>2, <2>5 DEF SendNotice, FailNotice, TypeOK
  <2>7. LockHeld' /\ StillCurrent'
    BY <2>2, <2>3, <2>4 DEF LockHeld, StillCurrent, Locked
  <2>8. NoticesDue'
    <3>1. ASSUME NEW q \in Clients, request'[q].phase = "NOTIFY"
          PROVE  /\ instalments'[request'[q].target] # "PENDING"
                 /\ \A k \in request'[q].todo : notices'[request'[q].target][k] = 0
                 /\ \A r \in Clients : request'[r].phase = "NOTIFY"
                       /\ request'[r].target = request'[q].target => r = q
      <4>1. CASE q = p
        <5>1. \A k \in rest.todo : k \in Lots /\ k # l /\ notices[i][k] = 0
          BY <2>1, <2>2 DEF NoticesDue
        <5> QED
          BY <2>2, <2>3, <2>4, <2>5, <2>6, <4>1, <5>1
      <4>2. CASE q # p
        <5>1. /\ request'[q] = request[q] /\ request[q].target \in Instalments
              /\ request[q].target # i /\ request[q].todo \in SUBSET Lots
          BY <2>3, <2>5, <3>1, <4>2, RequestType
        <5> QED
          BY <2>2, <2>3, <2>4, <2>6, <3>1, <4>2, <5>1 DEF NoticesDue
      <4> QED
        BY <4>1, <4>2
    <3> QED
      BY <3>1 DEF NoticesDue
  <2>9. NoticedOnce'
    BY <2>4, <2>5, <2>6 DEF NoticedOnce
  <2> QED
    BY <1>0, <2>4, <2>7, <2>8, <2>9 DEF ApprovedFirst, ChargedOnce, IssuedOnlyApproved
<1> QED
  BY <1>1, <1>2, <1>3, <1>4, <1>5, <1>6, <1>7, <1>8, <1>9 DEF Next, ReadApprove, ReadCancel

\* The invariant holds throughout every behaviour.
THEOREM InductiveHolds == Spec => []Inductive
<1>1. Inductive /\ [Next]_vars => Inductive'
  BY StepInductive
<1> QED
  BY InitInductive, <1>1, PTL DEF Spec

\* TypeOK for every set of requests, instalments and lots: what an approval
\* or a cancellation writes over an issue is at least a status.
THEOREM TypeCorrect == Spec => []TypeOK
BY InductiveHolds, PTL DEF Inductive

\* LevyService.issue charges every lot with a share exactly once per
\* instalment, however many requests race, fail or are repeated.
THEOREM ChargedExactlyOnce == Spec => []ChargedOnce
BY InductiveHolds, PTL DEF Inductive

\* No instalment of LevyService is issued before an approval.
THEOREM IssuedAfterApproval == Spec => []IssuedOnlyApproved
BY InductiveHolds, PTL DEF Inductive

\* sendLevyIssuanceNotice notifies each lot of an instalment at most once.
THEOREM NoticedAtMostOnce == Spec => []NoticedOnce
BY InductiveHolds, PTL DEF Inductive

\* An instalment never moves back, and a reversed one is never issued again.
THEOREM NeverReissued == Spec => InstalmentsForward
<1> DEFINE Forward ==
      \A i \in Instalments :
        instalments'[i] # instalments[i] =>
          <<instalments[i], instalments'[i]>>
            \in {<<"PENDING", "ISSUED">>, <<"ISSUED", "REVERSED">>}
<1>1. ASSUME Inductive, Next PROVE Forward
  <2>1. ASSUME NEW p \in Clients,
               \/ ReadApprove(p) \/ WriteApprove(p) \/ ReadCancel(p) \/ WriteCancel(p) \/ Abandon(p)
               \/ \E i \in Instalments : BeginIssue(p, i) \/ BeginReverse(p, i)
               \/ \E l \in Lots : SendNotice(p, l) \/ FailNotice(p, l)
        PROVE  Forward
    <3>1. instalments' = instalments
      BY <2>1 DEF ReadApprove, ReadCancel, Read, WriteApprove, WriteCancel, BeginIssue,
                  BeginReverse, Begin, SendNotice, FailNotice, Abandon
    <3> QED
      BY <3>1
  <2>2. ASSUME NEW p \in Clients, CommitIssue(p) PROVE Forward
    BY <1>1, <2>2 DEF CommitIssue, WriteSchedule, Inductive, StillCurrent, TypeOK
  <2>3. ASSUME NEW p \in Clients, CommitReverse(p) PROVE Forward
    BY <1>1, <2>3 DEF CommitReverse, WriteSchedule, Inductive, StillCurrent, TypeOK
  <2> QED
    BY <1>1, <2>1, <2>2, <2>3 DEF Next
<1>2. Inductive /\ [Next]_vars => [Forward]_vars
  BY <1>1
<1> QED
  BY <1>2, InductiveHolds, PTL DEF Spec, InstalmentsForward

-----------------------------------------------------------------------------
(***************************************************************************)
(* Budgets.  The inductive invariant says that an activation holds the     *)
(* lock and has read every ACTIVE budget of its year, and that what any    *)
(* request has read is still there.                                        *)
(***************************************************************************)
BudgetStatuses == {"DRAFT", "APPROVED", "ACTIVE", "SUPERSEDED"}
LineSets == [Lines -> Planned \cup {Budget!None, Budget!Gone}]
BudgetRows == [start : Starts, version : Nat \ {0}, status : BudgetStatuses, revisionOf : Nat, lines : LineSets]

BudgetJobs ==
  {Budget!Idle} \cup [op : {"CREATE"}, start : Starts]
    \cup [op : {"EDIT"}, budget : Nat, line : Lines, amount : Planned \cup {Budget!Gone}]
    \cup [op : {"APPROVE"}, budget : Nat]
    \cup [op : {"REVISE"}, source : Nat, attempt : Nat, lines : LineSets, version : Nat]
    \cup [op : {"ACTIVATE"}, budget : Nat, displaced : SUBSET Nat]

\* Every variable has its type.
BudgetTypeOK == budgets \in Seq(BudgetRows) /\ budgetJob \in [Staff -> BudgetJobs]

\* What a request has read is still a row; the version before the one it
\* means to take exists.
Target(j) == IF j.op = "REVISE" THEN j.source ELSE j.budget
JobsPoint ==
  \A c \in Staff :
    /\ budgetJob[c].op \in {"EDIT", "APPROVE", "REVISE", "ACTIVATE"} => Target(budgetJob[c]) \in Budget!Ids
    /\ budgetJob[c].op = "REVISE" =>
         \E b \in Budget!Ids : budgets[b].start = budgets[budgetJob[c].source].start /\ budgets[b].version = budgetJob[c].version - 1

\* An activation holds the lock and has read every ACTIVE budget of its year.
ActivationHoldsLock ==
  \A c \in Staff : budgetJob[c].op = "ACTIVATE" =>
    budgetLock = c /\ Budget!ActiveOf(budgets[budgetJob[c].budget].start) \subseteq budgetJob[c].displaced

\* Two ACTIVE budgets are of different years.
ActivesApart ==
  \A b, d \in Budget!Ids :
    budgets[b].status = "ACTIVE" /\ budgets[d].status = "ACTIVE" /\ budgets[b].start = budgets[d].start => b = d

BudgetInductive == BudgetTypeOK /\ JobsPoint /\ ActivationHoldsLock /\ ActivesApart /\ Budget!VersionsRunOn

-----------------------------------------------------------------------------
(***************************************************************************)
(* The three things a step may do to the rows                              *)
(***************************************************************************)

Inserts(s, v) ==
  \E row \in BudgetRows :
    /\ row.start = s /\ row.version = v /\ row.status = "DRAFT"
    /\ budgets' = Append(budgets, row)

Rewrites ==
  /\ budgets' \in Seq(BudgetRows) /\ Len(budgets') = Len(budgets)
  /\ \A b \in Budget!Ids : budgets'[b].start = budgets[b].start /\ budgets'[b].version = budgets[b].version

LEMMA RowType ==
  ASSUME BudgetTypeOK, NEW b \in Budget!Ids
  PROVE  /\ budgets[b] \in BudgetRows /\ budgets[b].start \in Starts
         /\ budgets[b].version \in Nat \ {0} /\ budgets[b].lines \in LineSets
<1>1. budgets[b] \in BudgetRows
  BY DEF BudgetTypeOK, Budget!Ids
<1> QED
  BY <1>1 DEF BudgetRows

\* Requests: what is known of one by its operation.
LEMMA JobType ==
  ASSUME BudgetTypeOK, JobsPoint, NEW c \in Staff
  PROVE  /\ budgetJob[c].op = "CREATE" => budgetJob[c].start \in Starts
         /\ budgetJob[c].op = "EDIT" => budgetJob[c].budget \in Budget!Ids /\ budgetJob[c].line \in Lines /\ budgetJob[c].amount \in Planned \cup {Budget!Gone}
         /\ budgetJob[c].op = "APPROVE" => budgetJob[c].budget \in Budget!Ids
         /\ budgetJob[c].op = "REVISE" => /\ budgetJob[c].source \in Budget!Ids /\ budgetJob[c].lines \in LineSets
                                    /\ budgetJob[c].version \in Nat /\ budgetJob[c].attempt \in Nat
                                    /\ budgetJob[c].version - 1 \in Budget!Versions(budgets[budgetJob[c].source].start)
         /\ budgetJob[c].op = "ACTIVATE" => budgetJob[c].budget \in Budget!Ids /\ budgetJob[c].displaced \in SUBSET Nat
<1>1. budgetJob[c] \in BudgetJobs
  BY DEF BudgetTypeOK
<1>2. budgetJob[c].op = "CREATE" => budgetJob[c].start \in Starts
  BY <1>1 DEF BudgetJobs, Budget!Idle
<1>3. budgetJob[c].op = "EDIT" => budgetJob[c].line \in Lines /\ budgetJob[c].amount \in Planned \cup {Budget!Gone}
  BY <1>1 DEF BudgetJobs, Budget!Idle
<1>4. budgetJob[c].op = "REVISE" => budgetJob[c].lines \in LineSets /\ budgetJob[c].version \in Nat /\ budgetJob[c].attempt \in Nat
  BY <1>1 DEF BudgetJobs, Budget!Idle
<1>5. budgetJob[c].op = "ACTIVATE" => budgetJob[c].displaced \in SUBSET Nat
  BY <1>1 DEF BudgetJobs, Budget!Idle
<1> QED
  BY <1>2, <1>3, <1>4, <1>5 DEF JobsPoint, Target, Budget!Versions, Budget!OfYear

\* Rows of a year are finitely many, and their versions are positive.
LEMMA YearFinite ==
  ASSUME BudgetTypeOK, NEW s
  PROVE  IsFiniteSet(Budget!OfYear(s)) /\ Cardinality(Budget!OfYear(s)) \in Nat /\ Budget!Versions(s) \subseteq Nat \ {0}
<1>1. IsFiniteSet(Budget!Ids) /\ Budget!OfYear(s) \in SUBSET Budget!Ids
  BY FS_Interval DEF BudgetTypeOK, Budget!Ids, Budget!OfYear
<1>2. IsFiniteSet(Budget!OfYear(s))
  BY <1>1, FS_Subset
<1>3. Budget!Versions(s) \subseteq Nat \ {0}
  BY RowType DEF Budget!Versions, Budget!OfYear
<1> QED
  BY <1>2, <1>3, FS_CardinalityType

\* The version a revision of b means to take is the one after the last.
LEMMA RevisionType ==
  ASSUME BudgetTypeOK, Budget!VersionsRunOn, NEW b \in Budget!Ids, NEW n \in Nat
  PROVE  /\ Budget!Revision(b, n) \in BudgetJobs /\ Budget!Revision(b, n).op = "REVISE" /\ Budget!Revision(b, n).source = b
         /\ Budget!Revision(b, n).version - 1 \in Budget!Versions(budgets[b].start)
<1> DEFINE s == budgets[b].start
           k == Cardinality(Budget!OfYear(s))
           top == CHOOSE v \in Budget!Versions(s) : \A w \in Budget!Versions(s) : w <= v
<1>1. s \in Starts /\ k \in Nat /\ Budget!Versions(s) = 1..k /\ budgets[b].lines \in LineSets
  BY RowType, YearFinite DEF Budget!VersionsRunOn, Budget!Cardinality, Cardinality
<1>2. budgets[b].version \in Budget!Versions(s)
  BY DEF Budget!Versions, Budget!OfYear
<1>3. k \in Budget!Versions(s) /\ \A w \in Budget!Versions(s) : w <= k
  BY <1>1, <1>2
<1>4. top \in Budget!Versions(s)
  BY <1>3
<1>5. top \in Nat
  BY <1>4, YearFinite
<1>6. [l \in Lines |-> IF budgets[b].lines[l] = Budget!Gone THEN Budget!None ELSE budgets[b].lines[l]] \in LineSets
  BY <1>1 DEF LineSets
<1> HIDE DEF top
<1>7. Budget!Revision(b, n) = [op |-> "REVISE", source |-> b, attempt |-> n,
        lines |-> [l \in Lines |-> IF budgets[b].lines[l] = Budget!Gone THEN Budget!None ELSE budgets[b].lines[l]],
        version |-> 1 + top]
  BY DEF Budget!Revision, top
<1>8. b \in Nat
  BY DEF Budget!Ids
<1> QED
  BY <1>4, <1>5, <1>6, <1>7, <1>8 DEF BudgetJobs

LEMMA BudgetIdleType == Budget!Idle \in BudgetJobs /\ Budget!Idle.op = "IDLE"
BY DEF Budget!Idle, BudgetJobs

-----------------------------------------------------------------------------
(***************************************************************************)
(* Rows and versions                                                       *)
(***************************************************************************)

\* The row inserted takes a version that is free and next to one taken.
Fresh(s, v) == s \in Starts /\ v \in Nat /\ v \notin Budget!Versions(s) /\ (v = 1 \/ v - 1 \in Budget!Versions(s))
Inserted == \E s, v : Fresh(s, v) /\ Inserts(s, v)

\* Rows only grow in number, and none changes its year.
Grows ==
  /\ budgets' \in Seq(BudgetRows) /\ Budget!Ids \subseteq Budget!Ids'
  /\ \A b \in Budget!Ids : budgets'[b].start = budgets[b].start /\ budgets'[b].version = budgets[b].version

LEMMA RewriteGrows ==
  ASSUME BudgetTypeOK, Budget!VersionsRunOn, Rewrites
  PROVE  Grows /\ Budget!VersionsRunOn'
<1>1. Budget!Ids' = Budget!Ids
  BY DEF Rewrites, Budget!Ids
<1>2. \A s : Budget!OfYear(s)' = Budget!OfYear(s)
  BY <1>1 DEF Rewrites, Budget!OfYear
<1>3. \A s : Budget!Versions(s)' = Budget!Versions(s)
  BY <1>1, <1>2 DEF Rewrites, Budget!Versions, Budget!OfYear
<1> QED
  BY <1>1, <1>2, <1>3 DEF Grows, Rewrites, Budget!VersionsRunOn

LEMMA SameGrows ==
  ASSUME BudgetTypeOK, Budget!VersionsRunOn, UNCHANGED budgets
  PROVE  Grows /\ Budget!VersionsRunOn'
<1>1. Rewrites
  BY DEF BudgetTypeOK, Rewrites
<1> QED
  BY <1>1, RewriteGrows

\* What an insertion does to the rows, the years and the versions.
LEMMA InsertShape ==
  ASSUME BudgetTypeOK, NEW s, NEW v, Inserts(s, v)
  PROVE  /\ budgets' \in Seq(BudgetRows) /\ Len(budgets') = Len(budgets) + 1
         /\ \A b \in Budget!Ids : budgets'[b] = budgets[b]
         /\ budgets'[Len(budgets) + 1].start = s /\ budgets'[Len(budgets) + 1].version = v
         /\ budgets'[Len(budgets) + 1].status = "DRAFT"
         /\ Budget!Ids' = Budget!Ids \cup {Len(budgets) + 1} /\ Len(budgets) + 1 \notin Budget!Ids
<1>1. PICK row \in BudgetRows : row.start = s /\ row.version = v /\ row.status = "DRAFT" /\ budgets' = Append(budgets, row)
  BY DEF Inserts
<1>2. budgets \in Seq(BudgetRows) /\ Len(budgets) \in Nat
  BY DEF BudgetTypeOK
<1>3. budgets' \in Seq(BudgetRows) /\ Len(budgets') = Len(budgets) + 1 /\ budgets'[Len(budgets) + 1] = row
  BY <1>1, <1>2
<1>4. \A b \in Budget!Ids : budgets'[b] = budgets[b]
  BY <1>1, <1>2 DEF Budget!Ids
<1>5. Budget!Ids' = Budget!Ids \cup {Len(budgets) + 1} /\ Len(budgets) + 1 \notin Budget!Ids
  BY <1>2, <1>3 DEF Budget!Ids
<1> QED
  BY <1>1, <1>3, <1>4, <1>5

LEMMA InsertGrows ==
  ASSUME BudgetTypeOK, Budget!VersionsRunOn, Inserted
  PROVE  Grows /\ Budget!VersionsRunOn'
<1>1. PICK s, v : Fresh(s, v) /\ Inserts(s, v)
  BY DEF Inserted
<1> DEFINE new == Len(budgets) + 1
<1>2. /\ budgets' \in Seq(BudgetRows) /\ \A b \in Budget!Ids : budgets'[b] = budgets[b]
      /\ budgets'[new].start = s /\ budgets'[new].version = v
      /\ Budget!Ids' = Budget!Ids \cup {new} /\ new \notin Budget!Ids
  BY <1>1, InsertShape
<1> HIDE DEF new
<1>3. Budget!OfYear(s)' = Budget!OfYear(s) \cup {new} /\ new \notin Budget!OfYear(s)
  BY <1>2 DEF Budget!OfYear
<1>4. \A t : t # s => Budget!OfYear(t)' = Budget!OfYear(t)
  BY <1>2 DEF Budget!OfYear
<1>5. Budget!Versions(s)' = Budget!Versions(s) \cup {v}
  <2>1. \A b \in Budget!OfYear(s) : budgets'[b].version = budgets[b].version
    BY <1>2 DEF Budget!OfYear
  <2> QED
    BY <1>2, <1>3, <2>1 DEF Budget!Versions
<1>6. \A t : t # s => Budget!Versions(t)' = Budget!Versions(t)
  <2>1. \A t : \A b \in Budget!OfYear(t) : budgets'[b].version = budgets[b].version
    BY <1>2 DEF Budget!OfYear
  <2> QED
    BY <1>4, <2>1 DEF Budget!Versions
<1>7. Grows
  BY <1>2, <1>5, <1>6 DEF Grows
<1>8. Budget!Versions(s)' = 1..Cardinality(Budget!OfYear(s)')
  <2>1. IsFiniteSet(Budget!OfYear(s)) /\ Cardinality(Budget!OfYear(s)) \in Nat /\ s \in Starts
    BY <1>1, YearFinite DEF Fresh
  <2>2. Cardinality(Budget!OfYear(s)') = Cardinality(Budget!OfYear(s)) + 1
    BY <1>3, <2>1, FS_AddElement
  <2>3. PICK k \in Nat : k = Cardinality(Budget!OfYear(s)) /\ Budget!Versions(s) = 1..k
    BY <2>1 DEF Budget!VersionsRunOn, Budget!Cardinality, Cardinality
  <2>4. v = k + 1
    BY <1>1, <2>3 DEF Fresh
  <2>5. (1..k) \cup {k + 1} = 1..(k + 1)
    OBVIOUS
  <2> QED
    BY <1>5, <2>2, <2>3, <2>4, <2>5
<1>9. Budget!VersionsRunOn'
  BY <1>4, <1>6, <1>8 DEF Budget!VersionsRunOn, Budget!Cardinality, Cardinality
<1> QED
  BY <1>7, <1>9

\* A request may take the place of another if it points at what there is.
LEMMA JobsKept ==
  ASSUME BudgetInductive, NEW c \in Staff, NEW j \in BudgetJobs, Grows, Budget!Become(c, j),
         j.op \in {"EDIT", "APPROVE", "REVISE", "ACTIVATE"} => Target(j) \in Budget!Ids,
         j.op = "REVISE" => j.version - 1 \in Budget!Versions(budgets[j.source].start)
  PROVE  BudgetTypeOK' /\ JobsPoint'
<1>1. budgetJob \in [Staff -> BudgetJobs] /\ budgetJob' = [budgetJob EXCEPT ![c] = j]
  BY DEF BudgetInductive, BudgetTypeOK, Budget!Become
<1>2. BudgetTypeOK'
  BY <1>1 DEF BudgetTypeOK, Grows
<1>3. ASSUME NEW d \in Staff
      PROVE  /\ budgetJob'[d].op \in {"EDIT", "APPROVE", "REVISE", "ACTIVATE"} => Target(budgetJob'[d]) \in Budget!Ids
             /\ budgetJob'[d].op = "REVISE" => \E b \in Budget!Ids : /\ budgets[b].start = budgets[budgetJob'[d].source].start
                                                       /\ budgets[b].version = budgetJob'[d].version - 1
  <2>1. CASE d = c
    BY <1>1, <2>1 DEF Budget!Versions, Budget!OfYear
  <2>2. CASE d # c
    BY <1>1, <2>2 DEF BudgetInductive, JobsPoint
  <2> QED
    BY <2>1, <2>2
<1>4. ASSUME NEW d \in Staff, budgetJob'[d].op = "REVISE"
      PROVE  \E b \in Budget!Ids' : /\ budgets'[b].start = budgets'[budgetJob'[d].source].start
                            /\ budgets'[b].version = budgetJob'[d].version - 1
  <2>1. budgetJob'[d].source \in Budget!Ids
    BY <1>3, <1>4 DEF Target
  <2>2. PICK b \in Budget!Ids : /\ budgets[b].start = budgets[budgetJob'[d].source].start
                        /\ budgets[b].version = budgetJob'[d].version - 1
    BY <1>3, <1>4
  <2> QED
    BY <2>1, <2>2 DEF Grows
<1>5. \A d \in Staff : budgetJob'[d].op \in {"EDIT", "APPROVE", "REVISE", "ACTIVATE"} => Target(budgetJob'[d]) \in Budget!Ids'
  BY <1>3 DEF Grows
<1>6. JobsPoint'
  BY <1>4, <1>5 DEF JobsPoint, Target
<1> QED
  BY <1>2, <1>6

-----------------------------------------------------------------------------
(***************************************************************************)
(* Steps other than activations                                            *)
(***************************************************************************)

\* No budget becomes ACTIVE.
Calm == \A s : Budget!ActiveOf(s)' \subseteq Budget!ActiveOf(s)

LEMMA CalmKept ==
  ASSUME BudgetInductive, NEW c \in Staff, NEW j \in BudgetJobs, Grows, Budget!Become(c, j), Calm,
         j.op # "ACTIVATE", budgetLock # c => budgetLock' = budgetLock
  PROVE  ActivationHoldsLock' /\ ActivesApart'
<1>1. budgetJob' = [budgetJob EXCEPT ![c] = j] /\ budgetJob \in [Staff -> BudgetJobs]
  BY DEF BudgetInductive, BudgetTypeOK, Budget!Become
<1>2. ASSUME NEW d \in Staff, budgetJob'[d].op = "ACTIVATE"
      PROVE  budgetLock' = d /\ Budget!ActiveOf(budgets[budgetJob[d].budget].start)' \subseteq budgetJob'[d].displaced
  <2>1. d # c /\ budgetJob'[d] = budgetJob[d] /\ budgetJob[d].op = "ACTIVATE"
    BY <1>1, <1>2
  <2>2. budgetLock = d /\ budgetLock' = d /\ Budget!ActiveOf(budgets[budgetJob[d].budget].start) \subseteq budgetJob[d].displaced
    BY <2>1 DEF BudgetInductive, ActivationHoldsLock
  <2>3. budgetJob[d].budget \in Budget!Ids
    BY <2>1, JobType DEF BudgetInductive
  <2>4. PICK s : s = budgets[budgetJob[d].budget].start /\ s = budgets'[budgetJob'[d].budget].start
    BY <2>1, <2>3 DEF Grows
  <2>5. Budget!ActiveOf(s)' \subseteq budgetJob'[d].displaced
    BY <2>1, <2>2, <2>4 DEF Calm
  <2> QED
    BY <2>2, <2>4, <2>5 DEF Budget!ActiveOf, Budget!OfYear
<1>3. ActivationHoldsLock'
  BY <1>2 DEF ActivationHoldsLock
<1>4. ASSUME NEW b \in Budget!Ids', NEW d \in Budget!Ids', budgets'[b].status = "ACTIVE", budgets'[d].status = "ACTIVE",
             budgets'[b].start = budgets'[d].start
      PROVE  b = d
  <2>1. PICK s : s = budgets'[b].start
    OBVIOUS
  <2>2. b \in Budget!ActiveOf(s) /\ d \in Budget!ActiveOf(s)
    BY <1>4, <2>1 DEF Calm, Budget!ActiveOf, Budget!OfYear
  <2> QED
    BY <2>2 DEF Budget!ActiveOf, Budget!OfYear, BudgetInductive, ActivesApart
<1>5. ActivesApart'
  BY <1>4 DEF ActivesApart
<1> QED
  BY <1>3, <1>5

LEMMA SameCalm == UNCHANGED budgets => Calm
BY DEF Calm, Budget!ActiveOf, Budget!OfYear, Budget!Ids

LEMMA InsertCalm ==
  ASSUME BudgetTypeOK, Inserted
  PROVE  Calm
<1>1. PICK s, v : Inserts(s, v)
  BY DEF Inserted
<1> QED
  BY <1>1, InsertShape DEF Calm, Budget!ActiveOf, Budget!OfYear

\* A step that leaves the rows alone.
LEMMA QuietStep ==
  ASSUME BudgetInductive, NEW c \in Staff, NEW j \in BudgetJobs, UNCHANGED budgets, Budget!Become(c, j),
         j.op # "ACTIVATE", budgetLock # c => budgetLock' = budgetLock,
         j.op \in {"EDIT", "APPROVE", "REVISE"} => Target(j) \in Budget!Ids,
         j.op = "REVISE" => j.version - 1 \in Budget!Versions(budgets[j.source].start)
  PROVE  BudgetInductive'
<1>1. Grows /\ Budget!VersionsRunOn'
  BY SameGrows DEF BudgetInductive
<1>2. BudgetTypeOK' /\ JobsPoint'
  BY <1>1, JobsKept
<1>3. ActivationHoldsLock' /\ ActivesApart'
  BY <1>1, SameCalm, CalmKept
<1> QED
  BY <1>1, <1>2, <1>3 DEF BudgetInductive

\* A step that ends a request and makes no budget ACTIVE.
LEMMA CalmStep ==
  ASSUME BudgetInductive, NEW c \in Staff, Budget!Become(c, Budget!Idle), budgetLock' = budgetLock, Calm, Inserted \/ Rewrites
  PROVE  BudgetInductive'
<1>1. Grows /\ Budget!VersionsRunOn'
  BY InsertGrows, RewriteGrows DEF BudgetInductive
<1>2. BudgetTypeOK' /\ JobsPoint'
  BY <1>1, BudgetIdleType, JobsKept
<1>3. ActivationHoldsLock' /\ ActivesApart'
  BY <1>1, BudgetIdleType, CalmKept
<1> QED
  BY <1>1, <1>2, <1>3 DEF BudgetInductive

LEMMA ReadStep ==
  ASSUME BudgetInductive, NEW c \in Staff, Budget!Read(c)
  PROVE  BudgetInductive'
<1>1. UNCHANGED budgets /\ budgetLock' = budgetLock
  BY DEF Budget!Read
<1>2. CASE Budget!ReadCreate(c)
  <2>1. PICK s \in Starts : Budget!Become(c, [op |-> "CREATE", start |-> s])
    BY <1>2 DEF Budget!ReadCreate
  <2>2. [op |-> "CREATE", start |-> s] \in BudgetJobs
    BY DEF BudgetJobs
  <2> QED
    BY <1>1, <2>1, <2>2, QuietStep
<1>3. CASE Budget!ReadEdit(c)
  <2>1. PICK b \in Budget!Ids, l \in Lines, a \in Planned \cup {Budget!Gone} :
          Budget!Become(c, [op |-> "EDIT", budget |-> b, line |-> l, amount |-> a])
    BY <1>3 DEF Budget!ReadEdit
  <2>2. [op |-> "EDIT", budget |-> b, line |-> l, amount |-> a] \in BudgetJobs
    BY DEF BudgetJobs, Budget!Ids
  <2> QED
    BY <1>1, <2>1, <2>2, QuietStep DEF Target
<1>4. CASE Budget!ReadApprove(c)
  <2>1. PICK b \in Budget!Ids : Budget!Become(c, [op |-> "APPROVE", budget |-> b])
    BY <1>4 DEF Budget!ReadApprove
  <2>2. [op |-> "APPROVE", budget |-> b] \in BudgetJobs
    BY DEF BudgetJobs, Budget!Ids
  <2> QED
    BY <1>1, <2>1, <2>2, QuietStep DEF Target
<1>5. CASE Budget!ReadRevise(c)
  <2>1. PICK b \in Budget!Ids : Budget!Become(c, Budget!Revision(b, 1))
    BY <1>5 DEF Budget!ReadRevise
  <2>2. /\ Budget!Revision(b, 1) \in BudgetJobs /\ Budget!Revision(b, 1).op = "REVISE" /\ Budget!Revision(b, 1).source = b
        /\ Budget!Revision(b, 1).version - 1 \in Budget!Versions(budgets[b].start)
    BY <2>1, RevisionType DEF BudgetInductive
  <2> QED
    BY <1>1, <2>1, <2>2, QuietStep DEF Target
<1> QED
  BY <1>2, <1>3, <1>4, <1>5 DEF Budget!Read

LEMMA CreateStep ==
  ASSUME BudgetInductive, NEW c \in Staff, Budget!Create(c)
  PROVE  BudgetInductive'
<1>1. Budget!Become(c, Budget!Idle) /\ budgetLock' = budgetLock /\ budgetJob[c].start \in Starts
  BY JobType DEF Budget!Create, BudgetInductive
<1>2. CASE Budget!Taken(budgetJob[c].start, 1)
  <2>1. UNCHANGED budgets
    BY <1>2 DEF Budget!Create
  <2> QED
    BY <1>1, <2>1, BudgetIdleType, QuietStep
<1>3. CASE ~Budget!Taken(budgetJob[c].start, 1)
  <2> DEFINE row == Budget!Row(budgetJob[c].start, 1, 0, Budget!NoLines)
  <2>1. row \in BudgetRows /\ row.start = budgetJob[c].start /\ row.version = 1 /\ row.status = "DRAFT"
    BY <1>1 DEF Budget!Row, BudgetRows, BudgetStatuses, LineSets, Budget!NoLines
  <2>2. budgets' = Append(budgets, row)
    BY <1>3 DEF Budget!Create
  <2>3. Inserts(budgetJob[c].start, 1)
    BY <2>1, <2>2 DEF Inserts
  <2>4. Fresh(budgetJob[c].start, 1)
    BY <1>1, <1>3 DEF Fresh, Budget!Taken
  <2>5. Inserted
    BY <2>3, <2>4 DEF Inserted
  <2> QED
    BY <1>1, <2>5, InsertCalm, CalmStep DEF BudgetInductive
<1> QED
  BY <1>2, <1>3

LEMMA ReviseStep ==
  ASSUME BudgetInductive, NEW c \in Staff, Budget!Revise(c)
  PROVE  BudgetInductive'
<1> DEFINE b == budgetJob[c].source
           v == budgetJob[c].version
           s == budgets[b].start
<1>1. budgetLock' = budgetLock /\ budgetJob[c].op = "REVISE"
  BY DEF Budget!Revise
<1>2. b \in Budget!Ids /\ budgetJob[c].lines \in LineSets /\ v \in Nat /\ budgetJob[c].attempt \in Nat /\ v - 1 \in Budget!Versions(s)
  BY <1>1, JobType DEF BudgetInductive
<1>3. s \in Starts /\ Budget!Versions(s) \subseteq Nat \ {0}
  BY <1>2, RowType, YearFinite DEF BudgetInductive
<1>4. CASE ~Budget!Taken(s, v)
  <2> DEFINE row == Budget!Row(s, v, b, budgetJob[c].lines)
  <2>1. v \in Nat \ {0} /\ b \in Nat
    BY <1>2, <1>3 DEF Budget!Ids
  <2>2. row \in BudgetRows /\ row.start = s /\ row.version = v /\ row.status = "DRAFT"
    BY <1>2, <1>3, <2>1 DEF Budget!Row, BudgetRows, BudgetStatuses
  <2>3. budgets' = Append(budgets, row) /\ Budget!Become(c, Budget!Idle)
    BY <1>4 DEF Budget!Revise
  <2>4. Inserts(s, v)
    BY <2>2, <2>3 DEF Inserts
  <2>5. Fresh(s, v)
    BY <1>2, <1>3, <1>4 DEF Fresh, Budget!Taken
  <2>6. Inserted
    BY <2>4, <2>5 DEF Inserted
  <2> QED
    BY <1>1, <2>3, <2>6, InsertCalm, CalmStep DEF BudgetInductive
<1>5. CASE Budget!Taken(s, v)
  <2>1. UNCHANGED budgets
    BY <1>5 DEF Budget!Revise
  <2>2. Budget!Become(c, Budget!Idle) \/ Budget!Become(c, Budget!Revision(b, budgetJob[c].attempt + 1))
    BY <1>5 DEF Budget!Revise
  <2>3. CASE Budget!Become(c, Budget!Idle)
    BY <1>1, <2>1, <2>3, BudgetIdleType, QuietStep
  <2>4. CASE Budget!Become(c, Budget!Revision(b, budgetJob[c].attempt + 1))
    <3>1. PICK n \in Nat : n = budgetJob[c].attempt + 1
      BY <1>2
    <3>2. /\ Budget!Revision(b, n) \in BudgetJobs /\ Budget!Revision(b, n).op = "REVISE" /\ Budget!Revision(b, n).source = b
          /\ Budget!Revision(b, n).version - 1 \in Budget!Versions(s)
      BY <1>2, RevisionType DEF BudgetInductive
    <3> QED
      BY <1>1, <1>2, <2>1, <2>4, <3>1, <3>2, QuietStep DEF Target
  <2> QED
    BY <2>2, <2>3, <2>4
<1> QED
  BY <1>4, <1>5

\* Rewriting one row, its year and version apart, makes nothing else ACTIVE.
LEMMA RowRewritten ==
  ASSUME BudgetTypeOK, NEW b \in Budget!Ids, NEW row \in BudgetRows, budgets' = [budgets EXCEPT ![b] = row],
         row.start = budgets[b].start, row.version = budgets[b].version,
         row.status = "ACTIVE" => budgets[b].status = "ACTIVE"
  PROVE  Rewrites /\ Calm
<1>1. budgets \in Seq(BudgetRows) /\ b \in 1..Len(budgets)
  BY DEF BudgetTypeOK, Budget!Ids
<1>2. budgets' \in Seq(BudgetRows) /\ Len(budgets') = Len(budgets)
  BY <1>1
<1>3. \A d \in Budget!Ids : budgets'[d] = IF d = b THEN row ELSE budgets[d]
  BY <1>1 DEF Budget!Ids
<1>4. Rewrites
  BY <1>2, <1>3 DEF Rewrites
<1>5. Calm
  BY <1>2, <1>3 DEF Calm, Budget!ActiveOf, Budget!OfYear, Budget!Ids
<1> QED
  BY <1>4, <1>5

LEMMA EditStep ==
  ASSUME BudgetInductive, NEW c \in Staff, Budget!Edit(c)
  PROVE  BudgetInductive'
<1> DEFINE b == budgetJob[c].budget
           l == budgetJob[c].line
           old == budgets[b].lines
           new == IF old[l] = Budget!Gone THEN old ELSE [old EXCEPT ![l] = budgetJob[c].amount]
           row == [budgets[b] EXCEPT !.lines = new]
<1>1. budgetLock' = budgetLock /\ Budget!Become(c, Budget!Idle) /\ budgetJob[c].op = "EDIT"
  BY DEF Budget!Edit
<1>2. b \in Budget!Ids /\ l \in Lines /\ budgetJob[c].amount \in Planned \cup {Budget!Gone}
  BY <1>1, JobType DEF BudgetInductive
<1>3. budgets[b] \in BudgetRows /\ old \in LineSets
  BY <1>2, RowType DEF BudgetInductive
<1>4. new \in LineSets
  BY <1>2, <1>3 DEF LineSets
<1>5. row \in BudgetRows /\ row.start = budgets[b].start /\ row.version = budgets[b].version /\ row.status = budgets[b].status
  BY <1>3, <1>4 DEF BudgetRows
<1>6. budgets' = [budgets EXCEPT ![b] = row]
  BY <1>2 DEF Budget!Edit
<1>7. Rewrites /\ Calm
  BY <1>2, <1>5, <1>6, RowRewritten DEF BudgetInductive
<1> QED
  BY <1>1, <1>7, CalmStep

LEMMA ApproveStep ==
  ASSUME BudgetInductive, NEW c \in Staff, Budget!Approve(c)
  PROVE  BudgetInductive'
<1> DEFINE b == budgetJob[c].budget
           row == [budgets[b] EXCEPT !.status = "APPROVED"]
<1>1. budgetLock' = budgetLock /\ Budget!Become(c, Budget!Idle) /\ budgetJob[c].op = "APPROVE"
  BY DEF Budget!Approve
<1>2. b \in Budget!Ids
  BY <1>1, JobType DEF BudgetInductive
<1>3. budgets[b] \in BudgetRows
  BY <1>2, RowType DEF BudgetInductive
<1>4. row \in BudgetRows /\ row.start = budgets[b].start /\ row.version = budgets[b].version /\ row.status # "ACTIVE"
  BY <1>3 DEF BudgetRows, BudgetStatuses
<1>5. budgets' = [budgets EXCEPT ![b] = row]
  BY <1>2 DEF Budget!Approve
<1>6. Rewrites /\ Calm
  BY <1>2, <1>4, <1>5, RowRewritten DEF BudgetInductive
<1> QED
  BY <1>1, <1>6, CalmStep

LEMMA AbandonStep ==
  ASSUME BudgetInductive, NEW c \in Staff, Budget!Abandon(c)
  PROVE  BudgetInductive'
BY BudgetIdleType, QuietStep DEF Budget!Abandon

-----------------------------------------------------------------------------
(***************************************************************************)
(* Activations                                                             *)
(***************************************************************************)

LEMMA ReadActivateStep ==
  ASSUME BudgetInductive, NEW c \in Staff, Budget!ReadActivate(c)
  PROVE  BudgetInductive'
<1>1. PICK b \in Budget!Ids : Budget!Become(c, [op |-> "ACTIVATE", budget |-> b, displaced |-> Budget!ActiveOf(budgets[b].start)])
  BY DEF Budget!ReadActivate
<1> DEFINE j == [op |-> "ACTIVATE", budget |-> b, displaced |-> Budget!ActiveOf(budgets[b].start)]
<1>2. UNCHANGED budgets /\ budgetLock = Budget!Free /\ budgetLock' = c
  BY DEF Budget!ReadActivate
<1>3. j \in BudgetJobs
  BY DEF BudgetJobs, Budget!ActiveOf, Budget!OfYear, Budget!Ids
<1>4. Grows /\ Budget!VersionsRunOn'
  BY <1>2, SameGrows DEF BudgetInductive
<1>5. BudgetTypeOK' /\ JobsPoint'
  BY <1>1, <1>3, <1>4, JobsKept DEF Target
<1>6. \A d \in Staff : d # c => budgetJob'[d] = budgetJob[d] /\ budgetJob[d].op # "ACTIVATE"
  BY <1>1, <1>2, BudgetAssumption DEF Budget!Free, BudgetInductive, ActivationHoldsLock, BudgetTypeOK, Budget!Become
<1>7. budgetJob'[c] = j
  BY <1>1 DEF BudgetInductive, BudgetTypeOK, Budget!Become
<1>8. ActivationHoldsLock'
  BY <1>2, <1>6, <1>7 DEF ActivationHoldsLock, Budget!ActiveOf, Budget!OfYear, Budget!Ids
<1>9. ActivesApart'
  BY <1>2 DEF BudgetInductive, ActivesApart, Budget!Ids
<1> QED
  BY <1>4, <1>5, <1>8, <1>9 DEF BudgetInductive

\* What an activation that holds the lock finds: no ACTIVE budget of its
\* year that it has not read.
LEMMA IndexHolds ==
  ASSUME BudgetInductive, NEW c \in Staff, budgetJob[c].op = "ACTIVATE"
  PROVE  ~Budget!IndexRefuses(budgetJob[c].budget, budgetJob[c].displaced)
BY DEF BudgetInductive, ActivationHoldsLock, Budget!IndexRefuses

LEMMA ActivateStep ==
  ASSUME BudgetInductive, NEW c \in Staff, Budget!Activate(c)
  PROVE  BudgetInductive'
<1> DEFINE b == budgetJob[c].budget
           s == budgets[b].start
           superseded == budgetJob[c].displaced \cup Budget!ApprovedBefore(b)
           Written(d) == IF d = b THEN [budgets[d] EXCEPT !.status = "ACTIVE"]
                         ELSE IF d \in superseded THEN [budgets[d] EXCEPT !.status = "SUPERSEDED"]
                         ELSE budgets[d]
<1>1. budgetJob[c].op = "ACTIVATE" /\ budgetLock' = Budget!Free /\ Budget!Become(c, Budget!Idle)
  BY DEF Budget!Activate
<1>2. b \in Budget!Ids /\ ~Budget!IndexRefuses(b, budgetJob[c].displaced) /\ budgetLock = c /\ Budget!ActiveOf(s) \subseteq budgetJob[c].displaced
  BY <1>1, IndexHolds, JobType DEF BudgetInductive, ActivationHoldsLock
<1>3. budgets' = [d \in Budget!Ids |-> Written(d)]
  BY <1>2 DEF Budget!Activate
<1>4. \A d \in Budget!Ids : Written(d) \in BudgetRows /\ Written(d).start = budgets[d].start /\ Written(d).version = budgets[d].version
  <2>1. \A d \in Budget!Ids : budgets[d] \in BudgetRows
    BY RowType DEF BudgetInductive
  <2> QED
    BY <2>1 DEF BudgetRows, BudgetStatuses
<1>5. \A d \in Budget!Ids : Written(d).status = "ACTIVE" => d = b \/ (d \notin budgetJob[c].displaced /\ budgets[d].status = "ACTIVE")
  <2>1. \A d \in Budget!Ids : budgets[d] \in BudgetRows
    BY RowType DEF BudgetInductive
  <2> QED
    BY <2>1 DEF BudgetRows
<1> HIDE DEF Written
<1>6. budgets' \in Seq(BudgetRows) /\ Len(budgets') = Len(budgets)
  <2>1. PICK n \in Nat : n = Len(budgets)
    BY DEF BudgetInductive, BudgetTypeOK
  <2>2. budgets' \in [1..n -> BudgetRows]
    BY <1>3, <1>4, <2>1 DEF Budget!Ids
  <2> QED
    BY <2>1, <2>2
<1>7. Budget!Ids' = Budget!Ids /\ \A d \in Budget!Ids : budgets'[d] = Written(d)
  BY <1>3, <1>6 DEF Budget!Ids
<1>8. Rewrites
  BY <1>4, <1>6, <1>7 DEF Rewrites
<1>9. Grows /\ Budget!VersionsRunOn'
  BY <1>8, RewriteGrows DEF BudgetInductive
<1>10. BudgetTypeOK' /\ JobsPoint'
  BY <1>1, <1>9, BudgetIdleType, JobsKept
<1>11. ActivationHoldsLock'
  <2>1. \A d \in Staff : budgetJob'[d].op # "ACTIVATE"
    BY <1>1, <1>2, BudgetIdleType DEF BudgetInductive, BudgetTypeOK, ActivationHoldsLock, Budget!Become
  <2> QED
    BY <2>1 DEF ActivationHoldsLock
<1>12. ASSUME NEW d \in Budget!Ids, NEW e \in Budget!Ids, budgets'[d].status = "ACTIVE", budgets'[e].status = "ACTIVE",
              budgets'[d].start = budgets'[e].start
       PROVE  d = e
  <2>1. budgets[d].start = budgets[e].start
    BY <1>4, <1>7, <1>12
  <2>2. \A x \in {d, e} : x = b \/ (x \notin Budget!ActiveOf(s) /\ budgets[x].status = "ACTIVE")
    BY <1>2, <1>5, <1>7, <1>12
  <2>3. \A x \in {d, e} : x = b \/ (budgets[x].start # s /\ budgets[x].status = "ACTIVE")
    BY <2>2 DEF Budget!ActiveOf, Budget!OfYear
  <2> QED
    BY <2>1, <2>3 DEF BudgetInductive, ActivesApart
<1>13. ActivesApart'
  BY <1>7, <1>12 DEF ActivesApart
<1> QED
  BY <1>9, <1>10, <1>11, <1>13 DEF BudgetInductive

-----------------------------------------------------------------------------
(***************************************************************************)
(* Theorems                                                                *)
(***************************************************************************)

LEMMA BudgetInitInductive == Budget!Init => BudgetInductive
<1> SUFFICES ASSUME Budget!Init PROVE BudgetInductive
  OBVIOUS
<1>1. Budget!Ids = {} /\ \A c \in Staff : budgetJob[c].op = "IDLE"
  BY BudgetIdleType DEF Budget!Init, Budget!Ids
<1>2. BudgetTypeOK
  BY BudgetIdleType DEF Budget!Init, BudgetTypeOK
<1>3. Budget!VersionsRunOn
  <2>1. \A s : Budget!OfYear(s) = {} /\ Budget!Versions(s) = {}
    BY <1>1 DEF Budget!OfYear, Budget!Versions
  <2>2. 1..0 = {}
    OBVIOUS
  <2> QED
    BY <2>1, <2>2, FS_EmptySet DEF Budget!VersionsRunOn, Budget!Cardinality, Cardinality
<1> QED
  BY <1>1, <1>2, <1>3 DEF BudgetInductive, JobsPoint, ActivationHoldsLock, ActivesApart

LEMMA BudgetNextInductive == BudgetInductive /\ [Budget!Next]_(Budget!vars) => BudgetInductive'
<1> SUFFICES ASSUME BudgetInductive, [Budget!Next]_(Budget!vars) PROVE BudgetInductive'
  OBVIOUS
<1>1. CASE UNCHANGED Budget!vars
  BY <1>1 DEF Budget!vars, BudgetInductive, BudgetTypeOK, JobsPoint, Target, ActivationHoldsLock, ActivesApart, Budget!VersionsRunOn,
              Budget!ActiveOf, Budget!OfYear, Budget!Versions, Budget!Ids
<1>2. CASE Budget!Next
  <2>1. PICK c \in Staff :
          \/ Budget!Read(c) \/ Budget!ReadActivate(c)
          \/ Budget!Create(c) \/ Budget!Edit(c) \/ Budget!Approve(c) \/ Budget!Revise(c) \/ Budget!Activate(c) \/ Budget!Abandon(c)
    BY <1>2 DEF Budget!Next
  <2> QED
    BY <2>1, ReadStep, ReadActivateStep, CreateStep, EditStep, ApproveStep, ReviseStep, ActivateStep, AbandonStep
<1> QED
  BY <1>1, <1>2

THEOREM BudgetInductiveHolds == Budget!Spec => []BudgetInductive
BY BudgetInitInductive, BudgetNextInductive, PTL DEF Budget!Spec

\* The rows and the requests keep their types: every row of a budget keeps a
\* year, a version and a status that the service knows.
THEOREM BudgetsTypeCorrect == Budget!Spec => []BudgetTypeOK
<1>1. BudgetInductive => BudgetTypeOK
  BY DEF BudgetInductive
<1> QED
  BY <1>1, BudgetInductiveHolds, PTL

\* The versions of a financial year run on from 1 without gap or double,
\* however many clients revise at once (FinancialBudgetsService.createRevision).
THEOREM VersionsHaveNoGaps == Budget!Spec => []Budget!VersionsRunOn
<1>1. BudgetInductive => Budget!VersionsRunOn
  BY DEF BudgetInductive
<1> QED
  BY <1>1, BudgetInductiveHolds, PTL

LEMMA AtMostOne ==
  ASSUME NEW S, \A x, y \in S : x = y
  PROVE  Cardinality(S) <= 1
<1>1. CASE S = {}
  BY <1>1, FS_EmptySet
<1>2. CASE S # {}
  <2>1. PICK x : S = {x}
    BY <1>2
  <2> QED
    BY <2>1, FS_Singleton
<1> QED
  BY <1>1, <1>2

\* A financial year has one ACTIVE budget at most, and the lock on the
\* configuration's row is enough for that: the partial unique index never
\* refuses an activation (FinancialBudgetsService.activate).
THEOREM OneActive == Budget!Spec => []OneActivePerYear
<1>1. BudgetInductive => OneActivePerYear
  <2> SUFFICES ASSUME BudgetInductive PROVE OneActivePerYear
    OBVIOUS
  <2>1. ASSUME NEW s \in Starts PROVE Cardinality(Budget!ActiveOf(s)) <= 1
    <3>1. \A x, y \in Budget!ActiveOf(s) : x = y
      BY DEF BudgetInductive, ActivesApart, Budget!ActiveOf, Budget!OfYear
    <3> QED
      BY <3>1, AtMostOne
  <2> QED
    BY <2>1, IndexHolds DEF OneActivePerYear, Budget!OneActivePerYear, Budget!Cardinality, Cardinality
<1> QED
  BY <1>1, BudgetInductiveHolds, PTL
-----------------------------------------------------------------------------
(***************************************************************************)
(* The opening journal (SchemeSetup).  The inductive invariant says that   *)
(* the lines somebody is about to post, like those posted, carry what the  *)
(* setup shows, but for what edits wrote after the activation: such edits  *)
(* leave their mark, and no lines are there before the activation.         *)
(***************************************************************************)
Nothing == [owing |-> 0, credit |-> 0]

FundRows == [type : Setup!FundTypes, opening : Nat \cup {Nil}]
LineRows == [role : {"FUND_CASH", "LOT_LEVY_RECEIVABLE", "UNAPPLIED_CASH"}, fund : Nat,
             lot : Spaces \cup {Nil}, amount : Nat]

SetupJobOK(q) ==
  /\ q.op = "YEAR" => q.dates \in Years
  /\ q.op = "FUND" => q.type \in Setup!FundTypes /\ q.opening \in Nat \cup {Nil}
  /\ q.op = "BALANCE" => q.fund \in DOMAIN funds /\ q.opening \in Nat
  /\ q.op = "POSITIONS" => \A l \in DOMAIN q.given : q.given[l] \in [owing : Nat, credit : Nat]

SetupTypeOK ==
  /\ job = [c \in Staff |-> job[c]] /\ "status" \in DOMAIN config
  /\ config = [x \in DOMAIN config |-> config[x]]
  /\ funds \in Seq(FundRows)
  /\ positions \in [Spaces -> [owing : Nat, credit : Nat] \cup {Nil}]
  /\ \A c \in Staff : SetupJobOK(job[c])

\* What some lines say of one fund's cash, and of one lot.
LinesOf(lines, role, lot) == {line \in lines : line.role = role /\ line.lot = lot}
CashOf(lines, f) == {line \in LinesOf(lines, "FUND_CASH", Nil) : line.fund = f}
Worth(lines) == SumOver([line \in lines |-> line.amount], lines)

FundTied(lines, f) == Worth(CashOf(lines, f)) = IF funds[f].opening = Nil THEN 0 ELSE funds[f].opening
LotTied(lines, l) ==
  positions[l] \notin {Nil, Nothing} =>
    /\ Worth(LinesOf(lines, "LOT_LEVY_RECEIVABLE", l)) = positions[l].owing
    /\ Worth(LinesOf(lines, "UNAPPLIED_CASH", l)) = positions[l].credit

Tied(lines) ==
  /\ config.status = "ACTIVE"
  /\ \A line \in lines : line.fund \in DOMAIN funds
  /\ \A f \in DOMAIN funds : <<"FUND", f>> \notin late => FundTied(lines, f)
  /\ \A l \in Spaces : <<"LOT", l>> \notin late => LotTied(lines, l)

SetupSound ==
  /\ SetupTypeOK
  /\ journal # {} => Tied(journal)
  /\ \A c \in Staff : job[c].op = "GENERATE" => Tied(job[c].lines)

LEMMA SumOne ==
  ASSUME NEW x, NEW f, f[x] \in Int
  PROVE  SumOver(f, {x}) = f[x]
<1>1. IsFiniteSet({}) /\ x \notin {} /\ {} \cup {x} = {x}
  BY FS_EmptySet
<1>2. SumOver(f, {} \cup {x}) = SumOver(f, {}) + f[x]
  <2>1. \A y \in {} \cup {x} : f[y] \in Int
    OBVIOUS
  <2> QED
    BY <1>1, <2>1, SumAdd
<1> QED
  BY <1>1, <1>2, SumEmpty

\* The worth of the cash lines is the openings, fund by fund.
LEMMA CashTies ==
  ASSUME SetupTypeOK, NEW lines, NEW f \in DOMAIN funds, CashOf(lines, f) = CashOf(Setup!CashLines, f)
  PROVE  FundTied(lines, f)
<1> DEFINE line == Setup!Line("FUND_CASH", f, Nil, funds[f].opening)
           all == CashOf(lines, f)
<1>1. \A g \in DOMAIN funds : funds[g] \in FundRows
  BY DEF SetupTypeOK
<1>2. funds[f].opening \in Nat \cup {Nil}
  BY <1>1 DEF FundRows
<1>3. CASE funds[f].opening \in {Nil, 0}
  <2>1. all = {}
    BY <1>3 DEF CashOf, LinesOf, Setup!CashLines, Setup!Line
  <2>2. Worth({}) = 0
    BY SumEmpty DEF Worth
  <2> QED
    BY <1>3, <2>1, <2>2 DEF FundTied
<1>4. CASE funds[f].opening \notin {Nil, 0}
  <2>1. all = {line} /\ line.amount = funds[f].opening
    BY <1>4 DEF CashOf, LinesOf, Setup!CashLines, Setup!Line
  <2> HIDE DEF line
  <2>2. Worth({line}) = line.amount
    <3> DEFINE g == [x \in {line} |-> x.amount]
    <3>1. g[line] = line.amount /\ g[line] \in Int
      BY <1>2, <1>4, <2>1
    <3> HIDE DEF g
    <3>2. SumOver(g, {line}) = g[line]
      BY <3>1, SumOne
    <3> QED
      BY <3>1, <3>2 DEF Worth, g
  <2> QED
    BY <1>4, <2>1, <2>2 DEF FundTied
<1> QED
  BY <1>3, <1>4

\* Lines of one role and lot, one for every fund with something, are worth
\* what the split says.
LEMMA SplitWorth ==
  ASSUME NEW D, IsFiniteSet(D), NEW h, \A f \in D : h[f] \in Nat, NEW role, NEW l
  PROVE  Worth({Setup!Line(role, f, l, h[f]) : f \in {f \in D : h[f] > 0}}) = SumOver(h, D)
<1> DEFINE Made(T) == {Setup!Line(role, f, l, h[f]) : f \in {f \in T : h[f] > 0}}
           G == {T \in SUBSET D : IsFiniteSet(Made(T)) /\ Worth(Made(T)) = SumOver(h, T)}
<1>1. {} \in G
  <2>1. Made({}) = {}
    OBVIOUS
  <2>2. SumOver(h, {}) = 0 /\ Worth({}) = 0
    BY SumEmpty DEF Worth
  <2> QED
    BY <2>1, <2>2, FS_EmptySet
<1>2. ASSUME NEW T \in SUBSET D, NEW f \in D, T \in G, f \notin T PROVE T \cup {f} \in G
  <2> DEFINE line == Setup!Line(role, f, l, h[f])
             M == Made(T)
  <2>1. IsFiniteSet(M) /\ Worth(M) = SumOver(h, T)
    BY <1>2
  <2>2. \A x \in M : x.amount \in Int /\ x.fund \in T
    BY DEF Setup!Line
  <2>3. line.fund = f /\ line.amount = h[f] /\ h[f] \in Nat
    BY DEF Setup!Line
  <2>4. IsFiniteSet(T) /\ \A g \in T \cup {f} : h[g] \in Int
    BY FS_Subset
  <2>5. SumOver(h, T \cup {f}) = SumOver(h, T) + h[f]
    BY <1>2, <2>4, SumAdd
  <2>6. CASE h[f] = 0
    <3>1. Made(T \cup {f}) = M
      BY <2>6
    <3>2. SumOver(h, T) \in Int
      BY <2>4, SumType
    <3>3. SumOver(h, T \cup {f}) = SumOver(h, T)
      BY <2>5, <2>6, <3>2
    <3>4. IsFiniteSet(Made(T \cup {f})) /\ Worth(Made(T \cup {f})) = SumOver(h, T \cup {f})
      BY <2>1, <3>1, <3>3
    <3> HIDE DEF Made
    <3> QED
      BY <3>4
  <2>7. CASE h[f] # 0
    <3>1. Made(T \cup {f}) = M \cup {line}
      BY <2>3, <2>7
    <3> HIDE DEF line, M
    <3>2. line \notin M
      BY <1>2, <2>2, <2>3
    <3> DEFINE a == [x \in M \cup {line} |-> x.amount]
    <3>3. \A x \in M \cup {line} : a[x] \in Int
      BY <2>2, <2>3
    <3>4. a[line] = h[f] /\ \A x \in M : a[x] = x.amount
      BY <2>3
    <3> HIDE DEF a
    <3>5. SumOver(a, M \cup {line}) = SumOver(a, M) + a[line]
      BY <2>1, <3>2, <3>3, SumAdd
    <3>6. SumOver(a, M) = Worth(M)
      <4> DEFINE b == [x \in M |-> x.amount]
      <4>1. \A x \in M : b[x] \in Int /\ a[x] = b[x]
        BY <2>2, <3>4
      <4> HIDE DEF b
      <4>2. SumOver(a, M) = SumOver(b, M)
        BY <2>1, <4>1, SumCongruent
      <4> QED
        BY <4>2 DEF Worth, b
    <3>7. Worth(M \cup {line}) = SumOver(a, M \cup {line})
      BY DEF Worth, a
    <3>8. IsFiniteSet(M \cup {line})
      BY <2>1, FS_AddElement
    <3> QED
      BY <2>1, <2>5, <3>1, <3>4, <3>5, <3>6, <3>7, <3>8
  <2> QED
    BY <2>3, <2>6, <2>7
<1> HIDE DEF G
<1>3. \A T \in SUBSET D : T \in G
  BY <1>1, <1>2, SetInduction
<1>4. D \in G
  BY <1>3
<1> QED
  BY <1>4 DEF G

LEMMA LotLinesOf ==
  ASSUME SetupTypeOK, NEW splits \in Splits, NEW l \in DOMAIN splits, positions[l] # Nil,
         NEW lines, lines = Setup!CashLines \cup Setup!LotLines(splits)
  PROVE  /\ LinesOf(lines, "LOT_LEVY_RECEIVABLE", l)
              = {Setup!Line("LOT_LEVY_RECEIVABLE", f, l, splits[l][f].owing) :
                   f \in {f \in DOMAIN splits[l] : splits[l][f].owing > 0}}
         /\ LinesOf(lines, "UNAPPLIED_CASH", l)
              = {Setup!Line("UNAPPLIED_CASH", f, l, splits[l][f].credit) :
                   f \in {f \in DOMAIN splits[l] : splits[l][f].credit > 0}}
BY DEF LinesOf, Setup!CashLines, Setup!LotLines, Setup!Line

LEMMA GenerateTies ==
  ASSUME SetupTypeOK, config.status = "ACTIVE", NEW splits \in Splits, Setup!SplitsAgree(splits),
         NEW lines, lines = Setup!CashLines \cup Setup!LotLines(splits), Setup!Postable(lines)
  PROVE  Tied(lines)
<1>1. ASSUME NEW f \in DOMAIN funds PROVE FundTied(lines, f)
  <2>1. CashOf(lines, f) = CashOf(Setup!CashLines, f)
    BY DEF CashOf, LinesOf, Setup!LotLines, Setup!Line
  <2> QED
    BY <2>1, CashTies
<1>2. ASSUME NEW l \in Spaces PROVE LotTied(lines, l)
  <2> SUFFICES ASSUME positions[l] \notin {Nil, Nothing}
               PROVE  /\ Worth(LinesOf(lines, "LOT_LEVY_RECEIVABLE", l)) = positions[l].owing
                      /\ Worth(LinesOf(lines, "UNAPPLIED_CASH", l)) = positions[l].credit
    BY DEF LotTied
  <2>1. /\ l \in DOMAIN splits
        /\ Setup!Amounts(splits[l], "owing") = positions[l].owing
        /\ Setup!Amounts(splits[l], "credit") = positions[l].credit
    BY DEF Setup!SplitsAgree, Nothing
  <2> DEFINE D == DOMAIN splits[l]
             owing == [f \in D |-> splits[l][f].owing]
             credit == [f \in D |-> splits[l][f].credit]
  <2>2. IsFiniteSet(D) /\ \A f \in D : splits[l][f] \in [owing : Nat, credit : Nat]
    BY <2>1, SetupAssumption
  <2>3. Setup!Amounts(splits[l], "owing") = SumOver(owing, D)
    BY DEF Setup!Amounts, SumOver, Setup!SumOver
  <2>4. Setup!Amounts(splits[l], "credit") = SumOver(credit, D)
    BY DEF Setup!Amounts, SumOver, Setup!SumOver
  <2>5. /\ LinesOf(lines, "LOT_LEVY_RECEIVABLE", l)
             = {Setup!Line("LOT_LEVY_RECEIVABLE", f, l, splits[l][f].owing) :
                  f \in {f \in DOMAIN splits[l] : splits[l][f].owing > 0}}
        /\ LinesOf(lines, "UNAPPLIED_CASH", l)
             = {Setup!Line("UNAPPLIED_CASH", f, l, splits[l][f].credit) :
                  f \in {f \in DOMAIN splits[l] : splits[l][f].credit > 0}}
    BY <2>1, LotLinesOf
  <2>6. \A f \in D : owing[f] = splits[l][f].owing /\ credit[f] = splits[l][f].credit
                     /\ owing[f] \in Nat /\ credit[f] \in Nat
    BY <2>2
  <2>7. /\ LinesOf(lines, "LOT_LEVY_RECEIVABLE", l)
             = {Setup!Line("LOT_LEVY_RECEIVABLE", f, l, owing[f]) : f \in {f \in D : owing[f] > 0}}
        /\ LinesOf(lines, "UNAPPLIED_CASH", l)
             = {Setup!Line("UNAPPLIED_CASH", f, l, credit[f]) : f \in {f \in D : credit[f] > 0}}
    BY <2>5, <2>6
  <2> HIDE DEF D, owing, credit
  <2>8. Worth({Setup!Line("LOT_LEVY_RECEIVABLE", f, l, owing[f]) : f \in {f \in D : owing[f] > 0}}) = SumOver(owing, D)
    <3>1. IsFiniteSet(D)
      BY <2>2
    <3>2. \A f \in D : owing[f] \in Nat
      BY <2>6
    <3> QED
      BY <3>1, <3>2, SplitWorth
  <2>9. Worth({Setup!Line("UNAPPLIED_CASH", f, l, credit[f]) : f \in {f \in D : credit[f] > 0}}) = SumOver(credit, D)
    <3>1. IsFiniteSet(D)
      BY <2>2
    <3>2. \A f \in D : credit[f] \in Nat
      BY <2>6
    <3> QED
      BY <3>1, <3>2, SplitWorth
  <2> QED
    BY <2>1, <2>3, <2>4, <2>7, <2>8, <2>9
<1>3. \A line \in lines : line.fund \in DOMAIN funds
  BY DEF Setup!Postable
<1> QED
  BY <1>1, <1>2, <1>3 DEF Tied

\* Edits that come too late leave their mark, so what was tied stays tied.
LEMMA StaysTied ==
  ASSUME NEW lines, Tied(lines), config'.status = config.status, late \subseteq late',
         DOMAIN funds \subseteq DOMAIN funds',
         \A f \in DOMAIN funds' : <<"FUND", f>> \notin late' => f \in DOMAIN funds /\ funds'[f] = funds[f],
         \A l \in Spaces : <<"LOT", l>> \notin late' => positions'[l] = positions[l]
  PROVE  Tied(lines)'
<1>1. \A f \in DOMAIN funds' : <<"FUND", f>> \notin late' => FundTied(lines, f)'
  BY DEF Tied, FundTied
<1>2. \A l \in Spaces : <<"LOT", l>> \notin late' => LotTied(lines, l)'
  BY DEF Tied, LotTied
<1> QED
  BY <1>1, <1>2 DEF Tied

\* What a request reads is what it may write, and lines it means to post tie.
LEMMA SetupReads ==
  ASSUME SetupSound, NEW c \in Staff, NEW q, Setup!Reads(c, q), SetupJobOK(q), q.op = "GENERATE" => Tied(q.lines)
  PROVE  SetupSound'
<1>1. /\ job' = [job EXCEPT ![c] = q] /\ funds' = funds /\ positions' = positions /\ config' = config
      /\ journal' = journal /\ late' = late
  BY DEF Setup!Reads, Setup!Become
<1>2. job' = [d \in Staff |-> job'[d]] /\ job'[c] = q /\ \A d \in Staff \ {c} : job'[d] = job[d]
  BY <1>1 DEF SetupSound, SetupTypeOK
<1>3. SetupTypeOK'
  BY <1>1, <1>2 DEF SetupSound, SetupTypeOK, SetupJobOK
<1>4. \A d \in Staff : job'[d].op = "GENERATE" => Tied(job'[d].lines)
  BY <1>2 DEF SetupSound
<1>5. (journal # {} => Tied(journal))' /\ \A d \in Staff : (job[d].op = "GENERATE" => Tied(job[d].lines))'
  BY <1>1, <1>4 DEF SetupSound, Tied, FundTied, LotTied
<1> QED
  BY <1>3, <1>5 DEF SetupSound

LEMMA SetupReading ==
  ASSUME SetupSound, NEW c \in Staff,
         \/ Setup!ReadYear(c) \/ Setup!ReadFund(c) \/ Setup!ReadBalance(c) \/ Setup!ReadPositions(c)
         \/ Setup!ReadActivate(c) \/ Setup!ReadGenerate(c)
  PROVE  SetupSound'
<1>1. CASE Setup!ReadYear(c)
  <2>1. PICK dates \in Years : Setup!Reads(c, [op |-> "YEAR", dates |-> dates])
    BY <1>1 DEF Setup!ReadYear
  <2> DEFINE q == [op |-> "YEAR", dates |-> dates]
  <2>2. SetupJobOK(q) /\ q.op # "GENERATE"
    BY DEF SetupJobOK
  <2> HIDE DEF q
  <2>3. Setup!Reads(c, q)
    BY <2>1 DEF q
  <2> QED
    BY <2>2, <2>3, SetupReads
<1>2. CASE Setup!ReadFund(c)
  <2>1. PICK type \in Setup!FundTypes, opening \in Openings \cup {Nil} :
          Setup!Reads(c, [op |-> "FUND", type |-> type, opening |-> opening])
    BY <1>2 DEF Setup!ReadFund
  <2> DEFINE q == [op |-> "FUND", type |-> type, opening |-> opening]
  <2>2. SetupJobOK(q) /\ q.op # "GENERATE"
    BY SetupAssumption DEF SetupJobOK
  <2> HIDE DEF q
  <2>3. Setup!Reads(c, q)
    BY <2>1 DEF q
  <2> QED
    BY <2>2, <2>3, SetupReads
<1>3. CASE Setup!ReadBalance(c)
  <2>1. PICK f \in DOMAIN funds, opening \in Openings :
          Setup!Reads(c, [op |-> "BALANCE", fund |-> f, opening |-> opening])
    BY <1>3 DEF Setup!ReadBalance
  <2> DEFINE q == [op |-> "BALANCE", fund |-> f, opening |-> opening]
  <2>2. SetupJobOK(q) /\ q.op # "GENERATE"
    BY SetupAssumption DEF SetupJobOK
  <2> HIDE DEF q
  <2>3. Setup!Reads(c, q)
    BY <2>1 DEF q
  <2> QED
    BY <2>2, <2>3, SetupReads
<1>4. CASE Setup!ReadPositions(c)
  <2>0. PICK S \in (SUBSET lots) \ {{}} : \E given \in [S -> Balances] :
          Setup!Reads(c, [op |-> "POSITIONS", given |-> given])
    BY <1>4 DEF Setup!ReadPositions
  <2>1. PICK given \in [S -> Balances] : Setup!Reads(c, [op |-> "POSITIONS", given |-> given])
    BY <2>0
  <2> DEFINE q == [op |-> "POSITIONS", given |-> given]
  <2>2. SetupJobOK(q) /\ q.op # "GENERATE"
    BY SetupAssumption DEF SetupJobOK
  <2> HIDE DEF q
  <2>3. Setup!Reads(c, q)
    BY <2>1 DEF q
  <2> QED
    BY <2>2, <2>3, SetupReads
<1>5. CASE Setup!ReadActivate(c)
  <2> DEFINE q == [op |-> "ACTIVATE"]
  <2>1. SetupJobOK(q) /\ q.op # "GENERATE"
    BY DEF SetupJobOK
  <2> HIDE DEF q
  <2>2. Setup!Reads(c, q)
    BY <1>5 DEF Setup!ReadActivate, q
  <2> QED
    BY <2>1, <2>2, SetupReads
<1>6. CASE Setup!ReadGenerate(c)
  <2>1. PICK splits \in Splits :
          /\ Setup!SplitsAgree(splits) /\ Setup!Postable(Setup!CashLines \cup Setup!LotLines(splits))
          /\ Setup!Reads(c, [op |-> "GENERATE", lines |-> Setup!CashLines \cup Setup!LotLines(splits)])
    BY <1>6, Zenon DEF Setup!ReadGenerate
  <2>2. PICK lines : lines = Setup!CashLines \cup Setup!LotLines(splits)
    OBVIOUS
  <2>3. Tied(lines)
    <3>1. SetupTypeOK /\ config.status = "ACTIVE" /\ Setup!SplitsAgree(splits) /\ Setup!Postable(lines)
      BY <1>6, <2>1, <2>2 DEF SetupSound, Setup!ReadGenerate
    <3> QED
      BY <2>2, <3>1, GenerateTies
  <2> DEFINE q == [op |-> "GENERATE", lines |-> lines]
  <2>4. SetupJobOK(q) /\ q.lines = lines
    BY DEF SetupJobOK
  <2>5. Setup!Reads(c, q)
    BY <2>1, <2>2
  <2> HIDE DEF q
  <2> QED
    BY <2>3, <2>4, <2>5, SetupReads
<1> QED
  BY <1>1, <1>2, <1>3, <1>4, <1>5, <1>6

\* What a write of the setup may do to what is tied.
SetupKept ==
  /\ config.status = "ACTIVE" => config'.status = "ACTIVE"
  /\ late \subseteq late'
  /\ DOMAIN funds \subseteq DOMAIN funds'
  /\ config.status = "ACTIVE" =>
       /\ \A f \in DOMAIN funds' : <<"FUND", f>> \notin late' => f \in DOMAIN funds /\ funds'[f] = funds[f]
       /\ \A l \in Spaces : <<"LOT", l>> \notin late' => positions'[l] = positions[l]

LEMMA SetupWrites ==
  ASSUME SetupSound, SetupKept, SetupTypeOK',
         \A c \in Staff : job'[c].op = "GENERATE" => job'[c] = job[c],
         journal' # {} => journal' = journal \/ \E c \in Staff : job[c].op = "GENERATE" /\ journal' = job[c].lines
  PROVE  SetupSound'
<1>1. ASSUME NEW lines, Tied(lines) PROVE Tied(lines)'
  BY <1>1, StaysTied DEF Tied, SetupKept
<1>2. ASSUME journal' # {} PROVE Tied(journal)'
  <2>1. PICK lines : lines = journal'
    OBVIOUS
  <2>2. Tied(lines)
    BY <1>2, <2>1 DEF SetupSound
  <2>3. Tied(lines)'
    BY <1>1, <2>2
  <2> QED
    BY <2>1, <2>3 DEF Tied, FundTied, LotTied
<1>3. ASSUME NEW c \in Staff, job'[c].op = "GENERATE" PROVE Tied(job[c].lines)'
  <2>1. PICK lines : lines = job'[c].lines
    OBVIOUS
  <2>2. Tied(lines)
    BY <1>3, <2>1 DEF SetupSound
  <2>3. Tied(lines)'
    BY <1>1, <2>2
  <2> QED
    BY <2>1, <2>3 DEF Tied, FundTied, LotTied
<1> QED
  BY <1>2, <1>3 DEF SetupSound

\* A request that ends, or has none of its writes left.
LEMMA SetupEnds ==
  ASSUME SetupSound, NEW c \in Staff, Setup!Become(c, Setup!Idle)
  PROVE  /\ job' = [d \in Staff |-> job'[d]]
         /\ \A d \in Staff : job'[d] = job[d] \/ job'[d] = Setup!Idle
         /\ \A d \in Staff : job'[d].op = "GENERATE" => job'[d] = job[d]
BY DEF SetupSound, SetupTypeOK, Setup!Become, Setup!Idle

LEMMA IdleSetup == Setup!Idle.op = "IDLE"
BY DEF Setup!Idle

\* The steps that change nothing the opening journal depends on.
LEMMA SetupElsewhere ==
  ASSUME SetupSound,
         \/ Setup!StartSetup \/ Setup!SetRule \/ Setup!Reclassify \/ Setup!CompleteStrata
         \/ UNCHANGED setupVars
  PROVE  SetupSound'
<1>1. /\ job' = job /\ funds' = funds /\ positions' = positions /\ journal' = journal /\ late' = late
  BY DEF Setup!StartSetup, Setup!SetRule, Setup!Reclassify, Setup!CompleteStrata, setupVars
<1>2. /\ config.status = "ACTIVE" => config'.status = "ACTIVE"
      /\ config' = [x \in DOMAIN config' |-> config'[x]] /\ "status" \in DOMAIN config'
  <2>0. config = [x \in DOMAIN config |-> config[x]] /\ "status" \in DOMAIN config
    BY DEF SetupSound, SetupTypeOK
  <2>1. CASE config' = config
    BY <2>0, <2>1
  <2>2. CASE Setup!StartSetup
    <3>1. PICK dates \in Years : config' = [Setup!WithDates(dates) EXCEPT !.status = "SETUP_IN_PROGRESS"]
      BY <2>2 DEF Setup!StartSetup
    <3>2. config.status # "ACTIVE"
      BY <2>2 DEF Setup!StartSetup, Setup!Started
    <3> QED
      BY <2>0, <3>1, <3>2 DEF Setup!WithDates
  <2> QED
    BY <2>1, <2>2 DEF Setup!SetRule, Setup!Reclassify, Setup!CompleteStrata, setupVars
<1>3. SetupTypeOK'
  BY <1>1, <1>2 DEF SetupSound, SetupTypeOK, SetupJobOK
<1>4. SetupKept
  BY <1>1, <1>2 DEF SetupKept
<1> QED
  BY <1>1, <1>3, <1>4, SetupWrites

LEMMA SetupWriting ==
  ASSUME SetupSound, NEW c \in Staff,
         \/ Setup!WriteYear(c) \/ Setup!WriteFund(c) \/ Setup!WriteBalance(c) \/ Setup!WritePositions(c)
         \/ Setup!WriteActivate(c) \/ Setup!Post(c) \/ Setup!Abandon(c)
  PROVE  SetupSound'
<1>1. Setup!Become(c, Setup!Idle)
  BY DEF Setup!WriteYear, Setup!WriteFund, Setup!WriteBalance, Setup!WritePositions, Setup!WriteActivate,
         Setup!Post, Setup!Abandon
<1>2. /\ job' = [d \in Staff |-> job'[d]]
      /\ \A d \in Staff : job'[d] = job[d] \/ job'[d] = Setup!Idle
      /\ \A d \in Staff : job'[d].op = "GENERATE" => job'[d] = job[d]
  BY <1>1, SetupEnds
<1>3. SetupTypeOK /\ SetupJobOK(job[c])
  BY DEF SetupSound, SetupTypeOK
<1>4. ASSUME DOMAIN funds \subseteq DOMAIN funds' PROVE \A d \in Staff : SetupJobOK(job[d])'
  BY <1>2, <1>3, <1>4, IdleSetup DEF SetupTypeOK, SetupJobOK
<1>5. CASE Setup!WriteYear(c)
  <2>1. config' = Setup!WithDates(job[c].dates) /\ job[c].dates \in Years
    BY <1>3, <1>5 DEF Setup!WriteYear, SetupJobOK
  <2>2. /\ config'.status = config.status /\ "status" \in DOMAIN config'
        /\ config' = [x \in DOMAIN config' |-> config'[x]]
    BY <1>3, <2>1, SetupAssumption DEF Setup!WithDates, SetupTypeOK
  <2>3. funds' = funds /\ positions' = positions /\ journal' = journal /\ late' = late
    BY <1>5 DEF Setup!WriteYear
  <2>4. SetupTypeOK'
    BY <1>2, <1>3, <1>4, <2>2, <2>3 DEF SetupTypeOK
  <2>5. SetupKept
    BY <2>2, <2>3 DEF SetupKept
  <2> QED
    BY <1>2, <2>3, <2>4, <2>5, SetupWrites
<1>6. CASE Setup!WriteFund(c)
  <2> DEFINE row == [type |-> job[c].type, opening |-> job[c].opening]
  <2>1. funds' = Append(funds, row) /\ config' = config /\ positions' = positions /\ journal' = journal
    BY <1>6 DEF Setup!WriteFund
  <2>2. row \in FundRows
    BY <1>3, <1>6 DEF Setup!WriteFund, SetupJobOK, FundRows
  <2> HIDE DEF row
  <2>3. /\ funds' \in Seq(FundRows) /\ DOMAIN funds' = DOMAIN funds \cup {Len(funds) + 1}
        /\ \A f \in DOMAIN funds : funds'[f] = funds[f]
    BY <1>3, <2>1, <2>2 DEF SetupTypeOK
  <2>4. late' = IF config.status = "ACTIVE" THEN late \cup {<<"FUND", Len(funds) + 1>>} ELSE late
    BY <1>6 DEF Setup!WriteFund, Setup!Late
  <2>5. SetupTypeOK'
    BY <1>2, <1>3, <1>4, <2>1, <2>3 DEF SetupTypeOK
  <2>6. SetupKept
    BY <2>1, <2>3, <2>4 DEF SetupKept
  <2> QED
    BY <1>2, <2>1, <2>5, <2>6, SetupWrites
<1>7. CASE Setup!WriteBalance(c)
  <2> DEFINE f == job[c].fund
             row == [funds[f] EXCEPT !.opening = job[c].opening]
  <2>1. funds' = [funds EXCEPT ![f] = row] /\ config' = config /\ positions' = positions /\ journal' = journal
    BY <1>7 DEF Setup!WriteBalance
  <2>2. \A g \in DOMAIN funds : funds[g] \in FundRows
    BY <1>3 DEF SetupTypeOK
  <2>3. f \in DOMAIN funds /\ row \in FundRows
    BY <1>3, <1>7, <2>2 DEF Setup!WriteBalance, SetupJobOK, FundRows
  <2>4. late' = IF config.status = "ACTIVE" THEN late \cup {<<"FUND", f>>} ELSE late
    BY <1>7 DEF Setup!WriteBalance, Setup!Late
  <2> HIDE DEF row, f
  <2>5. /\ funds' \in Seq(FundRows) /\ DOMAIN funds' = DOMAIN funds
        /\ \A g \in DOMAIN funds \ {f} : funds'[g] = funds[g]
    BY <1>3, <2>1, <2>3 DEF SetupTypeOK
  <2>6. SetupTypeOK'
    BY <1>2, <1>3, <1>4, <2>1, <2>5 DEF SetupTypeOK
  <2>7. SetupKept
    BY <2>1, <2>4, <2>5 DEF SetupKept
  <2> QED
    BY <1>2, <2>1, <2>6, <2>7, SetupWrites
<1>8. CASE Setup!WritePositions(c)
  <2> DEFINE given == job[c].given
  <2>1. /\ positions' = [l \in Spaces |-> IF l \in DOMAIN given THEN given[l] ELSE positions[l]]
        /\ config' = config /\ funds' = funds /\ journal' = journal
        /\ late' = IF config.status = "ACTIVE" THEN late \cup {<<"LOT", l>> : l \in DOMAIN given} ELSE late
    BY <1>8 DEF Setup!WritePositions, Setup!Late
  <2>2. \A l \in DOMAIN given : given[l] \in [owing : Nat, credit : Nat]
    BY <1>3, <1>8 DEF Setup!WritePositions, SetupJobOK
  <2> HIDE DEF given
  <2>3. positions' \in [Spaces -> [owing : Nat, credit : Nat] \cup {Nil}]
    BY <1>3, <2>1, <2>2 DEF SetupTypeOK
  <2>4. SetupTypeOK'
    BY <1>2, <1>3, <1>4, <2>1, <2>3 DEF SetupTypeOK
  <2>5. SetupKept
    BY <2>1 DEF SetupKept
  <2> QED
    BY <1>2, <2>1, <2>4, <2>5, SetupWrites
<1>9. CASE Setup!WriteActivate(c)
  <2>1. /\ config' = [config EXCEPT !.status = "ACTIVE"]
        /\ funds' = funds /\ positions' = positions /\ journal' = journal /\ late' = late
    BY <1>9 DEF Setup!WriteActivate
  <2>2. /\ config'.status = "ACTIVE" /\ "status" \in DOMAIN config'
        /\ config' = [x \in DOMAIN config' |-> config'[x]]
    BY <1>3, <2>1 DEF SetupTypeOK
  <2>3. SetupTypeOK'
    BY <1>2, <1>3, <1>4, <2>1, <2>2 DEF SetupTypeOK
  <2>4. SetupKept
    BY <2>1, <2>2 DEF SetupKept
  <2> QED
    BY <1>2, <2>1, <2>3, <2>4, SetupWrites
<1>10. CASE Setup!Post(c) \/ Setup!Abandon(c)
  <2>1. config' = config /\ funds' = funds /\ positions' = positions /\ late' = late
    BY <1>10 DEF Setup!Post, Setup!Abandon
  <2>2. journal' = journal \/ (job[c].op = "GENERATE" /\ journal' = job[c].lines)
    BY <1>10 DEF Setup!Post, Setup!Abandon
  <2>3. SetupTypeOK'
    BY <1>2, <1>3, <1>4, <2>1 DEF SetupTypeOK
  <2>4. SetupKept
    BY <2>1 DEF SetupKept
  <2> QED
    BY <1>2, <2>2, <2>3, <2>4, SetupWrites
<1> QED
  BY <1>5, <1>6, <1>7, <1>8, <1>9, <1>10

LEMMA SetupStarts == Setup!Init => SetupSound
<1> SUFFICES ASSUME Setup!Init PROVE SetupSound
  OBVIOUS
<1>1. \A c \in Staff : SetupJobOK(job[c]) /\ job[c].op # "GENERATE"
  BY DEF Setup!Init, Setup!Idle, SetupJobOK
<1>2. SetupTypeOK
  BY <1>1 DEF Setup!Init, SetupTypeOK
<1> QED
  BY <1>1, <1>2 DEF SetupSound, Setup!Init

\* What is tied is what the property says, fund by fund and lot by lot.
LEMMA TiedTies ==
  ASSUME SetupSound
  PROVE  OpeningTies
<1> SUFFICES ASSUME journal # {}
             PROVE /\ \A f \in DOMAIN funds : <<"FUND", f>> \notin late =>
                        Setup!Posted("FUND_CASH", {<<f, Nil>>}) = IF funds[f].opening = Nil THEN 0 ELSE funds[f].opening
                   /\ \A l \in Spaces : positions[l] \notin {Nil, Nothing} /\ <<"LOT", l>> \notin late =>
                        /\ Setup!Posted("LOT_LEVY_RECEIVABLE", (DOMAIN funds) \X {l}) = positions[l].owing
                        /\ Setup!Posted("UNAPPLIED_CASH", (DOMAIN funds) \X {l}) = positions[l].credit
  BY DEF OpeningTies, Setup!OpeningTies, Nothing
<1>1. Tied(journal)
  BY DEF SetupSound
<1>2. ASSUME NEW role, NEW on PROVE Setup!Posted(role, on) = Worth({line \in journal : line.role = role /\ <<line.fund, line.lot>> \in on})
  BY DEF Setup!Posted, Worth, SumOver, Setup!SumOver
<1>3. ASSUME NEW f \in DOMAIN funds, <<"FUND", f>> \notin late
      PROVE  Setup!Posted("FUND_CASH", {<<f, Nil>>}) = IF funds[f].opening = Nil THEN 0 ELSE funds[f].opening
  <2>1. {line \in journal : line.role = "FUND_CASH" /\ <<line.fund, line.lot>> \in {<<f, Nil>>}} = CashOf(journal, f)
    BY DEF CashOf, LinesOf
  <2>2. FundTied(journal, f)
    BY <1>1, <1>3 DEF Tied
  <2> QED
    BY <1>2, <2>1, <2>2 DEF FundTied
<1>4. ASSUME NEW l \in Spaces, positions[l] \notin {Nil, Nothing}, <<"LOT", l>> \notin late
      PROVE  /\ Setup!Posted("LOT_LEVY_RECEIVABLE", (DOMAIN funds) \X {l}) = positions[l].owing
             /\ Setup!Posted("UNAPPLIED_CASH", (DOMAIN funds) \X {l}) = positions[l].credit
  <2>1. ASSUME NEW role
        PROVE  {line \in journal : line.role = role /\ <<line.fund, line.lot>> \in (DOMAIN funds) \X {l}} = LinesOf(journal, role, l)
    BY <1>1 DEF LinesOf, Tied
  <2>2. LotTied(journal, l)
    BY <1>1, <1>4 DEF Tied
  <2> QED
    BY <1>2, <1>4, <2>1, <2>2 DEF LotTied
<1> QED
  BY <1>3, <1>4

\* The opening journal carries what the setup shows, fund by fund and lot by
\* lot, for any spaces, amounts, splits and number of clients, but for edits
\* that come after the activation (OpeningJournalService.generate).
THEOREM OpeningAlwaysTies == Setup!Spec => []OpeningTies
<1>1. SetupSound /\ [Setup!Next]_(Setup!vars) => SetupSound'
  <2> SUFFICES ASSUME SetupSound, [Setup!Next]_(Setup!vars) PROVE SetupSound'
    OBVIOUS
  <2>1. CASE UNCHANGED Setup!vars
    BY <2>1, SetupElsewhere DEF Setup!vars, setupVars
  <2>2. CASE Setup!StartSetup \/ Setup!SetRule \/ Setup!Reclassify \/ Setup!CompleteStrata
    BY <2>2, SetupElsewhere
  <2>3. ASSUME NEW c \in Staff,
               \/ Setup!ReadYear(c) \/ Setup!ReadFund(c) \/ Setup!ReadBalance(c) \/ Setup!ReadPositions(c)
               \/ Setup!ReadActivate(c) \/ Setup!ReadGenerate(c)
        PROVE  SetupSound'
    BY <2>3, SetupReading
  <2>4. ASSUME NEW c \in Staff,
               \/ Setup!WriteYear(c) \/ Setup!WriteFund(c) \/ Setup!WriteBalance(c) \/ Setup!WritePositions(c)
               \/ Setup!WriteActivate(c) \/ Setup!Post(c) \/ Setup!Abandon(c)
        PROVE  SetupSound'
    BY <2>4, SetupWriting
  <2> QED
    BY <2>1, <2>2, <2>3, <2>4 DEF Setup!Next
<1> QED
  BY <1>1, SetupStarts, TiedTies, PTL DEF Setup!Spec

(***************************************************************************)
(* The shares of an instalment.  Precision is enough for the whole part of *)
(* a quotient to be exact and for its fraction to be as near to the exact  *)
(* one as tells two remainders apart; so the lots are sorted by their      *)
(* exact remainders, and largest remainders add up whatever the order.     *)
(***************************************************************************)

\* The instance's powers, sums and cardinalities are those of the libraries.
LEMMA AllocationDigits ==
  /\ Allocation!Digits = Precision + 2 /\ Allocation!Ulp = TenTo[Precision + 2] /\ Allocation!TenTo = TenTo
  /\ Precision \in Nat /\ Precision + 2 \in Nat /\ TenTo[Precision + 2] \in Nat \ {0}
<1>1. Allocation!TenTo = TenTo
  BY DEF Allocation!TenTo, TenTo
<1>2. Allocation!Digits = Precision + 2 /\ Precision \in Nat /\ Precision + 2 \in Nat
  BY AllocationAssumption DEF Allocation!Digits
<1>3. Allocation!Ulp = TenTo[Precision + 2]
  BY <1>1, <1>2 DEF Allocation!Ulp
<1>4. TenTo[Precision + 2] \in Nat /\ TenTo[Precision + 2] >= 1
  BY <1>2, TenToType
<1> QED
  BY <1>1, <1>2, <1>3, <1>4

LEMMA AllocationSum == ASSUME NEW f, NEW S PROVE Allocation!SumOver(f, S) = SumOver(f, S)
BY DEF Allocation!SumOver, SumOver

\* The place of the first digit is the first power of ten above.
LEMMA PlaceIs ==
  ASSUME NEW x \in Nat, NEW k \in Nat, k <= 2 * (Precision + 2), x < TenTo[k]
  PROVE  Allocation!Place(x) \in 0 .. k /\ x < TenTo[Allocation!Place(x)]
<1> DEFINE T == {j \in Nat : j <= k /\ x < TenTo[j]}
           Right(p) == p \in 0 .. 2 * (Precision + 2) /\ x < TenTo[p] /\ \A j \in 0 .. p - 1 : x >= TenTo[j]
<1>1. PICK n \in T : \A j \in T : n <= j
  <2>1. T \in SUBSET Nat /\ T # {}
    OBVIOUS
  <2> HIDE DEF T
  <2> QED
    BY <2>1, Smallest
<1>2. Right(n)
  <2>1. \A j \in 0 .. n - 1 : x >= TenTo[j]
    <3> SUFFICES ASSUME NEW j \in 0 .. n - 1 PROVE x >= TenTo[j]
      OBVIOUS
    <3>1. j \in Nat /\ j < n /\ j <= k /\ TenTo[j] \in Nat
      BY <1>1, TenToType
    <3> QED
      BY <1>1, <3>1
  <2>2. n \in Nat /\ n <= k /\ Precision \in Nat
    BY <1>1, AllocationDigits
  <2> QED
    BY <1>1, <2>1, <2>2
<1>3. Allocation!Place(x) = CHOOSE p : Right(p)
  <2>1. Allocation!Place(x) =
          CHOOSE p \in 0 .. 2 * (Precision + 2) : x < TenTo[p] /\ \A j \in 0 .. p - 1 : x >= TenTo[j]
    BY AllocationDigits DEF Allocation!Place
  <2>2. (CHOOSE p \in 0 .. 2 * (Precision + 2) : x < TenTo[p] /\ \A j \in 0 .. p - 1 : x >= TenTo[j]) = CHOOSE p : Right(p)
    OBVIOUS
  <2> QED
    BY <2>1, <2>2
<1>4. Right(Allocation!Place(x))
  <2> HIDE DEF Right
  <2> QED
    BY <1>2, <1>3
<1>5. PICK p : p = Allocation!Place(x)
  OBVIOUS
<1>6. p <= k
  <2>1. ASSUME p > k PROVE FALSE
    <3>1. k \in 0 .. p - 1 /\ TenTo[k] \in Nat
      BY <1>4, <1>5, <2>1, TenToType
    <3> QED
      BY <1>4, <1>5, <3>1
  <2> QED
    BY <1>4, <1>5, <2>1
<1> QED
  BY <1>4, <1>5, <1>6

\* A number of so many digits keeps its whole part and loses little of the rest.
LEMMA ToPrecisionIs ==
  ASSUME NEW w \in Nat, w < Precision, NEW U, U = TenTo[Precision + 2], NEW G, G = TenTo[w + 2],
         NEW x \in Nat, x <= TenTo[w] * U, NEW r, r = Allocation!ToPrecision(x)
  PROVE  /\ r \in Nat /\ 2 * (r - x) <= G /\ 2 * (x - r) <= G
         /\ \A j \in Nat : (x >= j * U => r >= j * U) /\ (x = j * U => r = x)
<1> DEFINE P == Precision
           D == Precision + 2
           p == Allocation!Place(x)
<1>1. P \in Nat /\ D \in Nat /\ U \in Nat \ {0} /\ TenTo[w] \in Nat /\ G \in Nat /\ G >= 1
  BY AllocationDigits, TenToType
<1>2. TenTo[w] * U = TenTo[w + D] /\ TenTo[w + D] \in Nat /\ w + D + 1 \in Nat
      /\ TenTo[w + D + 1] = 10 * TenTo[w + D] /\ TenTo[w + D] >= 1
  <2>1. w + D \in Nat /\ w + D + 1 \in Nat /\ w + D + 1 # 0 /\ (w + D + 1) - 1 = w + D
    BY <1>1
  <2> QED
    BY <1>1, <2>1, TenToPlus, TenToType, TenToIs
<1>3. \/ x < TenTo[w + D] /\ p \in 0 .. w + D
      \/ x = TenTo[w] * U /\ p \in 0 .. w + D + 1
  <2>1. CASE x < TenTo[w + D]
    <3>1. w + D \in Nat /\ w + D <= 2 * (Precision + 2)
      BY <1>1
    <3> QED
      BY <2>1, <3>1, PlaceIs
  <2>2. CASE ~(x < TenTo[w + D])
    <3>1. w + D + 1 <= 2 * (Precision + 2) /\ x < TenTo[w + D + 1] /\ x = TenTo[w] * U
      BY <1>1, <1>2, <2>2
    <3> QED
      BY <1>2, <3>1, PlaceIs
  <2> QED
    BY <2>1, <2>2
<1>4. p \in Nat /\ p <= w + D + 1
  BY <1>1, <1>3
<1>5. r = IF p <= P THEN x ELSE ((x + TenTo[p - P] \div 2) \div TenTo[p - P]) * TenTo[p - P]
  BY AllocationDigits DEF Allocation!ToPrecision
<1>6. CASE p <= P
  BY <1>1, <1>5, <1>6
<1>7. CASE ~(p <= P)
  <2> HIDE DEF p
  <2>1. PICK s \in Nat : s = p - P
    BY <1>1, <1>4, <1>7
  <2>2. PICK step : step = TenTo[s]
    OBVIOUS
  <2>3. PICK t : t = TenTo[D - s]
    OBVIOUS
  <2>4. s <= D
    BY <1>1, <1>4, <2>1
  <2>5. step \in Nat \ {0} /\ t \in Nat \ {0} /\ U = t * step
    <3>1. step \in Nat /\ step >= 1
      BY <2>2, TenToType
    <3> QED
      BY <1>1, <2>2, <2>3, <2>4, <3>1, TenToDivides
  <2>6. r = ((x + step \div 2) \div step) * step
    BY <1>5, <1>7, <2>1, <2>2
  <2>7. /\ r \in Nat /\ 2 * (r - x) <= step /\ 2 * (x - r) <= step
        /\ \A j \in Nat : (x >= j * step => r >= j * step) /\ (x = j * step => r = x)
    BY <2>5, <2>6, RoundedIs
  <2>8. ASSUME NEW j \in Nat PROVE (x >= j * U => r >= j * U) /\ (x = j * U => r = x)
    <3>1. j * t \in Nat /\ (j * t) * step = j * U
      BY <2>5
    <3> QED
      BY <2>7, <3>1
  <2>9. 2 * (r - x) <= G /\ 2 * (x - r) <= G
    <3>1. CASE x = TenTo[w] * U
      <4>1. r = x
        BY <1>1, <2>8, <3>1
      <4> QED
        BY <1>1, <4>1
    <3>2. CASE x < TenTo[w + D] /\ p \in 0 .. w + D
      <4>1. s <= w + 2 /\ w + 2 \in Nat
        BY <1>1, <2>1, <3>2
      <4>2. step <= G
        BY <2>2, <4>1, TenToDivides
      <4> QED
        BY <1>1, <2>5, <2>7, <4>2
    <3> QED
      BY <1>3, <3>1, <3>2
  <2> QED
    BY <2>7, <2>8, <2>9
<1> QED
  BY <1>6, <1>7

\* What is computed of the fraction m / B: y units and not quite another, and
\* f is near to y.
Near(f, m, B, U, G) ==
  \E y \in Nat : /\ y * B <= m * U /\ m * U < (y + 1) * B
                 /\ 2 * (f - y) <= G /\ 2 * (y - f) <= G

\* The whole part of a quotient is exact, and its fraction nearly is.
LEMMA QuotientIs ==
  ASSUME NEW w \in Nat, w < Precision, NEW U, U = TenTo[Precision + 2], NEW G, G = TenTo[w + 2],
         NEW A \in Nat, NEW B \in Nat \ {0}, A <= TenTo[w] * B, (G + 1) * B <= U,
         NEW q, q = Allocation!Quotient(A, B)
  PROVE  /\ q \in Nat /\ q \div U = A \div B /\ q % U \in Nat
         /\ Near(q % U, A % B, B, U, G)
<1> DEFINE c == A \div B
           m == A % B
           y == (m * U) \div B
           z == (m * U) % B
           x == (A * U) \div B
<1>1. U \in Nat \ {0} /\ G \in Nat /\ TenTo[w] \in Nat
  BY AllocationDigits, TenToType
<1>2. c \in Int /\ m \in Int /\ A = B * c + m /\ 0 <= m /\ m < B
  BY DivisionIs
<1>3. m * U \in Int /\ A * U \in Int /\ m * U >= 0 /\ A * U >= 0
  <2>1. \A i, j \in Nat : i * j \in Int /\ i * j >= 0
    OBVIOUS
  <2> HIDE DEF c, m
  <2>2. m \in Nat
    BY <1>2
  <2> QED
    BY <1>1, <2>1, <2>2
<1>4. y \in Int /\ z \in Int /\ m * U = B * y + z /\ 0 <= z /\ z < B
  <2> HIDE DEF m
  <2> QED
    BY <1>3, DivisionIs
<1> HIDE DEF c, m, y, z
<1>5. x = c * U + y
  <2>1. A * U = B * (c * U + y) + z
    <3>1. A * U = (B * c + m) * U
      BY <1>2
    <3>2. (B * c + m) * U = B * (c * U) + m * U
      BY <1>1, <1>2
    <3>3. B * (c * U) + B * y = B * (c * U + y)
      BY <1>1, <1>2, <1>4
    <3> QED
      BY <1>1, <1>2, <1>4, <3>1, <3>2, <3>3
  <2>2. c * U + y \in Int
    BY <1>1, <1>2, <1>4
  <2> QED
    BY <1>3, <1>4, <2>1, <2>2, DivisionIs
<1>6. c >= 0 /\ y >= 0
  <2>1. c >= 0
    <3>1. ASSUME c <= -1 PROVE FALSE
      <4>1. c * B <= (-1) * B
        BY <1>2, <3>1, Products
      <4> QED
        BY <1>2, <4>1
    <3> QED
      BY <1>2, <3>1
  <2>2. y >= 0
    <3>1. ASSUME y <= -1 PROVE FALSE
      <4>1. y * B <= (-1) * B
        BY <1>4, <3>1, Products
      <4> QED
        BY <1>3, <1>4, <4>1
    <3> QED
      BY <1>4, <3>1
  <2> QED
    BY <2>1, <2>2
<1>7. y + G + 1 <= U
  <2>1. y * B <= m * U
    BY <1>3, <1>4
  <2>2. m * U <= (B - 1) * U
    BY <1>1, <1>2, Products
  <2>3. (B - 1) * U = B * U - U
    BY <1>1
  <2>4. (y + G + 1) * B = y * B + (G + 1) * B
    BY <1>1, <1>4
  <2>5. y * B \in Int /\ B * U \in Int /\ (G + 1) * B \in Int
    BY <1>1, <1>4
  <2>6. (y + G + 1) * B <= U * B
    BY <1>1, <1>3, <2>1, <2>2, <2>3, <2>4, <2>5
  <2>7. y + G + 1 \in Int /\ B > 0
    BY <1>1, <1>4
  <2> QED
    BY <1>1, <2>6, <2>7, Products
<1>8. x \in Nat /\ x <= TenTo[w] * U
  <2>1. c * U \in Nat
    BY <1>1, <1>2, <1>6
  <2>2. x \in Nat
    BY <1>4, <1>5, <1>6, <2>1
  <2>3. x * B <= A * U
    <3>1. x * B = B * (c * U) + B * y
      BY <1>1, <1>2, <1>4, <1>5
    <3>2. A * U = B * (c * U) + m * U
      <4>1. A * U = (B * c + m) * U
        BY <1>2
      <4>2. (B * c + m) * U = B * (c * U) + m * U
        BY <1>1, <1>2
      <4> QED
        BY <4>1, <4>2
    <3>3. B * (c * U) \in Int /\ B * y \in Int
      BY <1>1, <1>2, <1>4
    <3> QED
      BY <1>3, <1>4, <3>1, <3>2, <3>3
  <2>4. A * U <= (TenTo[w] * B) * U
    BY <1>1, Products
  <2>5. (TenTo[w] * B) * U = (TenTo[w] * U) * B
    BY <1>1
  <2>6. x * B <= (TenTo[w] * U) * B
    <3>1. x * B \in Int /\ (TenTo[w] * U) * B \in Int
      BY <1>1, <2>2
    <3> QED
      BY <1>3, <2>3, <2>4, <2>5, <3>1
  <2>7. TenTo[w] * U \in Int /\ x \in Int /\ B > 0
    BY <1>1, <2>2
  <2>8. x <= TenTo[w] * U
    <3> HIDE DEF x
    <3> QED
      BY <2>6, <2>7, Products
  <2> QED
    BY <2>2, <2>8
<1>9. q = Allocation!ToPrecision(x)
  BY AllocationDigits DEF Allocation!Quotient
<1> HIDE DEF x
<1>10. /\ q \in Nat /\ 2 * (q - x) <= G /\ 2 * (x - q) <= G
       /\ \A j \in Nat : (x >= j * U => q >= j * U) /\ (x = j * U => q = x)
  BY <1>8, <1>9, ToPrecisionIs
<1>11. q = U * c + (q - c * U) /\ 0 <= q - c * U /\ q - c * U < U /\ q - c * U \in Int
  <2>1. c * U \in Int /\ U * c = c * U /\ c \in Nat
    BY <1>1, <1>2, <1>6
  <2>2. q >= c * U
    BY <1>5, <1>6, <1>4, <1>10, <2>1
  <2> QED
    BY <1>1, <1>4, <1>5, <1>7, <1>10, <2>1, <2>2
<1>12. q \div U = c /\ q % U = q - c * U
  <2>1. PICK f : f = q - c * U
    OBVIOUS
  <2>2. q \in Int /\ f \in Int /\ q = U * c + f /\ 0 <= f /\ f < U
    BY <1>10, <1>11, <2>1
  <2>3. U \in Nat \ {0} /\ c \in Int
    BY <1>1, <1>2
  <2>4. q \div U = c /\ q % U = f
    BY <2>2, <2>3, DivisionOf
  <2> QED
    BY <2>1, <2>4
<1>13. Near(q - c * U, m, B, U, G)
  <2>1. c * U \in Int
    BY <1>1, <1>2
  <2>2. (q - c * U) - y = q - x /\ y - (q - c * U) = x - q
    BY <1>4, <1>5, <1>10, <2>1
  <2>3. y * B <= m * U /\ m * U < (y + 1) * B
    <3>1. y * B = B * y /\ (y + 1) * B = B * y + B /\ B * y \in Int
      BY <1>4
    <3> QED
      BY <1>3, <1>4, <3>1
  <2>4. y \in Nat
    BY <1>4, <1>6
  <2> QED
    BY <1>10, <2>2, <2>3, <2>4 DEF Near
<1> QED
  BY <1>10, <1>11, <1>12, <1>13 DEF c, m

\* The smaller remainder has the smaller fraction, and none has none.
LEMMA NearInOrder ==
  ASSUME NEW B \in Nat \ {0}, NEW U \in Nat, NEW G \in Nat, (G + 1) * B <= U,
         NEW m \in Int, NEW n \in Int, n < m, NEW f \in Int, NEW g \in Int, Near(f, m, B, U, G), Near(g, n, B, U, G)
  PROVE  g < f
<1>1. PICK y \in Nat : y * B <= m * U /\ m * U < (y + 1) * B /\ 2 * (f - y) <= G /\ 2 * (y - f) <= G
  BY DEF Near
<1>2. PICK z \in Nat : z * B <= n * U /\ n * U < (z + 1) * B /\ 2 * (g - z) <= G /\ 2 * (z - g) <= G
  BY DEF Near
<1>3. (n + 1) * U <= m * U
  BY Products
<1>4. (n + 1) * U = n * U + U /\ n * U \in Int /\ m * U \in Int /\ z * B \in Int /\ (G + 1) * B \in Int /\ (y + 1) * B \in Int
  OBVIOUS
<1>5. (z + G + 1) * B = z * B + (G + 1) * B
  OBVIOUS
<1>6. (z + G + 1) * B < (y + 1) * B
  BY <1>1, <1>2, <1>3, <1>4, <1>5
<1>7. z + G + 1 < y + 1
  <2>1. z + G + 1 \in Int /\ y + 1 \in Int /\ B \in Int /\ B >= 0
    OBVIOUS
  <2> QED
    BY <1>6, <2>1, Products
<1> QED
  BY <1>1, <1>2, <1>7

\* A total shared in proportion to e: whole shares and remainders.
Divided(total, e, B, whole, rest, S) ==
  /\ IsFiniteSet(S) /\ B \in Nat \ {0} /\ total \in Nat /\ SumOver(e, S) = B
  /\ \A x \in S : /\ e[x] \in Nat /\ whole[x] \in Int /\ rest[x] \in Nat /\ rest[x] < B
                  /\ total * e[x] = B * whole[x] + rest[x]

\* R puts greater remainders first.
GreaterFirst(R, rest, S) ==
  TotalOrder(R, S) /\ \A x, y \in S : rest[x] > rest[y] => <<x, y>> \in R

\* What the whole shares leave is no more than there are remainders.
LEMMA LeftoverIs ==
  ASSUME NEW S, NEW total, NEW e, NEW B, NEW whole, NEW rest, Divided(total, e, B, whole, rest, S),
         NEW P, P = {x \in S : rest[x] > 0}
  PROVE  total - SumOver(whole, S) \in Nat /\ total - SumOver(whole, S) <= Cardinality(P)
<1> DEFINE exact == [x \in S |-> total * e[x]]
           scaled == [x \in S |-> B * whole[x]]
           one == [x \in S |-> IF x \in P THEN 1 ELSE 0]
           most == [x \in S |-> B * one[x]]
<1>1. IsFiniteSet(S) /\ B \in Nat \ {0} /\ total \in Nat /\ SumOver(e, S) = B
  BY DEF Divided
<1>2. \A x \in S : e[x] \in Int /\ whole[x] \in Int /\ rest[x] \in Nat
  BY DEF Divided
<1>3. SumOver(exact, S) = total * B
  <2>1. total \in Int /\ \A x \in S : e[x] \in Int /\ exact[x] = total * e[x]
    BY <1>1, <1>2
  <2> HIDE DEF exact
  <2>2. SumOver(exact, S) = total * SumOver(e, S)
    BY <1>1, <2>1, SumScaled
  <2> QED
    BY <1>1, <2>2
<1>4. SumOver(scaled, S) = B * SumOver(whole, S)
  <2>1. B \in Int /\ \A x \in S : whole[x] \in Int /\ scaled[x] = B * whole[x]
    BY <1>1, <1>2
  <2> HIDE DEF scaled
  <2> QED
    BY <1>1, <2>1, SumScaled
<1>5. SumOver(exact, S) = SumOver(scaled, S) + SumOver(rest, S)
  <2>1. \A x \in S : total * e[x] = B * whole[x] + rest[x]
    BY DEF Divided
  <2>2. \A x \in S : scaled[x] \in Int /\ rest[x] \in Int /\ exact[x] = scaled[x] + rest[x]
    <3>1. \A x \in S : scaled[x] \in Int
      BY <1>1, <1>2
    <3>2. \A x \in S : exact[x] = scaled[x] + rest[x]
      BY <2>1
    <3> HIDE DEF exact, scaled
    <3> QED
      BY <1>2, <3>1, <3>2
  <2> HIDE DEF exact, scaled
  <2> QED
    BY <1>1, <2>2, SumPlus
<1>6. SumOver(whole, S) \in Int /\ SumOver(rest, S) \in Nat
  <2>1. \A x \in S : whole[x] \in Int
    BY <1>2
  <2>2. \A x \in S : rest[x] \in Nat
    BY <1>2
  <2> QED
    BY <1>1, <2>1, <2>2, SumType, SumNatural
<1>7. SumOver(one, S) = Cardinality(P) /\ Cardinality(P) \in Nat
  <2>1. P \in SUBSET S /\ \A x \in S : one[x] = IF x \in P THEN 1 ELSE 0
    OBVIOUS
  <2> HIDE DEF one
  <2> QED
    BY <1>1, <2>1, SumOnes, FS_Subset, FS_CardinalityType
<1>8. SumOver(most, S) = B * SumOver(one, S)
  <2>1. B \in Int /\ \A x \in S : one[x] \in Int /\ most[x] = B * one[x]
    BY <1>1
  <2> HIDE DEF most, one
  <2> QED
    BY <1>1, <2>1, SumScaled
<1>9. SumOver(rest, S) <= SumOver(most, S)
  <2>1. \A x \in S : rest[x] \in Int /\ most[x] \in Int /\ rest[x] <= most[x]
    <3> SUFFICES ASSUME NEW x \in S PROVE rest[x] \in Int /\ most[x] \in Int /\ rest[x] <= most[x]
      OBVIOUS
    <3>1. rest[x] \in Nat /\ rest[x] < B
      BY DEF Divided
    <3>2. most[x] = IF rest[x] > 0 THEN B ELSE 0
      BY <1>1
    <3> HIDE DEF most
    <3> QED
      BY <1>1, <3>1, <3>2
  <2> HIDE DEF most
  <2> QED
    BY <1>1, <2>1, SumMonotone
<1> HIDE DEF exact, scaled, one, most
<1>10. PICK left : left = total - SumOver(whole, S)
  OBVIOUS
<1>11. left * B = SumOver(rest, S) /\ left \in Int
  <2>1. \A p, q, r, s \in Int : p * q = q * r + s => (p - r) * q = s
    OBVIOUS
  <2>2. total * B = B * SumOver(whole, S) + SumOver(rest, S)
    BY <1>3, <1>4, <1>5
  <2>3. total \in Int /\ B \in Int /\ SumOver(whole, S) \in Int /\ SumOver(rest, S) \in Int
    BY <1>1, <1>6
  <2>4. left \in Int
    BY <1>10, <2>3
  <2> QED
    BY <1>10, <2>1, <2>2, <2>3, <2>4
<1>12. left >= 0
  <2>1. 0 * B <= left * B /\ B > 0 /\ B \in Int
    BY <1>1, <1>6, <1>11
  <2> QED
    BY <1>11, <2>1, Products
<1>13. left <= Cardinality(P)
  <2>1. B * Cardinality(P) = Cardinality(P) * B /\ B \in Int /\ B > 0 /\ Cardinality(P) \in Int
    BY <1>1, <1>7
  <2>2. left * B <= Cardinality(P) * B
    BY <1>7, <1>8, <1>9, <1>11, <2>1
  <2> QED
    BY <1>11, <2>1, <2>2, Products
<1> QED
  BY <1>10, <1>11, <1>12, <1>13

\* Each of the first members takes one of what is left: nothing remains, none
\* without a remainder takes any, and none takes it before a greater remainder.
LEMMA LargestRemainder ==
  ASSUME NEW S, NEW total, NEW e, NEW B, NEW whole, NEW rest, Divided(total, e, B, whole, rest, S),
         NEW R, GreaterFirst(R, rest, S), NEW left, left = total - SumOver(whole, S),
         NEW share, \A x \in S : share[x] = whole[x] + (IF Rank(x, R, S) < left THEN 1 ELSE 0)
  PROVE  /\ SumOver(share, S) = total
         /\ \A x \in S : Rank(x, R, S) < left => rest[x] > 0
         /\ \A x, y \in S : rest[x] > rest[y] /\ Rank(y, R, S) < left => Rank(x, R, S) < left
<1> DEFINE P == {x \in S : rest[x] > 0}
           L == {x \in S : Rank(x, R, S) < left}
           extra == [x \in S |-> IF x \in L THEN 1 ELSE 0]
<1>1. IsFiniteSet(S) /\ total \in Nat /\ \A x \in S : whole[x] \in Int /\ rest[x] \in Nat
  BY DEF Divided
<1>2. P \in SUBSET S /\ L \in SUBSET S
  OBVIOUS
<1>3. left \in Nat /\ left <= Cardinality(P)
  <2>1. P = {x \in S : rest[x] > 0}
    OBVIOUS
  <2> HIDE DEF P
  <2> QED
    BY <2>1, LeftoverIs
<1>4. TotalOrder(R, S) /\ \A x, y \in S : rest[x] > rest[y] => <<x, y>> \in R
  BY DEF GreaterFirst
<1>5. /\ \A x \in S : Rank(x, R, S) \in 0 .. (Cardinality(S) - 1)
      /\ \A x, y \in S : <<x, y>> \in R => Rank(x, R, S) < Rank(y, R, S)
  BY <1>1, <1>4, RankIs DEF TotalOrder
<1>6. /\ Cardinality(P) \in Nat /\ Cardinality(S) \in Nat /\ Cardinality(P) <= Cardinality(S)
  <2> HIDE DEF P
  <2> QED
    BY <1>1, <1>2, FS_Subset, FS_CardinalityType
<1>7. Cardinality(L) = left
  <2>1. left <= Cardinality(S)
    BY <1>3, <1>6
  <2> QED
    BY <1>1, <1>3, <1>4, <2>1, FirstRanks
<1>8. SumOver(share, S) = total
  <2>1. \A x \in S : extra[x] = IF x \in L THEN 1 ELSE 0
    OBVIOUS
  <2>2. \A x \in S : whole[x] \in Int /\ extra[x] \in Int /\ share[x] = whole[x] + extra[x]
    BY <1>1
  <2> HIDE DEF extra, L
  <2>3. SumOver(extra, S) = left
    BY <1>1, <1>2, <1>7, <2>1, SumOnes
  <2>4. SumOver(share, S) = SumOver(whole, S) + SumOver(extra, S)
    BY <1>1, <2>2, SumPlus
  <2>5. SumOver(whole, S) \in Int
    <3>1. \A x \in S : whole[x] \in Int
      BY <1>1
    <3> QED
      BY <1>1, <3>1, SumType
  <2> QED
    BY <1>1, <2>3, <2>4, <2>5
<1>9. ASSUME NEW x \in S, Rank(x, R, S) < left PROVE rest[x] > 0
  <2>1. ASSUME rest[x] = 0 PROVE FALSE
    <3> DEFINE before == {y \in S : <<y, x>> \in R}
    <3>1. P \in SUBSET before /\ before \in SUBSET S
      BY <1>4, <2>1
    <3>2. Rank(x, R, S) = Cardinality(before)
      BY DEF Rank
    <3> HIDE DEF P, before
    <3>3. IsFiniteSet(before)
      BY <1>1, <3>1, FS_Subset
    <3>4. Cardinality(P) <= Cardinality(before) /\ Cardinality(before) \in Nat
      BY <3>1, <3>3, FS_Subset, FS_CardinalityType
    <3> QED
      BY <1>3, <1>6, <1>9, <3>2, <3>4
  <2>2. rest[x] \in Nat
    BY <1>1
  <2> QED
    BY <2>1, <2>2
<1>10. ASSUME NEW x \in S, NEW y \in S, rest[x] > rest[y], Rank(y, R, S) < left PROVE Rank(x, R, S) < left
  <2>1. <<x, y>> \in R
    BY <1>4, <1>10
  <2>2. Rank(x, R, S) < Rank(y, R, S)
    BY <1>5, <2>1
  <2>3. Rank(x, R, S) \in Int /\ Rank(y, R, S) \in Int
    BY <1>5
  <2> QED
    BY <1>3, <1>10, <2>2, <2>3
<1> QED
  BY <1>8, <1>9, <1>10

\* What is computed of the shares of a total, and what is exact.
Computed(total, e, B, raw, whole, rest, S) ==
  \A x \in S : /\ raw[x] = Allocation!Quotient(total * e[x], B)
               /\ whole[x] = (total * e[x]) \div B /\ rest[x] = (total * e[x]) % B

\* The whole parts are right, and so is the order of the fractions.
RightEnough(U, raw, whole, rest, S) ==
  /\ \A x \in S : raw[x] \div U = whole[x] /\ raw[x] % U \in Nat
  /\ \A x, y \in S : rest[x] > rest[y] => raw[x] % U > raw[y] % U

\* The computed quotients have the whole parts of the exact ones, and their
\* fractions are in the order of the exact remainders.
LEMMA QuotientsAre ==
  ASSUME NEW S, IsFiniteSet(S), NEW w \in Nat, w < Precision, NEW U, U = TenTo[Precision + 2], NEW G, G = TenTo[w + 2],
         NEW total \in Nat, total <= TenTo[w], NEW e, \A x \in S : e[x] \in Nat, NEW B \in Nat \ {0},
         B = SumOver(e, S), (G + 1) * B <= U,
         NEW raw, NEW whole, NEW rest, Computed(total, e, B, raw, whole, rest, S)
  PROVE  Divided(total, e, B, whole, rest, S) /\ RightEnough(U, raw, whole, rest, S)
<1>1. TenTo[w] \in Nat /\ U \in Nat /\ G \in Nat
  BY AllocationDigits, TenToType
<1>2. ASSUME NEW x \in S PROVE e[x] <= B
  <2>1. \A y \in S : e[y] \in Int
    OBVIOUS
  <2>2. SumOver(e, S) = SumOver(e, S \ {x}) + e[x]
    BY <2>1, SumRemove
  <2>3. IsFiniteSet(S \ {x}) /\ \A y \in S \ {x} : e[y] \in Nat
    BY FS_RemoveElement
  <2>4. SumOver(e, S \ {x}) \in Nat
    BY <2>3, SumNatural
  <2>5. e[x] \in Nat
    OBVIOUS
  <2> QED
    BY <2>2, <2>4, <2>5
<1>3. ASSUME NEW x \in S
      PROVE  /\ whole[x] \in Int /\ rest[x] \in Nat /\ rest[x] < B /\ total * e[x] = B * whole[x] + rest[x]
             /\ raw[x] \div U = whole[x] /\ raw[x] % U \in Nat /\ Near(raw[x] % U, rest[x], B, U, G)
  <2>1. PICK a \in Nat : a = e[x]
    OBVIOUS
  <2>2. PICK A : A = total * a
    OBVIOUS
  <2>3. A \in Nat
    BY <2>2
  <2>4. A <= TenTo[w] * B
    <3>1. total * a <= TenTo[w] * a
      BY <1>1, <2>1, Products
    <3>2. TenTo[w] * a = a * TenTo[w] /\ TenTo[w] * B = B * TenTo[w]
      BY <1>1
    <3>3. a * TenTo[w] <= B * TenTo[w]
      <4>1. a <= B
        BY <1>2, <2>1
      <4> QED
        BY <1>1, <4>1, Products
    <3>4. TenTo[w] * a \in Int /\ TenTo[w] * B \in Int /\ A \in Int
      BY <1>1, <2>3
    <3> QED
      BY <2>2, <3>1, <3>2, <3>3, <3>4
  <2>5. raw[x] = Allocation!Quotient(A, B) /\ whole[x] = A \div B /\ rest[x] = A % B
    BY <2>1, <2>2 DEF Computed
  <2>6. PICK q : q = raw[x]
    OBVIOUS
  <2>7. q \div U = A \div B /\ q % U \in Nat /\ Near(q % U, A % B, B, U, G)
    <3>1. q = Allocation!Quotient(A, B)
      BY <2>5, <2>6
    <3> QED
      BY <2>3, <2>4, <3>1, QuotientIs
  <2>8. A \div B \in Int /\ A % B \in Int /\ A = B * (A \div B) + (A % B) /\ 0 <= A % B /\ A % B < B
    <3>1. A \in Int
      BY <2>3
    <3> QED
      BY <3>1, DivisionIs
  <2>9. whole[x] \in Int /\ rest[x] \in Nat /\ rest[x] < B
    BY <2>5, <2>8
  <2>10. total * e[x] = B * whole[x] + rest[x]
    BY <2>1, <2>2, <2>5, <2>8
  <2>11. raw[x] \div U = whole[x] /\ raw[x] % U \in Nat /\ Near(raw[x] % U, rest[x], B, U, G)
    BY <2>5, <2>6, <2>7
  <2> QED
    BY <2>9, <2>10, <2>11
<1>4. Divided(total, e, B, whole, rest, S)
  BY <1>3 DEF Divided
<1>5. ASSUME NEW x \in S, NEW y \in S, rest[x] > rest[y] PROVE raw[x] % U > raw[y] % U
  <2>1. PICK m, n : m = rest[x] /\ n = rest[y]
    OBVIOUS
  <2>2. PICK f, g : f = raw[x] % U /\ g = raw[y] % U
    OBVIOUS
  <2>3. m \in Int /\ n \in Int /\ n < m
    BY <1>3, <1>5, <2>1
  <2>4. f \in Int /\ g \in Int /\ Near(f, m, B, U, G) /\ Near(g, n, B, U, G)
    BY <1>3, <2>1, <2>2
  <2>5. g < f
    BY <1>1, <2>3, <2>4, NearInOrder
  <2> QED
    BY <2>2, <2>4, <2>5
<1>6. \A x \in S : raw[x] \div U = whole[x] /\ raw[x] % U \in Nat
  BY <1>3
<1> QED
  BY <1>4, <1>5, <1>6 DEF RightEnough

LEMMA AllocationCardinality == ASSUME NEW S PROVE Allocation!Cardinality(S) = Cardinality(S)
BY DEF Allocation!Cardinality, Cardinality

\* A list of all members of a finite set, none twice, has them all.
LEMMA ListingHas ==
  ASSUME NEW S, IsFiniteSet(S), NEW list \in Allocation!SetToSeqs(S)
  PROVE  Allocation!ToSet(list) = S
<1> DEFINE D == 1 .. Cardinality(S)
<1>1. Cardinality(S) \in Nat /\ IsFiniteSet(D) /\ Cardinality(D) = Cardinality(S)
  <2>1. Cardinality(S) \in Nat
    BY FS_CardinalityType
  <2>2. PICK n \in Nat : n = Cardinality(S)
    BY <2>1
  <2>3. IsFiniteSet(1 .. n) /\ Cardinality(1 .. n) = IF 1 > n THEN 0 ELSE n - 1 + 1
    BY FS_Interval
  <2> QED
    BY <2>2, <2>3
<1>2. list \in [D -> S] /\ \A i, j \in D : i # j => list[i] # list[j]
  BY AllocationCardinality DEF Allocation!SetToSeqs
<1> HIDE DEF D
<1>3. list \in Injection(D, S)
  BY <1>2 DEF Injection, IsInjective
<1>4. list \in Surjection(D, S)
  BY <1>1, <1>3, FS_Injection
<1> QED
  BY <1>2, <1>4 DEF Surjection, Allocation!ToSet

\* An answer is what Share says of the call it answers.
AllocationAnswered ==
  /\ amount \in Totals /\ entitlement \in [Holders -> Units]
  /\ Allocation!Listed \in SUBSET Holders
  /\ outcome = "ANSWERED" =>
       ~Allocation!Rejected /\ shares = [l \in Allocation!Listed |-> Allocation!Share(l, listing)]

\* The calls that are asked for have no answer yet.
LEMMA AllocationInit == Allocation!Init => AllocationAnswered
<1> SUFFICES ASSUME Allocation!Init PROVE AllocationAnswered
  OBVIOUS
<1>1. PICK S \in SUBSET Holders : listing \in Allocation!SetToSeqs(S)
  BY DEF Allocation!Init
<1>2. PICK list : list = listing
  OBVIOUS
<1>3. IsFiniteSet(S)
  BY AllocationAssumption, FS_Subset
<1>4. Allocation!ToSet(list) = S
  BY <1>1, <1>2, <1>3, ListingHas
<1>5. Allocation!Listed \in SUBSET Holders
  BY <1>2, <1>4 DEF Allocation!Listed
<1>6. amount \in Totals /\ entitlement \in [Holders -> Units] /\ outcome = "ASKED"
  BY DEF Allocation!Init
<1> QED
  BY <1>5, <1>6 DEF AllocationAnswered

\* What the answer is computed from stays.
LEMMA AllocationNext == AllocationAnswered /\ [Allocation!Next]_Allocation!vars => AllocationAnswered'
<1> SUFFICES ASSUME AllocationAnswered, [Allocation!Next]_Allocation!vars PROVE AllocationAnswered'
  OBVIOUS
<1>1. UNCHANGED <<amount, entitlement, listing>>
  BY DEF Allocation!Next, Allocation!Allocate, Allocation!vars
<1>2. Allocation!Listed' = Allocation!Listed /\ Allocation!Rejected' = Allocation!Rejected
  <2>1. Allocation!Listed' = Allocation!Listed
    BY <1>1 DEF Allocation!Listed, Allocation!ToSet
  <2>2. Allocation!SumEntitlement' = Allocation!SumEntitlement
    BY <1>1, <2>1 DEF Allocation!SumEntitlement
  <2> QED
    BY <1>1, <2>1, <2>2 DEF Allocation!Rejected
<1>3. [l \in Allocation!Listed |-> Allocation!Share(l, listing)]' = [l \in Allocation!Listed |-> Allocation!Share(l, listing)]
  BY <1>1 DEF Allocation!Listed, Allocation!Share, Allocation!Before, Allocation!Remainder, Allocation!RawCents,
       Allocation!TotalCents, Allocation!SumEntitlement, Allocation!LeftoverCents
<1>4. outcome' = "ANSWERED" =>
        /\ ~Allocation!Rejected
        /\ shares' = [l \in Allocation!Listed |-> Allocation!Share(l, listing)]
  BY DEF Allocation!Next, Allocation!Allocate, Allocation!vars, AllocationAnswered
<1>5. amount' \in Totals /\ entitlement' \in [Holders -> Units] /\ Allocation!Listed' \in SUBSET Holders
  BY <1>1, <1>2 DEF AllocationAnswered
<1>6. outcome' = "ANSWERED" =>
        /\ ~Allocation!Rejected'
        /\ shares' = [l \in Allocation!Listed |-> Allocation!Share(l, listing)]'
  BY <1>2, <1>3, <1>4
<1> QED
  BY <1>5, <1>6 DEF AllocationAnswered

\* The listed lots in the order they are sorted by.
Sorted(S) == {p \in S \X S : Allocation!Before(p[1], p[2], listing)}

\* An answer is exact.
LEMMA AnswerIsExact ==
  ASSUME AllocationAnswered, outcome = "ANSWERED"
  PROVE  SharedByEntitlement
<1>1. PICK S, e, total, B :
        S = Allocation!Listed /\ e = entitlement /\ total = Allocation!TotalCents /\ B = Allocation!SumEntitlement
  OBVIOUS
<1>2. S \in SUBSET Holders /\ S \in SUBSET Nat /\ IsFiniteSet(S)
  BY <1>1, AllocationAssumption, FS_Subset DEF AllocationAnswered
<1>3. B = SumOver(e, S)
  BY <1>1, AllocationSum DEF Allocation!SumEntitlement
<1>4. /\ e \in [Holders -> Units] /\ \A l \in S : e[l] \in Nat
      /\ B \in Nat \ {0}
  <2>1. ~Allocation!Rejected /\ e \in [Holders -> Units]
    BY <1>1 DEF AllocationAnswered
  <2>2. ~(B <= 0) /\ \A l \in S : ~(e[l] < 0)
    BY <1>1, <2>1 DEF Allocation!Rejected
  <2>3. \A l \in S : e[l] \in Int
    BY <1>2, <2>1, AllocationAssumption
  <2>4. \A l \in S : e[l] \in Nat
    BY <2>2, <2>3
  <2>5. B \in Nat
    BY <1>2, <1>3, <2>4, SumNatural
  <2> QED
    BY <2>1, <2>2, <2>4, <2>5
<1>5. PICK w \in Nat : w < Precision /\ total \in Nat /\ total <= TenTo[w] /\ (TenTo[w + 2] + 1) * B <= TenTo[Precision + 2]
  <2>1. PICK w \in 0 .. Precision - 1 :
          /\ \A t \in Totals : t <= 10 * TenTo[w]
          /\ \A units \in [Holders -> Units], T \in SUBSET Holders :
               (TenTo[w + 2] + 1) * SumOver(units, T) <= TenTo[Precision + 2]
    BY AllocationAssumption
  <2>2. w \in Nat /\ w < Precision
    BY <2>1, AllocationAssumption
  <2>3. (TenTo[w + 2] + 1) * B <= TenTo[Precision + 2]
    BY <1>2, <1>3, <1>4, <2>1
  <2>4. total \in Nat /\ total <= TenTo[w]
    <3>1. PICK a : a = amount
      OBVIOUS
    <3>2. a \in Nat /\ a <= 10 * TenTo[w] /\ total = a \div 10
      BY <1>1, <2>1, <3>1, AllocationAssumption DEF AllocationAnswered, Allocation!TotalCents
    <3>3. TenTo[w] \in Nat
      BY <2>2, TenToType
    <3> QED
      BY <3>2, <3>3
  <2> QED
    BY <2>2, <2>3, <2>4
<1>6. PICK U, G : U = TenTo[Precision + 2] /\ G = TenTo[w + 2]
  OBVIOUS
<1>7. PICK raw, whole, rest :
        /\ raw = [l \in S |-> Allocation!RawCents(l)]
        /\ whole = [l \in S |-> Allocation!ExactCents(l)]
        /\ rest = [l \in S |-> Allocation!ExactRemainder(l)]
  OBVIOUS
<1>8. \A l \in S : raw[l] = Allocation!Quotient(total * e[l], B)
  BY <1>1, <1>7 DEF Allocation!RawCents
<1>9. \A l \in S : whole[l] = (total * e[l]) \div B /\ rest[l] = (total * e[l]) % B
  BY <1>1, <1>7 DEF Allocation!ExactCents, Allocation!ExactRemainder, Allocation!ExactShare
<1>10. (G + 1) * B <= U
  BY <1>5, <1>6
<1>11. Divided(total, e, B, whole, rest, S) /\ RightEnough(U, raw, whole, rest, S)
  <2>1. IsFiniteSet(S) /\ w \in Nat /\ w < Precision /\ total \in Nat /\ total <= TenTo[w]
    BY <1>2, <1>5
  <2>2. (\A x \in S : e[x] \in Nat) /\ B \in Nat \ {0}
    BY <1>4
  <2>3. U = TenTo[Precision + 2] /\ G = TenTo[w + 2]
    BY <1>6
  <2>4. Computed(total, e, B, raw, whole, rest, S)
    BY <1>8, <1>9 DEF Computed
  <2> QED
    BY <1>3, <1>10, <2>1, <2>2, <2>3, <2>4, QuotientsAre
<1>12. \A l \in S : Allocation!Floor(Allocation!RawCents(l)) = whole[l] /\ Allocation!Remainder(l) = raw[l] % U
  <2>1. Allocation!Ulp = U
    BY <1>6, AllocationDigits
  <2> QED
    BY <1>7, <1>11, <2>1 DEF RightEnough, Allocation!Floor, Allocation!Remainder, Allocation!Fraction
<1>13. PICK R, left : R = Sorted(S) /\ left = Allocation!LeftoverCents
  OBVIOUS
<1>14. \A k, l \in S : <<k, l>> \in R <=> raw[k] % U > raw[l] % U \/ (raw[k] % U = raw[l] % U /\ k < l)
  BY <1>12, <1>13 DEF Sorted, Allocation!Before
<1>15. GreaterFirst(R, rest, S)
  <2>1. PICK fraction : fraction = [l \in S |-> raw[l] % U]
    OBVIOUS
  <2>2. \A l \in S : fraction[l] \in Nat /\ l \in Nat
    BY <1>2, <1>11, <2>1 DEF RightEnough
  <2>3. \A k, l \in S : <<k, l>> \in R <=> fraction[k] > fraction[l] \/ (fraction[k] = fraction[l] /\ k < l)
    BY <1>14, <2>1
  <2>4. \A k, l \in S : rest[k] > rest[l] => fraction[k] > fraction[l]
    BY <1>11, <2>1 DEF RightEnough
  <2>5. TotalOrder(R, S)
    BY <2>2, <2>3 DEF TotalOrder, StrictOrder
  <2> QED
    BY <2>3, <2>4, <2>5 DEF GreaterFirst
<1>16. left = total - SumOver(whole, S)
  <2>1. [l \in S |-> Allocation!Floor(Allocation!RawCents(l))] = [l \in S |-> whole[l]] /\ whole = [l \in S |-> whole[l]]
    <3>1. whole = [l \in S |-> whole[l]]
      BY <1>7
    <3> QED
      BY <1>12, <3>1
  <2>2. left = total - Allocation!SumOver([l \in S |-> Allocation!Floor(Allocation!RawCents(l))], S)
    BY <1>1, <1>13 DEF Allocation!LeftoverCents
  <2>3. left = total - Allocation!SumOver(whole, S)
    BY <2>1, <2>2
  <2> QED
    BY <2>3, AllocationSum
<1>17. ASSUME NEW list, Allocation!ToSet(list) = S, NEW l \in S
       PROVE  Allocation!Share(l, list) = whole[l] + (IF Rank(l, R, S) < left THEN 1 ELSE 0)
  <2>1. {k \in Allocation!ToSet(list) : Allocation!Before(k, l, list)} = {k \in S : <<k, l>> \in R}
    BY <1>13, <1>17 DEF Sorted, Allocation!Before
  <2>2. Allocation!Cardinality({k \in Allocation!ToSet(list) : Allocation!Before(k, l, list)}) = Rank(l, R, S)
    BY <2>1, AllocationCardinality DEF Rank
  <2>3. Allocation!Share(l, list) = Allocation!Floor(Allocation!RawCents(l)) + IF Rank(l, R, S) < left THEN 1 ELSE 0
    BY <1>13, <2>2 DEF Allocation!Share
  <2> QED
    BY <1>12, <2>3
<1>18. PICK share : share = shares
  OBVIOUS
<1>19. \A l \in S : share[l] = whole[l] + (IF Rank(l, R, S) < left THEN 1 ELSE 0)
  <2>1. shares = [l \in S |-> Allocation!Share(l, listing)] /\ Allocation!ToSet(listing) = S
    BY <1>1 DEF AllocationAnswered, Allocation!Listed
  <2> QED
    BY <1>17, <1>18, <2>1
<1>20. /\ SumOver(share, S) = total
       /\ \A l \in S : Rank(l, R, S) < left => rest[l] > 0
       /\ \A k, l \in S : rest[k] > rest[l] /\ Rank(l, R, S) < left => Rank(k, R, S) < left
  BY <1>11, <1>15, <1>16, <1>19, LargestRemainder
<1>21. \A l \in S : whole[l] \in Int
  BY <1>11 DEF Divided
<1>22. Allocation!SumOver(shares, Allocation!Listed) = Allocation!TotalCents
  <2>1. Allocation!SumOver(share, S) = total
    BY <1>20, AllocationSum
  <2> QED
    BY <1>1, <1>18, <2>1
<1>23. ASSUME NEW l \in S
       PROVE  /\ shares[l] = Allocation!ExactCents(l) \/ (shares[l] = Allocation!ExactCents(l) + 1 /\ Allocation!ExactRemainder(l) > 0)
              /\ Allocation!PaysExtra(l) <=> Rank(l, R, S) < left
  <2>1. Allocation!ExactCents(l) = whole[l] /\ Allocation!ExactRemainder(l) = rest[l] /\ shares[l] = share[l]
    BY <1>7, <1>18
  <2>2. whole[l] \in Int /\ share[l] = whole[l] + (IF Rank(l, R, S) < left THEN 1 ELSE 0)
        /\ (Rank(l, R, S) < left => rest[l] > 0)
    BY <1>19, <1>20, <1>21
  <2>3. Allocation!PaysExtra(l) <=> share[l] > whole[l]
    BY <2>1 DEF Allocation!PaysExtra
  <2> QED
    BY <2>1, <2>2, <2>3
<1>24. ASSUME NEW k \in S, NEW l \in S, Allocation!ExactRemainder(k) > Allocation!ExactRemainder(l), Allocation!PaysExtra(l)
       PROVE  Allocation!PaysExtra(k)
  <2>1. rest[k] > rest[l]
    BY <1>7, <1>24
  <2> QED
    BY <1>20, <1>23, <1>24, <2>1
<1>25. ASSUME NEW list \in Allocation!SetToSeqs(S), NEW l \in S PROVE Allocation!Share(l, list) = shares[l]
  <2>1. Allocation!ToSet(list) = S
    BY <1>2, ListingHas
  <2> QED
    BY <1>17, <1>18, <1>19, <2>1
<1> QED
  BY <1>1, <1>22, <1>23, <1>24, <1>25 DEF SharedByEntitlement, Allocation!SharedByEntitlement, Allocation!Allocated

\* allocateByEntitlement shares an instalment out exactly and in proportion,
\* the leftover cents by the greatest exact remainders, and the same way
\* however its lots are listed: for any lots, entitlements and amounts whose
\* digits leave the quotients enough of theirs.
THEOREM SharesAreExact == Allocation!Spec => []SharedByEntitlement
<1>1. AllocationAnswered => SharedByEntitlement
  <2>1. CASE outcome = "ANSWERED"
    BY <2>1, AnswerIsExact
  <2>2. CASE outcome # "ANSWERED"
    BY <2>2 DEF SharedByEntitlement, Allocation!SharedByEntitlement, Allocation!Allocated
  <2> QED
    BY <2>1, <2>2
<1>2. Allocation!Spec => []AllocationAnswered
  BY AllocationInit, AllocationNext, PTL DEF Allocation!Spec
<1> QED
  BY <1>1, <1>2, PTL
=============================================================================
