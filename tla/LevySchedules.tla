--------------------------- MODULE LevySchedules ----------------------------
(***************************************************************************)
(* One levy schedule of LevyService, handled by several requests at once.  *)
(* Issuing and reversing an instalment hold the property's ledger lock and *)
(* write what follows from the schedule as they read it; approving and     *)
(* cancelling hold no lock, so anything may commit between their read and  *)
(* their write, which names only the schedule's id.  After an issue has    *)
(* committed its request sends a notice to each lot, and may die before it *)
(* is done.                                                                *)
(***************************************************************************)
EXTENDS Integers, FiniteSets

CONSTANTS
  Clients, NoClient,
  Instalments,     \* positions 1, 2, ... of the schedule's instalments
  Lots,
  ChargedLots      \* ChargedLots[i]: lots whose share of instalment i is not zero

ASSUME NoClientAssumption == NoClient \notin Clients
ASSUME InstalmentsAssumption == Instalments \subseteq Nat /\ IsFiniteSet(Instalments)
ASSUME ChargedLotsAssumption == ChargedLots \in [Instalments -> SUBSET Lots]

VARIABLES
  status,        \* of the LevySchedule row
  approved,      \* whether its approvedAt is set
  instalments,   \* the status of each LevyInstallment row
  charges,       \* number of LotLevyCharge rows per instalment and lot
  journals,      \* instalments the ledger has a journal for
  notices,       \* number of notices sent per instalment and lot
  request,       \* per client: what it has read and is about to write
  lock           \* holder of the property's ledger lock

vars == <<status, approved, instalments, charges, journals, notices, request, lock>>

ScheduleStatus == {"DRAFT", "APPROVED", "PARTIALLY_ISSUED", "ISSUED", "CANCELLED"}
InstalmentStatus == {"PENDING", "ISSUED", "REVERSED"}

Idle == [phase |-> "IDLE"]

Requests ==
  {Idle} \cup [phase : {"APPROVE", "CANCEL"}]
         \cup [phase : {"ISSUE", "REVERSE"}, target : Instalments, seen : ScheduleStatus]
         \cup [phase : {"NOTIFY"}, target : Instalments, todo : SUBSET Lots]

TypeOK ==
  /\ status \in ScheduleStatus /\ approved \in BOOLEAN
  /\ instalments \in [Instalments -> InstalmentStatus]
  /\ charges \in [Instalments -> [Lots -> Nat]]
  /\ journals \in SUBSET Instalments
  /\ notices \in [Instalments -> [Lots -> Nat]]
  /\ request \in [Clients -> Requests]
  /\ lock \in Clients \cup {NoClient}

Init ==
  /\ status = "DRAFT" /\ approved = FALSE
  /\ instalments = [i \in Instalments |-> "PENDING"]
  /\ charges = [i \in Instalments |-> [l \in Lots |-> 0]]
  /\ journals = {}
  /\ notices = [i \in Instalments |-> [l \in Lots |-> 0]]
  /\ request = [p \in Clients |-> Idle]
  /\ lock = NoClient

\* The schedule's status follows from its instalments, draft and cancelled
\* schedules excepted.
ComputeScheduleStatus(current, inst) ==
  LET issued == {i \in Instalments : inst[i] = "ISSUED"} IN
  IF current \in {"DRAFT", "CANCELLED"} THEN current
  ELSE IF issued = {} THEN "APPROVED"
  ELSE IF issued = Instalments THEN "ISSUED" ELSE "PARTIALLY_ISSUED"

Become(p, r) == request' = [request EXCEPT ![p] = r]

-----------------------------------------------------------------------------
(***************************************************************************)
(* approve and cancel: read and check, then write by id.                   *)
(***************************************************************************)

Read(p, phase) ==
  /\ request[p] = Idle
  /\ Become(p, [phase |-> phase])
  /\ UNCHANGED <<status, approved, instalments, charges, journals, notices, lock>>

ReadApprove(p) == status = "DRAFT" /\ Read(p, "APPROVE")

\* issuedAt is set on an issued instalment and stays set on a reversed one.
ReadCancel(p) ==
  /\ status \in {"DRAFT", "APPROVED"}
  /\ \A i \in Instalments : instalments[i] = "PENDING"
  /\ Read(p, "CANCEL")

WriteApprove(p) ==
  /\ request[p].phase = "APPROVE"
  /\ status' = "APPROVED" /\ approved' = TRUE
  /\ Become(p, Idle)
  /\ UNCHANGED <<instalments, charges, journals, notices, lock>>

WriteCancel(p) ==
  /\ request[p].phase = "CANCEL"
  /\ status' = "CANCELLED"
  /\ Become(p, Idle)
  /\ UNCHANGED <<approved, instalments, charges, journals, notices, lock>>

-----------------------------------------------------------------------------
(***************************************************************************)
(* issue and reverseInstallment: under the lock, from read to commit.      *)
(***************************************************************************)

\* Faulty variant: the configuration row is read, not locked.
BeginUnlocked(p, phase, i) ==
  /\ request[p] = Idle
  /\ lock' = p
  /\ Become(p, [phase |-> phase, target |-> i, seen |-> status])
  /\ UNCHANGED <<status, approved, instalments, charges, journals, notices>>

Begin(p, phase, i) ==
  /\ request[p] = Idle
  /\ lock = NoClient
  /\ lock' = p
  /\ Become(p, [phase |-> phase, target |-> i, seen |-> status])
  /\ UNCHANGED <<status, approved, instalments, charges, journals, notices>>

\* Faulty variant: a draft is issued without its approval.
BeginIssueDraft(p, i) ==
  /\ status # "CANCELLED"
  /\ instalments[i] = "PENDING"
  /\ Begin(p, "ISSUE", i)

\* A named instalment, or the first pending one, which is a named one too.
\* Repeating an issue changes nothing; a reversed instalment is refused.
BeginIssue(p, i) ==
  /\ status \notin {"DRAFT", "CANCELLED"}
  /\ instalments[i] = "PENDING"
  /\ Begin(p, "ISSUE", i)

BeginReverse(p, i) == instalments[i] = "ISSUED" /\ Begin(p, "REVERSE", i)

WriteSchedule(p, inst) ==
  /\ instalments' = inst
  /\ status' = ComputeScheduleStatus(request[p].seen, inst)
  /\ UNCHANGED approved
  /\ lock' = IF lock = p THEN NoClient ELSE lock

\* The instalment's charge rows with one more for each lot that has a share.
ChargedAgain(i) ==
  [l \in Lots |-> IF l \in ChargedLots[i] THEN charges[i][l] + 1 ELSE charges[i][l]]

CommitIssue(p) ==
  LET i == request[p].target IN
  /\ request[p].phase = "ISSUE"
  /\ charges' = [charges EXCEPT ![i] = ChargedAgain(i)]
  /\ journals' = journals \cup {i}   \* the ledger posts an instalment once
  /\ WriteSchedule(p, [instalments EXCEPT ![i] = "ISSUED"])
  /\ Become(p, [phase |-> "NOTIFY", target |-> i, todo |-> Lots])
  /\ UNCHANGED notices

CommitReverse(p) ==
  /\ request[p].phase = "REVERSE"
  /\ WriteSchedule(p, [instalments EXCEPT ![request[p].target] = "REVERSED"])
  /\ Become(p, Idle)
  /\ UNCHANGED <<charges, journals, notices>>

\* A posting that is refused, a lost connection or a crash ends a request
\* before its write, or between two notices.
Abandon(p) ==
  /\ request[p] # Idle
  /\ Become(p, Idle)
  /\ lock' = IF lock = p THEN NoClient ELSE lock
  /\ UNCHANGED <<status, approved, instalments, charges, journals, notices>>

-----------------------------------------------------------------------------
(***************************************************************************)
(* sendLevyIssuanceNotice: one lot after the other, each on its own.       *)
(***************************************************************************)

SendNotice(p, l) ==
  LET i == request[p].target IN
  /\ request[p].phase = "NOTIFY" /\ l \in request[p].todo
  /\ notices' = [notices EXCEPT ![i][l] = @ + 1]
  /\ Become(p, [request[p] EXCEPT !.todo = @ \ {l}])
  /\ UNCHANGED <<status, approved, instalments, charges, journals, lock>>

\* One lot's notice fails: it is logged and the loop goes on.
FailNotice(p, l) ==
  /\ request[p].phase = "NOTIFY" /\ l \in request[p].todo
  /\ Become(p, [request[p] EXCEPT !.todo = @ \ {l}])
  /\ UNCHANGED <<status, approved, instalments, charges, journals, notices, lock>>

Next ==
  \E p \in Clients :
    \/ ReadApprove(p) \/ WriteApprove(p)
    \/ ReadCancel(p) \/ WriteCancel(p)
    \/ \E i \in Instalments : BeginIssue(p, i) \/ BeginReverse(p, i)
    \/ CommitIssue(p) \/ CommitReverse(p)
    \/ \E l \in Lots : SendNotice(p, l) \/ FailNotice(p, l)
    \/ Abandon(p)

Spec == Init /\ [][Next]_vars

-----------------------------------------------------------------------------
(***************************************************************************)
(* Properties.                                                             *)
(***************************************************************************)

\* Every lot with a share is charged exactly once per instalment, exactly
\* when the ledger holds the instalment's journal and the instalment says so,
\* however many requests try to issue it.
ChargedOnce ==
  \A i \in Instalments :
    /\ i \in journals <=> instalments[i] # "PENDING"
    /\ \A l \in Lots :
         charges[i][l] = IF i \in journals /\ l \in ChargedLots[i] THEN 1 ELSE 0

\* An instalment goes from pending to issued to reversed and never back.
InstalmentsForward ==
  [][\A i \in Instalments :
       instalments'[i] # instalments[i] =>
         <<instalments[i], instalments'[i]>> \in {<<"PENDING", "ISSUED">>, <<"ISSUED", "REVERSED">>}]_vars

\* Nothing is ever issued from a schedule nobody approved.
IssuedOnlyApproved ==
  (\E i \in Instalments : instalments[i] # "PENDING") => approved

\* A lot is never told twice of one instalment, nor of one that is not out.
NoticedOnce ==
  \A i \in Instalments, l \in Lots :
    notices[i][l] <= IF instalments[i] = "PENDING" THEN 0 ELSE 1

=============================================================================
