------------------------------ MODULE Signing -------------------------------
(***************************************************************************)
(* The Approval & Acceptance workflow of one work order: its quotes        *)
(* (QuotesService), its variations (WorkOrderVariationsService), its       *)
(* release (WorkOrdersService.updateStatus), and the agreements WaslSign   *)
(* keeps of them.  A request reads a row, decides what to write, and       *)
(* writes it later by id: other requests and callbacks commit in between.  *)
(* WaslSign delivers an event late, twice, out of order, or never.         *)
(***************************************************************************)
EXTENDS ApprovalPolicy, SequencesExt

CONSTANTS
  Managers,         \* concurrent requests of staff
  Webhooks,         \* concurrent callback requests
  Pricings,         \* Pricings[n]: what the n-th item may be made with, [policy, cents, currency]
  Replies,          \* statuses that a reply of the contractor gives a quote
  Moves,            \* statuses that staff ask to move the order to
  Events,           \* event types WaslSign may emit
  Mixes,            \* bound: the items made, by kind, follow one of these sequences
  MaxRows           \* bound on items and agreements together

ASSUME PricingsAssumption ==
  \A n \in DOMAIN Pricings : \A p \in Pricings[n] : p.policy.rules \in Seq([max : Int, mode : Modes])

VARIABLES
  order,        \* status of the WorkOrder
  items,        \* quotes and variations, in the order they were created
  agreements,   \* at WaslSign: the item, and the events emitted of it
  seen,         \* WaslSignWebhookEvent rows
  job,          \* per request: what it has still to do
  approved,     \* history: items a manager approved at an approval gate
  governed      \* history: the quote the order was released by, 0 for none

vars == <<order, items, agreements, seen, job, approved, governed>>

Items == 1..Len(items)
Quotes == {i \in Items : items[i].kind = "QUOTE"}
Variations == {i \in Items : items[i].kind = "VARIATION"}
IsQuote(i) == items[i].kind = "QUOTE"
Requests == Managers \cup Webhooks

Idle == [op |-> "IDLE"]
Become(c, next) == job' = [job EXCEPT ![c] = next]

\* A write by id of some fields of an item, and what the request does next.
WriteOf(i, set, next) == [op |-> "WRITE", item |-> i, set |-> set, next |-> next]
Updated(row, set) == [f \in DOMAIN row |-> IF f \in DOMAIN set THEN set[f] ELSE row[f]]

-----------------------------------------------------------------------------
(***************************************************************************)
(* Quotes and variations                                                   *)
(***************************************************************************)

\* The mode the policy requires is filled in; its gate is not started.
NewItem(kind, status, required) ==
  [kind |-> kind, status |-> status, required |-> required, mode |-> required,
   approval |-> Unset, signature |-> Unset, agreement |-> 0]

\* QuotesService.create and WorkOrderVariationsService.create.
CreateItem ==
  /\ Len(items) + 1 \in DOMAIN Pricings /\ Len(agreements) + Len(items) < MaxRows
  /\ \E p \in Pricings[Len(items) + 1] :
       LET required == Resolve(p.policy, p.cents, p.currency) IN
       \/ items' = Append(items, NewItem("QUOTE", "REQUESTED", required))
       \/ /\ order # "CANCELLED"
          /\ items' = Append(items, NewItem("VARIATION", "PENDING_APPROVAL", required))
  /\ \E mix \in Mixes : IsPrefix([i \in DOMAIN items' |-> items'[i].kind], mix)
  /\ UNCHANGED <<order, agreements, seen, job, approved, governed>>

-----------------------------------------------------------------------------
(***************************************************************************)
(* What staff ask for                                                      *)
(***************************************************************************)

\* submit, decline and withdraw of a quote.
QuoteMoves == {<<"REQUESTED", "SUBMITTED">>, <<"REQUESTED", "DECLINED">>, <<"SUBMITTED", "WITHDRAWN">>}
MoveQuote(c) ==
  \E i \in Quotes, to \in Replies :
    <<items[i].status, to>> \in QuoteMoves /\ Become(c, WriteOf(i, [status |-> to], "END"))

\* A quote is open to a change of workflow until it is approved or rejected,
\* a variation while it is PENDING_APPROVAL.
OpenToChange(i) ==
  IF IsQuote(i) THEN items[i].status \notin {"APPROVED", "REJECTED"}
  ELSE items[i].status = "PENDING_APPROVAL"

\* Of a quote NONE may only be confirmed where the policy requires NONE.
ModeAllowed(i, mode) ==
  /\ OpenToChange(i)
  /\ items[i].required # Unset => MeetsOrExceeds(mode, items[i].required)
  /\ IsQuote(i) /\ mode = "NONE" => items[i].required = "NONE"

\* An approval gate is opened by the choice, and takes a quote under review; a
\* signature alone is asked for at once.  NONE settles nothing yet.
QuoteMode(i, mode) ==
  CASE mode = "NONE" -> WriteOf(i, [mode |-> mode], "END")
    [] mode = "SIGNATURE_ONLY" -> [op |-> "CALL", item |-> i, mode |-> mode]
    [] OTHER -> WriteOf(i, [mode |-> mode, approval |-> "PENDING", status |-> "UNDER_REVIEW"], "END")

VariationMode(i, mode) ==
  CASE mode = "NONE" -> WriteOf(i, [mode |-> mode], "END")
    [] mode = "SIGNATURE_ONLY" -> [op |-> "CALL", item |-> i, mode |-> mode]
    [] OTHER -> WriteOf(i, [mode |-> mode, approval |-> "PENDING"], "END")

SetWorkflowMode(c) ==
  \E i \in Items, mode \in Modes :
    ModeAllowed(i, mode) /\ Become(c, IF IsQuote(i) THEN QuoteMode(i, mode) ELSE VariationMode(i, mode))

\* A mode never confirmed counts as NONE only where the policy requires NONE.
EffectiveMode(i) == IF items[i].mode = Unset /\ items[i].required = "NONE" THEN "NONE" ELSE items[i].mode

\* Approving where there is no gate settles the item at once.  A quote then
\* releases the order in a request of its own; an approval gate that passes
\* settles a quote in the same write, a variation in a second one.
Approve(c) ==
  \E i \in Items :
    LET mode == EffectiveMode(i) IN
    \/ /\ mode = "NONE" /\ OpenToChange(i)
       /\ Become(c, WriteOf(i, [mode |-> "NONE", status |-> "APPROVED"], IF IsQuote(i) THEN "RELEASE" ELSE "END"))
    \/ /\ NeedsApproval(mode) /\ items[i].approval = "PENDING"
       /\ IsQuote(i)
       /\ Become(c, WriteOf(i, [approval |-> "APPROVED",
                                status |-> IF mode = "APPROVAL_ONLY" THEN "APPROVED" ELSE "UNDER_REVIEW"],
                            IF mode = "APPROVAL_ONLY" THEN "RELEASE" ELSE "CALL"))
    \/ /\ NeedsApproval(mode) /\ items[i].approval = "PENDING"
       /\ ~IsQuote(i) /\ OpenToChange(i)
       /\ Become(c, WriteOf(i, [approval |-> "APPROVED"], mode))

\* A variation with no approval gate can be rejected outright.
Reject(c) ==
  \E i \in Items :
    \/ /\ NeedsApproval(items[i].mode) /\ items[i].approval = "PENDING"
       /\ IsQuote(i) \/ OpenToChange(i)
       /\ Become(c, WriteOf(i, [approval |-> "REJECTED", status |-> "REJECTED"], "END"))
    \/ /\ ~IsQuote(i) /\ OpenToChange(i) /\ ~NeedsApproval(items[i].mode)
       /\ Become(c, WriteOf(i, [status |-> "REJECTED"], "END"))

CancelVariation(c) ==
  \E i \in Variations :
    OpenToChange(i) /\ Become(c, WriteOf(i, [status |-> "CANCELLED"], "END"))

\* The newest quote that is not rejected.
GoverningQuote ==
  LET live == {i \in Quotes : items[i].status # "REJECTED"} IN
  IF live = {} THEN 0 ELSE Max(live)

\* A governing quote must have a workflow, and that must have completed.
ReleaseAllowed ==
  LET q == GoverningQuote IN
  q # 0 => /\ items[q].mode # Unset
           /\ CanRelease(Derive(items[q].mode, items[q].approval, items[q].signature))

Transitions ==
  {<<"DRAFT", "READY">>, <<"READY", "SCHEDULED">>, <<"SCHEDULED", "IN_PROGRESS">>, <<"IN_PROGRESS", "COMPLETED">>}
    \cup {<<s, "CANCELLED">> : s \in {"DRAFT", "READY", "SCHEDULED", "IN_PROGRESS"}}

\* updateStatus reads the order and its quotes; scheduling with a date.
Move(to) ==
  /\ <<order, to>> \in Transitions
  /\ to = "READY" => ReleaseAllowed

UpdateStatus(c) ==
  \E to \in Moves :
    Move(to) /\ Become(c, [op |-> "MOVE", to |-> to, by |-> GoverningQuote])

Request(c) ==
  /\ job[c] = Idle
  /\ \/ MoveQuote(c) \/ SetWorkflowMode(c) \/ Approve(c) \/ Reject(c)
     \/ CancelVariation(c) \/ UpdateStatus(c)
  /\ UNCHANGED <<order, items, agreements, seen, approved, governed>>

-----------------------------------------------------------------------------
(***************************************************************************)
(* What a request does after it has read                                   *)
(***************************************************************************)

AfterWrite(i, row, next) ==
  CASE next = "END" -> Idle
    [] next = "RELEASE" -> [op |-> "RELEASE"]
    [] next = "CALL" -> [op |-> "CALL", item |-> i, mode |-> "APPROVAL_THEN_SIGNATURE"]
    [] OTHER -> IF CanRelease(Derive(next, "APPROVED", row.signature))
                THEN WriteOf(i, [status |-> "APPROVED"], "END")
                ELSE [op |-> "CALL", item |-> i, mode |-> "APPROVAL_THEN_SIGNATURE"]

Write(c) ==
  /\ job[c].op = "WRITE"
  /\ LET i == job[c].item
         row == Updated(items[i], job[c].set) IN
     /\ items' = [items EXCEPT ![i] = row]
     /\ Become(c, AfterWrite(i, row, job[c].next))
     /\ approved' = IF "approval" \in DOMAIN job[c].set /\ job[c].set.approval = "APPROVED"
                    THEN approved \cup {i} ELSE approved
  /\ UNCHANGED <<order, agreements, seen, governed>>

\* startSignatureWorkflow: WaslSign makes the agreement; the id is stored by
\* a later write, if the answer arrives.
Call(c) ==
  /\ job[c].op = "CALL" /\ Len(agreements) + Len(items) < MaxRows
  /\ LET i == job[c].item
         mode == job[c].mode
         id == Len(agreements) + 1 IN
     /\ agreements' = Append(agreements, [item |-> i, emitted |-> {}])
     /\ Become(c, WriteOf(i, IF IsQuote(i)
                             THEN [mode |-> mode, signature |-> "PENDING", agreement |-> id, status |-> "UNDER_REVIEW"]
                             ELSE [mode |-> mode, signature |-> "PENDING", agreement |-> id], "END"))
  /\ UNCHANGED <<order, items, seen, approved, governed>>

\* maybeReleaseWorkOrder: a refusal is swallowed.
Release(c) ==
  /\ job[c].op = "RELEASE"
  /\ Become(c, IF Move("READY") THEN [op |-> "MOVE", to |-> "READY", by |-> GoverningQuote] ELSE Idle)
  /\ UNCHANGED <<order, items, agreements, seen, approved, governed>>

MoveOrder(c) ==
  /\ job[c].op = "MOVE"
  /\ order' = job[c].to
  /\ governed' = IF job[c].to = "READY" THEN job[c].by ELSE governed
  /\ Become(c, Idle)
  /\ UNCHANGED <<items, agreements, seen, approved>>

\* Nothing is written when WaslSign is not configured, refuses, cannot be
\* reached, does not answer in time or answers nonsense.
CallFails(c) ==
  /\ job[c].op = "CALL" /\ Become(c, Idle)
  /\ UNCHANGED <<order, items, agreements, seen, approved, governed>>

\* The process dies before a write, the one of an agreement WaslSign has made
\* included.
Abandon(c) ==
  /\ job[c].op \in {"WRITE", "RELEASE", "MOVE"} /\ Become(c, Idle)
  /\ UNCHANGED <<order, items, agreements, seen, approved, governed>>

-----------------------------------------------------------------------------
(***************************************************************************)
(* WaslSign and its callbacks                                              *)
(***************************************************************************)

\* Signers act in any order WaslSign allows: nothing follows a final event
\* but WORKFLOW_COMPLETED after SIGNED.
Final == {"SIGNED", "DECLINED", "EXPIRED", "WORKFLOW_CANCELLED"}
Emit ==
  /\ \E a \in DOMAIN agreements, e \in Events :
       /\ e \notin agreements[a].emitted
       /\ IF e = "WORKFLOW_COMPLETED" THEN "SIGNED" \in agreements[a].emitted
          ELSE agreements[a].emitted \cap Final = {}
       /\ agreements' = [agreements EXCEPT ![a].emitted = @ \cup {e}]
  /\ UNCHANGED <<order, items, seen, job, approved, governed>>

\* What a callback writes, decided on the row as it is read.
QuoteCallback(i, signature) ==
  IF signature = "SIGNED"
  THEN WriteOf(i, [signature |-> signature, status |-> "APPROVED"], "RELEASE")
  ELSE WriteOf(i, [signature |-> signature, status |-> items[i].status], "END")

VariationCallback(i, signature) ==
  LET completing == /\ signature = "SIGNED"
                    /\ CanRelease(Derive(items[i].mode, items[i].approval, signature)) IN
  WriteOf(i, [signature |-> signature, status |-> IF completing THEN "APPROVED" ELSE items[i].status], "END")

\* Ignored: another agreement's event, one that says nothing new, and any
\* event of a variation that is settled.
Heeded(i, a, signature) ==
  /\ items[i].agreement = a
  /\ IsQuote(i) \/ items[i].status = "PENDING_APPROVAL"
  /\ signature # Unset /\ items[i].signature # signature

\* The event id is stored first, by a statement of its own: what follows may
\* fail, and the event is a duplicate when it comes again.
Callback(c) ==
  /\ job[c] = Idle
  /\ \E a \in DOMAIN agreements : \E e \in agreements[a].emitted :
       /\ <<a, e>> \notin seen
       /\ seen' = seen \cup {<<a, e>>}
       /\ LET i == agreements[a].item
              signature == SignatureOf(e) IN
          Become(c, IF ~Heeded(i, a, signature) THEN Idle
                    ELSE IF IsQuote(i) THEN QuoteCallback(i, signature)
                    ELSE VariationCallback(i, signature))
  /\ UNCHANGED <<order, items, agreements, approved, governed>>

-----------------------------------------------------------------------------
Init ==
  /\ order = "DRAFT"
  /\ items = <<>> /\ agreements = <<>> /\ seen = {}
  /\ job = [c \in Requests |-> Idle]
  /\ approved = {} /\ governed = 0

Next ==
  \/ CreateItem \/ Emit
  \/ \E c \in Managers : Request(c)
  \/ \E c \in Webhooks : Callback(c)
  \/ \E c \in Requests : Write(c) \/ Call(c) \/ Release(c) \/ MoveOrder(c) \/ CallFails(c) \/ Abandon(c)

Spec == Init /\ [][Next]_vars

-----------------------------------------------------------------------------
(***************************************************************************)
(* Properties                                                              *)
(***************************************************************************)

SignedBy(i) == \E a \in DOMAIN agreements : agreements[a].item = i /\ "SIGNED" \in agreements[a].emitted

\* Every gate the policy required of the item when it was priced has really
\* been passed: a manager approved it, both parties signed it at WaslSign.
Sanctioned(i) ==
  /\ NeedsApproval(items[i].required) => i \in approved
  /\ NeedsSignature(items[i].required) => SignedBy(i)

\* An order that was released on the strength of a quote has a quote whose
\* gates were passed; where no policy applied, somebody approved or signed.  A
\* variation that counts towards the authorised total has passed every gate
\* the policy required of its amount.  Late, repeated, lost and stale
\* callbacks never make it otherwise.
NothingUnsanctioned ==
  /\ order \in {"READY", "SCHEDULED", "IN_PROGRESS", "COMPLETED"} /\ governed # 0 =>
       /\ Sanctioned(governed)
       /\ items[governed].required = Unset => governed \in approved \/ SignedBy(governed)
  /\ \A i \in Variations : items[i].status = "APPROVED" => Sanctioned(i)
=============================================================================
