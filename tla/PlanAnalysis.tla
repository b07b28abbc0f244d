---------------------------- MODULE PlanAnalysis ----------------------------
(***************************************************************************)
(* One uploaded strata plan, from its registration to the property it      *)
(* becomes (property-documents.service.ts, analysis-runner.ts).  Every     *)
(* analysis runs in the background of the one server process, beside its   *)
(* own watchdog: when the time is up the watchdog marks the attempt and    *)
(* the document FAILED, but nothing stops the pipeline, which writes its   *)
(* result whenever it gets there.  People edit, retry and confirm with     *)
(* requests that read first and write later.                               *)
(***************************************************************************)
EXTENDS PlanExtraction

CONSTANTS
  Clients,          \* concurrent requests of people
  Slots,            \* analyses that may be in flight at once
  Readings,         \* what the text interpretation and vision may return (vision: Nil if it does not)
  Edits,            \* corrections a person may send
  NewCodes,         \* codes other properties of the organisation may take
  MaxAttempts,      \* MAX_ANALYSIS_ATTEMPTS
  MaxRows,          \* bound on attempts
  MaxProperties     \* bound on properties

VARIABLES
  document,     \* its status, draft and createdPropertyId (0 for none)
  attempts,     \* status of the DocumentAnalysis rows, in order of creation
  runs,         \* per slot: how far a pipeline and its watchdog are
  job,          \* per client: the request that has read and not yet written
  healer,       \* getById's repair of a stuck document
  properties,   \* the organisation's: their code, and whether confirm made them
  answered      \* history: the properties that requests to confirm returned

vars == <<document, attempts, runs, job, healer, properties, answered>>

Idle == [op |-> "IDLE"]
Become(c, next) == job' = [job EXCEPT ![c] = next]
AtRest == [pipe |-> "DONE", watch |-> "DONE"]
Started == [pipe |-> "NEW", watch |-> "OFF"]

Status(s) == document' = [document EXCEPT !.status = s]
Mark(row, s) == attempts' = [attempts EXCEPT ![row] = s]

\* A draft is written together with the status that it deserves.
WithDraft(draft) ==
  [document EXCEPT !.draft = draft, !.status = IF CanConfirm(draft) THEN "READY" ELSE "REVIEW_REQUIRED"]

\* A run moves on; when both its halves are done its slot is free again.
Run(s, next) == runs' = [runs EXCEPT ![s] = IF next.pipe = "DONE" /\ next.watch = "DONE" THEN AtRest ELSE next]
At(s, place) == runs[s].pipe = place

\* A pipeline that settles before the time is up stops the watchdog.
Settled(run) == [run EXCEPT !.pipe = "DONE", !.watch = IF @ = "ON" THEN "DONE" ELSE @]

-----------------------------------------------------------------------------
(***************************************************************************)
(* The background analysis                                                 *)
(***************************************************************************)

Start(s) == runs[s] = AtRest /\ runs' = [runs EXCEPT ![s] = Started]

Register ==
  /\ document.status = "NONE" /\ Status("UPLOADED")
  /\ \E s \in Slots : Start(s)
  /\ UNCHANGED <<attempts, job, healer, properties, answered>>

CreateRow(s) ==
  /\ At(s, "NEW") /\ Len(attempts) < MaxRows
  /\ attempts' = Append(attempts, "RUNNING")
  /\ Run(s, [pipe |-> "ROW", watch |-> "OFF", row |-> Len(attempts) + 1])
  /\ UNCHANGED <<document, job, healer, properties, answered>>

Announce(s) ==
  /\ At(s, "ROW") /\ Status("ANALYSING")
  /\ Run(s, [runs[s] EXCEPT !.pipe = "WORK", !.watch = "ON"])
  /\ UNCHANGED <<attempts, job, healer, properties, answered>>

\* Not a strata plan, or no valid interpretation: a failure of its own.
Refuse(s) ==
  /\ At(s, "WORK") /\ Mark(runs[s].row, "FAILED")
  /\ Run(s, [runs[s] EXCEPT !.pipe = "REFUSED"])
  /\ UNCHANGED <<document, job, healer, properties, answered>>

RefuseDocument(s) ==
  /\ At(s, "REFUSED") /\ Status("FAILED")
  /\ Run(s, Settled(runs[s]))
  /\ UNCHANGED <<attempts, job, healer, properties, answered>>

\* The drafts that the readings lead to.
Seeds == {Seed(Extract(r.raw, r.seen)) : r \in Readings}

Interpret(s) ==
  /\ At(s, "WORK") /\ Mark(runs[s].row, "SUCCEEDED")
  /\ \E draft \in Seeds :
       Run(s, [pipe |-> "SAVE", watch |-> runs[s].watch, row |-> runs[s].row, draft |-> draft])
  /\ UNCHANGED <<document, job, healer, properties, answered>>

SaveDraft(s) ==
  /\ At(s, "SAVE")
  /\ document' = WithDraft(runs[s].draft)
  /\ Run(s, [runs[s] EXCEPT !.pipe = "TELL"])
  /\ UNCHANGED <<attempts, job, healer, properties, answered>>

\* The activity has been recorded.
Tell(s) ==
  /\ At(s, "TELL") /\ Run(s, Settled(runs[s]))
  /\ UNCHANGED <<document, attempts, job, healer, properties, answered>>

\* Whatever throws in the pipeline reaches the watchdog, if that still listens.
Throw(s) ==
  /\ runs[s].pipe \in {"WORK", "REFUSED", "SAVE", "TELL"}
  /\ Run(s, [runs[s] EXCEPT !.pipe = "DONE", !.watch = IF @ = "ON" THEN "MARK" ELSE @])
  /\ UNCHANGED <<document, attempts, job, healer, properties, answered>>

TimeOut(s) ==
  /\ runs[s].watch = "ON" /\ Run(s, [runs[s] EXCEPT !.watch = "MARK"])
  /\ UNCHANGED <<document, attempts, job, healer, properties, answered>>

MarkRow(s) ==
  /\ runs[s].watch = "MARK" /\ Mark(runs[s].row, "FAILED")
  /\ Run(s, [runs[s] EXCEPT !.watch = "MARKED"])
  /\ UNCHANGED <<document, job, healer, properties, answered>>

MarkDocument(s) ==
  /\ runs[s].watch = "MARKED" /\ Status("FAILED")
  /\ Run(s, [runs[s] EXCEPT !.watch = "DONE"])
  /\ UNCHANGED <<attempts, job, healer, properties, answered>>

\* The process restarts: no run, no request survives.
Crash ==
  /\ runs' = [s \in Slots |-> AtRest] /\ job' = [c \in Clients |-> Idle] /\ healer' = "REST"
  /\ UNCHANGED <<document, attempts, properties, answered>>

-----------------------------------------------------------------------------
(***************************************************************************)
(* A person polls: a document that has been ANALYSING for longer than the  *)
(* threshold is repaired.  The threshold is longer than the time an        *)
(* analysis may take, so no watchdog that could still fire is waiting.     *)
(***************************************************************************)

Poll ==
  /\ healer = "REST" /\ document.status = "ANALYSING" /\ \A s \in Slots : runs[s].watch # "ON"
  /\ healer' = "DOCUMENT"
  /\ UNCHANGED <<document, attempts, runs, job, properties, answered>>

HealDocument ==
  /\ healer = "DOCUMENT" /\ Status("FAILED") /\ healer' = "ROWS"
  /\ UNCHANGED <<attempts, runs, job, properties, answered>>

HealRows ==
  /\ healer = "ROWS" /\ healer' = "REST"
  /\ attempts' = [k \in DOMAIN attempts |->
                    IF attempts[k] = "RUNNING" THEN "FAILED" ELSE attempts[k]]
  /\ UNCHANGED <<document, runs, job, properties, answered>>

-----------------------------------------------------------------------------
(***************************************************************************)
(* Requests                                                                *)
(***************************************************************************)

Reviewable == document.draft # Nil /\ document.status \in {"REVIEW_REQUIRED", "READY"}

ReadEdit(c) ==
  /\ Reviewable
  /\ \E e \in Edits : Become(c, [op |-> "EDIT", draft |-> Edited(document.draft, e)])
  /\ UNCHANGED answered

ReadRetry(c) ==
  /\ document.status = "FAILED" /\ Len(attempts) < MaxAttempts
  /\ Become(c, [op |-> "RETRY"]) /\ UNCHANGED answered

\* A document that has made its property answers with it.
ReadConfirm(c) ==
  \/ /\ document.property # 0
     /\ answered' = answered \cup {document.property} /\ UNCHANGED job
  \/ /\ document.property = 0 /\ Reviewable /\ CanConfirm(document.draft)
     /\ Become(c, [op |-> "CLASH", draft |-> document.draft]) /\ UNCHANGED answered

Read(c) ==
  /\ job[c] = Idle /\ (ReadEdit(c) \/ ReadRetry(c) \/ ReadConfirm(c))
  /\ UNCHANGED <<document, attempts, runs, healer, properties>>

Edit(c) ==
  /\ job[c].op = "EDIT"
  /\ document' = WithDraft(job[c].draft)
  /\ Become(c, Idle)
  /\ UNCHANGED <<attempts, runs, healer, properties, answered>>

Retry(c) ==
  /\ job[c].op = "RETRY" /\ Status("UPLOADED")
  /\ \E s \in Slots : Start(s)
  /\ Become(c, Idle)
  /\ UNCHANGED <<attempts, healer, properties, answered>>

WithCode(code) == {p \in DOMAIN properties : properties[p].code = code}

\* The code is looked up before the transaction begins.
LookUpCode(c) ==
  /\ job[c].op = "CLASH"
  /\ Become(c, IF WithCode(job[c].draft.code) = {} THEN [job[c] EXCEPT !.op = "CONFIRM"] ELSE Idle)
  /\ UNCHANGED <<document, attempts, runs, healer, properties, answered>>

\* The property, its lots and the link to it commit together, unless the
\* unique index on the code refuses the property.
Confirm(c) ==
  /\ job[c].op = "CONFIRM" /\ WithCode(job[c].draft.code) = {} /\ Len(properties) < MaxProperties
  /\ properties' = Append(properties, [code |-> job[c].draft.code, confirmed |-> TRUE])
  /\ document' = [document EXCEPT !.status = "CONFIRMED", !.property = Len(properties) + 1]
  /\ answered' = answered \cup {Len(properties) + 1}
  /\ Become(c, Idle)
  /\ UNCHANGED <<attempts, runs, healer>>

Collide(c) ==
  /\ job[c].op = "CONFIRM" /\ WithCode(job[c].draft.code) # {}
  /\ Become(c, [job[c] EXCEPT !.op = "RECOVER"])
  /\ UNCHANGED <<document, attempts, runs, healer, properties, answered>>

\* Faulty variant: the property that holds the code is handed back.
RecoverByCode(c) ==
  /\ job[c].op = "RECOVER"
  /\ answered' = answered \cup WithCode(job[c].draft.code)
  /\ Become(c, Idle)
  /\ UNCHANGED <<document, attempts, runs, healer, properties>>

\* The loser is handed the property that its own document names by now.
Recover(c) ==
  /\ job[c].op = "RECOVER"
  /\ answered' = IF document.property = 0 THEN answered ELSE answered \cup {document.property}
  /\ Become(c, Idle)
  /\ UNCHANGED <<document, attempts, runs, healer, properties>>

\* Properties made by hand or from other plans, and codes changed later.
CreateElsewhere ==
  /\ Len(properties) < MaxProperties
  /\ \E code \in NewCodes :
       /\ WithCode(code) = {}
       /\ properties' = Append(properties, [code |-> code, confirmed |-> FALSE])
  /\ UNCHANGED <<document, attempts, runs, job, healer, answered>>

Recode ==
  /\ \E p \in DOMAIN properties, code \in NewCodes :
       /\ WithCode(code) = {} /\ properties' = [properties EXCEPT ![p].code = code]
  /\ UNCHANGED <<document, attempts, runs, job, healer, answered>>

Abandon(c) ==
  /\ job[c] # Idle /\ Become(c, Idle)
  /\ UNCHANGED <<document, attempts, runs, healer, properties, answered>>

-----------------------------------------------------------------------------
Init ==
  /\ document = [status |-> "NONE", draft |-> Nil, property |-> 0]
  /\ attempts = <<>> /\ runs = [s \in Slots |-> AtRest]
  /\ job = [c \in Clients |-> Idle] /\ healer = "REST"
  /\ properties = <<>> /\ answered = {}

Analyse(s) ==
  \/ CreateRow(s) \/ Announce(s) \/ Refuse(s) \/ RefuseDocument(s)
  \/ Interpret(s) \/ SaveDraft(s) \/ Tell(s) \/ Throw(s)

Watch(s) == TimeOut(s) \/ MarkRow(s) \/ MarkDocument(s)
Heal == Poll \/ HealDocument \/ HealRows

Next ==
  \/ Register \/ Crash \/ Heal \/ CreateElsewhere \/ Recode
  \/ \E s \in Slots : Analyse(s) \/ Watch(s)
  \/ \E c \in Clients :
       \/ Read(c) \/ Edit(c) \/ Retry(c) \/ LookUpCode(c)
       \/ Confirm(c) \/ Collide(c) \/ Recover(c) \/ Abandon(c)

Spec == Init /\ [][Next]_vars

-----------------------------------------------------------------------------
(***************************************************************************)
(* Properties                                                              *)
(***************************************************************************)

\* Whoever confirms a plan is handed a property made from that plan, also
\* when another confirmation, or an unrelated property, took its code in
\* between.
ConfirmAnswersOwn == \A p \in answered : properties[p].confirmed
=============================================================================
