------------------------------ MODULE Budgets ------------------------------
(***************************************************************************)
(* The budgets of one property (FinancialBudgetsService).  Every operation *)
(* is a transaction at READ COMMITTED that reads, checks and then writes   *)
(* by id: here a Read of a request and, in a later step, what it commits.  *)
(* Only activate locks anything, the row of the property's financial       *)
(* configuration, which is ACTIVE throughout.  Funds, accounts, notes and  *)
(* the dates of an imported budget's approval are left out.                *)
(***************************************************************************)
EXTENDS Integers, Sequences, FiniteSets

CONSTANTS
  Clients,
  Starts, Span,        \* financial years, in Int: when they may start, how long they last
  Lines, Planned,      \* what the lines of a budget may plan, more than nothing
  MaxAttempts,         \* attempts of createRevision
  MaxBudgets           \* bound on the rows created

\* Nobody holds the lock; no client has this name.
Free == "FREE"

VARIABLES
  budgets,      \* FinancialBudget rows: start, version, status, revisionOf or 0, lines
  lock,         \* who holds FOR UPDATE on the configuration's row
  job           \* per client: the request that has read and not yet written

vars == <<budgets, lock, job>>

Idle == [op |-> "IDLE"]
Become(c, next) == job' = [job EXCEPT ![c] = next]

Ids == 1..Len(budgets)
OfYear(start) == {b \in Ids : budgets[b].start = start}
ActiveOf(start) == {b \in OfYear(start) : budgets[b].status = "ACTIVE"}
Versions(start) == {budgets[b].version : b \in OfYear(start)}

\* A line that nobody has added yet, and one that has been deleted.
None == 0
Gone == -1
Present(lines) == {l \in Lines : lines[l] \in Planned}
NoLines == [l \in Lines |-> None]

-----------------------------------------------------------------------------
(***************************************************************************)
(* What the requests read and check                                        *)
(***************************************************************************)

Overlaps(s, t) == s # t /\ s < t + Span /\ t < s + Span

\* validatePeriod, and no budget of the very same year.
ReadCreate(c) ==
  \E s \in Starts :
    /\ OfYear(s) = {}
    /\ \A b \in Ids : ~Overlaps(s, budgets[b].start)
    /\ Become(c, [op |-> "CREATE", start |-> s])

\* addLine, updateLine and deleteLine of a DRAFT.  Each line that is added
\* is a row of its own.
ReadEdit(c) ==
  \E b \in Ids, l \in Lines, a \in Planned \cup {Gone} :
    /\ budgets[b].status = "DRAFT"
    /\ \/ l \in Present(budgets[b].lines)
       \/ /\ budgets[b].lines[l] = None /\ a # Gone
          /\ \A d \in Clients : job[d].op = "EDIT" => <<job[d].budget, job[d].line>> # <<b, l>>
    /\ Become(c, [op |-> "EDIT", budget |-> b, line |-> l, amount |-> a])

ReadApprove(c) ==
  \E b \in Ids :
    /\ budgets[b].status = "DRAFT" /\ Present(budgets[b].lines) # {}
    /\ Become(c, [op |-> "APPROVE", budget |-> b])

\* The source with its lines, and the highest version of its year.
Revision(b, attempt) ==
  [op |-> "REVISE", source |-> b, attempt |-> attempt,
   lines |-> [l \in Lines |-> IF budgets[b].lines[l] = Gone THEN None ELSE budgets[b].lines[l]],
   version |-> 1 + CHOOSE v \in Versions(budgets[b].start) : \A w \in Versions(budgets[b].start) : w <= v]

Revisable(b) == budgets[b].status \in {"APPROVED", "ACTIVE"}
ReadRevise(c) == \E b \in Ids : Revisable(b) /\ Become(c, Revision(b, 1))

Read(c) ==
  /\ job[c] = Idle
  /\ ReadCreate(c) \/ ReadEdit(c) \/ ReadApprove(c) \/ ReadRevise(c)
  /\ UNCHANGED <<budgets, lock>>

\* Faulty variant: the lock is not waited for.
ReadActivateUnlocked(c) ==
  /\ job[c] = Idle
  /\ \E b \in Ids :
       /\ budgets[b].status = "APPROVED"
       /\ Become(c, [op |-> "ACTIVATE", budget |-> b, displaced |-> ActiveOf(budgets[b].start)])
  /\ lock' = c
  /\ UNCHANGED budgets

\* An activation that waits for the lock has read nothing yet; of a budget
\* that is ACTIVE already it is answered as it is.
ReadActivate(c) ==
  /\ job[c] = Idle /\ lock = Free
  /\ \E b \in Ids :
       /\ budgets[b].status = "APPROVED"
       /\ Become(c, [op |-> "ACTIVATE", budget |-> b, displaced |-> ActiveOf(budgets[b].start)])
  /\ lock' = c
  /\ UNCHANGED budgets

-----------------------------------------------------------------------------
(***************************************************************************)
(* What they write                                                         *)
(***************************************************************************)

\* The unique index on the year and the version.
Taken(start, version) == version \in Versions(start)

Row(start, version, source, lines) ==
  [start |-> start, version |-> version, status |-> "DRAFT", revisionOf |-> source, lines |-> lines]

Create(c) ==
  /\ job[c].op = "CREATE" /\ Len(budgets) < MaxBudgets
  /\ IF Taken(job[c].start, 1) THEN UNCHANGED budgets
     ELSE budgets' = Append(budgets, Row(job[c].start, 1, 0, NoLines))
  /\ Become(c, Idle)
  /\ UNCHANGED lock

\* A line deleted meanwhile is neither updated nor deleted again.
Edit(c) ==
  /\ job[c].op = "EDIT"
  /\ budgets' = [budgets EXCEPT ![job[c].budget].lines =
                   IF @[job[c].line] = Gone THEN @ ELSE [@ EXCEPT ![job[c].line] = job[c].amount]]
  /\ Become(c, Idle)
  /\ UNCHANGED lock

Approve(c) ==
  /\ job[c].op = "APPROVE"
  /\ budgets' = [budgets EXCEPT ![job[c].budget].status = "APPROVED"]
  /\ Become(c, Idle)
  /\ UNCHANGED lock

\* A version somebody else took meanwhile is tried anew from the reads on.
Revise(c) ==
  /\ job[c].op = "REVISE" /\ Len(budgets) < MaxBudgets
  /\ LET b == job[c].source IN
     IF ~Taken(budgets[b].start, job[c].version)
     THEN /\ budgets' = Append(budgets, Row(budgets[b].start, job[c].version, b, job[c].lines))
          /\ Become(c, Idle)
     ELSE /\ Become(c, IF job[c].attempt < MaxAttempts /\ Revisable(b)
                       THEN Revision(b, job[c].attempt + 1) ELSE Idle)
          /\ UNCHANGED budgets
  /\ UNCHANGED lock

\* The APPROVED budgets next before b in the chain of revisions, up to the
\* first that is not APPROVED.
ApprovedBefore(b) ==
  LET chain[n \in 0..Len(budgets)] ==
        IF n = 0 THEN {}
        ELSE LET a == budgets[n].revisionOf IN
             IF a = 0 \/ budgets[a].status # "APPROVED" THEN {} ELSE {a} \cup chain[a]
  IN chain[b]

\* The partial unique index: one ACTIVE budget of a year besides those that
\* the transaction has just superseded.
IndexRefuses(b, displaced) == ActiveOf(budgets[b].start) \ (displaced \cup {b}) # {}

Activate(c) ==
  /\ job[c].op = "ACTIVATE"
  /\ LET b == job[c].budget
         superseded == job[c].displaced \cup ApprovedBefore(b) IN
     IF IndexRefuses(b, job[c].displaced) THEN UNCHANGED budgets
     ELSE budgets' = [d \in Ids |->
            IF d = b THEN [budgets[d] EXCEPT !.status = "ACTIVE"]
            ELSE IF d \in superseded THEN [budgets[d] EXCEPT !.status = "SUPERSEDED"]
            ELSE budgets[d]]
  /\ lock' = Free
  /\ Become(c, Idle)

\* A process that dies, or a transaction that runs out of time, writes
\* nothing and holds nothing.
Abandon(c) ==
  /\ job[c] # Idle /\ Become(c, Idle)
  /\ lock' = IF lock = c THEN Free ELSE lock
  /\ UNCHANGED budgets

Init ==
  /\ budgets = <<>> /\ lock = Free
  /\ job = [c \in Clients |-> Idle]

Next ==
  \E c \in Clients :
    \/ Read(c) \/ ReadActivate(c)
    \/ Create(c) \/ Edit(c) \/ Approve(c) \/ Revise(c) \/ Activate(c) \/ Abandon(c)

Spec == Init /\ [][Next]_vars

-----------------------------------------------------------------------------
(***************************************************************************)
(* Properties                                                              *)
(***************************************************************************)

\* One ACTIVE budget of a financial year at most; and the lock alone sees to
\* it: an activation that holds it never meets an ACTIVE budget it has not
\* read, so the index never has to refuse one.
OneActivePerYear ==
  /\ \A s \in Starts : Cardinality(ActiveOf(s)) <= 1
  /\ \A c \in Clients : job[c].op = "ACTIVATE" =>
       ~IndexRefuses(job[c].budget, job[c].displaced)

\* The versions of a financial year run on from 1 without gap or double,
\* whatever revisions, retries and requests that die overlap.
VersionsRunOn ==
  \A s \in Starts : Versions(s) = 1..Cardinality(OfYear(s))

=============================================================================
