--------------------------- MODULE DeliveryProofs ---------------------------
(***************************************************************************)
(* Proofs about what leaves the system by mail: ReminderDelivery, for any  *)
(* reminders, workers, managers and addresses and any bounds; and          *)
(* CommunicationDelivery, for any contacts, managers, polls and deaths of  *)
(* the process: it implements Announcement, and nobody is mailed twice     *)
(* without a cause.  What must come about in the end is liveness and left  *)
(* to TLC.                                                                 *)
(***************************************************************************)
EXTENDS MCDelivery, FiniteSetTheorems, SequenceTheorems, TLAPS

\* What a task that runs an operation has read.
LEMMA OperationType ==
  ASSUME TypeOK, NEW t \in Tasks
  PROVE  /\ task[t] \in Operations
         /\ task[t].op \in {"APPROVE", "CHECKED", "SETTLED", "CANCEL", "RETRY", "RESOLVE",
                            "CLAIMED", "REVERT", "RETURN"} => task[t].row \in Reminders
         /\ task[t].op = "CREATE" => task[t].stage \in Nat /\ task[t].owed \in Amounts
         /\ task[t].op = "SUBMIT" =>
              /\ task[t].row \in Reminders /\ task[t].stage \in Nat
              /\ task[t].content \in Contents
         /\ task[t].op \in {"SEND", "START", "TRANSMIT", "DELIVERED"} =>
              /\ task[t].row \in Reminders /\ task[t].attempt \in Nat
              /\ task[t].content \in Contents
         /\ task[t].op = "FAIL" =>
              /\ task[t].row \in Reminders /\ task[t].attempt \in Nat
              /\ task[t].category \in Categories
BY DEF TypeOK, Operations, Idle

\* The operations a task may go on to.
LEMMA NextOperationType ==
  /\ Idle \in Operations /\ Idle.op = "IDLE"
  /\ \A r \in Reminders :
       /\ \A op \in {"APPROVE", "CHECKED", "SETTLED", "CANCEL", "RETRY", "RESOLVE",
                     "CLAIMED", "REVERT", "RETURN"} : [op |-> op, row |-> r] \in Operations
       /\ \A n \in Nat, c \in Contents :
            /\ [op |-> "SUBMIT", row |-> r, stage |-> n, content |-> c] \in Operations
            /\ \A op \in {"SEND", "START", "TRANSMIT", "DELIVERED"} :
                 [op |-> op, row |-> r, attempt |-> n, content |-> c] \in Operations
       /\ \A n \in Nat, category \in Categories :
            [op |-> "FAIL", row |-> r, attempt |-> n, category |-> category] \in Operations
  /\ \A n \in Nat, a \in Amounts : [op |-> "CREATE", stage |-> n, owed |-> a] \in Operations
BY DEF Operations, Idle

LEMMA LiveContentType == TypeOK => LiveContent \in Contents
BY DEF TypeOK, LiveContent, Contents

LEMMA SetTask ==
  ASSUME TypeOK, NEW t \in Tasks, NEW o \in Operations, Now(t, o)
  PROVE  /\ task' \in [Tasks -> Operations]
         /\ \A u \in Tasks : task'[u] = IF u = t THEN o ELSE task[u]
BY DEF TypeOK, Now

LEMMA SetStatusType ==
  ASSUME TypeOK, NEW r \in Reminders, NEW s \in Statuses, SetStatus(r, s)
  PROVE  status' \in [Reminders -> Statuses]
BY DEF TypeOK, SetStatus

LEMMA NextStageType == TypeOK => NextStage \in Nat
<1> DEFINE S == {r \in Reminders : status[r] \in SentStatuses}
<1>1. IsFiniteSet(S)
  BY RemindersAssumption, FS_Subset
<1> QED
  BY <1>1, FS_CardinalityType DEF NextStage

\* What people and evaluations do to the rows keeps their types.
LEMMA ServeType ==
  ASSUME TypeOK, NEW t \in Tasks,
         Serve(t) \/ BeginEvaluate(t) \/ \E r \in Reminders : FinishEvaluate(t, r)
  PROVE  TypeOK'
<1> USE DEF TypeOK, rows
<1>1. CASE BeginEvaluate(t)
  <2>1. [op |-> "CREATE", stage |-> NextStage, owed |-> live.owed] \in Operations
    BY NextStageType, NextOperationType
  <2> QED
    BY <1>1, <2>1, SetTask DEF BeginEvaluate
<1>2. ASSUME NEW r \in Reminders, FinishEvaluate(t, r) PROVE TypeOK'
  <2>1. task' \in [Tasks -> Operations]
    BY <1>2, SetTask, NextOperationType DEF FinishEvaluate
  <2>2. task[t].stage \in Nat /\ task[t].owed \in Amounts
    BY <1>2, OperationType DEF FinishEvaluate
  <2>3. /\ [owed |-> task[t].owed, to |-> live.to] \in Contents
        /\ [owed |-> task[t].owed, to |-> Nobody] \in Contents
    BY <2>2 DEF Contents
  <2>4. PICK s \in {"READY_FOR_REVIEW", "SUPPRESSED"}, c \in Contents :
          Create(r, s, task[t].stage, c)
    BY <1>2, <2>3 DEF FinishEvaluate
  <2>5. /\ status' \in [Reminders -> Statuses]
        /\ stage' \in [Reminders -> Nat] /\ content' \in [Reminders -> Contents]
    BY <2>2, <2>4, SetStatusType DEF Create, Statuses
  <2>6. UNCHANGED <<snapshot, tries, outcomes, mails, decisions, live>>
    BY <2>4 DEF Create
  <2> QED
    BY <2>1, <2>5, <2>6
<1>3. ASSUME NEW r \in Reminders, Draft(t, r) PROVE TypeOK'
  <2>1. [owed |-> live.owed, to |-> Nobody] \in Contents
    BY DEF Contents
  <2> QED
    BY <1>3, <2>1, SetStatusType DEF Draft, Create, Statuses
<1>4. ASSUME NEW r \in Reminders, ReadSubmit(t, r) PROVE TypeOK'
  <2>1. /\ [op |-> "SETTLED", row |-> r] \in Operations
        /\ [op |-> "SUBMIT", row |-> r, stage |-> NextStage, content |-> LiveContent] \in Operations
    BY NextStageType, LiveContentType, NextOperationType
  <2> QED
    BY <1>4, <2>1, SetTask DEF ReadSubmit
<1>5. ASSUME NEW r \in Reminders,
             ReadApprove(t, r) \/ ReadCancel(t, r) \/ ReadCancelDraft(t, r) \/ ReadRetry(t, r) \/ ReadResolve(t, r)
      PROVE  TypeOK'
  <2>1. PICK op \in {"APPROVE", "CANCEL", "RETRY", "RESOLVE"} :
          Now(t, [op |-> op, row |-> r]) /\ UNCHANGED <<rows, mails, decisions, live>>
    BY <1>5 DEF ReadApprove, ReadCancel, ReadCancelDraft, ReadRetry, ReadResolve, Read
  <2>2. task' \in [Tasks -> Operations]
    BY <2>1, NextOperationType, SetTask
  <2> QED
    BY <2>1, <2>2
<1>6. CASE WriteSubmit(t)
  <2> DEFINE r == task[t].row
  <2>1. r \in Reminders /\ task[t].stage \in Nat /\ task[t].content \in Contents
    BY <1>6, OperationType DEF WriteSubmit
  <2>2. task' \in [Tasks -> Operations]
    BY <1>6, NextOperationType, SetTask DEF WriteSubmit
  <2>3. CASE UNCHANGED rows
    BY <1>6, <2>2, <2>3 DEF WriteSubmit
  <2>4. CASE ~UNCHANGED rows
    <3>1. [content[r] EXCEPT !.owed = task[t].content.owed] \in Contents
      BY <2>1 DEF Contents
    <3>2. content' \in [Reminders -> Contents]
      BY <1>6, <2>1, <2>4, <3>1 DEF WriteSubmit
    <3>3. status' \in [Reminders -> Statuses]
      BY <1>6, <2>1, <2>4, SetStatusType DEF WriteSubmit, Statuses
    <3>4. /\ stage' \in [Reminders -> Nat]
          /\ UNCHANGED <<snapshot, tries, outcomes, mails, decisions, live>>
      BY <1>6, <2>1, <2>4, SMTT(30) DEF WriteSubmit
    <3> QED
      BY <2>2, <3>2, <3>3, <3>4
  <2> QED
    BY <2>3, <2>4
<1>7. CASE Refresh(t)
  <2>1. task[t].row \in Reminders
    BY <1>7, OperationType DEF Refresh, AfterRefresh
  <2>2. task' \in [Tasks -> Operations]
    <3>1. PICK o \in Operations : Now(t, o)
      BY <1>7, <2>1, NextOperationType DEF Refresh, AfterRefresh
    <3> QED
      BY <3>1, SetTask
  <2> QED
    BY <1>7, <2>1, <2>2, LiveContentType DEF Refresh, AfterRefresh
<1>8. ASSUME NEW r \in Reminders, Release(t, r), snapshot' \in [Reminders -> Contents]
      PROVE  TypeOK'
  <2>1. task' \in [Tasks -> Operations]
    BY <1>8, NextOperationType, SetTask DEF Release
  <2>2. status' \in [Reminders -> Statuses]
    BY <1>8, SetStatusType DEF Release, Statuses
  <2>3. decisions' \in [Reminders -> Nat]
    BY <1>8 DEF Release
  <2>4. UNCHANGED <<content, stage, tries, outcomes, mails, live>>
    BY <1>8 DEF Release
  <2> QED
    BY <1>8, <2>1, <2>2, <2>3, <2>4
<1>9. CASE WriteApprove(t) \/ WriteRetry(t) \/ WriteNotSent(t)
  <2>1. task[t].row \in Reminders
    BY <1>9, OperationType DEF WriteApprove, WriteRetry, WriteNotSent
  <2>2. snapshot' \in [Reminders -> Contents]
    BY <1>9, <2>1 DEF WriteApprove, WriteRetry, WriteNotSent
  <2> QED
    BY <1>8, <1>9, <2>1, <2>2 DEF WriteApprove, WriteRetry, WriteNotSent
<1>10. CASE WriteCancel(t) \/ WriteSent(t)
  <2>1. task[t].row \in Reminders
    BY <1>10, OperationType DEF WriteCancel, WriteSent
  <2>2. status' \in [Reminders -> Statuses]
    BY <1>10, <2>1, SetStatusType DEF WriteCancel, WriteSent, Statuses
  <2> QED
    BY <1>10, <2>2, NextOperationType, SetTask DEF WriteCancel, WriteSent
<1> QED
  BY <1>1, <1>2, <1>3, <1>4, <1>5, <1>6, <1>7, <1>9, <1>10 DEF Serve

\* Writing an attempt's outcome keeps the sequence of outcomes one.
LEMMA OutcomeType ==
  ASSUME NEW s \in Seq(Outcomes), NEW n \in Nat, NEW o \in Outcomes
  PROVE  [s EXCEPT ![n] = o] \in Seq(Outcomes) /\ Len([s EXCEPT ![n] = o]) = Len(s)
<1> DEFINE e == [s EXCEPT ![n] = o]
<1>1. Len(s) \in Nat /\ s \in [1 .. Len(s) -> Outcomes]
  OBVIOUS
<1>2. e \in [1 .. Len(s) -> Outcomes]
  BY <1>1
<1> HIDE DEF e
<1>3. e \in Seq(Outcomes)
  BY <1>1, <1>2, SeqDef
<1>4. DOMAIN e = 1 .. Len(s)
  BY <1>2
<1>5. Len(e) = Len(s)
  BY <1>1, <1>3, <1>4
<1> QED
  BY <1>3, <1>5 DEF e

\* So does everything a dispatch does.
LEMMA DispatchType ==
  ASSUME TypeOK, NEW t \in Tasks, DispatchStep(t) \/ \E r \in Reminders : Claim(t, r)
  PROVE  TypeOK'
<1> USE DEF TypeOK, rows
<1>1. ASSUME NEW r \in Reminders, Claim(t, r) PROVE TypeOK'
  <2>1. status' \in [Reminders -> Statuses]
    BY <1>1, SetStatusType DEF Claim, Statuses
  <2> QED
    BY <1>1, <2>1, NextOperationType, SetTask DEF Claim
<1>2. CASE Examine(t)
  <2>1. task[t].row \in Reminders
    BY <1>2, OperationType DEF Examine
  <2>2. [op |-> "SEND", row |-> task[t].row, attempt |-> tries[task[t].row] + 1,
         content |-> content[task[t].row]] \in Operations
    <3>1. tries[task[t].row] + 1 \in Nat /\ content[task[t].row] \in Contents
      BY <2>1
    <3> QED
      BY <2>1, <3>1, NextOperationType
  <2>3. PICK o \in Operations : Now(t, o)
    BY <1>2, <2>1, <2>2, NextOperationType DEF Examine
  <2> QED
    BY <1>2, <2>3, SetTask DEF Examine
<1>3. CASE Revert(t)
  <2>1. task[t].row \in Reminders
    BY <1>3, OperationType DEF Revert
  <2>2. status' \in [Reminders -> Statuses]
    BY <1>3, <2>1 DEF Revert, Statuses
  <2> QED
    BY <1>3, <2>2, NextOperationType, SetTask DEF Revert
<1>4. CASE Return(t)
  <2>1. task[t].row \in Reminders
    BY <1>4, OperationType DEF Return
  <2>2. status' \in [Reminders -> Statuses]
    BY <1>4, <2>1, SetStatusType DEF Return, Statuses
  <2> QED
    BY <1>4, <2>2, NextOperationType, SetTask DEF Return
<1>5. CASE MarkSending(t)
  <2>1. task[t].row \in Reminders /\ task[t].attempt \in Nat /\ task[t].content \in Contents
    BY <1>5, OperationType DEF MarkSending
  <2>2. status' \in [Reminders -> Statuses]
    BY <1>5, <2>1, SetStatusType DEF MarkSending, Statuses
  <2>3. Dispatching(t, "START") \in Operations
    BY <2>1, NextOperationType DEF Dispatching
  <2> QED
    BY <1>5, <2>2, <2>3, SetTask DEF MarkSending
<1>6. CASE StartAttempt(t)
  <2>1. task[t].row \in Reminders /\ task[t].attempt \in Nat /\ task[t].content \in Contents
    BY <1>6, OperationType DEF StartAttempt
  <2>2. PICK o \in Operations : Now(t, o)
    BY <1>6, <2>1, NextOperationType DEF StartAttempt, Dispatching
  <2>3. outcomes' \in [Reminders -> Seq(Outcomes)]
    BY <1>6, <2>1 DEF StartAttempt, Outcomes
  <2> QED
    BY <1>6, <2>2, <2>3, SetTask DEF StartAttempt
<1>7. ASSUME NEW answer \in Answers, Transmit(t, answer) PROVE TypeOK'
  <2>1. task[t].row \in Reminders /\ task[t].attempt \in Nat /\ task[t].content \in Contents
    BY <1>7, OperationType DEF Transmit
  <2>2. PICK o \in Operations : Now(t, o)
    BY <1>7, <2>1, NextOperationType, AnswersAssumption DEF Transmit, Dispatching, Failing, Categories
  <2>3. mails' \in [Reminders -> Seq(Mails)]
    <3> DEFINE mail == [attempt |-> task[t].attempt, content |-> task[t].content]
    <3>1. mail \in Mails
      BY <2>1 DEF Mails
    <3>2. mails' = mails \/ mails' = [mails EXCEPT ![task[t].row] = Append(@, mail)]
      BY <1>7 DEF Transmit
    <3> HIDE DEF mail
    <3>3. Append(mails[task[t].row], mail) \in Seq(Mails)
      BY <2>1, <3>1
    <3> QED
      BY <2>1, <3>2, <3>3
  <2> QED
    BY <1>7, <2>2, <2>3, SetTask DEF Transmit
<1>8. CASE RecordSent(t)
  <2>1. task[t].row \in Reminders /\ task[t].attempt \in Nat
    BY <1>8, OperationType DEF RecordSent
  <2>2. status' \in [Reminders -> Statuses]
    BY <1>8, <2>1, SetStatusType DEF RecordSent, Statuses
  <2>3. outcomes' \in [Reminders -> Seq(Outcomes)] /\ tries' \in [Reminders -> Nat]
    BY <1>8, <2>1, OutcomeType DEF RecordSent, Outcomes
  <2> QED
    BY <1>8, <2>2, <2>3, NextOperationType, SetTask DEF RecordSent
<1>9. CASE FailToRecord(t)
  <2>1. task[t].row \in Reminders /\ task[t].attempt \in Nat
    BY <1>9, OperationType DEF FailToRecord
  <2>2. Failing(t, "PERMANENT") \in Operations
    BY <2>1, NextOperationType DEF Failing, Categories
  <2> QED
    BY <1>9, <2>2, SetTask DEF FailToRecord
<1>10. CASE RecordFailure(t)
  <2>1. task[t].row \in Reminders /\ task[t].attempt \in Nat
    BY <1>10, OperationType DEF RecordFailure
  <2>2. status' \in [Reminders -> Statuses]
    BY <1>10, <2>1, SetStatusType DEF RecordFailure, AfterFailure, Statuses
  <2>3. outcomes' \in [Reminders -> Seq(Outcomes)] /\ tries' \in [Reminders -> Nat]
    BY <1>10, <2>1, OutcomeType DEF RecordFailure, Outcomes
  <2> QED
    BY <1>10, <2>2, <2>3, NextOperationType, SetTask DEF RecordFailure
<1> QED
  BY <1>1, <1>2, <1>3, <1>4, <1>5, <1>6, <1>7, <1>8, <1>9, <1>10 DEF DispatchStep

LEMMA StepType == TypeOK /\ [Next]_vars => TypeOK'
<1> SUFFICES ASSUME TypeOK, [Next]_vars PROVE TypeOK'
  OBVIOUS
<1>1. CASE UNCHANGED vars
  BY <1>1 DEF TypeOK, vars, rows
<1>2. ASSUME NEW r \in Reminders, Confirm(r) PROVE TypeOK'
  <2>1. status' \in [Reminders -> Statuses]
    BY <1>2, SetStatusType DEF Confirm, Statuses
  <2> QED
    BY <1>2, <2>1 DEF Confirm, TypeOK
<1>3. CASE Change
  BY <1>3 DEF Change, TypeOK, rows
<1>4. ASSUME NEW t \in Tasks, Die(t) PROVE TypeOK'
  BY <1>4, NextOperationType, SetTask DEF Die, TypeOK, rows
<1> QED
  BY <1>1, <1>2, <1>3, <1>4, ServeType, DispatchType DEF Next, Work, ClaimDue, DispatchNow, Tasks

LEMMA InitType == Init => TypeOK
<1> SUFFICES ASSUME Init PROVE TypeOK
  OBVIOUS
<1>1. NoContent \in Contents
  BY AmountsAssumption DEF NoContent, Contents
<1>2. <<>> \in Seq(Outcomes) /\ <<>> \in Seq(Mails)
  OBVIOUS
<1>3. live \in [owed : Amounts, to : Addresses \cup {Nobody}, enabled : BOOLEAN, disabled : BOOLEAN]
  BY DEF Init
<1>4. task \in [Tasks -> Operations]
  BY NextOperationType DEF Init
<1> QED
  BY <1>1, <1>2, <1>3, <1>4 DEF Init, TypeOK, Statuses

\* Every row, attempt, message and operation keeps its type.
THEOREM TypeCorrect == Spec => []TypeOK
BY InitType, StepType, PTL DEF Spec

-----------------------------------------------------------------------------
(***************************************************************************)
(* The inductive invariant.  An attempt belongs to the task that created   *)
(* its row, and is the last one until that task has recorded its outcome.  *)
(* Every chance that a message of a reminder is still sent has been paid   *)
(* for by a decision, of which each message has used up one.               *)
(***************************************************************************)

Holding(t) == task[t].op \in {"SEND", "START"}
InFlight(t) == task[t].op \in {"TRANSMIT", "DELIVERED", "FAIL"}

\* A task that may yet start a delivery attempt of r, or release it to do so.
Waiting(t, r) ==
  \/ task[t].op \in {"CLAIMED", "REVERT"} /\ task[t].row = r
  \/ Holding(t) /\ task[t].row = r /\ task[t].attempt = Len(outcomes[r]) + 1

\* A task that may yet send a message of r, or release it for automatic retry.
Chance(t, r) ==
  \/ Waiting(t, r)
  \/ task[t].op = "TRANSMIT" /\ task[t].row = r
  \/ task[t].op = "FAIL" /\ task[t].row = r /\ task[t].category = "TRANSIENT"

Num(b) == IF b THEN 1 ELSE 0
Chances(r) == {t \in Tasks : Chance(t, r)}
Waiters(r) == {t \in Tasks : Waiting(t, r)}

AttemptsInTurn ==
  /\ \A r \in Reminders : tries[r] <= Len(outcomes[r])
  /\ \A t \in Tasks : Holding(t) =>
       /\ task[t].attempt >= 1
       /\ task[t].attempt <= tries[task[t].row] + 1
  /\ \A t \in Tasks : InFlight(t) =>
       /\ task[t].attempt = Len(outcomes[task[t].row])
       /\ task[t].attempt > tries[task[t].row]
  /\ \A t, u \in Tasks :
       InFlight(t) /\ InFlight(u) /\ task[t].row = task[u].row => t = u

MailsInTurn ==
  /\ \A r \in Reminders : \A i \in DOMAIN mails[r] : mails[r][i].attempt <= Len(outcomes[r])
  /\ \A t \in Tasks : task[t].op = "TRANSMIT" =>
       \A i \in DOMAIN mails[task[t].row] : mails[task[t].row][i].attempt # task[t].attempt
  /\ OneMailPerAttempt

PaidFor ==
  \A r \in Reminders :
    Len(mails[r]) + Cardinality(Chances(r)) + Num(status[r] = "APPROVED") <= decisions[r]

RetriesPaidFor ==
  \A r \in Reminders :
    Len(outcomes[r]) >= MaxAttempts =>
      Len(outcomes[r]) + Cardinality(Waiters(r)) + Num(status[r] = "APPROVED")
        < MaxAttempts + decisions[r]

Accounts == AttemptsInTurn /\ MailsInTurn /\ PaidFor /\ RetriesPaidFor
Inductive == TypeOK /\ Accounts

\* The other tasks stay where they are.
OthersStay(t) == \A u \in Tasks \ {t} : task'[u] = task[u]

LEMMA Counting ==
  ASSUME NEW S, NEW T, NEW t, IsFiniteSet(S), IsFiniteSet(T), S \ {t} \subseteq T
  PROVE  /\ Cardinality(S) \in Nat /\ Cardinality(T) \in Nat
         /\ Cardinality(S) - Num(t \in S) <= Cardinality(T) - Num(t \in T)
<1>1. /\ Cardinality(S) \in Nat /\ Cardinality(T) \in Nat
      /\ Cardinality(S \ {t}) = Cardinality(S) - Num(t \in S)
      /\ Cardinality(T \ {t}) = Cardinality(T) - Num(t \in T)
  BY FS_CardinalityType, FS_RemoveElement DEF Num
<1>2. S \ {t} \subseteq T \ {t} /\ IsFiniteSet(T \ {t})
  BY FS_Difference
<1>3. Cardinality(S \ {t}) <= Cardinality(T \ {t})
  BY <1>2, FS_Subset
<1> QED
  BY <1>1, <1>3

\* A new attempt of a row ends the wait of any task that held its number.
LEMMA OthersWait ==
  ASSUME TypeOK, TypeOK', AttemptsInTurn, NEW t \in Tasks, NEW u \in Tasks \ {t},
         OthersStay(t), NEW r \in Reminders, Len(outcomes'[r]) >= Len(outcomes[r])
  PROVE  /\ Waiting(u, r)' => Waiting(u, r)
         /\ Chance(u, r)' => Chance(u, r)
<1>1. task'[u] = task[u]
  BY DEF OthersStay
<1>2. Len(outcomes[r]) \in Nat /\ Len(outcomes'[r]) \in Nat /\ tries[r] \in Nat
  BY DEF TypeOK
<1>3. Waiting(u, r)' => Waiting(u, r)
  <2>1. ASSUME Holding(u), task[u].row = r, task[u].attempt = Len(outcomes'[r]) + 1
        PROVE  task[u].attempt = Len(outcomes[r]) + 1
    BY <1>2, <2>1 DEF AttemptsInTurn
  <2> QED
    BY <1>1, <2>1 DEF Waiting, Holding
<1> QED
  BY <1>1, <1>3 DEF Chance

LEMMA OthersCount ==
  ASSUME TypeOK, TypeOK', AttemptsInTurn, NEW t \in Tasks, OthersStay(t),
         NEW r \in Reminders, Len(outcomes'[r]) >= Len(outcomes[r])
  PROVE  /\ Cardinality(Waiters(r)) \in Nat /\ Cardinality(Waiters(r))' \in Nat
         /\ Cardinality(Chances(r)) \in Nat /\ Cardinality(Chances(r))' \in Nat
         /\ Cardinality(Waiters(r)) <= Cardinality(Chances(r))
         /\ Cardinality(Waiters(r))' - Num(Waiting(t, r)') <= Cardinality(Waiters(r)) - Num(Waiting(t, r))
         /\ Cardinality(Chances(r))' - Num(Chance(t, r)') <= Cardinality(Chances(r)) - Num(Chance(t, r))
<1>1. /\ IsFiniteSet(Waiters(r)) /\ IsFiniteSet(Waiters(r)')
      /\ IsFiniteSet(Chances(r)) /\ IsFiniteSet(Chances(r)')
  BY TasksAssumption, FS_Subset DEF Waiters, Chances
<1>2. /\ Waiters(r)' \ {t} \subseteq Waiters(r)
      /\ Chances(r)' \ {t} \subseteq Chances(r)
  BY OthersWait DEF Waiters, Chances
<1>3. /\ Num(t \in Waiters(r)) = Num(Waiting(t, r))
      /\ Num(t \in Waiters(r)') = Num(Waiting(t, r)')
      /\ Num(t \in Chances(r)) = Num(Chance(t, r))
      /\ Num(t \in Chances(r)') = Num(Chance(t, r)')
  BY Zenon DEF Waiters, Chances, Num
<1>4. Waiters(r) \subseteq Chances(r)
  BY DEF Waiters, Chances, Chance
<1>5. Cardinality(Waiters(r)) <= Cardinality(Chances(r))
  BY <1>1, <1>4, FS_Subset
<1> QED
  BY <1>1, <1>2, <1>3, <1>5, Counting

\* What task t may do to row r: it pays for every chance it gains or hands on
\* with one it had, or with a decision.
Spends(t, r) ==
  Len(mails'[r]) + Num(Chance(t, r)') + Num(status'[r] = "APPROVED") + decisions[r]
    <= Len(mails[r]) + Num(Chance(t, r)) + Num(status[r] = "APPROVED") + decisions'[r]

SpendsRetry(t, r) ==
  \/ /\ Len(outcomes'[r]) = Len(outcomes[r])
     /\ Len(outcomes[r]) >= MaxAttempts =>
          Num(Waiting(t, r)') + Num(status'[r] = "APPROVED") + decisions[r]
            <= Num(Waiting(t, r)) + Num(status[r] = "APPROVED") + decisions'[r]
  \/ /\ Len(outcomes'[r]) = Len(outcomes[r]) + 1
     /\ Waiting(t, r) /\ ~Waiting(t, r)'
     /\ UNCHANGED <<status[r], decisions[r]>>

LEMMA NumType == \A b : Num(b) \in {0, 1}
BY DEF Num

\* An attempt whose key is free is the next one: n of the row's o outcomes,
\* counted as s tries.
LEMMA NextAttempt ==
  ASSUME NEW n \in Nat, NEW o \in Nat, NEW s \in Nat, n <= s + 1, s <= o, ~(o >= n)
  PROVE  n = o + 1 /\ s = o
OBVIOUS

LEMMA BudgetStep ==
  ASSUME TypeOK, TypeOK', AttemptsInTurn, PaidFor, RetriesPaidFor, NEW t \in Tasks,
         OthersStay(t), \A r \in Reminders : Spends(t, r) /\ SpendsRetry(t, r)
  PROVE  PaidFor' /\ RetriesPaidFor'
<1> SUFFICES ASSUME NEW r \in Reminders
             PROVE  /\ Len(mails'[r]) + Cardinality(Chances(r))' + Num(status'[r] = "APPROVED")
                         <= decisions'[r]
                    /\ Len(outcomes'[r]) >= MaxAttempts =>
                         Len(outcomes'[r]) + Cardinality(Waiters(r))' + Num(status'[r] = "APPROVED")
                           < MaxAttempts + decisions'[r]
  BY DEF PaidFor, RetriesPaidFor
<1>1. /\ Len(mails[r]) \in Nat /\ Len(mails'[r]) \in Nat
      /\ Len(outcomes[r]) \in Nat /\ Len(outcomes'[r]) \in Nat
      /\ decisions[r] \in Nat /\ decisions'[r] \in Nat /\ MaxAttempts \in Nat
  BY MaxAttemptsAssumption DEF TypeOK
<1>2. Len(outcomes'[r]) >= Len(outcomes[r])
  BY <1>1 DEF SpendsRetry
<1>3. /\ IsFiniteSet(Chances(r)) /\ IsFiniteSet(Chances(r))'
      /\ IsFiniteSet(Waiters(r)) /\ IsFiniteSet(Waiters(r))'
  BY TasksAssumption, FS_Subset DEF Chances, Waiters
<1>4. PICK c \in Nat, cc \in Nat, w \in Nat, ww \in Nat :
        /\ c = Cardinality(Chances(r)) /\ cc = Cardinality(Chances(r))'
        /\ w = Cardinality(Waiters(r)) /\ ww = Cardinality(Waiters(r))'
  BY <1>3, FS_CardinalityType
<1>5. PICK o \in Nat, oo \in Nat, m \in Nat, mm \in Nat, d \in Nat, dd \in Nat, most \in Nat :
        /\ o = Len(outcomes[r]) /\ oo = Len(outcomes'[r])
        /\ m = Len(mails[r]) /\ mm = Len(mails'[r])
        /\ d = decisions[r] /\ dd = decisions'[r] /\ most = MaxAttempts
  BY <1>1
<1>6. PICK a \in Nat, aa \in Nat, tc \in Nat, tcc \in Nat, tw \in Nat, tww \in Nat :
        /\ a = Num(status[r] = "APPROVED") /\ aa = Num(status'[r] = "APPROVED")
        /\ tc = Num(Chance(t, r)) /\ tcc = Num(Chance(t, r)')
        /\ tw = Num(Waiting(t, r)) /\ tww = Num(Waiting(t, r)')
  BY NumType
<1>7. w <= c /\ ww - tww <= w - tw /\ cc - tcc <= c - tc
  BY <1>2, <1>4, <1>6, OthersCount
<1>8. m + c + a <= d /\ (o >= most => o + w + a < most + d)
  BY <1>4, <1>5, <1>6 DEF PaidFor, RetriesPaidFor
<1>9. mm + tcc + aa + d <= m + tc + a + dd
  BY <1>5, <1>6 DEF Spends
<1>10. \/ oo = o /\ (o >= most => tww + aa + d <= tw + a + dd)
       \/ oo = o + 1 /\ tw = 1 /\ tww = 0 /\ aa = a /\ dd = d
  BY <1>5, <1>6 DEF SpendsRetry, Num
<1>11. mm + cc + aa <= dd
  BY <1>7, <1>8, <1>9
<1>12. oo >= most => oo + ww + aa < most + dd
  <2>1. CASE oo = o
    BY <1>7, <1>8, <1>10, <2>1
  <2>2. CASE oo = o + 1
    BY <1>7, <1>8, <1>10, <2>2
  <2> QED
    BY <1>10, <2>1, <2>2
<1> QED
  BY <1>4, <1>5, <1>6, <1>11, <1>12

\* What a step of t must show of its own attempt and of the rows it writes.
LEMMA AttemptsStep ==
  ASSUME TypeOK, TypeOK', AttemptsInTurn, NEW t \in Tasks, OthersStay(t),
         \A r \in Reminders : tries'[r] <= Len(outcomes'[r]) /\ tries'[r] >= tries[r],
         Holding(t)' => /\ task'[t].attempt >= 1
                        /\ task'[t].attempt <= tries'[task'[t].row] + 1,
         InFlight(t)' => /\ task'[t].attempt = Len(outcomes'[task'[t].row])
                         /\ task'[t].attempt > tries'[task'[t].row],
         \A u \in Tasks \ {t} : InFlight(u) =>
           /\ tries'[task[u].row] = tries[task[u].row]
           /\ Len(outcomes'[task[u].row]) = Len(outcomes[task[u].row])
           /\ InFlight(t)' => task[u].row # task'[t].row
  PROVE  AttemptsInTurn'
<1>1. \A u \in Tasks \ {t} :
        /\ task'[u] = task[u]
        /\ Holding(u)' = Holding(u) /\ InFlight(u)' = InFlight(u)
  BY DEF OthersStay, Holding, InFlight
<1>2. \A u \in Tasks : Holding(u)' =>
        task'[u].attempt >= 1 /\ task'[u].attempt <= tries'[task'[u].row] + 1
  <2> SUFFICES ASSUME NEW u \in Tasks \ {t}, Holding(u)
               PROVE  task[u].attempt >= 1 /\ task[u].attempt <= tries'[task[u].row] + 1
    BY <1>1
  <2>1. task[u].row \in Reminders /\ task[u].attempt \in Nat
    BY OperationType DEF Holding
  <2>2. tries[task[u].row] \in Nat /\ tries'[task[u].row] \in Nat
    BY <2>1 DEF TypeOK
  <2> QED
    BY <2>1, <2>2 DEF AttemptsInTurn
<1>3. \A u \in Tasks : InFlight(u)' =>
        /\ task'[u].attempt = Len(outcomes'[task'[u].row])
        /\ task'[u].attempt > tries'[task'[u].row]
  BY <1>1 DEF AttemptsInTurn
<1>4. \A u, v \in Tasks :
        InFlight(u)' /\ InFlight(v)' /\ task'[u].row = task'[v].row => u = v
  BY <1>1 DEF AttemptsInTurn
<1> QED
  BY <1>2, <1>3, <1>4 DEF AttemptsInTurn, Holding, InFlight

LEMMA MailType ==
  ASSUME NEW s \in Seq(Mails), NEW i \in DOMAIN s
  PROVE  s[i] \in Mails /\ s[i].attempt \in Nat
<1>1. s[i] \in Mails
  OBVIOUS
<1> QED
  BY <1>1 DEF Mails

LEMMA MailsStep ==
  ASSUME TypeOK, TypeOK', MailsInTurn, NEW t \in Tasks, OthersStay(t), UNCHANGED mails,
         \A r \in Reminders : Len(outcomes'[r]) >= Len(outcomes[r]),
         task'[t].op = "TRANSMIT" =>
           \A i \in DOMAIN mails[task'[t].row] : mails[task'[t].row][i].attempt # task'[t].attempt
  PROVE  MailsInTurn'
<1>1. ASSUME NEW r \in Reminders, NEW i \in DOMAIN mails[r]
      PROVE  mails[r][i].attempt <= Len(outcomes'[r])
  <2>1. mails[r] \in Seq(Mails) /\ Len(outcomes[r]) \in Nat /\ Len(outcomes'[r]) \in Nat
    BY DEF TypeOK
  <2>2. mails[r][i].attempt \in Nat
    BY <2>1, MailType
  <2> QED
    BY <2>1, <2>2 DEF MailsInTurn
<1>2. ASSUME NEW u \in Tasks, task'[u].op = "TRANSMIT", NEW i \in DOMAIN mails[task'[u].row]
      PROVE  mails[task'[u].row][i].attempt # task'[u].attempt
  <2>1. CASE u = t
    BY <1>2, <2>1
  <2>2. CASE u # t
    BY <1>2, <2>2 DEF OthersStay, MailsInTurn
  <2> QED
    BY <2>1, <2>2
<1> QED
  BY <1>1, <1>2 DEF MailsInTurn, OneMailPerAttempt

Dispatches ==
  {"CLAIMED", "REVERT", "SEND", "START", "TRANSMIT", "DELIVERED", "FAIL"}

\* Both, when no attempt starts and no message is sent.
LEMMA SpendsStep ==
  ASSUME TypeOK, TypeOK', NEW t \in Tasks, NEW r \in Reminders,
         Len(outcomes'[r]) = Len(outcomes[r]), mails'[r] = mails[r],
         Num(Chance(t, r)') + Num(status'[r] = "APPROVED") + decisions[r]
           <= Num(Chance(t, r)) + Num(status[r] = "APPROVED") + decisions'[r],
         Len(outcomes[r]) >= MaxAttempts =>
           Num(Waiting(t, r)') + Num(status'[r] = "APPROVED") + decisions[r]
             <= Num(Waiting(t, r)) + Num(status[r] = "APPROVED") + decisions'[r]
  PROVE  Spends(t, r) /\ SpendsRetry(t, r)
<1> DEFINE a == Num(status[r] = "APPROVED")
           aa == Num(status'[r] = "APPROVED")
           tc == Num(Chance(t, r))
           tcc == Num(Chance(t, r)')
<1>1. /\ a \in {0, 1} /\ aa \in {0, 1} /\ tc \in {0, 1} /\ tcc \in {0, 1}
  BY NumType
<1>2. decisions[r] \in Nat /\ decisions'[r] \in Nat /\ Len(mails[r]) \in Nat
  BY DEF TypeOK
<1>3. tcc + aa + decisions[r] <= tc + a + decisions'[r]
  OBVIOUS
<1> HIDE DEF a, aa, tc, tcc
<1>4. Len(mails[r]) + tcc + aa + decisions[r] <= Len(mails[r]) + tc + a + decisions'[r]
  BY <1>1, <1>2, <1>3
<1> QED
  BY <1>4 DEF Spends, SpendsRetry, a, aa, tc, tcc

\* The same in words: t hands its chance on, as a release or the other way.
LEMMA HandsOn ==
  ASSUME TypeOK, TypeOK', NEW t \in Tasks, NEW r \in Reminders,
         Len(outcomes'[r]) = Len(outcomes[r]), mails'[r] = mails[r], decisions'[r] = decisions[r],
         \/ (Chance(t, r)' => Chance(t, r)) /\ (status'[r] = "APPROVED" => status[r] = "APPROVED")
         \/ /\ ~(Chance(t, r)' /\ status'[r] = "APPROVED")
            /\ Chance(t, r)' \/ status'[r] = "APPROVED" => Chance(t, r) \/ status[r] = "APPROVED",
         Len(outcomes[r]) >= MaxAttempts =>
           \/ (Waiting(t, r)' => Waiting(t, r)) /\ (status'[r] = "APPROVED" => status[r] = "APPROVED")
           \/ /\ ~(Waiting(t, r)' /\ status'[r] = "APPROVED")
              /\ Waiting(t, r)' \/ status'[r] = "APPROVED" => Waiting(t, r) \/ status[r] = "APPROVED"
  PROVE  Spends(t, r) /\ SpendsRetry(t, r)
<1> DEFINE a == Num(status[r] = "APPROVED")
           aa == Num(status'[r] = "APPROVED")
           tc == Num(Chance(t, r))
           tcc == Num(Chance(t, r)')
           tw == Num(Waiting(t, r))
           tww == Num(Waiting(t, r)')
<1>1. /\ a \in {0, 1} /\ aa \in {0, 1} /\ tc \in {0, 1}
      /\ tcc \in {0, 1} /\ tw \in {0, 1} /\ tww \in {0, 1}
  BY NumType
<1>2. \/ tcc <= tc /\ aa <= a
      \/ tcc + aa <= 1 /\ ((tcc = 0 /\ aa = 0) \/ tc = 1 \/ a = 1)
  BY DEF Num
<1>3. Len(outcomes[r]) >= MaxAttempts =>
        \/ tww <= tw /\ aa <= a
        \/ tww + aa <= 1 /\ ((tww = 0 /\ aa = 0) \/ tw = 1 \/ a = 1)
  BY DEF Num
<1>4. decisions[r] \in Nat
  BY DEF TypeOK
<1> HIDE DEF a, aa, tc, tcc, tw, tww
<1>5. tcc + aa + decisions[r] <= tc + a + decisions[r]
  BY <1>1, <1>2, <1>4
<1>6. Len(outcomes[r]) >= MaxAttempts =>
        tww + aa + decisions[r] <= tw + a + decisions[r]
  BY <1>1, <1>3, <1>4
<1> QED
  BY <1>5, <1>6, SpendsStep DEF a, aa, tc, tcc, tw, tww

\* A step that starts, sends and retries nothing.
LEMMA QuietStep ==
  ASSUME TypeOK, TypeOK', Accounts, NEW t \in Tasks, OthersStay(t),
         UNCHANGED <<tries, outcomes, mails>>, task'[t].op \notin Dispatches,
         \A r \in Reminders :
           Num(status'[r] = "APPROVED") + decisions[r] <= Num(status[r] = "APPROVED") + decisions'[r]
  PROVE  Accounts'
<1> USE DEF Accounts
<1>1. AttemptsInTurn'
  <2>1. ~Holding(t)' /\ ~InFlight(t)'
    BY DEF Holding, InFlight, Dispatches
  <2>2. \A r \in Reminders : tries[r] <= Len(outcomes[r]) /\ tries[r] >= tries[r]
    BY DEF AttemptsInTurn, TypeOK
  <2> QED
    BY <2>1, <2>2, AttemptsStep
<1>2. MailsInTurn'
  <2>1. \A r \in Reminders : Len(outcomes'[r]) >= Len(outcomes[r])
    BY DEF TypeOK
  <2>2. task'[t].op # "TRANSMIT"
    BY DEF Dispatches
  <2> QED
    BY <2>1, <2>2, MailsStep
<1>3. ASSUME NEW r \in Reminders PROVE Spends(t, r) /\ SpendsRetry(t, r)
  <2> DEFINE a == Num(status[r] = "APPROVED")
             aa == Num(status'[r] = "APPROVED")
             tc == Num(Chance(t, r))
             tw == Num(Waiting(t, r))
  <2>1. Num(Chance(t, r)') = 0 /\ Num(Waiting(t, r)') = 0
    BY DEF Chance, Waiting, Holding, Num, Dispatches
  <2>2. a \in Int /\ aa \in Int /\ tc \in {0, 1} /\ tw \in {0, 1}
    BY NumType
  <2>3. decisions[r] \in Nat /\ decisions'[r] \in Nat /\ aa + decisions[r] <= a + decisions'[r]
    BY DEF TypeOK
  <2> HIDE DEF a, aa, tc, tw
  <2>4. /\ 0 + aa + decisions[r] <= tc + a + decisions'[r]
        /\ 0 + aa + decisions[r] <= tw + a + decisions'[r]
    BY <2>2, <2>3
  <2> QED
    BY <2>1, <2>4, SpendsStep DEF a, aa, tc, tw
<1> QED
  BY <1>1, <1>2, <1>3, BudgetStep DEF Accounts

\* In particular one that makes no row APPROVED.
LEMMA QuietRelease ==
  ASSUME TypeOK, TypeOK', Accounts, NEW t \in Tasks, OthersStay(t),
         UNCHANGED <<tries, outcomes, mails, decisions>>, task'[t].op \notin Dispatches,
         \A r \in Reminders : status'[r] = "APPROVED" => status[r] = "APPROVED"
  PROVE  Accounts'
<1>1. ASSUME NEW r \in Reminders
      PROVE  Num(status'[r] = "APPROVED") + decisions[r] <= Num(status[r] = "APPROVED") + decisions'[r]
  <2>1. decisions[r] \in Nat /\ decisions'[r] = decisions[r]
    BY DEF TypeOK
  <2>2. Num(status'[r] = "APPROVED") \in {0, 1} /\ Num(status[r] = "APPROVED") \in {0, 1}
    BY NumType
  <2>3. Num(status'[r] = "APPROVED") <= Num(status[r] = "APPROVED")
    BY DEF Num
  <2> DEFINE a == Num(status[r] = "APPROVED")
             aa == Num(status'[r] = "APPROVED")
  <2> HIDE DEF a, aa
  <2>4. a \in {0, 1} /\ aa \in {0, 1} /\ aa <= a
    BY <2>2, <2>3 DEF a, aa
  <2>5. aa + decisions[r] <= a + decisions'[r]
    BY <2>1, <2>4
  <2> QED
    BY <2>5 DEF a, aa
<1> QED
  BY <1>1, QuietStep

\* The steps of a dispatch.
LEMMA DispatchAccounts ==
  ASSUME TypeOK, TypeOK', Accounts, NEW t \in Tasks,
         DispatchStep(t) \/ \E r \in Reminders : Claim(t, r)
  PROVE  Accounts'
<1> USE DEF Accounts
<1> DEFINE row == task[t].row
           n == task[t].attempt
<1>1. ASSUME NEW r \in Reminders, Claim(t, r) PROVE Accounts'
  <2>1. task'[t] = [op |-> "CLAIMED", row |-> r] /\ OthersStay(t)
    <3>1. Now(t, [op |-> "CLAIMED", row |-> r])
      BY <1>1 DEF Claim
    <3>2. [op |-> "CLAIMED", row |-> r] \in Operations
      BY NextOperationType
    <3> HIDE DEF Accounts
    <3>3. \A u \in Tasks : task'[u] = IF u = t THEN [op |-> "CLAIMED", row |-> r] ELSE task[u]
      BY <3>1, <3>2, SetTask
    <3> QED
      BY <3>3 DEF OthersStay
  <2>2. UNCHANGED <<tries, outcomes, mails, decisions>>
    BY <1>1 DEF Claim
  <2>3. AttemptsInTurn'
    <3>1. ~Holding(t)' /\ ~InFlight(t)'
      BY <2>1 DEF Holding, InFlight
    <3>2. \A q \in Reminders : tries[q] <= Len(outcomes[q]) /\ tries[q] >= tries[q]
      BY DEF AttemptsInTurn, TypeOK
    <3> QED
      BY <2>1, <2>2, <3>1, <3>2, AttemptsStep
  <2>4. MailsInTurn'
    BY <2>1, <2>2, MailsStep DEF TypeOK
  <2>5. ASSUME NEW q \in Reminders PROVE Spends(t, q) /\ SpendsRetry(t, q)
    <3>1. /\ Chance(t, q)' => q = r
          /\ Waiting(t, q)' => q = r
      BY <2>1 DEF Chance, Waiting, Holding
    <3>2. status[r] = "APPROVED" /\ status' = [status EXCEPT ![r] = "QUEUED"]
      BY <1>1 DEF Claim, SetStatus
    <3> QED
      BY <2>2, <3>1, <3>2, HandsOn DEF TypeOK
  <2> QED
    BY <2>1, <2>3, <2>4, <2>5, BudgetStep
<1>2. CASE Examine(t)
  <2>1. row \in Reminders /\ UNCHANGED <<status, tries, outcomes, mails, decisions>>
    BY <1>2, OperationType DEF Examine, rows
  <2>2. tries[row] + 1 \in Nat /\ content[row] \in Contents /\ tries[row] <= Len(outcomes[row])
    BY <2>1 DEF TypeOK, AttemptsInTurn
  <2>3. PICK o \in {Idle, [op |-> "RETURN", row |-> row], [op |-> "REVERT", row |-> row],
                    [op |-> "SEND", row |-> row, attempt |-> tries[row] + 1, content |-> content[row]]} :
          Now(t, o)
    BY <1>2 DEF Examine
  <2>4. task'[t] = o /\ OthersStay(t)
    <3>1. o \in Operations
      BY <2>1, <2>2, NextOperationType
    <3> QED
      BY <2>3, <3>1, SetTask DEF OthersStay
  <2>5. AttemptsInTurn'
    <3>1. ~InFlight(t)'
      BY <2>3, <2>4 DEF InFlight, Idle
    <3>2. Holding(t)' => task'[t].attempt = tries[row] + 1 /\ task'[t].row = row
      BY <2>3, <2>4 DEF Holding, Idle
    <3>3. tries'[row] = tries[row] /\ tries[row] + 1 >= 1 /\ tries[row] + 1 <= tries[row] + 1
      BY <2>1, <2>2 DEF TypeOK
    <3>4. \A q \in Reminders : tries[q] <= Len(outcomes[q]) /\ tries[q] >= tries[q]
      BY DEF AttemptsInTurn, TypeOK
    <3> QED
      BY <2>1, <2>4, <3>1, <3>2, <3>3, <3>4, AttemptsStep
  <2>6. MailsInTurn'
    <3>1. task'[t].op # "TRANSMIT"
      BY <2>3, <2>4 DEF Idle
    <3> QED
      BY <2>1, <2>4, <3>1, MailsStep, SMTT(30) DEF TypeOK
  <2>7. ASSUME NEW q \in Reminders PROVE Spends(t, q) /\ SpendsRetry(t, q)
    <3>1. task[t].op = "CLAIMED"
      BY <1>2 DEF Examine
    <3>2. Chance(t, q)' \/ Waiting(t, q)' => q = row
      BY <2>3, <2>4 DEF Chance, Waiting, Holding, Idle
    <3>3. Waiting(t, row) /\ Chance(t, row)
      BY <3>1 DEF Chance, Waiting
    <3> QED
      BY <2>1, <3>2, <3>3, HandsOn
  <2> QED
    BY <2>4, <2>5, <2>6, <2>7, BudgetStep
<1>3. CASE Revert(t)
  <2>1. row \in Reminders /\ UNCHANGED <<tries, outcomes, mails, decisions>>
    BY <1>3, OperationType DEF Revert
  <2>2. task'[t] = Idle /\ OthersStay(t)
    BY <1>3, NextOperationType, SetTask DEF Revert, OthersStay
  <2>3. ~Holding(t)' /\ ~InFlight(t)' /\ task'[t].op # "TRANSMIT"
    BY <2>2 DEF Holding, InFlight, Idle
  <2>4. AttemptsInTurn'
    <3>1. \A q \in Reminders : tries[q] <= Len(outcomes[q]) /\ tries[q] >= tries[q]
      BY DEF AttemptsInTurn, TypeOK
    <3> QED
      BY <2>1, <2>2, <2>3, <3>1, AttemptsStep
  <2>5. MailsInTurn'
    BY <2>1, <2>2, <2>3, MailsStep DEF TypeOK
  <2>6. ASSUME NEW q \in Reminders PROVE Spends(t, q) /\ SpendsRetry(t, q)
    <3>1. task[t].op = "REVERT"
      BY <1>3 DEF Revert
    <3>2. ~Chance(t, q)' /\ ~Waiting(t, q)'
      BY <2>2 DEF Chance, Waiting, Holding, Idle
    <3>3. Waiting(t, row) /\ Chance(t, row)
      BY <3>1 DEF Chance, Waiting
    <3>4. q # row => status'[q] = status[q]
      BY <1>3, <2>1 DEF Revert, TypeOK
    <3> QED
      BY <2>1, <3>2, <3>3, <3>4, HandsOn
  <2> QED
    BY <2>2, <2>4, <2>5, <2>6, BudgetStep
<1>4. CASE Return(t)
  <2>1. row \in Reminders /\ UNCHANGED <<tries, outcomes, mails, decisions>>
    BY <1>4, OperationType DEF Return
  <2>2. task'[t] = Idle /\ OthersStay(t)
    BY <1>4, NextOperationType, SetTask DEF Return, OthersStay
  <2>3. \A q \in Reminders : status'[q] = "APPROVED" => status[q] = "APPROVED"
    BY <1>4, <2>1 DEF Return, SetStatus, TypeOK
  <2>4. task'[t].op \notin Dispatches
    BY <2>2 DEF Idle, Dispatches
  <2> QED
    BY <2>1, <2>2, <2>3, <2>4, QuietRelease
<1>5. CASE MarkSending(t)
  <2>1. /\ row \in Reminders /\ n \in Nat /\ task[t].op = "SEND" /\ task[t].content \in Contents
        /\ UNCHANGED <<tries, outcomes, mails, decisions>>
    BY <1>5, OperationType DEF MarkSending
  <2>2. /\ OthersStay(t) /\ task'[t].op = "START"
        /\ task'[t].row = row /\ task'[t].attempt = n
    <3>1. Dispatching(t, "START") \in Operations
      BY <2>1, NextOperationType DEF Dispatching
    <3> QED
      BY <1>5, <3>1, SetTask DEF MarkSending, OthersStay, Dispatching
  <2>3. AttemptsInTurn'
    <3>1. Holding(t) /\ ~InFlight(t)'
      BY <2>1, <2>2 DEF Holding, InFlight
    <3>2. \A q \in Reminders : tries[q] <= Len(outcomes[q]) /\ tries[q] >= tries[q]
      BY DEF AttemptsInTurn, TypeOK
    <3>3. n >= 1 /\ n <= tries[row] + 1
      BY <3>1 DEF AttemptsInTurn
    <3> QED
      BY <2>1, <2>2, <3>1, <3>2, <3>3, AttemptsStep
  <2>4. MailsInTurn'
    BY <2>1, <2>2, MailsStep DEF TypeOK
  <2>5. ASSUME NEW q \in Reminders PROVE Spends(t, q) /\ SpendsRetry(t, q)
    <3>1. /\ Chance(t, q)' => Chance(t, q)
          /\ Waiting(t, q)' => Waiting(t, q)
      BY <2>1, <2>2 DEF Chance, Waiting, Holding
    <3>2. status'[q] = "APPROVED" => status[q] = "APPROVED"
      BY <1>5, <2>1 DEF MarkSending, SetStatus, TypeOK
    <3> QED
      BY <2>1, <3>1, <3>2, HandsOn
  <2> QED
    BY <2>2, <2>3, <2>4, <2>5, BudgetStep
<1>6. CASE StartAttempt(t)
  <2>1. /\ row \in Reminders /\ n \in Nat /\ task[t].op = "START" /\ task[t].content \in Contents
        /\ UNCHANGED <<status, tries, mails, decisions>>
    BY <1>6, OperationType DEF StartAttempt
  <2>2. CASE Len(outcomes[row]) >= n
    <3>1. outcomes' = outcomes /\ task'[t] = Idle /\ OthersStay(t)
      BY <1>6, <2>2, NextOperationType, SetTask DEF StartAttempt, OthersStay
    <3>2. task'[t].op \notin Dispatches
      BY <3>1 DEF Idle, Dispatches
    <3> QED
      BY <2>1, <3>1, <3>2, QuietRelease
  <2>3. CASE ~(Len(outcomes[row]) >= n)
    <3>1. /\ Len(outcomes[row]) \in Nat /\ tries[row] \in Nat /\ outcomes[row] \in Seq(Outcomes)
          /\ n <= tries[row] + 1 /\ tries[row] <= Len(outcomes[row])
      BY <2>1 DEF TypeOK, AttemptsInTurn, Holding
    <3>2. n = Len(outcomes[row]) + 1 /\ tries[row] = Len(outcomes[row])
      BY <2>1, <2>3, <3>1, NextAttempt
    <3>3. /\ OthersStay(t) /\ task'[t].op = "TRANSMIT"
          /\ task'[t].row = row /\ task'[t].attempt = n
      <4>1. Dispatching(t, "TRANSMIT") \in Operations
        BY <2>1, NextOperationType DEF Dispatching
      <4> QED
        BY <1>6, <2>3, <4>1, SetTask DEF StartAttempt, OthersStay, Dispatching
    <3>4. Len(outcomes'[row]) = n /\ \A q \in Reminders \ {row} : outcomes'[q] = outcomes[q]
      BY <1>6, <2>1, <2>3, <3>1, <3>2 DEF StartAttempt, TypeOK, Outcomes
    <3>5. AttemptsInTurn'
      <4>1. \A q \in Reminders : tries[q] <= Len(outcomes'[q]) /\ tries[q] >= tries[q]
        <5>1. \A q \in Reminders : tries[q] \in Nat /\ tries[q] <= Len(outcomes[q])
          BY DEF AttemptsInTurn, TypeOK
        <5>2. \A q \in Reminders : q = row \/ Len(outcomes'[q]) = Len(outcomes[q])
          BY <3>4
        <5>3. tries[row] <= Len(outcomes'[row])
          BY <3>1, <3>2, <3>4
        <5> QED
          BY <5>1, <5>2, <5>3
      <4>2. ~Holding(t)'
        BY <3>3 DEF Holding
      <4>3. \A u \in Tasks : InFlight(u) => task[u].row # row /\ task[u].row \in Reminders
        BY <3>1, <3>2, OperationType DEF AttemptsInTurn, InFlight
      <4> QED
        BY <2>1, <3>1, <3>2, <3>3, <3>4, <4>1, <4>2, <4>3, AttemptsStep
    <3>6. MailsInTurn'
      <4>1. \A q \in Reminders : Len(outcomes'[q]) >= Len(outcomes[q])
        <5>1. \A q \in Reminders : q = row \/ Len(outcomes'[q]) = Len(outcomes[q])
          BY <3>4
        <5>2. Len(outcomes'[row]) >= Len(outcomes[row])
          BY <3>1, <3>2, <3>4
        <5>3. \A q \in Reminders : Len(outcomes[q]) \in Nat
          BY DEF TypeOK
        <5> QED
          BY <5>1, <5>2, <5>3
      <4>2. \A i \in DOMAIN mails[row] : mails[row][i].attempt # n
        <5>1. mails[row] \in Seq(Mails)
          BY <2>1 DEF TypeOK
        <5>2. \A i \in DOMAIN mails[row] : mails[row][i].attempt \in Nat
          BY <5>1, MailType
        <5> QED
          BY <2>1, <3>1, <3>2, <5>2 DEF MailsInTurn
      <4> QED
        BY <2>1, <3>3, <4>1, <4>2, MailsStep
    <3>7. ASSUME NEW q \in Reminders PROVE Spends(t, q) /\ SpendsRetry(t, q)
      <4>1. CASE q = row
        <5>1. /\ Chance(t, q) /\ Chance(t, q)' /\ Waiting(t, q) /\ ~Waiting(t, q)'
          BY <2>1, <3>2, <3>3, <4>1 DEF Chance, Waiting, Holding
        <5>2. Num(Chance(t, q)) = 1 /\ Num(Chance(t, q)') = 1
          BY <5>1 DEF Num
        <5>3. Num(status[q] = "APPROVED") \in {0, 1} /\ decisions[q] \in Nat /\ Len(mails[q]) \in Nat
          BY NumType DEF TypeOK
        <5> DEFINE a == Num(status[q] = "APPROVED")
        <5> HIDE DEF a
        <5>4. Len(mails[q]) + 1 + a + decisions[q] <= Len(mails[q]) + 1 + a + decisions[q]
          BY <5>3 DEF a
        <5> QED
          BY <2>1, <3>2, <3>4, <4>1, <5>1, <5>2, <5>4 DEF Spends, SpendsRetry, a
      <4>2. CASE q # row
        <5>1. ~Chance(t, q)' /\ ~Waiting(t, q)'
          BY <3>3, <4>2 DEF Chance, Waiting, Holding
        <5> QED
          BY <2>1, <3>4, <4>2, <5>1, HandsOn
      <4> QED
        BY <4>1, <4>2
    <3> QED
      BY <3>1, <3>3, <3>5, <3>6, <3>7, BudgetStep
  <2> QED
    BY <2>2, <2>3
<1>7. ASSUME NEW answer \in Answers, Transmit(t, answer) PROVE Accounts'
  <2> DEFINE mail == [attempt |-> n, content |-> task[t].content]
             sent == answer \in {"ACCEPTED", "LOST"} /\ ~live.disabled
  <2>1. /\ row \in Reminders /\ n \in Nat /\ task[t].op = "TRANSMIT" /\ task[t].content \in Contents
        /\ UNCHANGED <<status, tries, outcomes, decisions>>
    BY <1>7, OperationType DEF Transmit, rows
  <2>2. /\ OthersStay(t) /\ task'[t].op \in {"DELIVERED", "FAIL"}
        /\ task'[t].row = row /\ task'[t].attempt = n
        /\ task'[t].op = "FAIL" /\ task'[t].category = "TRANSIENT" => ~sent
    <3>1. /\ Dispatching(t, "DELIVERED") \in Operations
          /\ Failing(t, "TIMEOUT") \in Operations /\ Failing(t, "TRANSIENT") \in Operations
      BY <2>1, NextOperationType DEF Dispatching, Failing, Categories
    <3>2. CASE answer = "ACCEPTED"
      BY <1>7, <3>1, <3>2, SetTask DEF Transmit, OthersStay, Dispatching
    <3>3. CASE answer \in {"LOST", "TIMEOUT"}
      BY <1>7, <3>1, <3>3, SetTask DEF Transmit, OthersStay, Failing
    <3>4. CASE answer = "REFUSED"
      BY <1>7, <3>1, <3>4, SetTask DEF Transmit, OthersStay, Failing
    <3> QED
      BY <3>2, <3>3, <3>4, AnswersAssumption
  <2>3. AttemptsInTurn'
    <3>1. \A q \in Reminders : tries[q] <= Len(outcomes[q]) /\ tries[q] >= tries[q]
      BY DEF AttemptsInTurn, TypeOK
    <3>2. InFlight(t) /\ ~Holding(t)'
      BY <2>1, <2>2 DEF InFlight, Holding
    <3> QED
      BY <2>1, <2>2, <3>1, <3>2, AttemptsStep DEF AttemptsInTurn
  <2>4. mails[row] \in Seq(Mails) /\ mail \in Mails
    BY <2>1 DEF TypeOK, Mails
  <2>5. mails' = IF sent THEN [mails EXCEPT ![row] = Append(@, mail)] ELSE mails
    BY <1>7 DEF Transmit
  <2>6. CASE ~sent
    <3>1. mails' = mails
      BY <2>5, <2>6
    <3>2. MailsInTurn'
      BY <2>1, <2>2, <3>1, MailsStep DEF TypeOK
    <3>3. ASSUME NEW q \in Reminders PROVE Spends(t, q) /\ SpendsRetry(t, q)
      <4>1. /\ Chance(t, q)' => Chance(t, q)
            /\ ~Waiting(t, q)'
        BY <2>1, <2>2 DEF Chance, Waiting, Holding
      <4> QED
        BY <2>1, <3>1, <4>1, HandsOn
    <3> QED
      BY <2>2, <2>3, <3>2, <3>3, BudgetStep
  <2>7. CASE sent
    <3>1. mails'[row] = Append(mails[row], mail) /\ \A q \in Reminders \ {row} : mails'[q] = mails[q]
      BY <2>1, <2>5, <2>7 DEF TypeOK
    <3>2. MailsInTurn'
      <4>1. /\ Len(outcomes[row]) = n
            /\ \A i \in DOMAIN mails[row] : mails[row][i].attempt # n
        BY <2>1 DEF AttemptsInTurn, MailsInTurn, InFlight
      <4>2. \A i \in DOMAIN mails'[row] :
              IF i \in DOMAIN mails[row] THEN mails'[row][i] = mails[row][i]
              ELSE i = Len(mails[row]) + 1 /\ mails'[row][i] = mail
        BY <2>4, <3>1
      <4>3. mail.attempt = n
        OBVIOUS
      <4> HIDE DEF mail, sent
      <4>4. ASSUME NEW q \in Reminders, NEW i \in DOMAIN mails'[q]
            PROVE  mails'[q][i].attempt <= Len(outcomes'[q])
        <5>1. outcomes' = outcomes /\ Len(outcomes[row]) <= Len(outcomes[row])
          BY <2>1 DEF TypeOK
        <5>2. CASE q # row \/ i \in DOMAIN mails[row]
          BY <2>1, <3>1, <4>2, <4>4, <5>1, <5>2 DEF MailsInTurn
        <5>3. CASE q = row /\ i \notin DOMAIN mails[row]
          BY <4>1, <4>2, <4>3, <4>4, <5>1, <5>3
        <5> QED
          BY <5>2, <5>3
      <4>5. ASSUME NEW u \in Tasks, task'[u].op = "TRANSMIT", NEW i \in DOMAIN mails'[task'[u].row]
            PROVE  mails'[task'[u].row][i].attempt # task'[u].attempt
        <5>1. u # t /\ task'[u] = task[u] /\ task[u].row \in Reminders /\ task[u].op = "TRANSMIT"
          BY <2>2, <4>5, OperationType DEF OthersStay
        <5>2. task[u].row # row
          BY <2>1, <5>1 DEF AttemptsInTurn, InFlight
        <5> QED
          BY <3>1, <4>5, <5>1, <5>2 DEF MailsInTurn
      <4>6. ASSUME NEW q \in Reminders, NEW i \in DOMAIN mails'[q], NEW j \in DOMAIN mails'[q],
                   mails'[q][i].attempt = mails'[q][j].attempt
            PROVE  i = j
        <5>1. CASE q # row
          BY <3>1, <4>6, <5>1 DEF MailsInTurn, OneMailPerAttempt
        <5>2. CASE q = row /\ i \in DOMAIN mails[row] /\ j \in DOMAIN mails[row]
          BY <2>1, <4>2, <4>6, <5>2 DEF MailsInTurn, OneMailPerAttempt
        <5>3. CASE q = row /\ ~(i \in DOMAIN mails[row] /\ j \in DOMAIN mails[row])
          BY <4>1, <4>2, <4>3, <4>6, <5>3
        <5> QED
          BY <5>1, <5>2, <5>3
      <4> QED
        BY <4>4, <4>5, <4>6 DEF MailsInTurn, OneMailPerAttempt
    <3>3. ASSUME NEW q \in Reminders PROVE Spends(t, q) /\ SpendsRetry(t, q)
      <4>1. CASE q = row
        <5>1. /\ Chance(t, q) /\ ~Chance(t, q)' /\ ~Waiting(t, q) /\ ~Waiting(t, q)'
          BY <2>1, <2>2, <2>7, <4>1 DEF Chance, Waiting, Holding
        <5>2. /\ Num(Chance(t, q)) = 1 /\ Num(Chance(t, q)') = 0
              /\ Num(Waiting(t, q)) = 0 /\ Num(Waiting(t, q)') = 0
          BY <5>1 DEF Num
        <5>3. /\ Num(status[q] = "APPROVED") \in {0, 1} /\ decisions[q] \in Nat
              /\ Len(mails[q]) \in Nat /\ Len(mails'[q]) = Len(mails[q]) + 1
          <6> HIDE DEF mail, sent
          <6>1. Len(mails[row]) \in Nat /\ Len(Append(mails[row], mail)) = Len(mails[row]) + 1
            BY <2>4
          <6>2. decisions[q] \in Nat
            BY DEF TypeOK
          <6> QED
            BY <3>1, <4>1, <6>1, <6>2, NumType
        <5> DEFINE a == Num(status[q] = "APPROVED")
        <5> HIDE DEF a, mail, sent
        <5>4. /\ Len(mails'[q]) + 0 + a + decisions[q] <= Len(mails[q]) + 1 + a + decisions[q]
              /\ 0 + a + decisions[q] <= 0 + a + decisions[q]
          BY <5>3 DEF a
        <5> QED
          BY <2>1, <5>2, <5>4 DEF Spends, SpendsRetry, a
      <4>2. CASE q # row
        <5>1. ~Chance(t, q)' /\ ~Waiting(t, q)'
          BY <2>2, <4>2 DEF Chance, Waiting, Holding
        <5> QED
          BY <2>1, <3>1, <4>2, <5>1, HandsOn
      <4> QED
        BY <4>1, <4>2
    <3> QED
      BY <2>1, <2>2, <2>3, <3>2, <3>3, BudgetStep
  <2> QED
    BY <2>6, <2>7
<1>8. CASE FailToRecord(t)
  <2>1. /\ row \in Reminders /\ n \in Nat /\ task[t].op = "DELIVERED"
        /\ UNCHANGED <<status, tries, outcomes, mails, decisions>>
    BY <1>8, OperationType DEF FailToRecord, rows
  <2>2. /\ OthersStay(t) /\ task'[t].op = "FAIL" /\ task'[t].category = "PERMANENT"
        /\ task'[t].row = row /\ task'[t].attempt = n
    <3>1. Failing(t, "PERMANENT") \in Operations
      BY <2>1, NextOperationType DEF Failing, Categories
    <3> QED
      BY <1>8, <3>1, SetTask DEF FailToRecord, OthersStay, Failing
  <2>3. AttemptsInTurn'
    <3>1. \A q \in Reminders : tries[q] <= Len(outcomes[q]) /\ tries[q] >= tries[q]
      BY DEF AttemptsInTurn, TypeOK
    <3>2. InFlight(t) /\ ~Holding(t)'
      BY <2>1, <2>2 DEF InFlight, Holding
    <3> QED
      BY <2>1, <2>2, <3>1, <3>2, AttemptsStep DEF AttemptsInTurn
  <2>4. MailsInTurn'
    BY <2>1, <2>2, MailsStep, SMTT(30) DEF TypeOK
  <2>5. ASSUME NEW q \in Reminders PROVE Spends(t, q) /\ SpendsRetry(t, q)
    <3>1. ~Chance(t, q)' /\ ~Waiting(t, q)'
      BY <2>2 DEF Chance, Waiting, Holding
    <3> QED
      BY <2>1, <3>1, HandsOn
  <2> QED
    BY <2>2, <2>3, <2>4, <2>5, BudgetStep
<1>9. CASE RecordSent(t) \/ RecordFailure(t)
  <2>1. /\ row \in Reminders /\ n \in Nat /\ UNCHANGED <<mails, decisions>> /\ InFlight(t)
        /\ tries' = [tries EXCEPT ![row] = n]
    BY <1>9, OperationType DEF RecordSent, RecordFailure, InFlight
  <2>2. task'[t] = Idle /\ OthersStay(t)
    BY <1>9, NextOperationType, SetTask DEF RecordSent, RecordFailure, OthersStay
  <2>3. \A q \in Reminders : Len(outcomes'[q]) = Len(outcomes[q]) /\ Len(outcomes[q]) \in Nat
    <3>1. PICK o \in Outcomes : outcomes' = [outcomes EXCEPT ![row] = [@ EXCEPT ![n] = o]]
      BY <1>9 DEF RecordSent, RecordFailure, Outcomes
    <3>2. Len([outcomes[row] EXCEPT ![n] = o]) = Len(outcomes[row])
      BY <2>1, OutcomeType DEF TypeOK
    <3> QED
      BY <2>1, <3>1, <3>2 DEF TypeOK
  <2>4. n = Len(outcomes[row]) /\ n > tries[row]
    BY <2>1 DEF AttemptsInTurn
  <2>5. ~Holding(t)' /\ ~InFlight(t)' /\ task'[t].op # "TRANSMIT"
    BY <2>2 DEF Holding, InFlight, Idle
  <2>6. AttemptsInTurn'
    <3>1. \A q \in Reminders : tries'[q] <= Len(outcomes'[q]) /\ tries'[q] >= tries[q]
      BY <2>1, <2>3, <2>4 DEF AttemptsInTurn, TypeOK
    <3>2. \A u \in Tasks \ {t} : InFlight(u) => task[u].row # row /\ task[u].row \in Reminders
      BY <2>1, OperationType DEF AttemptsInTurn, InFlight
    <3> QED
      BY <2>1, <2>2, <2>3, <2>5, <3>1, <3>2, AttemptsStep DEF TypeOK
  <2>7. MailsInTurn'
    BY <2>1, <2>2, <2>3, <2>5, MailsStep
  <2>8. ASSUME NEW q \in Reminders PROVE Spends(t, q) /\ SpendsRetry(t, q)
    <3>1. ~Chance(t, q)' /\ ~Waiting(t, q)'
      BY <2>2 DEF Chance, Waiting, Holding, Idle
    <3>2. q # row => status'[q] = status[q]
      BY <1>9, <2>1 DEF RecordSent, RecordFailure, SetStatus, TypeOK
    <3>3. status'[row] = "APPROVED" =>
            task[t].op = "FAIL" /\ task[t].category = "TRANSIENT" /\ n < MaxAttempts
      BY <1>9, <2>1 DEF RecordSent, RecordFailure, SetStatus, AfterFailure, TypeOK
    <3>4. /\ status'[row] = "APPROVED" => Chance(t, row)
          /\ Len(outcomes[row]) >= MaxAttempts => status'[row] # "APPROVED"
      BY <2>4, <3>3, MaxAttemptsAssumption DEF Chance
    <3> QED
      BY <2>1, <2>3, <3>1, <3>2, <3>4, HandsOn
  <2> QED
    BY <2>2, <2>6, <2>7, <2>8, BudgetStep
<1> QED
  BY <1>1, <1>2, <1>3, <1>4, <1>5, <1>6, <1>7, <1>8, <1>9 DEF DispatchStep

\* What people and evaluations do starts nothing, and a release is a decision.
LEMMA ServeAccounts ==
  ASSUME TypeOK, TypeOK', Accounts, NEW t \in Tasks,
         \/ Serve(t) \/ BeginEvaluate(t) \/ Die(t)
         \/ \E r \in Reminders : FinishEvaluate(t, r)
  PROVE  Accounts'
<1> DEFINE row == task[t].row
<1>1. CASE WriteApprove(t) \/ WriteRetry(t) \/ WriteNotSent(t)
  <2>1. row \in Reminders
    BY <1>1, OperationType DEF WriteApprove, WriteRetry, WriteNotSent
  <2>2. Release(t, row)
    BY <1>1 DEF WriteApprove, WriteRetry, WriteNotSent
  <2>3. /\ task'[t].op = "IDLE" /\ OthersStay(t) /\ UNCHANGED <<tries, outcomes, mails>>
        /\ status' = [status EXCEPT ![row] = "APPROVED"]
        /\ decisions' = [decisions EXCEPT ![row] = @ + 1]
    BY <2>2, NextOperationType, SetTask, SMTT(30) DEF Release, SetStatus, OthersStay
  <2>4. ASSUME NEW q \in Reminders
        PROVE  Num(status'[q] = "APPROVED") + decisions[q] <= Num(status[q] = "APPROVED") + decisions'[q]
    <3> DEFINE a == Num(status[q] = "APPROVED")
               aa == Num(status'[q] = "APPROVED")
    <3>1. a \in {0, 1} /\ aa \in {0, 1}
      BY NumType
    <3>2. IF q = row THEN decisions'[q] = decisions[q] + 1
          ELSE decisions'[q] = decisions[q] /\ aa = a
      BY <2>1, <2>3 DEF TypeOK
    <3>3. decisions[q] \in Nat
      BY DEF TypeOK
    <3> HIDE DEF a, aa
    <3>4. aa + decisions[q] <= a + decisions'[q]
      BY <3>1, <3>2, <3>3
    <3> QED
      BY <3>4 DEF a, aa
  <2> QED
    BY <2>3, <2>4, QuietStep DEF Dispatches
<1>2. ASSUME UNCHANGED <<tries, outcomes, mails, decisions>>,
             NEW o \in Operations, Now(t, o), o.op \notin Dispatches,
             \A q \in Reminders : status'[q] = "APPROVED" => status[q] = "APPROVED"
      PROVE  Accounts'
  BY <1>2, SetTask, QuietRelease DEF OthersStay
<1>3. Idle \in Operations /\ Idle.op \notin Dispatches
  BY NextOperationType DEF Idle, Dispatches
<1>4. CASE BeginEvaluate(t)
  <2>1. [op |-> "CREATE", stage |-> NextStage, owed |-> live.owed] \in Operations
    BY NextStageType, NextOperationType DEF TypeOK
  <2> QED
    BY <1>2, <1>4, <2>1 DEF BeginEvaluate, rows, Dispatches
<1>5. ASSUME NEW r \in Reminders, FinishEvaluate(t, r) PROVE Accounts'
  <2>1. PICK s \in {"READY_FOR_REVIEW", "SUPPRESSED"} : SetStatus(r, s)
    BY <1>5 DEF FinishEvaluate, Create
  <2>2. \A q \in Reminders : status'[q] = "APPROVED" => status[q] = "APPROVED"
    BY <2>1 DEF SetStatus, TypeOK
  <2> QED
    BY <1>2, <1>3, <1>5, <2>2 DEF FinishEvaluate, Create
<1>6. ASSUME NEW r \in Reminders, Draft(t, r) PROVE Accounts'
  <2>1. /\ Now(t, Idle)
        /\ \A q \in Reminders : status'[q] = "APPROVED" => status[q] = "APPROVED"
    BY <1>6 DEF Draft, Create, SetStatus, Now, TypeOK
  <2> QED
    BY <1>2, <1>3, <1>6, <2>1 DEF Draft, Create
<1>7. ASSUME NEW r \in Reminders, ReadSubmit(t, r) PROVE Accounts'
  <2>1. /\ [op |-> "SETTLED", row |-> r] \in Operations
        /\ [op |-> "SUBMIT", row |-> r, stage |-> NextStage, content |-> LiveContent] \in Operations
    BY NextStageType, LiveContentType, NextOperationType
  <2> QED
    BY <1>2, <1>7, <2>1 DEF ReadSubmit, rows, Dispatches
<1>8. ASSUME NEW r \in Reminders,
             ReadApprove(t, r) \/ ReadCancel(t, r) \/ ReadCancelDraft(t, r) \/ ReadRetry(t, r) \/ ReadResolve(t, r)
      PROVE  Accounts'
  <2>1. PICK op \in {"APPROVE", "CANCEL", "RETRY", "RESOLVE"} : Now(t, [op |-> op, row |-> r])
    BY <1>8 DEF ReadApprove, ReadCancel, ReadCancelDraft, ReadRetry, ReadResolve, Read
  <2>2. [op |-> op, row |-> r] \in Operations
    BY NextOperationType
  <2> QED
    BY <1>2, <1>8, <2>1, <2>2
       DEF ReadApprove, ReadCancel, ReadCancelDraft, ReadRetry, ReadResolve, Read, rows, Dispatches
<1>9. CASE WriteSubmit(t)
  <2>1. \A q \in Reminders : status'[q] = "APPROVED" => status[q] = "APPROVED"
    BY <1>9 DEF WriteSubmit, SetStatus, TypeOK, rows
  <2>2. UNCHANGED <<tries, outcomes>>
    BY <1>9 DEF WriteSubmit, rows
  <2> QED
    BY <1>2, <1>3, <1>9, <2>1, <2>2 DEF WriteSubmit
<1>10. CASE Refresh(t)
  <2>1. row \in Reminders
    BY <1>10, OperationType DEF Refresh, AfterRefresh
  <2>2. PICK o \in {Idle, [op |-> "SETTLED", row |-> row], [op |-> "CHECKED", row |-> row]} : Now(t, o)
    BY <1>10 DEF Refresh, AfterRefresh
  <2>3. o \in Operations /\ o.op \notin Dispatches
    <3>1. /\ [op |-> "SETTLED", row |-> row] \in Operations
          /\ [op |-> "CHECKED", row |-> row] \in Operations
      BY <2>1, NextOperationType
    <3>2. o \in Operations
      BY <1>3, <2>2, <3>1
    <3>3. o.op \in {"IDLE", "SETTLED", "CHECKED"}
      BY <2>2 DEF Idle
    <3> QED
      BY <3>2, <3>3 DEF Dispatches
  <2> QED
    BY <1>2, <1>10, <2>2, <2>3 DEF Refresh, AfterRefresh
<1>11. CASE WriteCancel(t) \/ WriteSent(t)
  <2>1. PICK s \in {"CANCELLED", "SENT"} : SetStatus(row, s)
    BY <1>11 DEF WriteCancel, WriteSent
  <2>2. \A q \in Reminders : status'[q] = "APPROVED" => status[q] = "APPROVED"
    BY <2>1 DEF SetStatus, TypeOK
  <2> QED
    BY <1>2, <1>3, <1>11, <2>2 DEF WriteCancel, WriteSent
<1>12. CASE Die(t)
  BY <1>2, <1>3, <1>12 DEF Die, rows
<1> QED
  BY <1>1, <1>4, <1>5, <1>6, <1>7, <1>8, <1>9, <1>10, <1>11, <1>12 DEF Serve

\* Steps of no task: a confirmation, a change of the world.
LEMMA WorldAccounts ==
  ASSUME TypeOK, TypeOK', Accounts, UNCHANGED <<tries, outcomes, mails, decisions, task>>,
         \A r \in Reminders : status'[r] = "APPROVED" => status[r] = "APPROVED"
  PROVE  Accounts'
<1>1. AttemptsInTurn' /\ MailsInTurn'
  BY DEF Accounts, AttemptsInTurn, MailsInTurn, OneMailPerAttempt, Holding, InFlight
<1>2. \A r \in Reminders : Chances(r)' = Chances(r) /\ Waiters(r)' = Waiters(r)
  BY DEF Chances, Waiters, Chance, Waiting, Holding
<1>3. ASSUME NEW r \in Reminders
      PROVE  /\ Len(mails'[r]) + Cardinality(Chances(r))' + Num(status'[r] = "APPROVED")
                  <= decisions'[r]
             /\ Len(outcomes'[r]) >= MaxAttempts =>
                  Len(outcomes'[r]) + Cardinality(Waiters(r))' + Num(status'[r] = "APPROVED")
                    < MaxAttempts + decisions'[r]
  <2> DEFINE a == Num(status[r] = "APPROVED")
             aa == Num(status'[r] = "APPROVED")
             c == Cardinality(Chances(r))
             w == Cardinality(Waiters(r))
  <2>1. a \in {0, 1} /\ aa \in {0, 1} /\ aa <= a
    BY NumType DEF Num
  <2>2. /\ Len(mails[r]) \in Nat /\ Len(outcomes[r]) \in Nat /\ decisions[r] \in Nat
        /\ MaxAttempts \in Nat
    BY MaxAttemptsAssumption DEF TypeOK
  <2>3. c \in Nat /\ w \in Nat
    <3>1. IsFiniteSet(Chances(r)) /\ IsFiniteSet(Waiters(r))
      BY TasksAssumption, FS_Subset DEF Chances, Waiters
    <3> QED
      BY <3>1, FS_CardinalityType
  <2>4. /\ Len(mails[r]) + c + a <= decisions[r]
        /\ Len(outcomes[r]) >= MaxAttempts =>
             Len(outcomes[r]) + w + a < MaxAttempts + decisions[r]
    BY DEF Accounts, PaidFor, RetriesPaidFor
  <2>5. c' = c /\ w' = w
    BY <1>2
  <2> HIDE DEF a, aa, c, w
  <2>6. /\ Len(mails[r]) + c + aa <= decisions[r]
        /\ Len(outcomes[r]) >= MaxAttempts =>
             Len(outcomes[r]) + w + aa < MaxAttempts + decisions[r]
    BY <2>1, <2>2, <2>3, <2>4, SMTT(30)
  <2> QED
    BY <2>5, <2>6 DEF aa, c, w
<1> QED
  BY <1>1, <1>3 DEF Accounts, PaidFor, RetriesPaidFor

LEMMA InitAccounts == Init => Accounts
<1> SUFFICES ASSUME Init PROVE Accounts
  OBVIOUS
<1>1. \A t \in Tasks : task[t].op = "IDLE"
  BY DEF Init, Idle
<1>2. \A r \in Reminders :
        /\ status[r] = "FREE" /\ tries[r] = 0 /\ decisions[r] = 0
        /\ outcomes[r] = <<>> /\ mails[r] = <<>>
  BY DEF Init
<1>3. AttemptsInTurn /\ MailsInTurn
  BY <1>1, <1>2 DEF AttemptsInTurn, MailsInTurn, OneMailPerAttempt, Holding, InFlight
<1>4. \A r \in Reminders : Chances(r) = {}
  BY <1>1 DEF Chances, Chance, Waiting, Holding
<1>5. \A r \in Reminders : Cardinality(Chances(r)) = 0 /\ Num(status[r] = "APPROVED") = 0
  BY <1>2, <1>4, FS_EmptySet DEF Num
<1>6. PaidFor
  <2> SUFFICES ASSUME NEW r \in Reminders
               PROVE  Len(mails[r]) + Cardinality(Chances(r)) + Num(status[r] = "APPROVED") <= decisions[r]
    BY DEF PaidFor
  <2>1. Len(mails[r]) = 0 /\ decisions[r] = 0
    BY <1>2
  <2> QED
    BY <1>5, <2>1
<1>7. RetriesPaidFor
  BY <1>2, MaxAttemptsAssumption DEF RetriesPaidFor
<1> QED
  BY <1>3, <1>6, <1>7 DEF Accounts

LEMMA StepAccounts == Inductive /\ [Next]_vars => Inductive'
<1> SUFFICES ASSUME TypeOK, Accounts, [Next]_vars PROVE Inductive'
  BY DEF Inductive
<1>1. TypeOK'
  BY StepType
<1>2. CASE UNCHANGED vars
  BY <1>1, <1>2, WorldAccounts DEF Inductive, vars, rows
<1>3. CASE Change
  BY <1>1, <1>3, WorldAccounts DEF Inductive, Change, rows
<1>4. ASSUME NEW r \in Reminders, Confirm(r) PROVE Inductive'
  <2>1. \A q \in Reminders : status'[q] = "APPROVED" => status[q] = "APPROVED"
    BY <1>4 DEF Confirm, SetStatus, TypeOK
  <2> QED
    BY <1>1, <1>4, <2>1, WorldAccounts DEF Inductive, Confirm
<1> QED
  BY <1>1, <1>2, <1>3, <1>4, ServeAccounts, DispatchAccounts
     DEF Inductive, Next, Work, ClaimDue, DispatchNow, Tasks

\* Attempts, messages and releases stay in step with one another, always.
THEOREM InductiveHolds == Spec => []Inductive
<1>1. Init => Inductive
  BY InitType, InitAccounts DEF Inductive
<1> QED
  BY <1>1, StepAccounts, PTL DEF Spec

\* However tasks race for a reminder, a delivery attempt sends one message.
THEOREM OneMailPerAttemptHolds == Spec => []OneMailPerAttempt
<1>1. Inductive => OneMailPerAttempt
  BY DEF Inductive, Accounts, MailsInTurn
<1> QED
  BY <1>1, InductiveHolds, PTL

\* The provider accepts no more messages than people have released the reminder.
THEOREM NoAutomaticResendHolds == Spec => []NoAutomaticResend
<1>1. Inductive => NoAutomaticResend
  <2> SUFFICES ASSUME Inductive, NEW r \in Reminders PROVE Len(mails[r]) <= decisions[r]
    BY DEF NoAutomaticResend
  <2> DEFINE c == Cardinality(Chances(r))
             a == Num(status[r] = "APPROVED")
  <2>1. Len(mails[r]) \in Nat /\ decisions[r] \in Nat
    BY DEF Inductive, TypeOK
  <2>2. c \in Nat /\ a \in {0, 1}
    BY TasksAssumption, FS_Subset, FS_CardinalityType, NumType DEF Chances
  <2>3. Len(mails[r]) + c + a <= decisions[r]
    BY DEF Inductive, Accounts, PaidFor
  <2> HIDE DEF c, a
  <2> QED
    BY <2>1, <2>2, <2>3
<1> QED
  BY <1>1, InductiveHolds, PTL

\* Attempts past MaxAttempts are no more than people have asked for.
THEOREM RetriesBoundedHolds == Spec => []RetriesBounded
<1>1. Inductive => RetriesBounded
  <2> SUFFICES ASSUME Inductive, NEW r \in Reminders, outcomes[r] # <<>>
               PROVE  Len(outcomes[r]) < MaxAttempts + decisions[r]
    BY DEF RetriesBounded
  <2> DEFINE w == Cardinality(Waiters(r))
             a == Num(status[r] = "APPROVED")
  <2>1. Len(outcomes[r]) \in Nat /\ decisions[r] \in Nat /\ MaxAttempts \in Nat
    BY MaxAttemptsAssumption DEF Inductive, TypeOK
  <2>2. w \in Nat /\ a \in {0, 1}
    BY TasksAssumption, FS_Subset, FS_CardinalityType, NumType DEF Waiters
  <2>3. Len(outcomes[r]) >= MaxAttempts => Len(outcomes[r]) + w + a < MaxAttempts + decisions[r]
    BY DEF Inductive, Accounts, RetriesPaidFor
  <2> HIDE DEF w, a
  <2> QED
    BY <2>1, <2>2, <2>3
<1> QED
  BY <1>1, InductiveHolds, PTL

-----------------------------------------------------------------------------
(***************************************************************************)
(* What stands behind a row that is reported as sent.  The outcome of an   *)
(* attempt is written once, since an attempt in flight lies beyond the     *)
(* row's count; so an unknown outcome is never forgotten.                  *)
(***************************************************************************)

HasEvidence(r) == mails[r] # <<>> \/ \E n \in DOMAIN outcomes[r] : outcomes[r][n] = "AMBIGUOUS"

\* The statuses that say or may come to say that a message went out.
Reported == SentStatuses \cup {"QUARANTINED"}

ReportsBacked == \A r \in Reminders : status[r] \in Reported => HasEvidence(r)

TasksBacked ==
  \A t \in Tasks :
    /\ task[t].op \in {"SEND", "START", "TRANSMIT"} => ~live.disabled
    /\ task[t].op = "RESOLVE" => HasEvidence(task[t].row)
    /\ task[t].op = "DELIVERED" => mails[task[t].row] # <<>>

UnknownIsPast ==
  \A r \in Reminders : \A n \in DOMAIN outcomes[r] : outcomes[r][n] = "AMBIGUOUS" => n <= tries[r]

Backed == ReportsBacked /\ TasksBacked /\ UnknownIsPast

\* What a step of t must show of itself.
LEMMA BackedStep ==
  ASSUME TypeOK, Backed, NEW t \in Tasks, OthersStay(t), live'.disabled = live.disabled,
         \A r \in Reminders : HasEvidence(r) => HasEvidence(r)',
         \A r \in Reminders : mails[r] # <<>> => mails'[r] # <<>>,
         \A r \in Reminders : status'[r] \in Reported => status[r] \in Reported \/ HasEvidence(r)',
         task'[t].op \in {"SEND", "START", "TRANSMIT"} => ~live.disabled,
         task'[t].op = "RESOLVE" => task'[t].row \in Reminders /\ HasEvidence(task'[t].row),
         task'[t].op = "DELIVERED" => mails'[task'[t].row] # <<>>,
         UnknownIsPast'
  PROVE  Backed'
<1>1. ReportsBacked'
  BY DEF Backed, ReportsBacked, HasEvidence
<1>2. ASSUME NEW u \in Tasks
      PROVE  (/\ task[u].op \in {"SEND", "START", "TRANSMIT"} => ~live.disabled
              /\ task[u].op = "RESOLVE" => HasEvidence(task[u].row)
              /\ task[u].op = "DELIVERED" => mails[task[u].row] # <<>>)'
  <2> DEFINE r == task'[u].row
  <2>1. CASE u = t
    <3>1. task'[u].op = "RESOLVE" => r \in Reminders /\ HasEvidence(r)
      BY <2>1
    <3>2. task'[u].op = "RESOLVE" => (mails'[r] # <<>> \/ \E n \in DOMAIN outcomes'[r] : outcomes'[r][n] = "AMBIGUOUS")
      BY <3>1 DEF HasEvidence
    <3> QED
      BY <2>1, <3>2 DEF HasEvidence
  <2>2. CASE u # t
    <3>1. task'[u] = task[u]
      BY <2>2 DEF OthersStay
    <3>2. task[u].op \in {"RESOLVE", "DELIVERED"} => task[u].row \in Reminders
      BY OperationType
    <3>3. task[u].op = "RESOLVE" => HasEvidence(task[u].row)
      BY DEF Backed, TasksBacked
    <3>4. task'[u].op = "RESOLVE" => (mails'[r] # <<>> \/ \E n \in DOMAIN outcomes'[r] : outcomes'[r][n] = "AMBIGUOUS")
      BY <3>1, <3>2, <3>3 DEF HasEvidence
    <3>5. task'[u].op = "DELIVERED" => mails'[r] # <<>>
      BY <3>1, <3>2 DEF Backed, TasksBacked
    <3>6. task'[u].op \in {"SEND", "START", "TRANSMIT"} => ~live'.disabled
      BY <3>1 DEF Backed, TasksBacked
    <3> QED
      BY <3>4, <3>5, <3>6 DEF HasEvidence
  <2> QED
    BY <2>1, <2>2
<1> QED
  BY <1>1, <1>2, Zenon DEF Backed, TasksBacked

\* A step that writes neither attempts nor messages.
LEMMA BackedQuietly ==
  ASSUME TypeOK, Backed, NEW t \in Tasks, OthersStay(t), live'.disabled = live.disabled,
         UNCHANGED <<tries, outcomes, mails>>,
         \A r \in Reminders : status'[r] \in Reported => status[r] \in Reported \/ HasEvidence(r),
         task'[t].op \in {"SEND", "START", "TRANSMIT"} => ~live.disabled,
         task'[t].op = "RESOLVE" => task'[t].row \in Reminders /\ HasEvidence(task'[t].row),
         task'[t].op # "DELIVERED"
  PROVE  Backed'
<1>1. \A r \in Reminders : HasEvidence(r)' <=> HasEvidence(r)
  BY DEF HasEvidence
<1>2. UnknownIsPast'
  BY DEF Backed, UnknownIsPast
<1> QED
  BY <1>1, <1>2, BackedStep

\* A step that also puts no row into a status of Reported.
LEMMA BackedSilently ==
  ASSUME TypeOK, Backed, NEW t \in Tasks, NEW o, Now(t, o), live'.disabled = live.disabled,
         UNCHANGED <<tries, outcomes, mails>>, o \in Operations,
         \A r \in Reminders : status'[r] \in Reported => status[r] \in Reported,
         o.op \in {"SEND", "START", "TRANSMIT"} => ~live.disabled,
         o.op \notin {"RESOLVE", "DELIVERED"}
  PROVE  Backed'
<1>1. task'[t] = o /\ OthersStay(t)
  BY SetTask DEF OthersStay
<1> QED
  BY <1>1, BackedQuietly

\* People and evaluations: only the resolution of a quarantined attempt
\* reports a message as sent.
LEMMA ServeBacked ==
  ASSUME TypeOK, Backed, NEW t \in Tasks,
         Serve(t) \/ BeginEvaluate(t) \/ \E r \in Reminders : FinishEvaluate(t, r)
  PROVE  Backed'
<1> USE NextOperationType DEF rows, Reported, SentStatuses
<1>1. CASE BeginEvaluate(t)
  <2>1. [op |-> "CREATE", stage |-> NextStage, owed |-> live.owed] \in Operations
    BY NextStageType DEF TypeOK
  <2> QED
    BY <1>1, <2>1, BackedSilently DEF BeginEvaluate
<1>2. ASSUME NEW r \in Reminders, FinishEvaluate(t, r) PROVE Backed'
  <2>1. PICK s \in {"READY_FOR_REVIEW", "SUPPRESSED"} :
          /\ SetStatus(r, s) /\ Now(t, Idle)
          /\ UNCHANGED <<tries, outcomes, mails, live>>
    BY <1>2 DEF FinishEvaluate, Create
  <2>2. \A q \in Reminders : status'[q] \in Reported => status[q] \in Reported
    BY <2>1 DEF SetStatus, TypeOK
  <2> QED
    BY <2>1, <2>2, BackedSilently
<1>3. ASSUME NEW r \in Reminders, Draft(t, r) PROVE Backed'
  <2>1. /\ \A q \in Reminders : status'[q] \in Reported => status[q] \in Reported
        /\ UNCHANGED <<tries, outcomes, mails, live>>
    BY <1>3 DEF Draft, Create, SetStatus, TypeOK
  <2>2. Now(t, Idle) /\ task[t] = Idle
    BY <1>3 DEF Draft, Now, TypeOK
  <2> QED
    BY <2>1, <2>2, BackedSilently
<1>4. ASSUME NEW r \in Reminders, ReadSubmit(t, r) PROVE Backed'
  <2>1. /\ [op |-> "SETTLED", row |-> r] \in Operations
        /\ [op |-> "SUBMIT", row |-> r, stage |-> NextStage, content |-> LiveContent] \in Operations
    BY NextStageType, LiveContentType
  <2>2. UNCHANGED <<status, tries, outcomes, mails, live>>
    BY <1>4 DEF ReadSubmit
  <2>3. PICK o \in Operations : Now(t, o) /\ o.op \in {"SETTLED", "SUBMIT"}
    BY <1>4, <2>1 DEF ReadSubmit
  <2> QED
    BY <2>2, <2>3, BackedSilently
<1>5. ASSUME NEW r \in Reminders, ReadApprove(t, r) \/ ReadCancel(t, r) \/ ReadCancelDraft(t, r) \/ ReadRetry(t, r)
      PROVE  Backed'
  <2>1. PICK op \in {"APPROVE", "CANCEL", "RETRY"} :
          Now(t, [op |-> op, row |-> r]) /\ UNCHANGED <<rows, mails, decisions, live>>
    BY <1>5 DEF ReadApprove, ReadCancel, ReadCancelDraft, ReadRetry, Read
  <2> QED
    BY <2>1, BackedSilently
<1>6. ASSUME NEW r \in Reminders, ReadResolve(t, r) PROVE Backed'
  <2>1. /\ Now(t, [op |-> "RESOLVE", row |-> r]) /\ UNCHANGED <<rows, mails, decisions, live>>
        /\ status[r] = "QUARANTINED"
    BY <1>6 DEF ReadResolve, Read
  <2>2. task'[t] = [op |-> "RESOLVE", row |-> r] /\ OthersStay(t)
    BY <2>1, SetTask DEF OthersStay
  <2>3. HasEvidence(r)
    BY <2>1 DEF Backed, ReportsBacked
  <2> QED
    BY <2>1, <2>2, <2>3, BackedQuietly
<1>7. CASE WriteSubmit(t)
  <2>1. \A q \in Reminders : status'[q] \in Reported => status[q] \in Reported
    BY <1>7, OperationType DEF WriteSubmit, SetStatus, TypeOK
  <2>2. Now(t, Idle) /\ UNCHANGED <<tries, outcomes, mails, live>>
    BY <1>7 DEF WriteSubmit
  <2> QED
    BY <2>1, <2>2, BackedSilently
<1>8. CASE Refresh(t)
  <2>1. task[t].row \in Reminders
    BY <1>8, OperationType DEF Refresh, AfterRefresh
  <2>2. UNCHANGED <<status, tries, outcomes, mails, live>>
    BY <1>8 DEF Refresh, AfterRefresh
  <2>3. PICK o \in Operations : Now(t, o) /\ o.op \in {"SETTLED", "CHECKED", "IDLE"}
    BY <1>8, <2>1 DEF Refresh, AfterRefresh
  <2> QED
    BY <2>2, <2>3, BackedSilently
<1>9. CASE WriteApprove(t) \/ WriteRetry(t) \/ WriteNotSent(t) \/ WriteCancel(t)
  <2>1. PICK s \in {"APPROVED", "CANCELLED"} :
          /\ SetStatus(task[t].row, s) /\ Now(t, Idle)
          /\ UNCHANGED <<tries, outcomes, mails, live>>
    BY <1>9 DEF WriteApprove, WriteRetry, WriteNotSent, WriteCancel, Release
  <2>2. \A q \in Reminders : status'[q] \in Reported => status[q] \in Reported
    BY <2>1 DEF SetStatus, TypeOK
  <2> QED
    BY <2>1, <2>2, BackedSilently
<1>10. CASE WriteSent(t)
  <2>1. task[t].row \in Reminders /\ HasEvidence(task[t].row)
    BY <1>10, OperationType DEF WriteSent, Backed, TasksBacked
  <2>2. \A q \in Reminders : status'[q] \in Reported => status[q] \in Reported \/ HasEvidence(q)
    BY <1>10, <2>1 DEF WriteSent, SetStatus, TypeOK
  <2>3. task'[t] = Idle /\ OthersStay(t)
    BY <1>10, SetTask DEF WriteSent, OthersStay
  <2> QED
    BY <1>10, <2>2, <2>3, BackedQuietly DEF WriteSent
<1> QED
  BY <1>1, <1>2, <1>3, <1>4, <1>5, <1>6, <1>7, <1>8, <1>9, <1>10 DEF Serve

\* The outcome of the attempt in flight is recorded: no earlier one changes,
\* and the row's count catches up.
LEMMA OutcomeWritten ==
  ASSUME TypeOK, AttemptsInTurn, UnknownIsPast, NEW t \in Tasks, InFlight(t),
         NEW o \in Outcomes,
         outcomes' = [outcomes EXCEPT ![task[t].row][task[t].attempt] = o],
         tries' = [tries EXCEPT ![task[t].row] = task[t].attempt], UNCHANGED mails
  PROVE  /\ task[t].row \in Reminders /\ task[t].attempt \in DOMAIN outcomes[task[t].row]
         /\ outcomes'[task[t].row] = [outcomes[task[t].row] EXCEPT ![task[t].attempt] = o]
         /\ \A q \in Reminders : HasEvidence(q) => HasEvidence(q)'
         /\ UnknownIsPast'
<1> DEFINE r == task[t].row
           n == task[t].attempt
<1>1. r \in Reminders /\ n \in Nat
  BY OperationType DEF InFlight
<1>2. outcomes[r] \in Seq(Outcomes) /\ Len(outcomes[r]) \in Nat /\ tries[r] \in Nat
  BY <1>1 DEF TypeOK
<1>3. n = Len(outcomes[r]) /\ n > tries[r]
  BY DEF AttemptsInTurn
<1>4. n \in DOMAIN outcomes[r] /\ outcomes[r][n] # "AMBIGUOUS"
  BY <1>1, <1>2, <1>3 DEF UnknownIsPast
<1>5. outcomes'[r] = [outcomes[r] EXCEPT ![n] = o]
  BY <1>1 DEF TypeOK
<1>6. \A k \in DOMAIN outcomes[r] \ {n} : k \in DOMAIN outcomes'[r] /\ outcomes'[r][k] = outcomes[r][k]
  BY <1>5
<1>7. \A q \in Reminders \ {r} : outcomes'[q] = outcomes[q] /\ tries'[q] = tries[q]
  BY DEF TypeOK
<1>8. tries'[r] = n /\ DOMAIN outcomes'[r] = DOMAIN outcomes[r]
  BY <1>1, <1>5 DEF TypeOK
<1>9. \A q \in Reminders : HasEvidence(q) => HasEvidence(q)'
  <2>1. \A q \in {r} : HasEvidence(q) => HasEvidence(q)'
    BY <1>4, <1>6 DEF HasEvidence
  <2>2. \A q \in Reminders \ {r} : HasEvidence(q) => HasEvidence(q)'
    BY <1>7 DEF HasEvidence
  <2> QED
    BY <2>1, <2>2
<1>10. UnknownIsPast'
  <2> SUFFICES ASSUME NEW q \in Reminders, NEW k \in DOMAIN outcomes'[q]
               PROVE  outcomes'[q][k] = "AMBIGUOUS" => k <= tries'[q]
    BY DEF UnknownIsPast
  <2>1. CASE q = r
    BY <1>2, <1>3, <1>8, <2>1
  <2>2. CASE q # r
    BY <1>7, <2>2 DEF UnknownIsPast
  <2> QED
    BY <2>1, <2>2
<1> QED
  BY <1>1, <1>4, <1>5, <1>9, <1>10

LEMMA AppendKeeps ==
  ASSUME NEW S, NEW s \in Seq(S), NEW e \in S
  PROVE  /\ Append(s, e) # <<>>
         /\ \A n \in DOMAIN s : n \in DOMAIN Append(s, e) /\ Append(s, e)[n] = s[n]
         /\ \A n \in DOMAIN Append(s, e) : n \in DOMAIN s \/ Append(s, e)[n] = e
OBVIOUS

\* A dispatch: a message is transmitted only where sending is not disabled,
\* and an outcome of either kind is what its row then stands on.
LEMMA DispatchBacked ==
  ASSUME TypeOK, Accounts, Backed, NEW t \in Tasks,
         DispatchStep(t) \/ \E r \in Reminders : Claim(t, r)
  PROVE  Backed'
<1> USE DEF rows, Reported, SentStatuses
<1>1. ASSUME NEW r \in Reminders, Claim(t, r) PROVE Backed'
  <2>1. \A q \in Reminders : status'[q] \in Reported => status[q] \in Reported
    BY <1>1 DEF Claim, SetStatus, TypeOK
  <2> QED
    BY <1>1, <2>1, NextOperationType, BackedSilently DEF Claim
<1>2. CASE Examine(t)
  <2>1. task[t].row \in Reminders
    BY <1>2, OperationType DEF Examine
  <2>2. UNCHANGED <<rows, mails, decisions, live>>
    BY <1>2 DEF Examine
  <2>3. content[task[t].row] \in Contents /\ tries[task[t].row] + 1 \in Nat
    BY <2>1 DEF TypeOK
  <2>4. PICK o \in Operations :
          /\ Now(t, o) /\ o.op \in {"IDLE", "RETURN", "REVERT", "SEND"}
          /\ o.op = "SEND" => ~live.disabled
    BY <1>2, <2>1, <2>3, NextOperationType DEF Examine
  <2> QED
    BY <2>2, <2>4, BackedSilently
<1>3. CASE Revert(t) \/ Return(t)
  <2>1. task[t].row \in Reminders
    BY <1>3, OperationType DEF Revert, Return
  <2>2. \A q \in Reminders : status'[q] \in Reported => status[q] \in Reported
    BY <1>3, <2>1 DEF Revert, Return, SetStatus, TypeOK
  <2> QED
    BY <1>3, <2>2, NextOperationType, BackedSilently DEF Revert, Return
<1>4. CASE MarkSending(t)
  <2>1. task[t].row \in Reminders /\ Dispatching(t, "START") \in Operations /\ ~live.disabled
    BY <1>4, OperationType, NextOperationType DEF MarkSending, Dispatching, Backed, TasksBacked
  <2>2. \A q \in Reminders : status'[q] \in Reported => status[q] \in Reported
    BY <1>4, <2>1 DEF MarkSending, SetStatus, TypeOK
  <2>3. Dispatching(t, "START").op = "START"
    BY DEF Dispatching
  <2> QED
    BY <1>4, <2>1, <2>2, <2>3, BackedSilently DEF MarkSending
<1>5. CASE StartAttempt(t)
  <2> DEFINE r == task[t].row
  <2>1. r \in Reminders /\ ~live.disabled /\ Dispatching(t, "TRANSMIT") \in Operations
    BY <1>5, OperationType, NextOperationType DEF StartAttempt, Dispatching, Backed, TasksBacked
  <2>2. PICK o \in Operations : Now(t, o) /\ o.op \in {"IDLE", "TRANSMIT"}
    BY <1>5, <2>1, NextOperationType DEF StartAttempt, Dispatching
  <2>3. task'[t] = o /\ OthersStay(t)
    BY <2>2, SetTask DEF OthersStay
  <2>4. UNCHANGED <<status, tries, mails, live>>
    BY <1>5 DEF StartAttempt
  <2>5. outcomes[r] \in Seq(Outcomes) /\ Len(outcomes[r]) \in Nat
    BY <2>1 DEF TypeOK
  <2>6. \/ UNCHANGED outcomes
        \/ outcomes' = [outcomes EXCEPT ![r] = Append(@, "PENDING")]
    BY <1>5 DEF StartAttempt
  <2>7. \A q \in Reminders :
          outcomes'[q] = outcomes[q] \/ outcomes'[q] = Append(outcomes[q], "PENDING")
    BY <2>1, <2>6 DEF TypeOK
  <2>8. ASSUME NEW q \in Reminders
        PROVE  /\ \A n \in DOMAIN outcomes[q] :
                    n \in DOMAIN outcomes'[q] /\ outcomes'[q][n] = outcomes[q][n]
               /\ \A n \in DOMAIN outcomes'[q] :
                    n \in DOMAIN outcomes[q] \/ outcomes'[q][n] = "PENDING"
    <3>1. outcomes[q] \in Seq(Outcomes) /\ "PENDING" \in Outcomes
      BY DEF TypeOK, Outcomes
    <3> QED
      BY <2>7, <3>1, AppendKeeps
  <2>9. \A q \in Reminders : HasEvidence(q) => HasEvidence(q)'
    BY <2>4, <2>8 DEF HasEvidence
  <2>10. UnknownIsPast'
    <3> SUFFICES ASSUME NEW q \in Reminders, NEW n \in DOMAIN outcomes'[q], outcomes'[q][n] = "AMBIGUOUS"
                 PROVE  n <= tries[q]
      BY <2>4 DEF UnknownIsPast
    <3> QED
      BY <2>8 DEF Backed, UnknownIsPast
  <2> QED
    BY <2>1, <2>2, <2>3, <2>4, <2>9, <2>10, BackedStep
<1>6. ASSUME NEW answer \in Answers, Transmit(t, answer) PROVE Backed'
  <2> DEFINE r == task[t].row
             mail == [attempt |-> task[t].attempt, content |-> task[t].content]
  <2>1. r \in Reminders /\ ~live.disabled
    BY <1>6, OperationType DEF Transmit, Backed, TasksBacked
  <2>2. /\ Dispatching(t, "DELIVERED") \in Operations
        /\ Failing(t, "TIMEOUT") \in Operations /\ Failing(t, "TRANSIENT") \in Operations
    BY <1>6, OperationType, NextOperationType DEF Transmit, Dispatching, Failing, Categories
  <2>3. answer \in {"ACCEPTED", "LOST", "TIMEOUT", "REFUSED"}
    BY AnswersAssumption
  <2>4. UNCHANGED <<status, tries, outcomes, live>>
    BY <1>6 DEF Transmit
  <2>5. CASE answer = "ACCEPTED"
    <3>1. mails' = [mails EXCEPT ![r] = Append(@, mail)] /\ Now(t, Dispatching(t, "DELIVERED"))
      BY <1>6, <2>1, <2>5 DEF Transmit
    <3>2. task'[t] = Dispatching(t, "DELIVERED") /\ OthersStay(t)
      BY <2>2, <3>1, SetTask DEF OthersStay
    <3>3. /\ mails[r] \in Seq(Mails) /\ mail \in Mails /\ mails'[r] = Append(mails[r], mail)
          /\ \A q \in Reminders \ {r} : mails'[q] = mails[q]
      BY <1>6, <2>1, <3>1, OperationType DEF TypeOK, Transmit, Mails
    <3>4. mails'[r] # <<>> /\ \A q \in Reminders : mails[q] # <<>> => mails'[q] # <<>>
      BY <3>3, AppendKeeps
    <3>5. \A q \in Reminders : HasEvidence(q) => HasEvidence(q)'
      BY <2>4, <3>4 DEF HasEvidence
    <3>6. UnknownIsPast'
      BY <2>4 DEF Backed, UnknownIsPast
    <3>7. task'[t].op = "DELIVERED" /\ task'[t].row = r
      BY <3>2 DEF Dispatching
    <3> QED
      BY <2>4, <3>2, <3>4, <3>5, <3>6, <3>7, BackedStep
  <2>6. CASE answer # "ACCEPTED"
    <3>1. PICK o \in Operations : Now(t, o) /\ o.op = "FAIL"
      BY <1>6, <2>2, <2>3, <2>6 DEF Transmit, Failing
    <3>2. task'[t] = o /\ OthersStay(t)
      BY <3>1, SetTask DEF OthersStay
    <3>3. mails' = mails \/ mails' = [mails EXCEPT ![r] = Append(@, mail)]
      BY <1>6 DEF Transmit
    <3>4. \A q \in Reminders : mails[q] # <<>> => mails'[q] # <<>>
      <4>1. mails[r] \in Seq(Mails) /\ mail \in Mails
        BY <1>6, <2>1, OperationType DEF TypeOK, Transmit, Mails
      <4>2. Append(mails[r], mail) # <<>>
        BY <4>1, AppendKeeps
      <4> QED
        BY <2>1, <3>3, <4>2 DEF TypeOK
    <3>5. \A q \in Reminders : HasEvidence(q) => HasEvidence(q)'
      BY <2>4, <3>4 DEF HasEvidence
    <3>6. UnknownIsPast'
      BY <2>4 DEF Backed, UnknownIsPast
    <3> QED
      BY <2>4, <3>1, <3>2, <3>4, <3>5, <3>6, BackedStep
  <2> QED
    BY <2>5, <2>6
<1>7. CASE RecordSent(t)
  <2> DEFINE r == task[t].row
  <2>1. InFlight(t) /\ "SENT" \in Outcomes
    BY <1>7 DEF RecordSent, InFlight, Outcomes
  <2>2. UNCHANGED <<mails, live>> /\ task'[t] = Idle /\ OthersStay(t)
    BY <1>7, NextOperationType, SetTask DEF RecordSent, OthersStay
  <2>3. /\ r \in Reminders /\ UnknownIsPast'
        /\ \A q \in Reminders : HasEvidence(q) => HasEvidence(q)'
    BY <1>7, <2>1, OutcomeWritten DEF RecordSent, Accounts, Backed
  <2>4. mails'[r] # <<>>
    BY <1>7, <2>2 DEF RecordSent, Backed, TasksBacked
  <2>5. \A q \in Reminders : status'[q] \in Reported => status[q] \in Reported \/ HasEvidence(q)'
    BY <1>7, <2>3, <2>4 DEF RecordSent, SetStatus, TypeOK, HasEvidence
  <2>6. Idle.op \notin {"SEND", "START", "TRANSMIT", "RESOLVE", "DELIVERED"} /\ UnknownIsPast'
    BY <2>3 DEF Idle
  <2> QED
    BY <2>2, <2>3, <2>5, <2>6, BackedStep
<1>8. CASE FailToRecord(t)
  <2>1. Failing(t, "PERMANENT") \in Operations /\ Failing(t, "PERMANENT").op = "FAIL"
    BY <1>8, OperationType, NextOperationType DEF FailToRecord, Failing, Categories
  <2> QED
    BY <1>8, <2>1, BackedSilently DEF FailToRecord
<1>9. CASE RecordFailure(t)
  <2> DEFINE r == task[t].row
             n == task[t].attempt
             category == task[t].category
  <2>1. PICK o \in {"AMBIGUOUS", "FAILED"} : o = IF category = "TIMEOUT" THEN "AMBIGUOUS" ELSE "FAILED"
    OBVIOUS
  <2>2. InFlight(t) /\ o \in Outcomes
    BY <1>9, <2>1 DEF RecordFailure, InFlight, Outcomes
  <2>3. /\ outcomes' = [outcomes EXCEPT ![r][n] = o] /\ tries' = [tries EXCEPT ![r] = n]
        /\ SetStatus(r, AfterFailure(category, n)) /\ UNCHANGED <<mails, live>>
    BY <1>9, <2>1 DEF RecordFailure
  <2>4. task'[t] = Idle /\ OthersStay(t)
    BY <1>9, NextOperationType, SetTask DEF RecordFailure, OthersStay
  <2>5. /\ r \in Reminders /\ n \in DOMAIN outcomes[r] /\ UnknownIsPast'
        /\ outcomes'[r] = [outcomes[r] EXCEPT ![n] = o]
        /\ \A q \in Reminders : HasEvidence(q) => HasEvidence(q)'
    <3>1. AttemptsInTurn /\ UnknownIsPast /\ UNCHANGED mails /\ InFlight(t) /\ o \in Outcomes
      BY <2>2, <2>3 DEF Accounts, Backed
    <3>2. outcomes' = [outcomes EXCEPT ![r][n] = o] /\ tries' = [tries EXCEPT ![r] = n]
      BY <2>3
    <3> QED
      BY <3>1, <3>2, TypeOK, OutcomeWritten
  <2>6. AfterFailure(category, n) \in Reported => outcomes'[r][n] = "AMBIGUOUS" /\ n \in DOMAIN outcomes'[r]
    BY <2>1, <2>5 DEF AfterFailure
  <2>7. \A q \in {r} : AfterFailure(category, n) \in Reported => HasEvidence(q)'
    BY <2>6 DEF HasEvidence
  <2>8. \A q \in Reminders : status'[q] \in Reported => status[q] \in Reported \/ HasEvidence(q)'
    BY <2>3, <2>5, <2>7 DEF SetStatus, TypeOK
  <2>9. Idle.op \notin {"SEND", "START", "TRANSMIT", "RESOLVE", "DELIVERED"} /\ UnknownIsPast'
    BY <2>5 DEF Idle
  <2> QED
    BY <2>3, <2>4, <2>5, <2>8, <2>9, BackedStep
<1> QED
  BY <1>1, <1>2, <1>3, <1>4, <1>5, <1>6, <1>7, <1>8, <1>9 DEF DispatchStep

\* The delivery webhook confirms a row that is SENT; the world moves on; a
\* task dies.
LEMMA WorldBacked ==
  ASSUME TypeOK, Backed,
         \/ UNCHANGED vars \/ Change
         \/ \E r \in Reminders : Confirm(r)
         \/ \E t \in Tasks : Die(t)
  PROVE  Backed'
<1> USE DEF rows, Reported, SentStatuses
<1>1. CASE UNCHANGED vars \/ Change
  <2>1. UNCHANGED <<status, tries, outcomes, mails, task>> /\ live'.disabled = live.disabled
    BY <1>1 DEF vars, Change, TypeOK
  <2> QED
    BY <2>1 DEF Backed, ReportsBacked, TasksBacked, UnknownIsPast, HasEvidence
<1>2. ASSUME NEW r \in Reminders, Confirm(r) PROVE Backed'
  <2>1. \A q \in Reminders : status'[q] \in Reported => status[q] \in Reported
    BY <1>2 DEF Confirm, SetStatus, TypeOK
  <2>2. UNCHANGED <<tries, outcomes, mails, task, live>>
    BY <1>2 DEF Confirm
  <2>3. ReportsBacked'
    BY <2>1, <2>2 DEF Backed, ReportsBacked, HasEvidence
  <2> QED
    BY <2>2, <2>3 DEF Backed, TasksBacked, UnknownIsPast, HasEvidence
<1>3. ASSUME NEW t \in Tasks, Die(t) PROVE Backed'
  BY <1>3, NextOperationType, BackedSilently DEF Die
<1> QED
  BY <1>1, <1>2, <1>3

\* A row reported as sent stands on a message the provider accepted or on an
\* attempt of unknown outcome that a person settled, always.
THEOREM NeverFalselySentHolds == Spec => []NeverFalselySent
<1> DEFINE All == Inductive /\ Backed
<1>1. Init => All
  <2> SUFFICES ASSUME Init PROVE Backed
    BY InitType, InitAccounts DEF Inductive
  <2>1. ReportsBacked
    BY DEF Init, ReportsBacked, Reported, SentStatuses
  <2>2. TasksBacked
    BY DEF Init, TasksBacked, Idle
  <2>3. UnknownIsPast
    <3>1. \A r \in Reminders : DOMAIN outcomes[r] = {}
      BY DEF Init
    <3> QED
      BY <3>1 DEF UnknownIsPast
  <2> QED
    BY <2>1, <2>2, <2>3 DEF Backed
<1>2. All /\ [Next]_vars => All'
  <2> SUFFICES ASSUME Inductive, Backed, [Next]_vars PROVE Inductive' /\ Backed'
    OBVIOUS
  <2>1. TypeOK /\ Accounts /\ Inductive' /\ TypeOK'
    BY StepAccounts DEF Inductive
  <2> QED
    BY <2>1, ServeBacked, DispatchBacked, WorldBacked DEF Next, Work, ClaimDue, DispatchNow, Tasks
<1>3. All => NeverFalselySent
  BY DEF Backed, ReportsBacked, Reported, NeverFalselySent, HasEvidence
<1> QED
  BY <1>1, <1>2, <1>3, PTL DEF Spec
-----------------------------------------------------------------------------
(***************************************************************************)
(* Announcements                                                           *)
(***************************************************************************)
AnnouncementStatuses == {"DRAFT", "SCHEDULED", "SENDING", "SENT", "FAILED", "CANCELLED"}
Places == {"RESTING", "RESOLVE", "ROWS", "NOTIFY", "SHOW", "COMMIT", "MAIL", "BROKEN", "DRAIN"}
Mailing == {"MAIL", "BROKEN", "DRAIN"}
Phases == {"READ", "SEND", "SENT", "FAILED", "DONE"}
PollRecords == [pc : Places, to : SUBSET Contacts, lane : [Contacts -> Phases]]

\* Every variable has its type.
AnnouncementTypeOK ==
  /\ announcement \in AnnouncementStatuses /\ audience \in SUBSET Contacts
  /\ sheet \in [Contacts -> {"NONE", "PENDING", "SENT", "FAILED"}]
  /\ shown \in SUBSET Users /\ inbox \in [Users -> Nat]
  /\ asked \in [Managers -> {"NONE", "SCHEDULED", "CANCELLED"}]
  /\ poll \in [Polls -> PollRecords]
  /\ accepted \in [Contacts -> Nat] /\ gone \in BOOLEAN
  /\ lost \in SUBSET Contacts /\ overlapped \in BOOLEAN

Told == {u \in Users : inbox[u] > 0}
Mailed == {c \in Contacts : accepted[c] > 0}
MailReported == {c \in Contacts : sheet[c] = "SENT"}
AnnouncementReported == (shown \X {"IN_APP"}) \cup (MailReported \X {"EMAIL"})

\* A poll past its rows has those it delivers to on the record; one that is
\* to show the announcement has notified; mails come last, after it has gone
\* out, and one taken for sent was accepted.
OnRecord ==
  \A p \in Polls :
    /\ poll[p].pc \in {"NOTIFY", "SHOW", "COMMIT", "MAIL"} => poll[p].to \subseteq Communication!Addressed
    /\ poll[p].pc = "SHOW" => poll[p].to \cap Users \subseteq Told
    /\ \A c \in Contacts :
         /\ poll[p].lane[c] # "DONE" => gone /\ c \in Communication!Addressed /\ poll[p].pc \in Mailing
         /\ poll[p].lane[c] = "SENT" => c \in Mailed

\* While polls do not overlap one of them is active at most, and a mail that
\* is not lost is accepted once: recorded, or about to be.
Alone == \A p, q \in Polls : Communication!Active(p) /\ Communication!Active(q) => p = q
Once(c) ==
  /\ accepted[c] <= 1
  /\ accepted[c] = 1 => sheet[c] = "SENT" \/ \E p \in Polls : poll[p].lane[c] = "SENT"
  /\ \A p \in Polls : poll[p].lane[c] \in {"SEND", "FAILED"} => accepted[c] = 0
MailedOnce == ~overlapped => Alone /\ \A c \in Contacts \ lost : Once(c)

AnnouncementInductive == AnnouncementTypeOK /\ OnRecord /\ MailedOnce

\* What an announcement promises is shown as it was.
Same == sheet' = sheet /\ gone' = gone /\ inbox' = inbox /\ accepted' = accepted /\ shown' = shown

-----------------------------------------------------------------------------
LEMMA RestingType == Communication!Resting \in PollRecords /\ Communication!Resting.pc = "RESTING" /\ \A c \in Contacts : Communication!Resting.lane[c] = "DONE"
BY DEF Communication!Resting, PollRecords, Places, Phases

LEMMA AgainType == \A n \in Nat : Communication!Again(n) \in Nat /\ Communication!Again(n) > 0
BY DEF Communication!Again

LEMMA InitInductive == Communication!Init => AnnouncementInductive
<1> SUFFICES ASSUME Communication!Init PROVE AnnouncementInductive
  OBVIOUS
<1>1. AnnouncementTypeOK
  BY RestingType DEF Communication!Init, AnnouncementTypeOK, AnnouncementStatuses
<1>2. \A p \in Polls : poll[p] = Communication!Resting
  BY DEF Communication!Init
<1>3. OnRecord
  BY <1>2, RestingType DEF OnRecord
<1>4. MailedOnce
  BY <1>2, RestingType DEF Communication!Init, MailedOnce, Alone, Communication!Active, Once
<1> QED
  BY <1>1, <1>3, <1>4 DEF AnnouncementInductive

\* A poll that is not at rest is active.
LEMMA ActiveIf ==
  ASSUME NEW p \in Polls, poll[p].pc # "RESTING" \/ \E c \in Contacts : poll[p].lane[c] # "DONE"
  PROVE  Communication!Active(p)
BY RestingType DEF Communication!Active

-----------------------------------------------------------------------------
(***************************************************************************)
(* Types                                                                   *)
(***************************************************************************)

LEMMA ManagerType ==
  ASSUME AnnouncementTypeOK, Communication!ChangeAudience \/ Communication!Reclaim \/ \E m \in Managers : Communication!Ask(m) \/ Communication!Answer(m)
  PROVE  AnnouncementTypeOK'
BY DEF AnnouncementTypeOK, Communication!ChangeAudience, Communication!Reclaim, Communication!Ask, Communication!Answer, AnnouncementStatuses

LEMMA CrashType == AnnouncementTypeOK /\ Communication!Crash => AnnouncementTypeOK'
BY RestingType DEF AnnouncementTypeOK, Communication!Crash

\* What becomes of the polls when one mail reaches another phase.
LEMMA LaneStep ==
  ASSUME AnnouncementTypeOK, NEW p \in Polls, NEW c \in Contacts, NEW phase \in Phases, Communication!Lane(p, c, phase)
  PROVE  /\ poll' \in [Polls -> PollRecords]
         /\ \A q \in Polls : poll'[q].pc = poll[q].pc /\ poll'[q].to = poll[q].to
         /\ \A q \in Polls, d \in Contacts :
              poll'[q].lane[d] = IF q = p /\ d = c THEN phase ELSE poll[q].lane[d]
<1> DEFINE new == [poll[p] EXCEPT !.lane[c] = phase]
<1>1. \A q \in Polls : poll[q] \in PollRecords
  BY DEF AnnouncementTypeOK
<1>2. poll' = [poll EXCEPT ![p] = new]
  BY DEF Communication!Lane, AnnouncementTypeOK
<1>3. new \in PollRecords /\ new.pc = poll[p].pc /\ new.to = poll[p].to
  BY <1>1 DEF PollRecords
<1>4. \A d \in Contacts : new.lane[d] = IF d = c THEN phase ELSE poll[p].lane[d]
  BY <1>1 DEF PollRecords
<1> HIDE DEF new
<1> QED
  BY <1>1, <1>2, <1>3, <1>4 DEF AnnouncementTypeOK

\* ... and when a poll gets to another place.
LEMMA PlaceStep ==
  ASSUME AnnouncementTypeOK, NEW p \in Polls, NEW place \in Places, Communication!GoTo(p, place)
  PROVE  /\ poll' \in [Polls -> PollRecords]
         /\ \A q \in Polls : poll'[q].to = poll[q].to /\ poll'[q].lane = poll[q].lane
         /\ \A q \in Polls : poll'[q].pc = IF q = p THEN place ELSE poll[q].pc
BY DEF AnnouncementTypeOK, PollRecords, Communication!GoTo

LEMMA AnnouncementMailType ==
  ASSUME AnnouncementTypeOK, NEW p \in Polls, NEW c \in Contacts,
         Communication!ReadRow(p, c) \/ Communication!Send(p, c) \/ Communication!Record(p, c) \/ Communication!RecordFails(p, c)
  PROVE  AnnouncementTypeOK'
<1>1. \E phase \in Phases : Communication!Lane(p, c, phase)
  BY DEF Communication!ReadRow, Communication!Send, Communication!Record, Communication!RecordFails, Phases
<1>2. poll' \in [Polls -> PollRecords]
  BY <1>1, LaneStep
<1>3. CASE Communication!ReadRow(p, c)
  BY <1>2, <1>3 DEF AnnouncementTypeOK, Communication!ReadRow
<1>4. CASE Communication!Send(p, c)
  BY <1>2, <1>4, AgainType DEF AnnouncementTypeOK, Communication!Send
<1>5. CASE Communication!Record(p, c)
  BY <1>2, <1>5 DEF AnnouncementTypeOK, Communication!Record
<1>6. CASE Communication!RecordFails(p, c)
  BY <1>2, <1>6 DEF AnnouncementTypeOK, Communication!RecordFails
<1> QED
  BY <1>3, <1>4, <1>5, <1>6

LEMMA DeliveryType ==
  ASSUME AnnouncementTypeOK, NEW p \in Polls,
         \/ Communication!Claim(p) \/ Communication!Resolve(p) \/ Communication!CreateRows(p) \/ Communication!Notify(p) \/ Communication!Show(p) \/ Communication!Commit(p)
  PROVE  AnnouncementTypeOK'
<1>0. poll \in [Polls -> PollRecords] /\ poll[p] \in PollRecords
  BY DEF AnnouncementTypeOK
<1>1. CASE Communication!Claim(p)
  BY <1>1, PlaceStep DEF AnnouncementTypeOK, Communication!Claim, Places, AnnouncementStatuses, Communication!Active
<1>2. CASE Communication!Resolve(p)
  BY <1>0, <1>2 DEF AnnouncementTypeOK, Communication!Resolve, PollRecords, Places
<1>3. CASE Communication!CreateRows(p)
  BY <1>3, PlaceStep DEF AnnouncementTypeOK, Communication!CreateRows, Places
<1>4. CASE Communication!Notify(p)
  BY <1>4, PlaceStep, AgainType DEF AnnouncementTypeOK, Communication!Notify, Places
<1>5. CASE Communication!Show(p)
  BY <1>5, PlaceStep DEF AnnouncementTypeOK, Communication!Show, Places
<1>6. CASE Communication!Commit(p)
  <2>1. poll' \in [Polls -> PollRecords]
    BY <1>0, <1>6 DEF Communication!Commit, PollRecords, Places, Phases
  <2> QED
    BY <1>6, <2>1 DEF AnnouncementTypeOK, Communication!Commit, AnnouncementStatuses
<1> QED
  BY <1>1, <1>2, <1>3, <1>4, <1>5, <1>6

-----------------------------------------------------------------------------
(***************************************************************************)
(* Polls that break off, or are through                                    *)
(***************************************************************************)

\* A poll does no more with the announcement, or drops a recipient whose mail
\* is not under way.
Windup(p) ==
  /\ Same /\ lost' = lost /\ overlapped' = overlapped
  /\ Communication!Active(p) /\ \A q \in Polls : q # p => poll'[q] = poll[q]
  /\ poll' \in [Polls -> PollRecords] /\ poll'[p].pc \in {"RESTING", "BROKEN", "DRAIN"}
  /\ \A c \in Contacts :
       /\ poll'[p].lane[c] # "DONE" => poll'[p].pc # "RESTING"
       /\ poll'[p].lane[c] = poll[p].lane[c] \/ (poll'[p].lane[c] = "DONE" /\ poll[p].lane[c] \in {"READ", "FAILED"})

WindsUp(p) ==
  \/ Communication!Finish(p) \/ Communication!Break(p) \/ Communication!MarkFailed(p) \/ Communication!MarkNothing(p)
  \/ \E c \in Contacts : Communication!BreakLane(p, c)

LEMMA LeaveStep ==
  ASSUME AnnouncementTypeOK, NEW p \in Polls, Communication!Leave(p)
  PROVE  /\ \A q \in Polls : q # p => poll'[q] = poll[q]
         /\ poll' \in [Polls -> PollRecords]
         /\ \/ poll'[p] = Communication!Resting /\ \A c \in Contacts : poll[p].lane[c] = "DONE"
            \/ poll'[p].pc = "DRAIN" /\ poll'[p].lane = poll[p].lane
<1>1. poll[p] \in PollRecords /\ [poll[p] EXCEPT !.pc = "DRAIN"] \in PollRecords
  BY DEF AnnouncementTypeOK, PollRecords, Places
<1>2. poll' = [poll EXCEPT ![p] = IF \A c \in Contacts : poll[p].lane[c] = "DONE" THEN Communication!Resting ELSE [poll[p] EXCEPT !.pc = "DRAIN"]]
  BY DEF Communication!Leave, AnnouncementTypeOK
<1>3. CASE \A c \in Contacts : poll[p].lane[c] = "DONE"
  BY <1>2, <1>3, RestingType DEF AnnouncementTypeOK
<1>4. CASE ~ \A c \in Contacts : poll[p].lane[c] = "DONE"
  <2>1. poll' = [poll EXCEPT ![p] = [poll[p] EXCEPT !.pc = "DRAIN"]]
    BY <1>2, <1>4
  <2>2. [poll[p] EXCEPT !.pc = "DRAIN"].pc = "DRAIN" /\ [poll[p] EXCEPT !.pc = "DRAIN"].lane = poll[p].lane
    BY <1>1 DEF PollRecords
  <2> QED
    BY <1>1, <2>1, <2>2 DEF AnnouncementTypeOK
<1> QED
  BY <1>3, <1>4

LEMMA WindingUp ==
  ASSUME AnnouncementTypeOK, OnRecord, NEW p \in Polls, WindsUp(p)
  PROVE  Windup(p)
<1>1. Same /\ lost' = lost /\ overlapped' = overlapped
  BY DEF WindsUp, Same, Communication!Finish, Communication!Break, Communication!BreakLane, Communication!MarkFailed, Communication!MarkNothing
<1>2. CASE Communication!Finish(p)
  <2>1. poll' = [poll EXCEPT ![p] = Communication!Resting] /\ \A c \in Contacts : poll[p].lane[c] = "DONE"
    BY <1>2 DEF Communication!Finish
  <2>2. Communication!Active(p)
    BY <1>2, ActiveIf DEF Communication!Finish
  <2> QED
    BY <1>1, <2>1, <2>2, RestingType DEF Windup, AnnouncementTypeOK
<1>3. CASE Communication!Break(p)
  <2>1. Communication!Active(p)
    BY <1>3, ActiveIf DEF Communication!Break
  <2>2. Communication!GoTo(p, "BROKEN") /\ "BROKEN" \in Places
    BY <1>3 DEF Communication!Break, Places
  <2>3. /\ poll' \in [Polls -> PollRecords]
        /\ \A q \in Polls : poll'[q].lane = poll[q].lane
        /\ poll'[p].pc = "BROKEN"
    BY <2>2, PlaceStep
  <2>4. \A q \in Polls : q # p => poll'[q] = poll[q]
    BY <2>2 DEF Communication!GoTo, AnnouncementTypeOK
  <2>5. \A c \in Contacts : poll[p].lane[c] = "DONE"
    BY <1>3 DEF Communication!Break, OnRecord, Mailing
  <2> QED
    BY <1>1, <2>1, <2>3, <2>4, <2>5 DEF Windup
<1>4. CASE Communication!MarkFailed(p) \/ Communication!MarkNothing(p)
  <2>1. poll[p].pc = "BROKEN" /\ Communication!Leave(p)
    BY <1>4 DEF Communication!MarkFailed, Communication!MarkNothing
  <2>2. Communication!Active(p)
    BY <2>1, ActiveIf
  <2> QED
    BY <1>1, <2>1, <2>2, LeaveStep, RestingType DEF Windup
<1>5. ASSUME NEW c \in Contacts, Communication!BreakLane(p, c)
      PROVE  Windup(p)
  <2>1. poll[p].lane[c] \in {"READ", "FAILED"}
    BY <1>5 DEF Communication!BreakLane
  <2>2. Communication!Active(p) /\ poll[p].pc \in Mailing
    BY <2>1, ActiveIf DEF OnRecord
  <2>3. poll[p] \in PollRecords
    BY DEF AnnouncementTypeOK
  <2> DEFINE new == [poll[p] EXCEPT !.lane[c] = "DONE", !.pc = IF poll[p].pc = "MAIL" THEN "BROKEN" ELSE poll[p].pc]
  <2>4. new \in PollRecords /\ new.pc \in {"BROKEN", "DRAIN"}
    BY <2>2, <2>3 DEF PollRecords, Places, Phases, Mailing
  <2>5. \A d \in Contacts : new.lane[d] = IF d = c THEN "DONE" ELSE poll[p].lane[d]
    BY <2>3 DEF PollRecords
  <2>6. poll' = [poll EXCEPT ![p] = new]
    BY <1>5, <2>3 DEF Communication!BreakLane, AnnouncementTypeOK, PollRecords
  <2> HIDE DEF new
  <2>7. poll'[p] = new /\ poll' \in [Polls -> PollRecords] /\ \A q \in Polls : q # p => poll'[q] = poll[q]
    BY <2>4, <2>6 DEF AnnouncementTypeOK
  <2> QED
    BY <1>1, <2>1, <2>2, <2>4, <2>5, <2>7 DEF Windup
<1> QED
  BY <1>2, <1>3, <1>4, <1>5 DEF WindsUp

LEMMA WindupType ==
  ASSUME AnnouncementTypeOK, NEW p \in Polls, WindsUp(p), Windup(p)
  PROVE  AnnouncementTypeOK'
<1>1. announcement' \in AnnouncementStatuses /\ audience' = audience /\ asked' = asked
  BY DEF WindsUp, Communication!Finish, Communication!Break, Communication!BreakLane, Communication!MarkFailed, Communication!MarkNothing, AnnouncementTypeOK, AnnouncementStatuses
<1> QED
  BY <1>1 DEF AnnouncementTypeOK, Windup, Same

-----------------------------------------------------------------------------
(***************************************************************************)
(* What polls may rely on                                                  *)
(***************************************************************************)

\* A step that gives the polls nothing new to rely on and takes nothing away.
LEMMA OnRecordKept ==
  ASSUME OnRecord, Communication!Addressed \subseteq Communication!Addressed', Told \subseteq Told', Mailed \subseteq Mailed', gone => gone',
         \A q \in Polls : poll'[q] = poll[q] \/ poll'[q] = Communication!Resting
  PROVE  OnRecord'
<1>1. ASSUME NEW q \in Polls, poll'[q] = poll[q]
      PROVE  /\ poll'[q].pc \in {"NOTIFY", "SHOW", "COMMIT", "MAIL"} => poll'[q].to \subseteq Communication!Addressed'
             /\ poll'[q].pc = "SHOW" => poll'[q].to \cap Users \subseteq Told'
             /\ \A c \in Contacts :
                  /\ poll'[q].lane[c] # "DONE" => gone' /\ c \in Communication!Addressed' /\ poll'[q].pc \in Mailing
                  /\ poll'[q].lane[c] = "SENT" => c \in Mailed'
  BY <1>1 DEF OnRecord
<1>2. ASSUME NEW q \in Polls, poll'[q] = Communication!Resting
      PROVE  /\ poll'[q].pc \in {"NOTIFY", "SHOW", "COMMIT", "MAIL"} => poll'[q].to \subseteq Communication!Addressed'
             /\ poll'[q].pc = "SHOW" => poll'[q].to \cap Users \subseteq Told'
             /\ \A c \in Contacts :
                  /\ poll'[q].lane[c] # "DONE" => gone' /\ c \in Communication!Addressed' /\ poll'[q].pc \in Mailing
                  /\ poll'[q].lane[c] = "SENT" => c \in Mailed'
  BY <1>2, RestingType
<1> QED
  BY <1>1, <1>2 DEF OnRecord

LEMMA WindupOnRecord ==
  ASSUME AnnouncementTypeOK, OnRecord, NEW p \in Polls, Windup(p)
  PROVE  OnRecord'
<1>1. Communication!Addressed' = Communication!Addressed /\ Told' = Told /\ Mailed' = Mailed /\ gone' = gone
  BY DEF Windup, Same, Communication!Addressed, Told, Mailed
<1>2. \A c \in Contacts :
        /\ poll'[p].lane[c] # "DONE" => poll[p].lane[c] # "DONE" /\ poll'[p].pc \in Mailing
        /\ poll'[p].lane[c] = "SENT" => poll[p].lane[c] = "SENT"
  BY DEF Windup, Mailing
<1>3. poll'[p].pc \in {"RESTING", "BROKEN", "DRAIN"} /\ \A q \in Polls : q # p => poll'[q] = poll[q]
  BY DEF Windup
<1> QED
  BY <1>1, <1>2, <1>3 DEF OnRecord

LEMMA MailOnRecord ==
  ASSUME AnnouncementTypeOK, OnRecord, NEW p \in Polls, NEW c \in Contacts,
         Communication!ReadRow(p, c) \/ Communication!Send(p, c) \/ Communication!Record(p, c) \/ Communication!RecordFails(p, c)
  PROVE  OnRecord'
<1>1. poll[p].lane[c] # "DONE" /\ gone' = gone /\ inbox' = inbox
  BY DEF Communication!ReadRow, Communication!Send, Communication!Record, Communication!RecordFails
<1>2. Communication!Addressed' = Communication!Addressed
  <2>1. CASE Communication!ReadRow(p, c) \/ Communication!Send(p, c) \/ Communication!RecordFails(p, c)
    BY <2>1 DEF Communication!ReadRow, Communication!Send, Communication!RecordFails, Communication!Addressed
  <2>2. CASE Communication!Record(p, c)
    BY <1>1, <2>2 DEF Communication!Addressed, AnnouncementTypeOK, Communication!Record, OnRecord
  <2> QED
    BY <2>1, <2>2
<1>3. Told' = Told
  BY <1>1 DEF Told
<1>4. Mailed \subseteq Mailed'
  <2>1. CASE Communication!ReadRow(p, c) \/ Communication!Record(p, c) \/ Communication!RecordFails(p, c)
    BY <2>1 DEF Communication!ReadRow, Communication!Record, Communication!RecordFails, Mailed
  <2>2. CASE Communication!Send(p, c) /\ accepted' = accepted
    BY <2>2 DEF Mailed
  <2>3. CASE Communication!Send(p, c) /\ accepted' = [accepted EXCEPT ![c] = Communication!Again(@)]
    BY <2>3, AgainType DEF Mailed, AnnouncementTypeOK
  <2> QED
    BY <2>1, <2>2, <2>3 DEF Communication!Send
<1>5. PICK phase \in Phases : Communication!Lane(p, c, phase) /\ (phase = "SENT" => c \in Mailed')
  <2>1. CASE Communication!ReadRow(p, c)
    BY <2>1 DEF Communication!ReadRow, Phases
  <2>2. CASE Communication!Send(p, c)
    <3>1. CASE Communication!Lane(p, c, "SENT")
      <4>1. accepted' = [accepted EXCEPT ![c] = Communication!Again(@)] \/ Communication!Lane(p, c, "FAILED")
        BY <2>2 DEF Communication!Send
      <4>2. CASE accepted' = [accepted EXCEPT ![c] = Communication!Again(@)]
        BY <3>1, <4>2, AgainType DEF Mailed, AnnouncementTypeOK, Phases
      <4>3. CASE Communication!Lane(p, c, "FAILED")
        BY <4>3 DEF Phases
      <4> QED
        BY <4>1, <4>2, <4>3
    <3>2. CASE Communication!Lane(p, c, "FAILED")
      BY <3>2 DEF Phases
    <3> QED
      BY <2>2, <3>1, <3>2 DEF Communication!Send
  <2>3. CASE Communication!Record(p, c)
    BY <2>3 DEF Communication!Record, Phases
  <2>4. CASE Communication!RecordFails(p, c)
    BY <2>4 DEF Communication!RecordFails, Phases
  <2> QED
    BY <2>1, <2>2, <2>3, <2>4
<1>6. /\ \A q \in Polls : poll'[q].pc = poll[q].pc /\ poll'[q].to = poll[q].to
      /\ \A q \in Polls, d \in Contacts :
           poll'[q].lane[d] = IF q = p /\ d = c THEN phase ELSE poll[q].lane[d]
  BY <1>5, LaneStep
<1> QED
  BY <1>1, <1>2, <1>3, <1>4, <1>5, <1>6 DEF OnRecord

LEMMA DeliveryOnRecord ==
  ASSUME AnnouncementTypeOK, OnRecord, NEW p \in Polls,
         Communication!Claim(p) \/ Communication!Resolve(p) \/ Communication!CreateRows(p) \/ Communication!Notify(p) \/ Communication!Show(p)
  PROVE  OnRecord'
<1>1. gone' = gone /\ accepted' = accepted
  BY DEF Communication!Claim, Communication!Resolve, Communication!CreateRows, Communication!Notify, Communication!Show
<1>2. Mailed' = Mailed
  BY <1>1 DEF Mailed
<1>0. \A c \in Contacts : poll[p].lane[c] = "DONE"
  <2>1. CASE Communication!Claim(p)
    BY <2>1, RestingType DEF Communication!Claim, Communication!Active
  <2>2. CASE ~Communication!Claim(p)
    <3>1. poll[p].pc \notin Mailing
      BY <2>2 DEF Mailing, Communication!Resolve, Communication!CreateRows, Communication!Notify, Communication!Show
    <3> QED
      BY <3>1 DEF OnRecord
  <2> QED
    BY <2>1, <2>2
<1>3. CASE Communication!Claim(p)
  <2>1. /\ \A q \in Polls : poll'[q].to = poll[q].to /\ poll'[q].lane = poll[q].lane
        /\ \A q \in Polls : poll'[q].pc = IF q = p THEN "RESOLVE" ELSE poll[q].pc
    BY <1>3, PlaceStep DEF Communication!Claim, Places
  <2>2. Communication!Addressed' = Communication!Addressed /\ Told' = Told
    BY <1>3 DEF Communication!Claim, Communication!Addressed, Told
  <2> QED
    BY <1>0, <1>1, <1>2, <2>1, <2>2 DEF OnRecord
<1>4. CASE Communication!Resolve(p)
  <2>1. Communication!Addressed' = Communication!Addressed /\ Told' = Told
    BY <1>4 DEF Communication!Resolve, Communication!Addressed, Told
  <2>2. /\ \A q \in Polls : q # p => poll'[q] = poll[q]
        /\ poll'[p].lane = poll[p].lane /\ poll'[p].to = audience
        /\ poll'[p].pc = IF audience = {} THEN "COMMIT" ELSE "ROWS"
    BY <1>4 DEF Communication!Resolve, AnnouncementTypeOK, PollRecords
  <2> QED
    BY <1>0, <1>1, <1>2, <2>1, <2>2 DEF OnRecord
<1>5. CASE Communication!CreateRows(p)
  <2>1. PICK place \in {"NOTIFY", "COMMIT"} : Communication!GoTo(p, place)
    BY <1>5 DEF Communication!CreateRows
  <2>2. /\ \A q \in Polls : poll'[q].to = poll[q].to /\ poll'[q].lane = poll[q].lane
        /\ \A q \in Polls : poll'[q].pc = IF q = p THEN place ELSE poll[q].pc
    BY <2>1, PlaceStep DEF Places
  <2>3. Told' = Told
    BY <1>5 DEF Communication!CreateRows, Told
  <2>4. Communication!Addressed \subseteq Communication!Addressed' /\ poll[p].to \subseteq Communication!Addressed'
    BY <1>5 DEF Communication!CreateRows, Communication!Addressed, AnnouncementTypeOK, PollRecords
  <2> QED
    BY <1>0, <1>1, <1>2, <2>1, <2>2, <2>3, <2>4 DEF OnRecord
<1>6. CASE Communication!Notify(p)
  <2>1. /\ \A q \in Polls : poll'[q].to = poll[q].to /\ poll'[q].lane = poll[q].lane
        /\ \A q \in Polls : poll'[q].pc = IF q = p THEN "SHOW" ELSE poll[q].pc
    BY <1>6, PlaceStep DEF Communication!Notify, Places
  <2>2. Communication!Addressed' = Communication!Addressed
    BY <1>6 DEF Communication!Notify, Communication!Addressed
  <2>3. Told \subseteq Told' /\ poll[p].to \cap Users \subseteq Told'
    BY <1>6, AgainType DEF Communication!Notify, Told, AnnouncementTypeOK
  <2>4. poll[p].to \subseteq Communication!Addressed
    BY <1>6 DEF Communication!Notify, OnRecord
  <2> QED
    BY <1>0, <1>1, <1>2, <2>1, <2>2, <2>3, <2>4 DEF OnRecord
<1>7. CASE Communication!Show(p)
  <2>1. /\ \A q \in Polls : poll'[q].to = poll[q].to /\ poll'[q].lane = poll[q].lane
        /\ \A q \in Polls : poll'[q].pc = IF q = p THEN "COMMIT" ELSE poll[q].pc
    BY <1>7, PlaceStep DEF Communication!Show, Places
  <2>2. Communication!Addressed' = Communication!Addressed /\ Told' = Told
    BY <1>7 DEF Communication!Show, Communication!Addressed, Told
  <2>3. poll[p].to \subseteq Communication!Addressed
    BY <1>7 DEF Communication!Show, OnRecord
  <2> QED
    BY <1>0, <1>1, <1>2, <2>1, <2>2, <2>3 DEF OnRecord
<1> QED
  BY <1>3, <1>4, <1>5, <1>6, <1>7

LEMMA CommitOnRecord ==
  ASSUME AnnouncementTypeOK, OnRecord, NEW p \in Polls, Communication!Commit(p)
  PROVE  OnRecord'
<1>1. gone' /\ accepted' = accepted /\ sheet' = sheet /\ inbox' = inbox
  BY DEF Communication!Commit
<1>2. Communication!Addressed' = Communication!Addressed /\ Told' = Told /\ Mailed' = Mailed
  BY <1>1 DEF Communication!Addressed, Told, Mailed
<1>3. poll[p].to \subseteq Communication!Addressed
  BY DEF Communication!Commit, OnRecord
<1>4. /\ \A q \in Polls : q # p => poll'[q] = poll[q]
      /\ poll'[p].pc = "MAIL" /\ poll'[p].to = poll[p].to
      /\ \A c \in Contacts : poll'[p].lane[c] = IF c \in poll[p].to THEN "READ" ELSE "DONE"
  BY DEF Communication!Commit, AnnouncementTypeOK, PollRecords
<1> QED
  BY <1>1, <1>2, <1>3, <1>4 DEF OnRecord, Mailing

LEMMA QuietOnRecord ==
  ASSUME AnnouncementTypeOK, OnRecord,
         \/ Communication!ChangeAudience \/ Communication!Reclaim \/ Communication!Crash \/ UNCHANGED Communication!vars
         \/ \E m \in Managers : Communication!Ask(m) \/ Communication!Answer(m)
  PROVE  OnRecord'
<1>1. gone' = gone /\ accepted' = accepted /\ sheet' = sheet /\ inbox' = inbox
  BY DEF Communication!ChangeAudience, Communication!Reclaim, Communication!Crash, Communication!Ask, Communication!Answer, Communication!vars
<1>2. Communication!Addressed' = Communication!Addressed /\ Told' = Told /\ Mailed' = Mailed
  BY <1>1 DEF Communication!Addressed, Told, Mailed
<1>3. \A q \in Polls : poll'[q] = poll[q] \/ poll'[q] = Communication!Resting
  BY DEF Communication!ChangeAudience, Communication!Reclaim, Communication!Crash, Communication!Ask, Communication!Answer, AnnouncementTypeOK, Communication!vars
<1> QED
  BY <1>1, <1>2, <1>3, OnRecordKept

-----------------------------------------------------------------------------
(***************************************************************************)
(* Mailed once                                                             *)
(***************************************************************************)

LEMMA MailMailedOnce ==
  ASSUME AnnouncementTypeOK, MailedOnce, NEW p \in Polls, NEW c \in Contacts,
         Communication!ReadRow(p, c) \/ Communication!Send(p, c) \/ Communication!Record(p, c) \/ Communication!RecordFails(p, c), ~overlapped'
  PROVE  Alone' /\ \A d \in Contacts \ lost' : Once(d)'
<1>1. poll[p].lane[c] # "DONE" /\ overlapped' = overlapped
  BY DEF Communication!ReadRow, Communication!Send, Communication!Record, Communication!RecordFails
<1>2. Communication!Active(p) /\ Alone /\ \A d \in Contacts \ lost : Once(d)
  BY <1>1, ActiveIf DEF MailedOnce
<1>3. PICK phase \in Phases : Communication!Lane(p, c, phase)
  BY DEF Communication!ReadRow, Communication!Send, Communication!Record, Communication!RecordFails, Phases
<1>4. /\ poll' \in [Polls -> PollRecords]
      /\ \A q \in Polls, d \in Contacts :
           poll'[q].lane[d] = IF q = p /\ d = c THEN phase ELSE poll[q].lane[d]
  BY <1>3, LaneStep
<1>5. \A q \in Polls : q # p => ~Communication!Active(q) /\ poll'[q] = Communication!Resting /\ poll[q] = Communication!Resting
  BY <1>2, <1>3 DEF Alone, Communication!Active, Communication!Lane, AnnouncementTypeOK
<1>6. Alone'
  BY <1>5 DEF Alone, Communication!Active
<1>7. ASSUME NEW d \in Contacts \ lost', d # c
      PROVE  Once(d)'
  <2>1. d \in Contacts \ lost /\ accepted'[d] = accepted[d] /\ sheet'[d] = sheet[d]
    BY <1>7 DEF Communication!ReadRow, Communication!Send, Communication!Record, Communication!RecordFails, AnnouncementTypeOK
  <2>2. \A q \in Polls : poll'[q].lane[d] = poll[q].lane[d]
    BY <1>4, <1>7
  <2> QED
    BY <1>2, <2>1, <2>2 DEF Once
<1>8. ASSUME c \notin lost'
      PROVE  Once(c)'
  <2>1. c \notin lost /\ ~Communication!RecordFails(p, c)
    BY <1>8 DEF Communication!ReadRow, Communication!Send, Communication!Record, Communication!RecordFails
  <2>2. accepted[c] \in Nat /\ Once(c)
    BY <1>2, <2>1 DEF AnnouncementTypeOK
  <2>3. /\ poll'[p].lane[c] = phase
        /\ \A q \in Polls : q # p => poll[q].lane[c] = "DONE" /\ poll'[q].lane[c] = "DONE"
    BY <1>4, <1>5, RestingType
  <2>4. CASE Communication!ReadRow(p, c)
    <3>1. accepted' = accepted /\ sheet' = sheet /\ poll[p].lane[c] = "READ"
      BY <2>4 DEF Communication!ReadRow
    <3>2. phase = IF sheet[c] = "SENT" THEN "DONE" ELSE "SEND"
      <4>1. Communication!Lane(p, c, IF sheet[c] = "SENT" THEN "DONE" ELSE "SEND")
        BY <2>4 DEF Communication!ReadRow
      <4>2. (IF sheet[c] = "SENT" THEN "DONE" ELSE "SEND") \in Phases
        BY DEF Phases
      <4> QED
        BY <2>3, <4>1, <4>2, LaneStep
    <3>3. accepted[c] = 1 => sheet[c] = "SENT"
      BY <2>2, <2>3, <3>1 DEF Once
    <3>4. accepted[c] <= 1
      BY <2>2 DEF Once
    <3>5. phase \in {"SEND", "FAILED"} => accepted[c] = 0
      BY <2>2, <3>2, <3>3, <3>4
    <3> QED
      BY <2>3, <3>1, <3>2, <3>3, <3>4, <3>5 DEF Once
  <2>5. CASE Communication!Send(p, c)
    <3>1. sheet' = sheet /\ poll[p].lane[c] = "SEND"
      BY <2>5 DEF Communication!Send
    <3>2. accepted[c] = 0
      BY <2>2, <3>1 DEF Once
    <3>3. \/ accepted'[c] = 1 /\ Communication!Lane(p, c, "SENT")
          \/ accepted'[c] = 0 /\ Communication!Lane(p, c, "FAILED")
      BY <1>8, <2>5, <3>2 DEF Communication!Send, Communication!Again, AnnouncementTypeOK
    <3>4. \/ accepted'[c] = 1 /\ phase = "SENT"
          \/ accepted'[c] = 0 /\ phase = "FAILED"
      <4>1. Communication!Lane(p, c, "SENT") => phase = "SENT"
        BY <2>3, LaneStep DEF Phases
      <4>2. Communication!Lane(p, c, "FAILED") => phase = "FAILED"
        BY <2>3, LaneStep DEF Phases
      <4> QED
        BY <3>3, <4>1, <4>2
    <3> QED
      BY <2>3, <3>4 DEF Once
  <2>6. CASE Communication!Record(p, c)
    <3>1. accepted' = accepted /\ sheet'[c] = poll[p].lane[c] /\ poll[p].lane[c] \in {"SENT", "FAILED"}
      BY <2>6 DEF Communication!Record, AnnouncementTypeOK
    <3>2. phase = "DONE"
      <4>1. Communication!Lane(p, c, "DONE")
        BY <2>6 DEF Communication!Record
      <4> QED
        BY <2>3, <4>1, LaneStep DEF Phases
    <3>3. accepted[c] <= 1 /\ (poll[p].lane[c] = "FAILED" => accepted[c] = 0)
      BY <2>2 DEF Once
    <3> QED
      BY <2>3, <3>1, <3>2, <3>3 DEF Once
  <2> QED
    BY <2>1, <2>4, <2>5, <2>6
<1> QED
  BY <1>6, <1>7, <1>8

\* A step of a poll before it mails, or of a manager.
LEMMA LanesKept ==
  ASSUME MailedOnce, overlapped' = overlapped, accepted' = accepted, lost' = lost,
         \A c \in Contacts : sheet[c] = "SENT" => sheet'[c] = "SENT",
         \A q \in Polls : Communication!Active(q)' => Communication!Active(q),
         \A q \in Polls, c \in Contacts :
           \/ poll'[q].lane[c] = poll[q].lane[c] \/ {poll'[q].lane[c], poll[q].lane[c]} \subseteq {"READ", "DONE"}
           \/ poll'[q].lane[c] = "DONE" /\ poll[q].lane[c] \in {"READ", "FAILED"}
  PROVE  MailedOnce'
<1> SUFFICES ASSUME ~overlapped' PROVE Alone' /\ \A c \in Contacts \ lost' : Once(c)'
  BY DEF MailedOnce
<1>1. Alone /\ \A c \in Contacts \ lost : Once(c)
  BY DEF MailedOnce
<1>2. Alone'
  BY <1>1 DEF Alone
<1>3. \A c \in Contacts \ lost : Once(c)'
  BY <1>1 DEF Once
<1> QED
  BY <1>2, <1>3

LEMMA PlaceMailedOnce ==
  ASSUME AnnouncementTypeOK, MailedOnce, NEW p \in Polls,
         Communication!Resolve(p) \/ Communication!CreateRows(p) \/ Communication!Notify(p) \/ Communication!Show(p)
  PROVE  MailedOnce'
<1>1. overlapped' = overlapped /\ accepted' = accepted /\ lost' = lost
  BY DEF Communication!Resolve, Communication!CreateRows, Communication!Notify, Communication!Show
<1>2. \A c \in Contacts : sheet[c] = "SENT" => sheet'[c] = "SENT"
  <2>1. CASE Communication!CreateRows(p)
    BY <2>1 DEF Communication!CreateRows
  <2>2. CASE Communication!Resolve(p) \/ Communication!Notify(p) \/ Communication!Show(p)
    BY <2>2 DEF Communication!Resolve, Communication!Notify, Communication!Show
  <2> QED
    BY <2>1, <2>2
<1>3. /\ poll[p].pc # "RESTING" /\ \A q \in Polls : q # p => poll'[q] = poll[q]
      /\ \A q \in Polls : poll'[q].lane = poll[q].lane
  <2>1. CASE Communication!Resolve(p)
    BY <2>1 DEF Communication!Resolve, AnnouncementTypeOK, PollRecords
  <2>2. CASE Communication!CreateRows(p)
    BY <2>2 DEF Communication!CreateRows, Communication!GoTo, AnnouncementTypeOK, PollRecords
  <2>3. CASE Communication!Notify(p)
    BY <2>3 DEF Communication!Notify, Communication!GoTo, AnnouncementTypeOK, PollRecords
  <2>4. CASE Communication!Show(p)
    BY <2>4 DEF Communication!Show, Communication!GoTo, AnnouncementTypeOK, PollRecords
  <2> QED
    BY <2>1, <2>2, <2>3, <2>4
<1>4. Communication!Active(p)
  BY <1>3, ActiveIf
<1>5. \A q \in Polls : Communication!Active(q)' => Communication!Active(q)
  BY <1>3, <1>4 DEF Communication!Active
<1> QED
  BY <1>1, <1>2, <1>3, <1>5, LanesKept

LEMMA CommitMailedOnce ==
  ASSUME AnnouncementTypeOK, OnRecord, MailedOnce, NEW p \in Polls, Communication!Commit(p)
  PROVE  MailedOnce'
<1> SUFFICES ASSUME ~overlapped' PROVE Alone' /\ \A c \in Contacts \ lost' : Once(c)'
  BY DEF MailedOnce
<1>1. Communication!Active(p) /\ Alone /\ \A c \in Contacts \ lost : Once(c)
  BY ActiveIf DEF MailedOnce, Communication!Commit
<1>2. \A q \in Polls : q # p => ~Communication!Active(q) /\ poll'[q] = Communication!Resting
  BY <1>1 DEF Alone, Communication!Active, Communication!Commit, AnnouncementTypeOK
<1>3. Alone'
  BY <1>2 DEF Alone, Communication!Active
<1>4. accepted' = accepted /\ sheet' = sheet /\ lost' = lost
  BY DEF Communication!Commit
<1>5. \A q \in Polls, c \in Contacts : poll'[q].lane[c] \in {"READ", "DONE"}
  <2>1. \A c \in Contacts : poll'[p].lane[c] \in {"READ", "DONE"}
    BY DEF Communication!Commit, AnnouncementTypeOK, PollRecords
  <2> QED
    BY <1>2, <2>1, RestingType
<1>6. ASSUME NEW c \in Contacts \ lost
      PROVE  Once(c)'
  <2>1. accepted[c] <= 1 /\ (accepted[c] = 1 => sheet[c] = "SENT")
    <3>1. \A q \in Polls : poll[q].lane[c] # "SENT"
      <4>1. poll[p].lane[c] # "SENT"
        BY DEF Communication!Commit, OnRecord, Mailing
      <4>2. \A q \in Polls : q # p => poll[q].lane[c] = "DONE"
        BY <1>2, RestingType DEF Communication!Active
      <4> QED
        BY <4>1, <4>2
    <3> QED
      BY <1>1, <3>1 DEF Once
  <2> QED
    BY <1>4, <1>5, <2>1 DEF Once
<1> QED
  BY <1>3, <1>4, <1>6

LEMMA ClaimMailedOnce ==
  ASSUME AnnouncementTypeOK, MailedOnce, NEW p \in Polls, Communication!Claim(p)
  PROVE  MailedOnce'
<1> SUFFICES ASSUME ~overlapped' PROVE Alone' /\ \A c \in Contacts \ lost' : Once(c)'
  BY DEF MailedOnce
<1>1. ~overlapped /\ \A q \in Polls : ~Communication!Active(q)
  BY DEF Communication!Claim, AnnouncementTypeOK
<1>2. Alone'
  BY <1>1 DEF Alone, Communication!Active, Communication!Claim, Communication!GoTo, AnnouncementTypeOK
<1>3. \A q \in Polls : poll'[q].lane = poll[q].lane
  BY PlaceStep DEF Communication!Claim, Places
<1>4. accepted' = accepted /\ sheet' = sheet /\ lost' = lost
  BY DEF Communication!Claim
<1>5. \A c \in Contacts \ lost : Once(c)'
  BY <1>1, <1>3, <1>4 DEF MailedOnce, Once
<1> QED
  BY <1>2, <1>4, <1>5

LEMMA QuietMailedOnce ==
  ASSUME AnnouncementTypeOK, MailedOnce,
         \/ Communication!ChangeAudience \/ Communication!Reclaim \/ UNCHANGED Communication!vars
         \/ \E m \in Managers : Communication!Ask(m) \/ Communication!Answer(m)
  PROVE  MailedOnce'
<1>1. overlapped' = overlapped /\ accepted' = accepted /\ lost' = lost /\ sheet' = sheet /\ poll' = poll
  BY DEF Communication!ChangeAudience, Communication!Reclaim, Communication!Ask, Communication!Answer, Communication!vars
<1>2. \A q \in Polls : Communication!Active(q)' => Communication!Active(q)
  BY <1>1 DEF Communication!Active
<1> QED
  BY <1>1, <1>2, LanesKept

LEMMA WindupMailedOnce ==
  ASSUME AnnouncementTypeOK, MailedOnce, NEW p \in Polls, Windup(p)
  PROVE  MailedOnce'
<1>1. overlapped' = overlapped /\ accepted' = accepted /\ lost' = lost /\ sheet' = sheet
  BY DEF Windup, Same
<1>2. \A q \in Polls : Communication!Active(q)' => Communication!Active(q)
  BY DEF Windup, Communication!Active
<1>3. \A q \in Polls, c \in Contacts :
        poll'[q].lane[c] = poll[q].lane[c] \/ (poll'[q].lane[c] = "DONE" /\ poll[q].lane[c] \in {"READ", "FAILED"})
  BY DEF Windup
<1> QED
  BY <1>1, <1>2, <1>3, LanesKept

\* Polls that die lose the mails they had not recorded.
LEMMA CrashMailedOnce ==
  ASSUME AnnouncementTypeOK, MailedOnce, Communication!Crash
  PROVE  MailedOnce'
<1> SUFFICES ASSUME ~overlapped' PROVE Alone' /\ \A c \in Contacts \ lost' : Once(c)'
  BY DEF MailedOnce
<1>1. overlapped' = overlapped /\ accepted' = accepted /\ sheet' = sheet
  BY DEF Communication!Crash
<1>2. Alone /\ \A c \in Contacts \ lost : Once(c)
  BY <1>1 DEF MailedOnce
<1>3. /\ \A q \in Polls : poll'[q] = Communication!Resting
      /\ lost \subseteq lost' /\ \A c \in Contacts, q \in Polls : poll[q].lane[c] = "SENT" => c \in lost'
  BY DEF Communication!Crash
<1>4. Alone'
  BY <1>3 DEF Alone, Communication!Active
<1>5. ASSUME NEW c \in Contacts \ lost'
      PROVE  Once(c)'
  <2>1. Once(c) /\ \A q \in Polls : poll[q].lane[c] # "SENT"
    BY <1>2, <1>3
  <2>2. \A q \in Polls : poll'[q].lane[c] = "DONE"
    BY <1>3, RestingType
  <2> QED
    BY <1>1, <2>1, <2>2 DEF Once
<1> QED
  BY <1>4, <1>5

-----------------------------------------------------------------------------
(***************************************************************************)
(* Theorems                                                                *)
(***************************************************************************)

LEMMA NextInductive == AnnouncementInductive /\ [Communication!Next]_(Communication!vars) => AnnouncementInductive'
<1> SUFFICES ASSUME AnnouncementInductive, [Communication!Next]_(Communication!vars) PROVE AnnouncementInductive'
  OBVIOUS
<1>0. AnnouncementTypeOK /\ OnRecord /\ MailedOnce
  BY DEF AnnouncementInductive
<1>1. CASE \/ Communication!ChangeAudience \/ Communication!Reclaim \/ UNCHANGED Communication!vars
           \/ \E m \in Managers : Communication!Ask(m) \/ Communication!Answer(m)
  <2>1. AnnouncementTypeOK'
    <3>1. CASE UNCHANGED Communication!vars
      BY <1>0, <3>1 DEF Communication!vars, AnnouncementTypeOK
    <3> QED
      BY <1>0, <1>1, <3>1, ManagerType
  <2> QED
    BY <1>0, <1>1, <2>1, QuietOnRecord, QuietMailedOnce DEF AnnouncementInductive
<1>2. CASE Communication!Crash
  BY <1>0, <1>2, CrashType, QuietOnRecord, CrashMailedOnce DEF AnnouncementInductive
<1>3. ASSUME NEW p \in Polls, Communication!Claim(p) \/ Communication!Resolve(p) \/ Communication!CreateRows(p) \/ Communication!Notify(p) \/ Communication!Show(p)
      PROVE  AnnouncementInductive'
  BY <1>0, <1>3, DeliveryType, DeliveryOnRecord, ClaimMailedOnce, PlaceMailedOnce DEF AnnouncementInductive
<1>4. ASSUME NEW p \in Polls, Communication!Commit(p)
      PROVE  AnnouncementInductive'
  BY <1>0, <1>4, DeliveryType, CommitOnRecord, CommitMailedOnce DEF AnnouncementInductive
<1>5. ASSUME NEW p \in Polls, WindsUp(p)
      PROVE  AnnouncementInductive'
  BY <1>0, <1>5, WindingUp, WindupType, WindupOnRecord, WindupMailedOnce DEF AnnouncementInductive
<1>6. ASSUME NEW p \in Polls, NEW c \in Contacts, Communication!ReadRow(p, c) \/ Communication!Send(p, c) \/ Communication!Record(p, c) \/ Communication!RecordFails(p, c)
      PROVE  AnnouncementInductive'
  BY <1>0, <1>6, AnnouncementMailType, MailOnRecord, MailMailedOnce DEF AnnouncementInductive, MailedOnce
<1> QED
  BY <1>1, <1>2, <1>3, <1>4, <1>5, <1>6 DEF Communication!Next, Communication!DeliveryStep, WindsUp

THEOREM AnnouncementInductiveHolds == Communication!Spec => []AnnouncementInductive
BY InitInductive, NextInductive, PTL DEF Communication!Spec

\* Statuses, rows, counters and polls keep their types.
THEOREM AnnouncementTypeCorrect == Communication!Spec => []AnnouncementTypeOK
<1>1. AnnouncementInductive => AnnouncementTypeOK
  BY DEF AnnouncementInductive
<1> QED
  BY <1>1, AnnouncementInductiveHolds, PTL

\* Nobody is mailed twice unless the record of a mail was lost or two polls
\* delivered at once (CommunicationDeliveryService.sendEmailToContact).
THEOREM RepeatsHaveCause == Communication!Spec => []RepeatHasCause
<1>1. AnnouncementInductive => RepeatHasCause
  BY DEF RepeatHasCause, AnnouncementInductive, AnnouncementTypeOK, MailedOnce, Once, Communication!RepeatHasCause
<1> QED
  BY <1>1, AnnouncementInductiveHolds, PTL

-----------------------------------------------------------------------------
(***************************************************************************)
(* The refinement of Announcement                                          *)
(***************************************************************************)

LEMMA InitPromise == Communication!Init => Communication!Promise!Init
BY DEF Communication!Init, Communication!Promise!Init, Communication!Addressed

LEMMA SamePromise == Same => UNCHANGED Communication!Promise!vars
BY DEF Same, Communication!Promise!vars, Communication!Addressed

LEMMA RowsPromise ==
  ASSUME AnnouncementTypeOK, NEW p \in Polls, Communication!CreateRows(p)
  PROVE  [Communication!Promise!Next]_(Communication!Promise!vars)
<1>1. gone' = gone /\ inbox' = inbox /\ accepted' = accepted /\ shown' = shown
  BY DEF Communication!CreateRows
<1>2. Communication!Addressed' = Communication!Addressed \cup poll[p].to /\ poll[p].to \in SUBSET Contacts
  BY DEF Communication!CreateRows, Communication!Addressed, AnnouncementTypeOK, PollRecords
<1>3. MailReported' = MailReported
  BY DEF Communication!CreateRows, MailReported, AnnouncementTypeOK
<1>4. Communication!Promise!Address
  BY <1>1, <1>2, <1>3 DEF Communication!Promise!Address, MailReported
<1> QED
  BY <1>4 DEF Communication!Promise!Next

LEMMA NotifyPromise ==
  ASSUME AnnouncementTypeOK, OnRecord, NEW p \in Polls, Communication!Notify(p)
  PROVE  [Communication!Promise!Next]_(Communication!Promise!vars)
<1>1. gone' = gone /\ sheet' = sheet /\ accepted' = accepted /\ shown' = shown
  BY DEF Communication!Notify
<1>2. Told' = Told \cup (poll[p].to \cap Users) /\ poll[p].to \cap Users \in SUBSET Communication!Addressed
  BY AgainType DEF Communication!Notify, Told, AnnouncementTypeOK, OnRecord
<1>3. Communication!Promise!Tell
  BY <1>1, <1>2 DEF Communication!Promise!Tell, Told, Communication!Addressed
<1> QED
  BY <1>3 DEF Communication!Promise!Next

LEMMA ShowPromise ==
  ASSUME AnnouncementTypeOK, OnRecord, NEW p \in Polls, Communication!Show(p)
  PROVE  [Communication!Promise!Next]_(Communication!Promise!vars)
<1>1. gone' = gone /\ sheet' = sheet /\ accepted' = accepted /\ inbox' = inbox
  BY DEF Communication!Show
<1>2. shown' = shown \cup (poll[p].to \cap Users) /\ poll[p].to \cap Users \in SUBSET Told
  BY DEF Communication!Show, OnRecord
<1>3. Communication!Promise!Report
  BY <1>1, <1>2 DEF Communication!Promise!Report, Told, Communication!Addressed
<1> QED
  BY <1>3 DEF Communication!Promise!Next

LEMMA CommitPromise ==
  ASSUME NEW p \in Polls, Communication!Commit(p)
  PROVE  [Communication!Promise!Next]_(Communication!Promise!vars)
BY DEF Communication!Commit, Communication!Promise!Next, Communication!Promise!GoOut, Communication!Addressed

LEMMA SendPromise ==
  ASSUME AnnouncementTypeOK, OnRecord, NEW p \in Polls, NEW c \in Contacts, Communication!Send(p, c)
  PROVE  [Communication!Promise!Next]_(Communication!Promise!vars)
<1>1. gone' = gone /\ sheet' = sheet /\ inbox' = inbox /\ shown' = shown
  BY DEF Communication!Send
<1>2. gone /\ c \in Communication!Addressed
  BY DEF Communication!Send, OnRecord
<1>3. CASE accepted' = accepted
  BY <1>1, <1>3, SamePromise DEF Same
<1>4. CASE accepted' = [accepted EXCEPT ![c] = Communication!Again(@)]
  <2>1. Mailed' = Mailed \cup {c}
    BY <1>4, AgainType DEF Mailed, AnnouncementTypeOK
  <2>2. Communication!Promise!Mail
    BY <1>1, <1>2, <2>1 DEF Communication!Promise!Mail, Mailed, Communication!Addressed
  <2> QED
    BY <2>2 DEF Communication!Promise!Next
<1> QED
  BY <1>3, <1>4 DEF Communication!Send

LEMMA RecordPromise ==
  ASSUME AnnouncementTypeOK, OnRecord, NEW p \in Polls, NEW c \in Contacts, Communication!Record(p, c)
  PROVE  [Communication!Promise!Next]_(Communication!Promise!vars)
<1>1. gone' = gone /\ accepted' = accepted /\ inbox' = inbox /\ shown' = shown
  BY DEF Communication!Record
<1>2. sheet[c] # "NONE" /\ sheet' = [sheet EXCEPT ![c] = poll[p].lane[c]]
  BY DEF Communication!Record, OnRecord, Communication!Addressed
<1>3. Communication!Addressed' = Communication!Addressed
  BY <1>2 DEF Communication!Record, Communication!Addressed, AnnouncementTypeOK
<1>4. CASE poll[p].lane[c] = "SENT"
  <2>1. c \in Mailed /\ MailReported' = MailReported \cup {c}
    BY <1>2, <1>4 DEF OnRecord, MailReported, AnnouncementTypeOK
  <2>2. AnnouncementReported' = AnnouncementReported \cup {<<c, "EMAIL">>}
    BY <1>1, <2>1 DEF AnnouncementReported
  <2>3. Communication!Promise!Report
    BY <1>1, <1>3, <2>1, <2>2 DEF Communication!Promise!Report, AnnouncementReported, MailReported, Mailed
  <2> QED
    BY <2>3 DEF Communication!Promise!Next
<1>5. CASE poll[p].lane[c] = "FAILED"
  <2>1. MailReported' = MailReported \ {c}
    BY <1>2, <1>5 DEF MailReported, AnnouncementTypeOK
  <2>2. AnnouncementReported' = AnnouncementReported \ {<<c, "EMAIL">>}
    BY <1>1, <2>1 DEF AnnouncementReported
  <2>3. Communication!Promise!Report
    BY <1>1, <1>3, <2>2 DEF Communication!Promise!Report, AnnouncementReported, MailReported
  <2> QED
    BY <2>3 DEF Communication!Promise!Next
<1> QED
  BY <1>4, <1>5 DEF Communication!Record

LEMMA StepPromise == AnnouncementInductive /\ [Communication!Next]_(Communication!vars) => [Communication!Promise!Next]_(Communication!Promise!vars)
<1> SUFFICES ASSUME AnnouncementInductive, [Communication!Next]_(Communication!vars) PROVE [Communication!Promise!Next]_(Communication!Promise!vars)
  OBVIOUS
<1>0. AnnouncementTypeOK /\ OnRecord
  BY DEF AnnouncementInductive
<1>1. CASE \/ Communication!ChangeAudience \/ Communication!Reclaim \/ UNCHANGED Communication!vars \/ Communication!Crash
           \/ \E m \in Managers : Communication!Ask(m) \/ Communication!Answer(m)
  BY <1>1, SamePromise DEF Same, Communication!ChangeAudience, Communication!Reclaim, Communication!Crash, Communication!Ask, Communication!Answer, Communication!vars
<1>2. ASSUME NEW p \in Polls, Communication!Claim(p) \/ Communication!Resolve(p) \/ WindsUp(p)
      PROVE  [Communication!Promise!Next]_(Communication!Promise!vars)
  BY <1>0, <1>2, SamePromise, WindingUp DEF Same, Communication!Claim, Communication!Resolve, Windup
<1>3. ASSUME NEW p \in Polls, Communication!CreateRows(p) \/ Communication!Notify(p) \/ Communication!Show(p) \/ Communication!Commit(p)
      PROVE  [Communication!Promise!Next]_(Communication!Promise!vars)
  BY <1>0, <1>3, RowsPromise, NotifyPromise, ShowPromise, CommitPromise
<1>4. ASSUME NEW p \in Polls, NEW c \in Contacts, Communication!ReadRow(p, c) \/ Communication!RecordFails(p, c)
      PROVE  [Communication!Promise!Next]_(Communication!Promise!vars)
  BY <1>4, SamePromise DEF Same, Communication!ReadRow, Communication!RecordFails
<1>5. ASSUME NEW p \in Polls, NEW c \in Contacts, Communication!Send(p, c) \/ Communication!Record(p, c)
      PROVE  [Communication!Promise!Next]_(Communication!Promise!vars)
  BY <1>0, <1>5, SendPromise, RecordPromise
<1> QED
  BY <1>1, <1>2, <1>3, <1>4, <1>5 DEF Communication!Next, Communication!DeliveryStep, WindsUp

\* However polls overlap, die and are resumed, delivery implements what an
\* announcement promises: those reached are on the record, mails leave after
\* it has gone out, and what is reported as delivered was delivered
\* (CommunicationDeliveryService.deliverOne).
THEOREM DeliveryKeepsPromise == Communication!Spec => KeepsPromise
BY InitPromise, StepPromise, AnnouncementInductiveHolds, PTL DEF KeepsPromise, Communication!Spec, Communication!KeepsPromise, Communication!Promise!Spec
=============================================================================
