---------------------------- MODULE QuoteRounds -----------------------------
(***************************************************************************)
(* How one maintenance request comes to a work order: directly             *)
(* (WorkOrdersService) or through rounds of quotes (QuoteRoundsService).   *)
(* Creating either locks the request's row and is one step here.  Other    *)
(* requests read first and write by id later, in a transaction of their    *)
(* own that looks at nothing again: only award does.                       *)
(***************************************************************************)
EXTENDS Integers, Sequences, FiniteSets

CONSTANTS
  Clients,
  Contractors,
  Moves,                   \* statuses that staff ask to move an order to
  MaxRounds, MaxQuotes, MaxOrders     \* bounds on what is created

VARIABLES
  rounds,       \* QuoteRound rows: status, awardedQuoteId or 0
  quotes,       \* ContractorQuote rows of the rounds: round, contractor, status, order or 0
  orders,       \* WorkOrder rows: status, round or 0, selected quote or 0, contractor or "NONE"
  job           \* per client: the request that has read and not yet written

vars == <<rounds, quotes, orders, job>>

Rounds == 1..Len(rounds)
Quotes == 1..Len(quotes)
Orders == 1..Len(orders)
QuotesOf(r) == {q \in Quotes : quotes[q].round = r}
Invited(r) == {quotes[q].contractor : q \in QuotesOf(r)}

ActiveRounds == {r \in Rounds : rounds[r].status \in {"DRAFT", "OPEN"}}
LiveOrders == {w \in Orders : orders[w].status # "CANCELLED"}

Idle == [op |-> "IDLE"]
Begin(c, request) == job[c] = Idle /\ job' = [job EXCEPT ![c] = request]
Become(c, next) == job' = [job EXCEPT ![c] = next]

-----------------------------------------------------------------------------
(***************************************************************************)
(* Under the lock of the request's row                                     *)
(***************************************************************************)

PathFree == ActiveRounds = {} /\ LiveOrders = {}

\* The round is committed OPEN before the contractors are invited.
CreateRound(c) ==
  /\ PathFree /\ Len(rounds) < MaxRounds
  /\ rounds' = Append(rounds, [status |-> "OPEN", awarded |-> 0])
  /\ \E chosen \in (SUBSET Contractors) \ {{}} :
       Begin(c, [op |-> "INVITE", round |-> Len(rounds) + 1, todo |-> chosen])
  /\ UNCHANGED <<quotes, orders>>

CreateOrder(c) ==
  /\ job[c] = Idle /\ PathFree /\ Len(orders) < MaxOrders
  /\ orders' = Append(orders, [status |-> "DRAFT", round |-> 0, selected |-> 0, contractor |-> "NONE"])
  /\ UNCHANGED <<rounds, quotes, job>>

-----------------------------------------------------------------------------
(***************************************************************************)
(* What the requests read and check                                        *)
(***************************************************************************)

ReadInvite(c) ==
  \E r \in ActiveRounds, chosen \in (SUBSET Contractors) \ {{}} :
    Begin(c, [op |-> "INVITE", round |-> r, todo |-> chosen \ Invited(r)])

ReadCancel(c) ==
  \E r \in Rounds :
    rounds[r].status \notin {"AWARDED", "CANCELLED"} /\ Begin(c, [op |-> "CANCEL", round |-> r])

\* The compliance of the contractor is evaluated anew and may refuse (module
\* Compliance).  The invitations as they are read name the quotes that lose.
ReadAward(c) ==
  \E q \in Quotes :
    /\ rounds[quotes[q].round].status = "OPEN"
    /\ quotes[q].status = "SUBMITTED"
    /\ Begin(c, [op |-> "AWARD", quote |-> q, losers |-> QuotesOf(quotes[q].round) \ {q}])

\* From the contractor's link while the round is OPEN, or by staff whatever
\* the round's status; withdrawing is for staff.
Replies == {<<"REQUESTED", "SUBMITTED">>, <<"REQUESTED", "DECLINED">>, <<"SUBMITTED", "WITHDRAWN">>}
ReadReply(c) ==
  \E q \in Quotes, reply \in Replies :
    quotes[q].status = reply[1] /\ Begin(c, [op |-> "REPLY", quote |-> q, status |-> reply[2]])

\* Whether the workflow of the governing quote lets the order be READY is
\* the business of module Signing: it may or may not.
Transitions ==
  {<<"DRAFT", "READY">>, <<"READY", "SCHEDULED">>, <<"SCHEDULED", "IN_PROGRESS">>, <<"IN_PROGRESS", "COMPLETED">>}
    \cup {<<s, "CANCELLED">> : s \in {"DRAFT", "READY", "SCHEDULED", "IN_PROGRESS"}}

ReadMove(c) ==
  \E w \in Orders, t \in Transitions :
    orders[w].status = t[1] /\ t[2] \in Moves /\ Begin(c, [op |-> "MOVE", order |-> w, to |-> t[2]])

ReadAssign(c) ==
  \E w \in Orders, k \in Contractors : Begin(c, [op |-> "ASSIGN", order |-> w, contractor |-> k])

Read(c) ==
  /\ ReadInvite(c) \/ ReadCancel(c) \/ ReadAward(c) \/ ReadReply(c) \/ ReadMove(c) \/ ReadAssign(c)
  /\ UNCHANGED <<rounds, quotes, orders>>

-----------------------------------------------------------------------------
(***************************************************************************)
(* What they write                                                         *)
(***************************************************************************)

\* One transaction per contractor: the quote and its invitation, unique by
\* round and contractor; a contractor invited meanwhile ends the request.
Invite(c) ==
  /\ job[c].op = "INVITE" /\ (job[c].todo = {} \/ Len(quotes) < MaxQuotes)
  /\ \/ /\ job[c].todo = {}
        /\ Become(c, Idle) /\ UNCHANGED quotes
     \/ \E k \in job[c].todo :
          IF k \in Invited(job[c].round)
          THEN Become(c, Idle) /\ UNCHANGED quotes
          ELSE /\ quotes' = Append(quotes, [round |-> job[c].round, contractor |-> k, status |-> "REQUESTED", order |-> 0])
               /\ Become(c, [job[c] EXCEPT !.todo = @ \ {k}])
  /\ UNCHANGED <<rounds, orders>>

CancelRound(c) ==
  /\ job[c].op = "CANCEL"
  /\ rounds' = [rounds EXCEPT ![job[c].round].status = "CANCELLED"]
  /\ Become(c, Idle)
  /\ UNCHANGED <<quotes, orders>>

\* What an award writes besides the round's own row.
Select(q, losers) ==
  LET r == quotes[q].round IN
  /\ orders' = Append(orders, [status |-> "DRAFT", round |-> r, selected |-> q, contractor |-> quotes[q].contractor])
  /\ quotes' = [p \in Quotes |->
                  IF p = q THEN [quotes[p] EXCEPT !.order = Len(orders) + 1]
                  ELSE IF p \in losers /\ quotes[p].status = "SUBMITTED"
                  THEN [quotes[p] EXCEPT !.status = "NOT_SELECTED"] ELSE quotes[p]]

\* Faulty variant: the round is updated by id, whatever its status is now.
AwardBlindly(c) ==
  /\ job[c].op = "AWARD" /\ Len(orders) < MaxOrders
  /\ rounds' = [rounds EXCEPT ![quotes[job[c].quote].round] = [status |-> "AWARDED", awarded |-> job[c].quote]]
  /\ Select(job[c].quote, job[c].losers)
  /\ Become(c, Idle)

\* Faulty variant: every other quote of the round loses, the one just
\* awarded by somebody else with them, although this award fails.
AwardLosersFirst(c) ==
  /\ job[c].op = "AWARD" /\ Len(orders) < MaxOrders
  /\ LET q == job[c].quote
         r == quotes[q].round IN
     IF rounds[r].status = "OPEN"
     THEN /\ rounds' = [rounds EXCEPT ![r] = [status |-> "AWARDED", awarded |-> q]]
          /\ Select(q, job[c].losers)
     ELSE /\ quotes' = [p \in Quotes |-> IF p \in job[c].losers /\ quotes[p].status = "SUBMITTED"
                                         THEN [quotes[p] EXCEPT !.status = "NOT_SELECTED"] ELSE quotes[p]]
          /\ UNCHANGED <<rounds, orders>>
  /\ Become(c, Idle)

\* updateMany where the round is still OPEN; if it is not, nothing is written.
Award(c) ==
  /\ job[c].op = "AWARD" /\ Len(orders) < MaxOrders
  /\ LET q == job[c].quote
         r == quotes[q].round IN
     IF rounds[r].status = "OPEN"
     THEN /\ rounds' = [rounds EXCEPT ![r] = [status |-> "AWARDED", awarded |-> q]]
          /\ Select(q, job[c].losers)
     ELSE UNCHANGED <<rounds, quotes, orders>>
  /\ Become(c, Idle)

Reply(c) ==
  /\ job[c].op = "REPLY"
  /\ quotes' = [quotes EXCEPT ![job[c].quote].status = job[c].status]
  /\ Become(c, Idle)
  /\ UNCHANGED <<rounds, orders>>

Move(c) ==
  /\ job[c].op = "MOVE"
  /\ orders' = [orders EXCEPT ![job[c].order].status = job[c].to]
  /\ Become(c, Idle)
  /\ UNCHANGED <<rounds, quotes>>

Assign(c) ==
  /\ job[c].op = "ASSIGN"
  /\ orders' = [orders EXCEPT ![job[c].order].contractor = job[c].contractor]
  /\ Become(c, Idle)
  /\ UNCHANGED <<rounds, quotes>>

Abandon(c) ==
  /\ job[c] # Idle /\ Become(c, Idle)
  /\ UNCHANGED <<rounds, quotes, orders>>

Init ==
  /\ rounds = <<>> /\ quotes = <<>> /\ orders = <<>>
  /\ job = [c \in Clients |-> Idle]

Next ==
  \E c \in Clients :
    \/ CreateRound(c) \/ CreateOrder(c) \/ Read(c)
    \/ Invite(c) \/ CancelRound(c) \/ Award(c) \/ Reply(c) \/ Move(c) \/ Assign(c) \/ Abandon(c)

Spec == Init /\ [][Next]_vars

-----------------------------------------------------------------------------
(***************************************************************************)
(* Properties                                                              *)
(***************************************************************************)

\* A round yields one work order at most, however many awards, cancellations
\* and replies overlap.
OneWorkOrderPerRound ==
  \A r \in Rounds : Cardinality({w \in Orders : orders[w].round = r}) <= 1

\* The three places a selection is recorded agree: the work order names the
\* quote, the quote the order, the round the quote; the quote that won is not
\* among those told they lost, and a quote lost to another one of its round.
SelectionAgrees ==
  /\ \A w \in Orders : orders[w].round # 0 =>
       /\ quotes[orders[w].selected].order = w
       /\ quotes[orders[w].selected].round = orders[w].round
       /\ rounds[orders[w].round].awarded = orders[w].selected
  /\ \A q \in Quotes : quotes[q].status = "NOT_SELECTED" => rounds[quotes[q].round].awarded \notin {0, q}
=============================================================================
