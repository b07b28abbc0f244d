-------------------------- MODULE ProcurementProofs -------------------------
(***************************************************************************)
(* Proofs about QuoteRounds, for any number of clients, contractors,       *)
(* rounds, quotes and orders, about Compliance, for any requirements,      *)
(* credentials and requests of staff, and about Maintenance, for any       *)
(* users, requests, properties and watched rows, at any hours.             *)
(***************************************************************************)
EXTENDS MCQuoteRounds, MCCompliance, Sequences, CollectionTheorems, WellFoundedInduction, TLAPS

(***************************************************************************)
(* Quote rounds.  Only award looks at the round again before it writes;    *)
(* the invariant says why that is enough: a round that is OPEN has         *)
(* selected nothing, and none becomes OPEN again.                          *)
(***************************************************************************)
RoundRows == [status : {"OPEN", "AWARDED", "CANCELLED"}, awarded : Nat]
QuoteStatus == {"REQUESTED", "SUBMITTED", "DECLINED", "WITHDRAWN", "NOT_SELECTED"}
QuoteRows == [round : Nat, contractor : Contractors, status : QuoteStatus, order : Nat]
OrderStatus == {"DRAFT", "READY", "SCHEDULED", "IN_PROGRESS", "COMPLETED", "CANCELLED"}
OrderRows == [status : OrderStatus, round : Nat, selected : Nat, contractor : Contractors \cup {"NONE"}]

Jobs ==
  {Idle} \cup [op : {"INVITE"}, round : Nat, todo : SUBSET Contractors]
    \cup [op : {"CANCEL"}, round : Nat]
    \cup [op : {"AWARD"}, quote : Nat, losers : SUBSET Nat]
    \cup [op : {"REPLY"}, quote : Nat, status : QuoteStatus \ {"NOT_SELECTED"}]
    \cup [op : {"MOVE"}, order : Nat, to : OrderStatus]
    \cup [op : {"ASSIGN"}, order : Nat, contractor : Contractors]

\* Every variable has its type.
TypeOK ==
  /\ rounds \in Seq(RoundRows) /\ quotes \in Seq(QuoteRows) /\ orders \in Seq(OrderRows)
  /\ job \in [Clients -> Jobs]

\* What a request has read is still a row, and the quotes that an award lets
\* lose are others of the same round.
Points(j) ==
  /\ j.op \in {"INVITE", "CANCEL"} => j.round \in Rounds
  /\ j.op \in {"AWARD", "REPLY"} => j.quote \in Quotes
  /\ j.op = "AWARD" => j.losers \subseteq QuotesOf(quotes[j.quote].round) \ {j.quote}
  /\ j.op \in {"MOVE", "ASSIGN"} => j.order \in Orders
JobsPoint == \A c \in Clients : Points(job[c])

\* Rows point at rows that are there.
Linked ==
  /\ \A q \in Quotes : quotes[q].round \in Rounds
  /\ \A w \in Orders : orders[w].round # 0 => orders[w].round \in Rounds /\ orders[w].selected \in Quotes

\* A round that is OPEN has selected nothing yet.
OpenIsUntouched ==
  /\ \A w \in Orders : orders[w].round # 0 => rounds[orders[w].round].status # "OPEN"
  /\ \A q \in Quotes : quotes[q].status = "NOT_SELECTED" => rounds[quotes[q].round].status # "OPEN"

\* Two work orders are of different rounds.
OrdersApart == \A v, w \in Orders : orders[v].round # 0 /\ orders[v].round = orders[w].round => v = w

Inductive == TypeOK /\ JobsPoint /\ Linked /\ OpenIsUntouched /\ OrdersApart /\ SelectionAgrees

-----------------------------------------------------------------------------
LEMMA RowTypes ==
  ASSUME TypeOK
  PROVE  /\ \A r \in Rounds : rounds[r] \in RoundRows
         /\ \A q \in Quotes : quotes[q] \in QuoteRows
         /\ \A w \in Orders : orders[w] \in OrderRows
         /\ Len(rounds) \in Nat /\ Len(quotes) \in Nat /\ Len(orders) \in Nat
BY DEF TypeOK, Rounds, Quotes, Orders

LEMMA JobType ==
  ASSUME TypeOK, JobsPoint, NEW c \in Clients
  PROVE  /\ job[c].op = "INVITE" => job[c].round \in Rounds /\ job[c].todo \in SUBSET Contractors
         /\ job[c].op = "CANCEL" => job[c].round \in Rounds
         /\ job[c].op = "AWARD" => /\ job[c].quote \in Quotes
                                   /\ job[c].losers \subseteq QuotesOf(quotes[job[c].quote].round) \ {job[c].quote}
         /\ job[c].op = "REPLY" => job[c].quote \in Quotes /\ job[c].status \in QuoteStatus \ {"NOT_SELECTED"}
         /\ job[c].op = "MOVE" => job[c].order \in Orders /\ job[c].to \in OrderStatus
         /\ job[c].op = "ASSIGN" => job[c].order \in Orders /\ job[c].contractor \in Contractors
<1>1. job[c] \in Jobs /\ Points(job[c])
  BY DEF TypeOK, JobsPoint
<1>2. job[c].op = "INVITE" => job[c].todo \in SUBSET Contractors
  BY <1>1 DEF Jobs, Idle
<1>3. job[c].op = "REPLY" => job[c].status \in QuoteStatus \ {"NOT_SELECTED"}
  BY <1>1 DEF Jobs, Idle
<1>4. job[c].op = "MOVE" => job[c].to \in OrderStatus
  BY <1>1 DEF Jobs, Idle
<1>5. job[c].op = "ASSIGN" => job[c].contractor \in Contractors
  BY <1>1 DEF Jobs, Idle
<1> QED
  BY <1>1, <1>2, <1>3, <1>4, <1>5 DEF Points

LEMMA IdleType == Idle \in Jobs /\ Idle.op = "IDLE" /\ Points(Idle)
BY DEF Idle, Jobs, Points

\* Rows stay where they are, and quotes in their round.
Grows ==
  /\ Rounds \subseteq Rounds' /\ Quotes \subseteq Quotes' /\ Orders \subseteq Orders'
  /\ \A q \in Quotes : quotes'[q].round = quotes[q].round

\* A request may take the place of another if it points at what there is.
LEMMA JobsKept ==
  ASSUME TypeOK, JobsPoint, Linked, NEW c \in Clients, NEW j \in Jobs, Become(c, j), Points(j), Grows
  PROVE  job' \in [Clients -> Jobs] /\ JobsPoint'
<1>1. job' = [job EXCEPT ![c] = j] /\ job \in [Clients -> Jobs]
  BY DEF Become, TypeOK
<1>2. \A d \in Clients : Points(job'[d])
  BY <1>1 DEF JobsPoint
<1>3. ASSUME NEW d \in Clients
      PROVE  /\ job'[d].op \in {"INVITE", "CANCEL"} => job'[d].round \in Rounds'
             /\ job'[d].op \in {"AWARD", "REPLY"} => job'[d].quote \in Quotes'
             /\ job'[d].op \in {"MOVE", "ASSIGN"} => job'[d].order \in Orders'
  BY <1>2 DEF Points, Grows
<1>4. ASSUME NEW d \in Clients, job'[d].op = "AWARD"
      PROVE  job'[d].losers \subseteq QuotesOf(quotes[job[d].quote].round)' \ {job'[d].quote}
  <2>1. job'[d].quote \in Quotes /\ job'[d].losers \subseteq QuotesOf(quotes[job'[d].quote].round) \ {job'[d].quote}
    BY <1>2, <1>4 DEF Points
  <2>2. PICK r : r = quotes[job'[d].quote].round /\ r = quotes'[job'[d].quote].round
    BY <2>1 DEF Grows
  <2>3. \A q \in QuotesOf(r) : q \in Quotes' /\ quotes'[q].round = r
    BY DEF QuotesOf, Grows
  <2> QED
    BY <2>1, <2>2, <2>3 DEF QuotesOf
<1>5. JobsPoint'
  BY <1>3, <1>4 DEF JobsPoint, Points
<1> QED
  BY <1>1, <1>5

-----------------------------------------------------------------------------
(***************************************************************************)
(* What the steps do to the rows                                           *)
(***************************************************************************)

RowsType == rounds \in Seq(RoundRows) /\ quotes \in Seq(QuoteRows) /\ orders \in Seq(OrderRows)
RowsAgree == Linked /\ OpenIsUntouched /\ OrdersApart /\ SelectionAgrees

\* A request that ends, or becomes another one, once its rows are right.
LEMMA StepEnds ==
  ASSUME Inductive, NEW c \in Clients, NEW j \in Jobs, Become(c, j), Points(j), Grows, RowsType', RowsAgree'
  PROVE  Inductive'
<1>1. job' \in [Clients -> Jobs] /\ JobsPoint'
  BY JobsKept DEF Inductive
<1> QED
  BY <1>1 DEF Inductive, TypeOK, RowsType, RowsAgree

\* A new request may point at a row that the same step creates.
LEMMA StepReplaces ==
  ASSUME Inductive, NEW c \in Clients, NEW r \in Rounds', NEW j \in Jobs, job' = [job EXCEPT ![c] = j],
         j.op = "INVITE", j.round = r, Grows, RowsType', RowsAgree'
  PROVE  Inductive'
<1>1. job \in [Clients -> Jobs] /\ job' \in [Clients -> Jobs]
  BY DEF Inductive, TypeOK
<1>3. ASSUME NEW d \in Clients, d # c
      PROVE  /\ job'[d].op \in {"INVITE", "CANCEL"} => job'[d].round \in Rounds'
             /\ job'[d].op \in {"AWARD", "REPLY"} => job'[d].quote \in Quotes'
             /\ job'[d].op \in {"MOVE", "ASSIGN"} => job'[d].order \in Orders'
             /\ job'[d].op = "AWARD" => job'[d].losers \subseteq QuotesOf(quotes[job[d].quote].round)' \ {job'[d].quote}
  <2>1. job'[d] = job[d] /\ Points(job[d])
    BY <1>1, <1>3 DEF Inductive, JobsPoint
  <2>2. ASSUME job[d].op = "AWARD"
        PROVE  job'[d].losers \subseteq QuotesOf(quotes[job[d].quote].round)' \ {job'[d].quote}
    <3>1. job[d].quote \in Quotes /\ job[d].losers \subseteq QuotesOf(quotes[job[d].quote].round) \ {job[d].quote}
      BY <2>1, <2>2 DEF Points
    <3>2. PICK t : t = quotes[job[d].quote].round /\ t = quotes'[job[d].quote].round
      BY <3>1 DEF Grows
    <3>3. \A q \in QuotesOf(t) : q \in Quotes' /\ quotes'[q].round = t
      BY DEF QuotesOf, Grows
    <3> QED
      BY <2>1, <3>1, <3>2, <3>3 DEF QuotesOf
  <2> QED
    BY <2>1, <2>2 DEF Points, Grows
<1>4. job'[c] = j
  BY <1>1
<1>5. JobsPoint'
  BY <1>3, <1>4 DEF JobsPoint, Points
<1> QED
  BY <1>1, <1>5 DEF Inductive, TypeOK, RowsType, RowsAgree

LEMMA SameRows ==
  ASSUME Inductive, UNCHANGED <<rounds, quotes, orders>>
  PROVE  Grows /\ RowsType' /\ RowsAgree'
BY DEF Inductive, TypeOK, Grows, RowsType, RowsAgree, Linked, OpenIsUntouched, OrdersApart, SelectionAgrees,
       Rounds, Quotes, Orders, QuotesOf

LEMMA CreateRoundRows ==
  ASSUME Inductive, NEW row \in RoundRows, row = [status |-> "OPEN", awarded |-> 0],
         rounds' = Append(rounds, row), UNCHANGED <<quotes, orders>>
  PROVE  Grows /\ RowsType' /\ RowsAgree' /\ Len(rounds) + 1 \in Rounds'
<1> DEFINE new == Len(rounds) + 1
<1>1. /\ rounds' \in Seq(RoundRows) /\ rounds'[new] = row
      /\ Rounds' = Rounds \cup {new} /\ new \notin Rounds /\ new # 0
      /\ \A r \in Rounds : rounds'[r] = rounds[r]
  BY DEF Inductive, TypeOK, Rounds
<1>2. Quotes' = Quotes /\ Orders' = Orders /\ \A r : QuotesOf(r)' = QuotesOf(r)
  BY DEF Quotes, Orders, QuotesOf
<1> HIDE DEF new
<1>3. Linked'
  BY <1>1, <1>2 DEF Inductive, Linked
<1>4. \A q \in Quotes : quotes[q].round # new
  BY <1>1 DEF Inductive, Linked
<1>5. \A w \in Orders : orders[w].round # new
  BY <1>1 DEF Inductive, Linked
<1>6. OpenIsUntouched'
  BY <1>1, <1>2, <1>4, <1>5 DEF Inductive, OpenIsUntouched, Linked
<1>7. OrdersApart'
  BY <1>2 DEF Inductive, OrdersApart
<1>8. SelectionAgrees'
  BY <1>1, <1>2, <1>4, <1>5 DEF Inductive, SelectionAgrees, Linked
<1>9. Grows /\ RowsType'
  BY <1>1, <1>2 DEF Grows, RowsType, Inductive, TypeOK
<1> QED
  BY <1>1, <1>3, <1>6, <1>7, <1>8, <1>9 DEF RowsAgree, new

LEMMA CreateOrderRows ==
  ASSUME Inductive, NEW row \in OrderRows, row.round = 0, orders' = Append(orders, row), UNCHANGED <<rounds, quotes>>
  PROVE  Grows /\ RowsType' /\ RowsAgree'
<1> DEFINE new == Len(orders) + 1
<1>1. /\ orders' \in Seq(OrderRows) /\ orders'[new] = row
      /\ Orders' = Orders \cup {new} /\ new \notin Orders
      /\ \A w \in Orders : orders'[w] = orders[w]
  BY DEF Inductive, TypeOK, Orders
<1>2. Quotes' = Quotes /\ Rounds' = Rounds /\ \A r : QuotesOf(r)' = QuotesOf(r)
  BY DEF Quotes, Rounds, QuotesOf
<1> HIDE DEF new
<1>3. \A w \in Orders' : orders'[w].round # 0 => w \in Orders /\ orders'[w] = orders[w]
  BY <1>1
<1>4. Linked'
  BY <1>1, <1>2 DEF Inductive, Linked
<1>5. OpenIsUntouched'
  BY <1>2, <1>3 DEF Inductive, OpenIsUntouched, Linked
<1>6. OrdersApart'
  <2> SUFFICES ASSUME NEW v \in Orders', NEW u \in Orders', orders'[v].round # 0, orders'[v].round = orders'[u].round
               PROVE  v = u
    BY DEF OrdersApart
  <2>1. v \in Orders /\ u \in Orders /\ orders[v].round # 0 /\ orders[v].round = orders[u].round
    BY <1>3
  <2> QED
    BY <2>1 DEF Inductive, OrdersApart
<1>7. SelectionAgrees'
  <2>1. ASSUME NEW w \in Orders', orders'[w].round # 0
        PROVE  /\ quotes[orders'[w].selected].order = w
               /\ quotes[orders'[w].selected].round = orders'[w].round
               /\ rounds[orders'[w].round].awarded = orders'[w].selected
    <3>1. w \in Orders /\ orders'[w] = orders[w] /\ orders[w].round # 0
      BY <1>3, <2>1
    <3> QED
      BY <3>1 DEF Inductive, SelectionAgrees
  <2>2. \A q \in Quotes : quotes[q].status = "NOT_SELECTED" => rounds[quotes[q].round].awarded \notin {0, q}
    BY DEF Inductive, SelectionAgrees
  <2> QED
    BY <1>2, <2>1, <2>2 DEF SelectionAgrees
<1>8. Grows /\ RowsType'
  BY <1>1, <1>2 DEF Grows, RowsType, Inductive, TypeOK
<1> QED
  BY <1>4, <1>5, <1>6, <1>7, <1>8 DEF RowsAgree

LEMMA InviteRows ==
  ASSUME Inductive, NEW row \in QuoteRows, row.round \in Rounds, row.status = "REQUESTED", row.order = 0,
         quotes' = Append(quotes, row), UNCHANGED <<rounds, orders>>
  PROVE  Grows /\ RowsType' /\ RowsAgree'
<1> DEFINE new == Len(quotes) + 1
<1>1. /\ quotes' \in Seq(QuoteRows) /\ quotes'[new] = row
      /\ Quotes' = Quotes \cup {new} /\ new \notin Quotes
      /\ \A q \in Quotes : quotes'[q] = quotes[q]
  BY DEF Inductive, TypeOK, Quotes
<1>2. Rounds' = Rounds /\ Orders' = Orders
  BY DEF Rounds, Orders
<1> HIDE DEF new
<1>3. Linked'
  BY <1>1, <1>2 DEF Inductive, Linked
<1>31. \A q \in Quotes' : quotes'[q].status = "NOT_SELECTED" => q \in Quotes /\ quotes'[q] = quotes[q]
  BY <1>1
<1>32. \A q \in Quotes : quotes'[q] = quotes[q]
  BY <1>1
<1>4. OpenIsUntouched'
  BY <1>2, <1>31 DEF Inductive, OpenIsUntouched
<1>5. OrdersApart'
  BY <1>2 DEF Inductive, OrdersApart
<1>6. SelectionAgrees'
  <2>1. ASSUME NEW w \in Orders, orders[w].round # 0
        PROVE  /\ quotes'[orders[w].selected].order = w
               /\ quotes'[orders[w].selected].round = orders[w].round
               /\ rounds[orders[w].round].awarded = orders[w].selected
    BY <1>32, <2>1 DEF Inductive, SelectionAgrees, Linked
  <2>2. \A q \in Quotes' : quotes'[q].status = "NOT_SELECTED" => rounds[quotes'[q].round].awarded \notin {0, q}
    BY <1>31 DEF Inductive, SelectionAgrees
  <2> QED
    BY <1>2, <2>1, <2>2 DEF SelectionAgrees
<1>7. Grows /\ RowsType'
  BY <1>1, <1>2 DEF Grows, RowsType, Inductive, TypeOK
<1> QED
  BY <1>3, <1>4, <1>5, <1>6, <1>7 DEF RowsAgree

LEMMA CancelRows ==
  ASSUME Inductive, NEW r \in Rounds, rounds' = [rounds EXCEPT ![r].status = "CANCELLED"], UNCHANGED <<quotes, orders>>
  PROVE  Grows /\ RowsType' /\ RowsAgree'
<1>1. /\ rounds' \in Seq(RoundRows) /\ Rounds' = Rounds
      /\ \A t \in Rounds : /\ rounds'[t].awarded = rounds[t].awarded
                           /\ rounds'[t].status = IF t = r THEN "CANCELLED" ELSE rounds[t].status
  <2> DEFINE row == [rounds[r] EXCEPT !.status = "CANCELLED"]
  <2>1. rounds[r] \in RoundRows /\ rounds' = [rounds EXCEPT ![r] = row]
    BY RowTypes DEF Inductive
  <2>2. row \in RoundRows /\ row.awarded = rounds[r].awarded /\ row.status = "CANCELLED"
    BY <2>1 DEF RoundRows
  <2> HIDE DEF row
  <2>3. rounds \in Seq(RoundRows) /\ r \in 1..Len(rounds)
    BY DEF Inductive, TypeOK, Rounds
  <2>4. rounds' \in Seq(RoundRows) /\ Len(rounds') = Len(rounds)
    BY <2>1, <2>2, <2>3
  <2>5. \A t \in 1..Len(rounds) : rounds'[t] = IF t = r THEN row ELSE rounds[t]
    BY <2>1, <2>3
  <2> QED
    BY <2>2, <2>4, <2>5 DEF Rounds
<1>2. Quotes' = Quotes /\ Orders' = Orders /\ \A t : QuotesOf(t)' = QuotesOf(t)
  BY DEF Quotes, Orders, QuotesOf
<1>3. Linked' /\ OpenIsUntouched' /\ OrdersApart'
  BY <1>1, <1>2 DEF Inductive, Linked, OpenIsUntouched, OrdersApart
<1>4. SelectionAgrees'
  BY <1>1, <1>2 DEF Inductive, SelectionAgrees, Linked
<1>5. Grows /\ RowsType'
  BY <1>1, <1>2 DEF Grows, RowsType, Inductive, TypeOK
<1> QED
  BY <1>3, <1>4, <1>5 DEF RowsAgree

\* A reply never says NOT_SELECTED.
LEMMA ReplyRows ==
  ASSUME Inductive, NEW q \in Quotes, NEW st \in QuoteStatus \ {"NOT_SELECTED"},
         quotes' = [quotes EXCEPT ![q].status = st], UNCHANGED <<rounds, orders>>
  PROVE  Grows /\ RowsType' /\ RowsAgree'
<1>1. /\ quotes' \in Seq(QuoteRows) /\ Quotes' = Quotes
      /\ \A p \in Quotes : /\ quotes'[p].round = quotes[p].round /\ quotes'[p].order = quotes[p].order
                           /\ quotes'[p].status = IF p = q THEN st ELSE quotes[p].status
  <2> DEFINE row == [quotes[q] EXCEPT !.status = st]
  <2>1. quotes[q] \in QuoteRows /\ quotes' = [quotes EXCEPT ![q] = row]
    BY RowTypes DEF Inductive
  <2>2. row \in QuoteRows /\ row.round = quotes[q].round /\ row.order = quotes[q].order /\ row.status = st
    BY <2>1 DEF QuoteRows
  <2> HIDE DEF row
  <2>3. quotes \in Seq(QuoteRows) /\ q \in 1..Len(quotes)
    BY DEF Inductive, TypeOK, Quotes
  <2>4. quotes' \in Seq(QuoteRows) /\ Len(quotes') = Len(quotes)
    BY <2>1, <2>2, <2>3
  <2>5. \A p \in 1..Len(quotes) : quotes'[p] = IF p = q THEN row ELSE quotes[p]
    BY <2>1, <2>3
  <2> QED
    BY <2>2, <2>4, <2>5 DEF Quotes
<1>2. Rounds' = Rounds /\ Orders' = Orders /\ \A t : QuotesOf(t)' = QuotesOf(t)
  BY <1>1 DEF Rounds, Orders, QuotesOf
<1>3. Linked' /\ OrdersApart'
  BY <1>1, <1>2 DEF Inductive, Linked, OrdersApart
<1>4. OpenIsUntouched'
  BY <1>1, <1>2 DEF Inductive, OpenIsUntouched, Linked
<1>5. SelectionAgrees'
  BY <1>1, <1>2 DEF Inductive, SelectionAgrees, Linked
<1>6. Grows /\ RowsType'
  BY <1>1, <1>2 DEF Grows, RowsType, Inductive, TypeOK
<1> QED
  BY <1>3, <1>4, <1>5, <1>6 DEF RowsAgree

\* Moving an order or giving it another contractor.
LEMMA OrderRowsKept ==
  ASSUME Inductive, NEW w \in Orders, NEW row \in OrderRows, row.round = orders[w].round,
         row.selected = orders[w].selected, orders' = [orders EXCEPT ![w] = row], UNCHANGED <<rounds, quotes>>
  PROVE  Grows /\ RowsType' /\ RowsAgree'
<1>1. /\ orders' \in Seq(OrderRows) /\ Orders' = Orders
      /\ \A v \in Orders : orders'[v].round = orders[v].round /\ orders'[v].selected = orders[v].selected
  BY DEF Inductive, TypeOK, Orders
<1>2. Quotes' = Quotes /\ Rounds' = Rounds /\ \A r : QuotesOf(r)' = QuotesOf(r)
  BY DEF Quotes, Rounds, QuotesOf
<1>3. Linked' /\ OpenIsUntouched' /\ OrdersApart'
  BY <1>1, <1>2 DEF Inductive, Linked, OpenIsUntouched, OrdersApart
<1>4. SelectionAgrees'
  BY <1>1, <1>2 DEF Inductive, SelectionAgrees
<1>5. Grows /\ RowsType'
  BY <1>1, <1>2 DEF Grows, RowsType, Inductive, TypeOK
<1> QED
  BY <1>3, <1>4, <1>5 DEF RowsAgree

-----------------------------------------------------------------------------
(***************************************************************************)
(* Awards                                                                  *)
(***************************************************************************)

LEMMA AwardRows ==
  ASSUME Inductive, NEW q \in Quotes, NEW r, r = quotes[q].round, rounds[r].status = "OPEN",
         NEW losers, losers \subseteq QuotesOf(r) \ {q},
         rounds' = [rounds EXCEPT ![r] = [status |-> "AWARDED", awarded |-> q]], Select(q, losers)
  PROVE  Grows /\ RowsType' /\ RowsAgree'
<1> DEFINE new == Len(orders) + 1
<1>1. r \in Rounds /\ r # 0 /\ q # 0 /\ q \in Nat /\ quotes[q] \in QuoteRows
  BY RowTypes DEF Inductive, Linked, Rounds, Quotes
<1>2. /\ rounds' \in Seq(RoundRows) /\ Rounds' = Rounds
      /\ rounds'[r] = [status |-> "AWARDED", awarded |-> q]
      /\ \A t \in Rounds : t # r => rounds'[t] = rounds[t]
  <2>1. [status |-> "AWARDED", awarded |-> q] \in RoundRows
    BY <1>1 DEF RoundRows
  <2> QED
    BY <1>1, <2>1 DEF Inductive, TypeOK, Rounds
<1>3. PICK order \in OrderRows : /\ order.round = r /\ order.selected = q
                                /\ orders' = Append(orders, order)
  <2> DEFINE row == [status |-> "DRAFT", round |-> r, selected |-> q, contractor |-> quotes[q].contractor]
  <2>1. quotes[q].contractor \in Contractors /\ r \in Nat
    BY <1>1 DEF QuoteRows
  <2>2. row \in OrderRows /\ row.round = r /\ row.selected = q
    BY <1>1, <2>1 DEF OrderRows, OrderStatus
  <2>3. orders' = Append(orders, row)
    BY DEF Select
  <2> QED
    BY <2>2, <2>3
<1>4. /\ orders' \in Seq(OrderRows) /\ orders'[new] = order
      /\ Orders' = Orders \cup {new} /\ new \notin Orders /\ new \in Nat
      /\ \A v \in Orders : orders'[v] = orders[v]
  BY <1>3 DEF Inductive, TypeOK, Orders
<1> DEFINE Written(p) ==
             IF p = q THEN [quotes[p] EXCEPT !.order = new]
             ELSE IF p \in losers /\ quotes[p].status = "SUBMITTED"
             THEN [quotes[p] EXCEPT !.status = "NOT_SELECTED"] ELSE quotes[p]
<1>5. quotes' = [p \in Quotes |-> Written(p)]
  BY DEF Select
<1>6. \A p \in Quotes : Written(p) \in QuoteRows /\ Written(p).round = quotes[p].round
  <2>1. \A p \in Quotes : quotes[p] \in QuoteRows
    BY RowTypes DEF Inductive
  <2> QED
    BY <1>4, <2>1 DEF QuoteRows, QuoteStatus
<1>7. /\ Written(q).order = new
      /\ \A p \in Quotes : /\ p # q => Written(p).order = quotes[p].order
                           /\ Written(p).status = "NOT_SELECTED" =>
                                (p # q /\ p \in losers) \/ quotes[p].status = "NOT_SELECTED"
  <2>1. \A p \in Quotes : quotes[p] \in QuoteRows
    BY RowTypes DEF Inductive
  <2> QED
    BY <2>1 DEF QuoteRows
<1> HIDE DEF Written, new
<1>0. orders'[new].round = r /\ orders'[new].selected = q
  BY <1>3, <1>4
<1>8. quotes' \in Seq(QuoteRows) /\ Quotes' = Quotes /\ \A p \in Quotes : quotes'[p] = Written(p)
  <2>1. PICK n \in Nat : n = Len(quotes)
    BY RowTypes DEF Inductive
  <2>2. quotes' \in [1..n -> QuoteRows]
    BY <1>5, <1>6, <2>1 DEF Quotes
  <2> QED
    BY <1>5, <2>1, <2>2 DEF Quotes
<1>9. \A v \in Orders : orders[v].round # r
  BY <1>1 DEF Inductive, OpenIsUntouched
<1>10. \A p \in Quotes : quotes[p].status = "NOT_SELECTED" => quotes[p].round # r
  BY DEF Inductive, OpenIsUntouched
<1>11. Linked'
  <2>1. \A p \in Quotes' : quotes'[p].round \in Rounds'
    BY <1>2, <1>6, <1>8 DEF Inductive, Linked
  <2>2. ASSUME NEW v \in Orders', orders'[v].round # 0
        PROVE  orders'[v].round \in Rounds' /\ orders'[v].selected \in Quotes'
    <3>1. CASE v = new
      BY <1>0, <1>1, <1>2, <1>8, <3>1
    <3>2. CASE v \in Orders
      BY <1>2, <1>4, <1>8, <2>2, <3>2 DEF Inductive, Linked
    <3> QED
      BY <1>4, <3>1, <3>2
  <2> QED
    BY <2>1, <2>2 DEF Linked
<1>12. OpenIsUntouched'
  <2>1. ASSUME NEW v \in Orders', orders'[v].round # 0
        PROVE  rounds'[orders'[v].round].status # "OPEN"
    <3>1. CASE v = new
      BY <1>0, <1>2, <3>1
    <3>2. CASE v \in Orders
      BY <1>2, <1>4, <1>9, <2>1, <3>2 DEF Inductive, OpenIsUntouched, Linked
    <3> QED
      BY <1>4, <3>1, <3>2
  <2>2. ASSUME NEW p \in Quotes, quotes'[p].status = "NOT_SELECTED"
        PROVE  rounds'[quotes'[p].round].status # "OPEN"
    <3>1. CASE p \in losers
      <4>1. quotes'[p].round = r
        BY <1>6, <1>8, <3>1 DEF QuotesOf
      <4> QED
        BY <1>2, <4>1
    <3>2. CASE p \notin losers
      <4>1. quotes[p].status = "NOT_SELECTED" /\ quotes'[p].round = quotes[p].round
        BY <1>6, <1>7, <1>8, <2>2, <3>2
      <4> QED
        BY <1>2, <1>10, <4>1 DEF Inductive, OpenIsUntouched, Linked
    <3> QED
      BY <3>1, <3>2
  <2> QED
    BY <1>8, <2>1, <2>2 DEF OpenIsUntouched
<1>13. OrdersApart'
  <2>1. \A v \in Orders : orders'[v].round = orders[v].round /\ orders'[v].round # orders'[new].round
    BY <1>0, <1>4, <1>9
  <2> QED
    BY <1>4, <2>1 DEF Inductive, OrdersApart
<1>14. SelectionAgrees'
  <2>1. ASSUME NEW v \in Orders', orders'[v].round # 0
        PROVE  /\ quotes'[orders'[v].selected].order = v
               /\ quotes'[orders'[v].selected].round = orders'[v].round
               /\ rounds'[orders'[v].round].awarded = orders'[v].selected
    <3>1. CASE v = new
      BY <1>0, <1>2, <1>6, <1>7, <1>8, <3>1
    <3>2. CASE v \in Orders
      <4>1. /\ orders'[v] = orders[v] /\ orders[v].round \in Rounds /\ orders[v].round # r
            /\ orders[v].selected \in Quotes /\ quotes[orders[v].selected].order = v
            /\ quotes[orders[v].selected].round = orders[v].round
            /\ rounds[orders[v].round].awarded = orders[v].selected
        BY <1>4, <1>9, <2>1, <3>2 DEF Inductive, SelectionAgrees, Linked
      <4>2. orders[v].selected # q
        BY <4>1
      <4> QED
        BY <1>2, <1>6, <1>7, <1>8, <4>1, <4>2
    <3> QED
      BY <1>4, <3>1, <3>2
  <2>2. ASSUME NEW p \in Quotes, quotes'[p].status = "NOT_SELECTED"
        PROVE  rounds'[quotes'[p].round].awarded \notin {0, p}
    <3>1. CASE p # q /\ p \in losers
      <4>1. quotes'[p].round = r
        BY <1>6, <1>8, <3>1 DEF QuotesOf
      <4> QED
        BY <1>1, <1>2, <3>1, <4>1
    <3>2. CASE quotes[p].status = "NOT_SELECTED"
      <4>1. quotes'[p].round = quotes[p].round /\ quotes[p].round # r
        BY <1>6, <1>8, <1>10, <3>2
      <4> QED
        BY <1>2, <3>2, <4>1 DEF Inductive, SelectionAgrees, Linked
    <3> QED
      BY <1>7, <1>8, <2>2, <3>1, <3>2
  <2> QED
    BY <1>8, <2>1, <2>2 DEF SelectionAgrees
<1>15. Grows /\ RowsType'
  BY <1>2, <1>4, <1>6, <1>8 DEF Grows, RowsType
<1> QED
  BY <1>11, <1>12, <1>13, <1>14, <1>15 DEF RowsAgree

-----------------------------------------------------------------------------
(***************************************************************************)
(* The steps                                                               *)
(***************************************************************************)

LEMMA CreateRoundStep ==
  ASSUME Inductive, NEW c \in Clients, CreateRound(c)
  PROVE  Inductive'
<1> DEFINE row == [status |-> "OPEN", awarded |-> 0]
<1>1. row \in RoundRows
  BY DEF RoundRows
<1>2. rounds' = Append(rounds, row) /\ UNCHANGED <<quotes, orders>>
  BY DEF CreateRound
<1>3. PICK chosen \in SUBSET Contractors : Become(c, [op |-> "INVITE", round |-> Len(rounds) + 1, todo |-> chosen])
  BY DEF CreateRound, Begin, Become
<1> DEFINE j == [op |-> "INVITE", round |-> Len(rounds) + 1, todo |-> chosen]
<1>4. Grows /\ RowsType' /\ RowsAgree' /\ Len(rounds) + 1 \in Rounds'
  BY <1>1, <1>2, CreateRoundRows
<1>5. Len(rounds) + 1 \in Nat
  BY RowTypes DEF Inductive
<1>6. j \in Jobs
  BY <1>5 DEF Jobs
<1>7. job' = [job EXCEPT ![c] = j]
  BY <1>3 DEF Become
<1> QED
  BY <1>4, <1>6, <1>7, StepReplaces

LEMMA CreateOrderStep ==
  ASSUME Inductive, NEW c \in Clients, CreateOrder(c)
  PROVE  Inductive'
<1> DEFINE row == [status |-> "DRAFT", round |-> 0, selected |-> 0, contractor |-> "NONE"]
<1>1. row \in OrderRows /\ row.round = 0
  BY DEF OrderRows, OrderStatus
<1>2. orders' = Append(orders, row) /\ UNCHANGED <<rounds, quotes, job>>
  BY DEF CreateOrder
<1>3. Grows /\ RowsType' /\ RowsAgree'
  BY <1>1, <1>2, CreateOrderRows
<1>4. job[c] \in Jobs /\ Points(job[c]) /\ Become(c, job[c])
  BY <1>2 DEF Inductive, TypeOK, JobsPoint, Become
<1> QED
  BY <1>3, <1>4, StepEnds

\* A request that starts writes nothing yet.
LEMMA Starts ==
  ASSUME Inductive, NEW c \in Clients, NEW j \in Jobs, Points(j), Begin(c, j), UNCHANGED <<rounds, quotes, orders>>
  PROVE  Inductive'
BY SameRows, StepEnds DEF Begin, Become

LEMMA ReadStep ==
  ASSUME Inductive, NEW c \in Clients, Read(c)
  PROVE  Inductive'
<1>1. UNCHANGED <<rounds, quotes, orders>>
  BY DEF Read
<1>2. Rounds \subseteq Nat /\ Quotes \subseteq Nat /\ Orders \subseteq Nat
  BY DEF Rounds, Quotes, Orders
<1>3. ASSUME ReadInvite(c) PROVE Inductive'
  <2>1. PICK r \in Rounds, chosen \in SUBSET Contractors :
          Begin(c, [op |-> "INVITE", round |-> r, todo |-> chosen \ Invited(r)])
    BY <1>3 DEF ReadInvite, ActiveRounds
  <2> DEFINE j == [op |-> "INVITE", round |-> r, todo |-> chosen \ Invited(r)]
  <2>2. j \in Jobs /\ Points(j)
    BY <1>2 DEF Jobs, Points
  <2> QED
    BY <1>1, <2>1, <2>2, Starts
<1>4. ASSUME ReadCancel(c) PROVE Inductive'
  <2>1. PICK r \in Rounds : Begin(c, [op |-> "CANCEL", round |-> r])
    BY <1>4 DEF ReadCancel
  <2> DEFINE j == [op |-> "CANCEL", round |-> r]
  <2>2. j \in Jobs /\ Points(j)
    BY <1>2 DEF Jobs, Points
  <2> QED
    BY <1>1, <2>1, <2>2, Starts
<1>5. ASSUME ReadAward(c) PROVE Inductive'
  <2>1. PICK q \in Quotes : Begin(c, [op |-> "AWARD", quote |-> q, losers |-> QuotesOf(quotes[q].round) \ {q}])
    BY <1>5 DEF ReadAward
  <2> DEFINE j == [op |-> "AWARD", quote |-> q, losers |-> QuotesOf(quotes[q].round) \ {q}]
  <2>2. QuotesOf(quotes[q].round) \ {q} \in SUBSET Nat
    BY <1>2 DEF QuotesOf
  <2>3. j \in Jobs /\ Points(j)
    BY <1>2, <2>2 DEF Jobs, Points
  <2> QED
    BY <1>1, <2>1, <2>3, Starts
<1>6. ASSUME ReadReply(c) PROVE Inductive'
  <2>1. PICK q \in Quotes, reply \in Replies : Begin(c, [op |-> "REPLY", quote |-> q, status |-> reply[2]])
    BY <1>6 DEF ReadReply
  <2> DEFINE j == [op |-> "REPLY", quote |-> q, status |-> reply[2]]
  <2>2. reply[2] \in QuoteStatus \ {"NOT_SELECTED"}
    BY DEF Replies, QuoteStatus
  <2>3. j \in Jobs /\ Points(j)
    BY <1>2, <2>2 DEF Jobs, Points
  <2> QED
    BY <1>1, <2>1, <2>3, Starts
<1>7. ASSUME ReadMove(c) PROVE Inductive'
  <2>1. PICK w \in Orders, t \in Transitions : Begin(c, [op |-> "MOVE", order |-> w, to |-> t[2]])
    BY <1>7 DEF ReadMove
  <2> DEFINE j == [op |-> "MOVE", order |-> w, to |-> t[2]]
  <2>2. t[2] \in OrderStatus
    BY DEF Transitions, OrderStatus
  <2>3. j \in Jobs /\ Points(j)
    BY <1>2, <2>2 DEF Jobs, Points
  <2> QED
    BY <1>1, <2>1, <2>3, Starts
<1>8. ASSUME ReadAssign(c) PROVE Inductive'
  <2>1. PICK w \in Orders, k \in Contractors : Begin(c, [op |-> "ASSIGN", order |-> w, contractor |-> k])
    BY <1>8 DEF ReadAssign
  <2> DEFINE j == [op |-> "ASSIGN", order |-> w, contractor |-> k]
  <2>2. j \in Jobs /\ Points(j)
    BY <1>2 DEF Jobs, Points
  <2> QED
    BY <1>1, <2>1, <2>2, Starts
<1> QED
  BY <1>3, <1>4, <1>5, <1>6, <1>7, <1>8 DEF Read

\* A request that ends and leaves the rows as they are.
LEMMA EndsQuietly ==
  ASSUME Inductive, NEW c \in Clients, Become(c, Idle), UNCHANGED <<rounds, quotes, orders>>
  PROVE  Inductive'
BY SameRows, StepEnds, IdleType

LEMMA InviteStep ==
  ASSUME Inductive, NEW c \in Clients, Invite(c)
  PROVE  Inductive'
<1>1. job[c] \in Jobs /\ job[c].op = "INVITE" /\ job[c].round \in Rounds /\ job[c].todo \in SUBSET Contractors
  BY JobType DEF Invite, Inductive, TypeOK
<1>2. UNCHANGED <<rounds, orders>>
  BY DEF Invite
<1>3. CASE Become(c, Idle) /\ UNCHANGED quotes
  BY <1>2, <1>3, EndsQuietly
<1>4. ASSUME NEW k \in Contractors,
             quotes' = Append(quotes, [round |-> job[c].round, contractor |-> k, status |-> "REQUESTED", order |-> 0]),
             Become(c, [job[c] EXCEPT !.todo = @ \ {k}])
      PROVE  Inductive'
  <2> DEFINE row == [round |-> job[c].round, contractor |-> k, status |-> "REQUESTED", order |-> 0]
             j == [job[c] EXCEPT !.todo = @ \ {k}]
  <2>1. job[c].round \in Nat
    BY <1>1 DEF Rounds
  <2>2. row \in QuoteRows /\ row.round \in Rounds /\ row.status = "REQUESTED" /\ row.order = 0
    BY <1>1, <2>1 DEF QuoteRows, QuoteStatus
  <2>3. Grows /\ RowsType' /\ RowsAgree'
    BY <1>2, <1>4, <2>2, InviteRows
  <2>4. job[c] \in [op : {"INVITE"}, round : Nat, todo : SUBSET Contractors]
    BY <1>1 DEF Jobs, Idle
  <2>5. j \in [op : {"INVITE"}, round : Nat, todo : SUBSET Contractors] /\ j.round = job[c].round
    BY <2>4
  <2>6. j \in Jobs /\ Points(j)
    BY <1>1, <2>5 DEF Jobs, Points
  <2> QED
    BY <1>4, <2>3, <2>6, StepEnds
<1>5. \/ Become(c, Idle) /\ UNCHANGED quotes
      \/ \E k \in Contractors :
           /\ quotes' = Append(quotes, [round |-> job[c].round, contractor |-> k, status |-> "REQUESTED", order |-> 0])
           /\ Become(c, [job[c] EXCEPT !.todo = @ \ {k}])
  BY <1>1 DEF Invite
<1> QED
  BY <1>3, <1>4, <1>5

LEMMA CancelRoundStep ==
  ASSUME Inductive, NEW c \in Clients, CancelRound(c)
  PROVE  Inductive'
<1>1. job[c].round \in Rounds /\ Become(c, Idle)
  BY JobType DEF CancelRound, Inductive
<1>2. Grows /\ RowsType' /\ RowsAgree'
  BY <1>1, CancelRows DEF CancelRound
<1> QED
  BY <1>1, <1>2, StepEnds, IdleType

LEMMA AwardStep ==
  ASSUME Inductive, NEW c \in Clients, Award(c)
  PROVE  Inductive'
<1> DEFINE q == job[c].quote
           r == quotes[q].round
           losers == job[c].losers
<1>1. q \in Quotes /\ losers \subseteq QuotesOf(r) \ {q} /\ Become(c, Idle)
  BY JobType DEF Award, Inductive
<1>2. CASE rounds[r].status = "OPEN"
  <2>1. rounds' = [rounds EXCEPT ![r] = [status |-> "AWARDED", awarded |-> q]] /\ Select(q, losers)
    BY <1>2 DEF Award
  <2>2. Grows /\ RowsType' /\ RowsAgree'
    BY <1>1, <1>2, <2>1, AwardRows
  <2> QED
    BY <1>1, <2>2, StepEnds, IdleType
<1>3. CASE rounds[r].status # "OPEN"
  BY <1>1, <1>3, EndsQuietly DEF Award
<1> QED
  BY <1>2, <1>3

LEMMA ReplyStep ==
  ASSUME Inductive, NEW c \in Clients, Reply(c)
  PROVE  Inductive'
<1>1. job[c].quote \in Quotes /\ job[c].status \in QuoteStatus \ {"NOT_SELECTED"} /\ Become(c, Idle)
  BY JobType DEF Reply, Inductive
<1>2. Grows /\ RowsType' /\ RowsAgree'
  BY <1>1, ReplyRows DEF Reply
<1> QED
  BY <1>1, <1>2, StepEnds, IdleType

LEMMA MoveStep ==
  ASSUME Inductive, NEW c \in Clients, Move(c)
  PROVE  Inductive'
<1>1. job[c].order \in Orders /\ job[c].to \in OrderStatus /\ Become(c, Idle)
  BY JobType DEF Move, Inductive
<1>2. orders[job[c].order] \in OrderRows
  BY <1>1, RowTypes DEF Inductive
<1> DEFINE w == job[c].order
           row == [orders[w] EXCEPT !.status = job[c].to]
<1>3. row \in OrderRows /\ row.round = orders[w].round /\ row.selected = orders[w].selected
  BY <1>1, <1>2 DEF OrderRows
<1>4. orders' = [orders EXCEPT ![w] = row] /\ UNCHANGED <<rounds, quotes>>
  BY DEF Move
<1>5. Grows /\ RowsType' /\ RowsAgree'
  BY <1>1, <1>3, <1>4, OrderRowsKept
<1> QED
  BY <1>1, <1>5, StepEnds, IdleType

LEMMA AssignStep ==
  ASSUME Inductive, NEW c \in Clients, Assign(c)
  PROVE  Inductive'
<1>1. job[c].order \in Orders /\ job[c].contractor \in Contractors /\ Become(c, Idle)
  BY JobType DEF Assign, Inductive
<1>2. orders[job[c].order] \in OrderRows
  BY <1>1, RowTypes DEF Inductive
<1> DEFINE w == job[c].order
           row == [orders[w] EXCEPT !.contractor = job[c].contractor]
<1>3. row \in OrderRows /\ row.round = orders[w].round /\ row.selected = orders[w].selected
  BY <1>1, <1>2 DEF OrderRows
<1>4. orders' = [orders EXCEPT ![w] = row] /\ UNCHANGED <<rounds, quotes>>
  BY DEF Assign
<1>5. Grows /\ RowsType' /\ RowsAgree'
  BY <1>1, <1>3, <1>4, OrderRowsKept
<1> QED
  BY <1>1, <1>5, StepEnds, IdleType

-----------------------------------------------------------------------------
(***************************************************************************)
(* The theorems                                                            *)
(***************************************************************************)

LEMMA InitInductive == Init => Inductive
<1> SUFFICES ASSUME Init PROVE Inductive
  OBVIOUS
<1>1. rounds \in Seq(RoundRows) /\ quotes \in Seq(QuoteRows) /\ orders \in Seq(OrderRows)
  BY DEF Init
<1>2. Rounds = {} /\ Quotes = {} /\ Orders = {}
  BY DEF Init, Rounds, Quotes, Orders
<1>3. job \in [Clients -> Jobs] /\ \A c \in Clients : Points(job[c])
  BY IdleType DEF Init
<1>4. Linked /\ OpenIsUntouched /\ OrdersApart /\ SelectionAgrees
  BY <1>2 DEF Linked, OpenIsUntouched, OrdersApart, SelectionAgrees
<1> QED
  BY <1>1, <1>3, <1>4 DEF Inductive, TypeOK, JobsPoint

LEMMA NextInductive == Inductive /\ [Next]_vars => Inductive'
<1> SUFFICES ASSUME Inductive, [Next]_vars PROVE Inductive'
  OBVIOUS
<1>1. CASE UNCHANGED vars
  BY <1>1, SameRows DEF vars, Inductive, TypeOK, JobsPoint, Points, RowsType, RowsAgree, Rounds, Quotes, Orders, QuotesOf
<1>2. ASSUME NEW c \in Clients,
             \/ CreateRound(c) \/ CreateOrder(c) \/ Read(c)
             \/ Invite(c) \/ CancelRound(c) \/ Award(c) \/ Reply(c) \/ Move(c) \/ Assign(c) \/ Abandon(c)
      PROVE  Inductive'
  <2>1. CASE CreateRound(c)
    BY <2>1, CreateRoundStep
  <2>2. CASE CreateOrder(c)
    BY <2>2, CreateOrderStep
  <2>3. CASE Read(c)
    BY <2>3, ReadStep
  <2>4. CASE Invite(c)
    BY <2>4, InviteStep
  <2>5. CASE CancelRound(c)
    BY <2>5, CancelRoundStep
  <2>6. CASE Award(c)
    BY <2>6, AwardStep
  <2>7. CASE Reply(c)
    BY <2>7, ReplyStep
  <2>8. CASE Move(c)
    BY <2>8, MoveStep
  <2>9. CASE Assign(c)
    BY <2>9, AssignStep
  <2>10. CASE Abandon(c)
    BY <2>10, EndsQuietly DEF Abandon
  <2> QED
    BY <1>2, <2>1, <2>2, <2>3, <2>4, <2>5, <2>6, <2>7, <2>8, <2>9, <2>10
<1> QED
  BY <1>1, <1>2 DEF Next

\* The invariant holds however requests overlap.
THEOREM InductiveHolds == Spec => []Inductive
<1> QED
  BY InitInductive, NextInductive, PTL DEF Spec

\* Rounds, quotes, orders and requests have their types: no request that
\* read a row writes another kind of thing into it (QuoteRoundsService).
THEOREM TypeCorrect == Spec => []TypeOK
<1>1. Inductive => TypeOK
  BY DEF Inductive
<1> QED
  BY <1>1, InductiveHolds, PTL

LEMMA AtMostOne ==
  ASSUME NEW S, \A x, y \in S : x = y
  PROVE  Cardinality(S) <= 1
<1>1. CASE S = {}
  BY <1>1, FS_EmptySet
<1>2. CASE S # {}
  <2>1. PICK x : S = {x}
    BY <1>2
  <2> QED
    BY <2>1, FS_Singleton
<1> QED
  BY <1>1, <1>2

\* A round yields one work order at most for any number of clients, since
\* award updates the round only where it is still OPEN
\* (QuoteRoundsService.award).
THEOREM OneOrder == Spec => []OneWorkOrderPerRound
<1>1. Inductive => OneWorkOrderPerRound
  <2> SUFFICES ASSUME Inductive, NEW r \in Rounds PROVE Cardinality({w \in Orders : orders[w].round = r}) <= 1
    BY DEF OneWorkOrderPerRound
  <2>1. r # 0
    BY DEF Rounds
  <2>2. \A x, y \in {w \in Orders : orders[w].round = r} : x = y
    BY <2>1 DEF Inductive, OrdersApart
  <2> QED
    BY <2>2, AtMostOne
<1> QED
  BY <1>1, InductiveHolds, PTL

\* Work order, winning quote and round name each other, and a quote that lost
\* lost to another one of its round (QuoteRoundsService.award).
THEOREM SelectionsAgree == Spec => []SelectionAgrees
<1>1. Inductive => SelectionAgrees
  BY DEF Inductive
<1> QED
  BY <1>1, InductiveHolds, PTL

-----------------------------------------------------------------------------
(***************************************************************************)
(* The two evaluations of a requirement, in any state whatever.            *)
(***************************************************************************)

Worst(reasons) == Compliance!Min({4} \cup {Compliance!Severity(i) : i \in reasons})

LEMMA EffectiveIs ==
  ASSUME NEW c
  PROVE  Compliance!Effective(c) \in {"REJECTED", "EXPIRED", "PENDING", "EXPIRING_SOON", "CURRENT"}
BY DEF Compliance!Effective

LEMMA SeverityIs == ASSUME NEW x PROVE Compliance!Severity(x) \in 0..4
BY DEF Compliance!Severity

LEMMA SeverityOf ==
  /\ \A x \in {"EXPIRED", "REJECTED"} : Compliance!Severity(x) = 0
  /\ \A x \in {"MISSING", "INSUFFICIENT_COVERAGE"} : Compliance!Severity(x) = 1
  /\ \A x \in {"NOT_VERIFIED", "PENDING_VERIFICATION"} : Compliance!Severity(x) = 2
  /\ Compliance!Severity("EXPIRING_SOON") = 3 /\ Compliance!Severity("SATISFIED") = 4
BY DEF Compliance!Severity

\* The least of the severities, or 4.
LEMMA LeastIs ==
  ASSUME NEW S \in SUBSET (0..4), 4 \in S
  PROVE  Compliance!Min(S) \in S /\ \A y \in S : Compliance!Min(S) <= y
<1>1. \E x \in S : \A y \in S : x <= y
  <2>1. CASE 0 \in S
    BY <2>1
  <2>2. CASE 0 \notin S /\ 1 \in S
    BY <2>2
  <2>3. CASE 0 \notin S /\ 1 \notin S /\ 2 \in S
    BY <2>3
  <2>4. CASE 0 \notin S /\ 1 \notin S /\ 2 \notin S
    BY <2>4
  <2> QED
    BY <2>1, <2>2, <2>3, <2>4
<1> QED
  BY <1>1 DEF Compliance!Min

LEMMA WorstIs ==
  ASSUME NEW I
  PROVE  /\ Worst(I) \in 0..4
         /\ \A i \in I : Worst(I) <= Compliance!Severity(i)
         /\ Worst(I) = 4 \/ \E i \in I : Worst(I) = Compliance!Severity(i)
<1> DEFINE S == {4} \cup {Compliance!Severity(i) : i \in I}
<1>1. S \in SUBSET (0..4) /\ 4 \in S
  BY SeverityIs
<1>2. Compliance!Min(S) \in S /\ \A y \in S : Compliance!Min(S) <= y
  BY <1>1, LeastIs
<1> QED
  BY <1>1, <1>2 DEF Worst

LEMMA WorstWhen ==
  ASSUME NEW I, NEW m \in 0..4, \A i \in I : m <= Compliance!Severity(i),
         m = 4 \/ \E i \in I : m = Compliance!Severity(i)
  PROVE  Worst(I) = m
BY WorstIs, SeverityIs

LEMMA AnswerIsWorst ==
  ASSUME NEW r \in Requirements
  PROVE  Compliance!Severity(Compliance!Evaluate(r)) = Worst(Compliance!Issues(r))
<1> DEFINE is == Compliance!Effective(Compliance!Best)
           poor == Compliance!Insufficient(r, Compliance!Best)
           E == Compliance!Evaluate(r)
           I == Compliance!Issues(r)
<1> r.required \in BOOLEAN /\ r.verified \in BOOLEAN /\ r.unexpired \in BOOLEAN
  BY ComplianceAssumption
<1>1. CASE Compliance!Present = {}
  <2>1. E = IF r.required THEN "MISSING" ELSE "SATISFIED"
    BY <1>1 DEF Compliance!Evaluate
  <2>2. I = IF r.required THEN {"MISSING"} ELSE {}
    BY <1>1 DEF Compliance!Issues
  <2> QED
    BY <2>1, <2>2, WorstWhen, SeverityOf
<1>2. CASE Compliance!Present # {} /\ is = "REJECTED"
  <2>1. E = IF r.required THEN "REJECTED" ELSE "SATISFIED"
    BY <1>2 DEF Compliance!Evaluate
  <2>2. I = IF r.required THEN {"REJECTED"} ELSE {}
    BY <1>2 DEF Compliance!Issues
  <2> QED
    BY <2>1, <2>2, WorstWhen, SeverityOf
<1>3. CASE Compliance!Present # {} /\ is = "PENDING"
  <2>1. E = IF r.required /\ r.verified THEN "PENDING_VERIFICATION" ELSE "SATISFIED"
    BY <1>3 DEF Compliance!Evaluate
  <2>2. I = IF r.required /\ r.verified THEN {"NOT_VERIFIED"} ELSE {}
    BY <1>3 DEF Compliance!Issues
  <2> QED
    BY <2>1, <2>2, WorstWhen, SeverityOf
<1>4. CASE Compliance!Present # {} /\ is = "EXPIRED"
  <2>1. E = IF r.required /\ r.unexpired THEN "EXPIRED" ELSE "SATISFIED"
    BY <1>4 DEF Compliance!Evaluate
  <2>2. I = IF r.required /\ r.unexpired THEN {"EXPIRED"} ELSE {}
    BY <1>4 DEF Compliance!Issues
  <2> QED
    BY <2>1, <2>2, WorstWhen, SeverityOf
<1>5. CASE Compliance!Present # {} /\ is \in {"CURRENT", "EXPIRING_SOON"}
  <2>1. E = IF poor THEN "INSUFFICIENT_COVERAGE" ELSE IF is = "CURRENT" THEN "SATISFIED" ELSE "EXPIRING_SOON"
    BY <1>5 DEF Compliance!Evaluate, Compliance!Insufficient
  <2>2. I = ({is} \ {"CURRENT"}) \cup (IF poor THEN {"INSUFFICIENT_COVERAGE"} ELSE {})
    BY <1>5 DEF Compliance!Issues
  <2>3. CASE poor
    <3>1. E = "INSUFFICIENT_COVERAGE" /\ I \subseteq {"EXPIRING_SOON", "INSUFFICIENT_COVERAGE"} /\ "INSUFFICIENT_COVERAGE" \in I
      BY <1>5, <2>1, <2>2, <2>3
    <3>2. Compliance!Severity("INSUFFICIENT_COVERAGE") = 1 /\ \A i \in I : 1 <= Compliance!Severity(i)
      BY <3>1, SeverityOf
    <3> QED
      BY <3>1, <3>2, WorstWhen
  <2>4. CASE ~poor /\ is = "CURRENT"
    <3>1. E = "SATISFIED" /\ I = {}
      BY <2>1, <2>2, <2>4
    <3> QED
      BY <3>1, WorstWhen, SeverityOf
  <2>5. CASE ~poor /\ is = "EXPIRING_SOON"
    <3>1. E = "EXPIRING_SOON" /\ I = {"EXPIRING_SOON"}
      BY <2>1, <2>2, <2>5
    <3> QED
      BY <3>1, WorstWhen, SeverityOf
  <2> QED
    BY <1>5, <2>3, <2>4, <2>5
<1> QED
  BY <1>1, <1>2, <1>3, <1>4, <1>5, EffectiveIs

\* The rows listed show the answers of their requirements, whatever they are
\* grouped by.
LEMMA RowsShowAnswers ==
  ASSUME NEW trades
  PROVE  {row.status : row \in Compliance!ApplicableRequirements(trades)}
           = {Compliance!Evaluate(r) : r \in Compliance!RequirementsOf(trades)}
<1> DEFINE R == Compliance!RequirementsOf(trades)
           answer == [r \in R |-> Compliance!Evaluate(r)]
           Row(status) == [status |-> status, trades |-> {r.trade : r \in {q \in DOMAIN answer : answer[q] = status}}]
<1>1. Compliance!ApplicableRequirements(trades) = {Row(status) : status \in {answer[r] : r \in DOMAIN answer}}
  BY DEF Compliance!ApplicableRequirements
<1>2. {answer[r] : r \in DOMAIN answer} = {Compliance!Evaluate(r) : r \in R}
  OBVIOUS
<1>3. \A status : Row(status).status = status
  OBVIOUS
<1> HIDE DEF Row, answer, R
<1> QED
  BY <1>1, <1>2, <1>3 DEF R

LEMMA OverviewIsWorst ==
  ASSUME NEW trades
  PROVE  Worst(UNION {Compliance!Issues(r) : r \in Compliance!RequirementsOf(trades)})
           = Worst({Compliance!Evaluate(r) : r \in Compliance!RequirementsOf(trades)})
<1> DEFINE R == Compliance!RequirementsOf(trades)
           I == UNION {Compliance!Issues(r) : r \in R}
           A == {Compliance!Evaluate(r) : r \in R}
           m == Worst(I)
<1>1. R \subseteq Requirements
  BY DEF Compliance!RequirementsOf
<1>2. \A r \in R : Compliance!Severity(Compliance!Evaluate(r)) = Worst(Compliance!Issues(r))
  BY <1>1, AnswerIsWorst
<1>3. m \in 0..4 /\ (\A i \in I : m <= Compliance!Severity(i)) /\ (m = 4 \/ \E i \in I : m = Compliance!Severity(i))
  BY WorstIs
<1>4. ASSUME NEW r \in R PROVE m <= Worst(Compliance!Issues(r))
  <2>1. \/ Worst(Compliance!Issues(r)) = 4
        \/ \E i \in Compliance!Issues(r) : Worst(Compliance!Issues(r)) = Compliance!Severity(i)
    BY WorstIs
  <2> QED
    BY <1>3, <2>1
<1>5. \A a \in A : m <= Compliance!Severity(a)
  BY <1>2, <1>4
<1>6. CASE \E i \in I : m = Compliance!Severity(i)
  <2>1. PICK r \in R : \E i \in Compliance!Issues(r) : m = Compliance!Severity(i)
    BY <1>6
  <2>2. Worst(Compliance!Issues(r)) <= m /\ Worst(Compliance!Issues(r)) \in 0..4
    BY <2>1, WorstIs
  <2>3. Worst(Compliance!Issues(r)) = m
    BY <1>3, <1>4, <2>2
  <2>4. m = Compliance!Severity(Compliance!Evaluate(r))
    BY <1>2, <2>3
  <2> QED
    BY <1>3, <1>5, <2>4, WorstWhen
<1>7. CASE m = 4
  BY <1>3, <1>5, <1>7, WorstWhen
<1> QED
  BY <1>3, <1>6, <1>7

LEMMA IssuesAreSevere ==
  ASSUME NEW r \in Requirements
  PROVE  \A i \in Compliance!Issues(r) : Compliance!Severity(i) < 4
<1> DEFINE is == Compliance!Effective(Compliance!Best)
<1>1. is \in {"REJECTED", "EXPIRED", "PENDING", "EXPIRING_SOON", "CURRENT"}
  BY EffectiveIs
<1>2. Compliance!Issues(r) \subseteq
        {"MISSING", "REJECTED", "NOT_VERIFIED", "EXPIRED", "EXPIRING_SOON", "INSUFFICIENT_COVERAGE"}
  <2>1. CASE Compliance!Present = {}
    BY <2>1 DEF Compliance!Issues
  <2>2. CASE Compliance!Present # {} /\ is = "REJECTED"
    BY <2>2 DEF Compliance!Issues
  <2>3. CASE Compliance!Present # {} /\ is = "PENDING"
    BY <2>3 DEF Compliance!Issues
  <2>4. CASE Compliance!Present # {} /\ is = "EXPIRED"
    BY <2>4 DEF Compliance!Issues
  <2>5. CASE Compliance!Present # {} /\ is \in {"CURRENT", "EXPIRING_SOON"}
    BY <2>5 DEF Compliance!Issues
  <2> QED
    BY <1>1, <2>1, <2>2, <2>3, <2>4, <2>5
<1> HIDE DEF is
<1>3. \A x \in {"MISSING", "REJECTED", "NOT_VERIFIED", "EXPIRED", "EXPIRING_SOON", "INSUFFICIENT_COVERAGE"} :
        Compliance!Severity(x) < 4
  BY DEF Compliance!Severity
<1> QED
  BY <1>2, <1>3

\* The list page's issues, named by their requirements, are the overview's.
LEMMA SummaryIsOverview ==
  ASSUME NEW trades
  PROVE  /\ Compliance!Summary(trades).status = Compliance!Overview(trades)
         /\ Compliance!Summary(trades).issues = {} <=> Compliance!Overview(trades) = "COMPLIANT"
<1> DEFINE R == Compliance!RequirementsOf(trades)
           J == UNION {Compliance!Issues(r) \X {r} : r \in R}
           I == UNION {Compliance!Issues(r) : r \in R}
           Firsts == {issue[1] : issue \in J}
<1>1. Firsts = I /\ (J = {} <=> I = {})
  <2>1. ASSUME NEW i \in I PROVE i \in Firsts /\ J # {}
    <3>1. PICK r \in R : i \in Compliance!Issues(r)
      OBVIOUS
    <3>2. <<i, r>> \in J
      BY <3>1
    <3>3. <<i, r>>[1] = i
      OBVIOUS
    <3> HIDE DEF J
    <3> QED
      BY <3>2, <3>3
  <2>2. ASSUME NEW issue \in J PROVE issue[1] \in I
    <3>1. PICK r \in R : issue \in Compliance!Issues(r) \X {r}
      OBVIOUS
    <3> QED
      BY <3>1
  <2> HIDE DEF I, J
  <2> QED
    BY <2>1, <2>2
<1>3. Compliance!Summary(trades) = [status |-> Compliance!OverviewStatus(Firsts), issues |-> J]
  BY DEF Compliance!Summary
<1>4. Compliance!Overview(trades) = Compliance!OverviewStatus(I)
  BY DEF Compliance!Overview
<1>5. \A i \in I : Compliance!Severity(i) < 4
  BY IssuesAreSevere DEF Compliance!RequirementsOf
<1>6. I = {} <=> Worst(I) = 4
  <2>1. Worst(I) = 4 => I = {}
    BY <1>5, WorstIs, SeverityIs
  <2>2. I = {} => Worst(I) = 4
    BY WorstIs
  <2> QED
    BY <2>1, <2>2
<1>7. Compliance!OverviewStatus(I) = "COMPLIANT" <=> Worst(I) = 4
  <2> DEFINE w == Worst(I)
  <2>1. w \in 0..4
    BY WorstIs
  <2>2. Compliance!OverviewStatus(I)
          = <<"EXPIRED_CREDENTIALS", "ACTION_REQUIRED", "PENDING_VERIFICATION", "EXPIRING_SOON", "COMPLIANT">>[1 + w]
    BY DEF Compliance!OverviewStatus, Worst
  <2>3. Compliance!OverviewStatus(I) = "COMPLIANT" <=> w = 4
    <3> DEFINE status == Compliance!OverviewStatus(I)
    <3> HIDE DEF w, I, status
    <3>1. w = 0 => status = "EXPIRED_CREDENTIALS"
      BY <2>2 DEF status
    <3>2. w = 1 => status = "ACTION_REQUIRED"
      BY <2>2 DEF status
    <3>3. w = 2 => status = "PENDING_VERIFICATION"
      BY <2>2 DEF status
    <3>4. w = 3 => status = "EXPIRING_SOON"
      BY <2>2 DEF status
    <3>5. w = 4 => status = "COMPLIANT"
      BY <2>2 DEF status
    <3> QED
      BY <2>1, <3>1, <3>2, <3>3, <3>4, <3>5 DEF status
  <2> QED
    BY <2>3
<1> HIDE DEF I, J, Firsts
<1> QED
  BY <1>1, <1>3, <1>4, <1>6, <1>7

\* The answer shown of a requirement is the worst of its issues, and the
\* overview's status the worst of its rows: evaluateRequirement and
\* evaluateAgainstData never tell different stories, and neither does the
\* list page, which works the same out from one batch.
THEOREM OneAnswerHolds == ComplianceSpec => []OneAnswer
<1>1. OneAnswer
  <2>1. \A r \in Requirements : Compliance!Severity(Compliance!Evaluate(r)) = Worst(Compliance!Issues(r))
    BY AnswerIsWorst
  <2>2. ASSUME NEW trades \in Classifications
        PROVE  Compliance!Overview(trades)
                 = Compliance!OverviewStatus({row.status : row \in Compliance!ApplicableRequirements(trades)})
    BY RowsShowAnswers, OverviewIsWorst DEF Compliance!Overview, Compliance!OverviewStatus, Worst
  <2> QED
    BY <2>1, <2>2, SummaryIsOverview DEF OneAnswer, Compliance!OneAnswer, Worst
<1> QED
  BY <1>1, PTL

-----------------------------------------------------------------------------
(***************************************************************************)
(* The invariant: types, and what the notices told and still to be told    *)
(* come to.                                                                *)
(***************************************************************************)

Kinds == {"EXPIRING_SOON", "EXPIRED"}
ReviewStatus == {"PENDING", "VERIFIED", "REJECTED", "REMOVED"}
Dates == Nat \cup {Compliance!Never}
CredentialRows ==
  [status : ReviewStatus, expires : Dates, cover : Int, soonTold : BOOLEAN, expiredTold : BOOLEAN,
   cycle : Nat, again : Nat]
Updates ==
  [columns : SUBSET {"status", "expires", "cover", "marks"}, status : ReviewStatus, expires : Dates, cover : Int]
StaffRequests == {Compliance!Idle} \cup [op : {"UPDATE"}, id : Nat, set : Updates]

ComplianceTypeOK ==
  /\ today \in Nat
  /\ credentials \in Seq(CredentialRows)
  /\ request \in [Staff -> StaffRequests]
  /\ notifier \in [phase : Kinds \cup {"RESTING"}, now : Nat, todo : SUBSET (Nat \X Nat)]
  /\ notices \in [DOMAIN notices -> Nat]

\* How often staff were told, whether they are about to be, and the mark.
Copies(c, n, kind) == IF <<c, n, kind>> \in DOMAIN notices THEN notices[<<c, n, kind>>] ELSE 0
AboutToTell(c, n, kind) == IF notifier.phase = kind /\ <<c, n>> \in notifier.todo THEN 1 ELSE 0
Told(c, kind) == IF kind = "EXPIRED" THEN credentials[c].expiredTold ELSE credentials[c].soonTold

\* Nothing is told of a cycle to come; where the mark of the present one is
\* not set, staff were told no oftener than the marks were cleared.
Tally(c, n, kind) ==
  /\ n > credentials[c].cycle => Copies(c, n, kind) = 0 /\ AboutToTell(c, n, kind) = 0
  /\ Copies(c, n, kind) + AboutToTell(c, n, kind) <= 1 + credentials[c].again
  /\ n = credentials[c].cycle /\ ~Told(c, kind) => Copies(c, n, kind) <= credentials[c].again

NoticesTally ==
  /\ DOMAIN notices \subseteq Compliance!Ids \X Nat \X Kinds
  /\ \A row \in notifier.todo : row[1] \in Compliance!Ids
  /\ notifier.phase = "RESTING" => notifier.todo = {}
  /\ \A c \in Compliance!Ids, n \in Nat, kind \in Kinds : Tally(c, n, kind)

ComplianceInductive == ComplianceTypeOK /\ NoticesTally

LEMMA CredentialRowType ==
  ASSUME ComplianceTypeOK, NEW c \in Compliance!Ids
  PROVE  /\ credentials[c] \in CredentialRows /\ credentials[c].status \in ReviewStatus
         /\ credentials[c].expires \in Dates /\ credentials[c].cover \in Int
         /\ credentials[c].soonTold \in BOOLEAN /\ credentials[c].expiredTold \in BOOLEAN
         /\ credentials[c].cycle \in Nat /\ credentials[c].again \in Nat
<1>1. credentials[c] \in CredentialRows
  BY DEF ComplianceTypeOK, Compliance!Ids
<1> QED
  BY <1>1 DEF CredentialRows

LEMMA CopiesType ==
  ASSUME ComplianceTypeOK, NEW c, NEW n, NEW kind
  PROVE  Copies(c, n, kind) \in Nat /\ AboutToTell(c, n, kind) \in {0, 1}
BY DEF ComplianceTypeOK, Copies, AboutToTell

-----------------------------------------------------------------------------
(***************************************************************************)
(* Who may be given an order                                               *)
(***************************************************************************)

LEMMA Greatest ==
  ASSUME NEW n \in Nat, NEW T \in SUBSET (1..n), T # {}
  PROVE  \E x \in T : \A y \in T : x >= y
<1> DEFINE D == {d \in Nat : n - d \in T}
<1>1. D # {}
  <2>1. PICK x \in T : TRUE
    OBVIOUS
  <2>2. n - x \in Nat /\ n - (n - x) = x
    BY <2>1
  <2> QED
    BY <2>1, <2>2
<1>2. PICK d \in D : \A e \in D : d <= e
  BY <1>1, Smallest
<1>3. ASSUME NEW y \in T PROVE n - d >= y
  <2>1. n - y \in Nat /\ n - (n - y) = y
    OBVIOUS
  <2>2. n - y \in D
    BY <2>1
  <2> QED
    BY <1>2, <2>2
<1> QED
  BY <1>2, <1>3

\* pickBestCredential picks one of those that are there.
LEMMA BestIsPresent ==
  ASSUME ComplianceTypeOK, Compliance!Present # {}
  PROVE  Compliance!Best \in Compliance!Present
<1> DEFINE P == Compliance!Present
           rank == [c \in P |-> Compliance!Rank(c)]
           R == {rank[c] : c \in P}
           best == Compliance!Min(R)
           T == {c \in P : rank[c] = best}
<1>1. R \subseteq 0..2 /\ R # {}
  BY DEF Compliance!Rank
<1>2. \E x \in R : \A y \in R : x <= y
  BY <1>1, Smallest
<1>3. best \in R
  BY <1>2 DEF Compliance!Min
<1>4. T # {}
  BY <1>3
<1>5. PICK n \in Nat : n = Len(credentials)
  BY DEF ComplianceTypeOK
<1>6. T \subseteq 1..n
  BY <1>5 DEF Compliance!Present, Compliance!Ids
<1>7. \E x \in T : \A y \in T : x >= y
  BY <1>4, <1>6, Greatest
<1>8. Compliance!Max(T) \in T
  BY <1>7 DEF Compliance!Max
<1>9. Compliance!Best = Compliance!Max(T)
  BY DEF Compliance!Best
<1> QED
  BY <1>8, <1>9

\* What issues a requirement may raise, all but one of which block.
LEMMA IssuesAre ==
  ASSUME NEW r \in Requirements
  PROVE  Compliance!Issues(r) \subseteq
           {"MISSING", "REJECTED", "NOT_VERIFIED", "EXPIRED", "EXPIRING_SOON", "INSUFFICIENT_COVERAGE"}
BY EffectiveIs DEF Compliance!Issues

LEMMA GoodOverview ==
  ASSUME NEW reasons, Compliance!OverviewStatus(reasons) \in {"COMPLIANT", "EXPIRING_SOON"}
  PROVE  \A i \in reasons : Compliance!Severity(i) >= 3
<1> DEFINE m == Worst(reasons)
           names == <<"EXPIRED_CREDENTIALS", "ACTION_REQUIRED", "PENDING_VERIFICATION", "EXPIRING_SOON", "COMPLIANT">>
<1>1. Compliance!OverviewStatus(reasons) = names[1 + m]
  BY DEF Compliance!OverviewStatus, Worst
<1>2. m \in 0..4
  BY WorstIs
<1>3. m # 0 /\ m # 1 /\ m # 2
  <2>1. names[1] = "EXPIRED_CREDENTIALS" /\ names[2] = "ACTION_REQUIRED" /\ names[3] = "PENDING_VERIFICATION"
    OBVIOUS
  <2>2. m = 0 => 1 + m = 1
    BY <1>2
  <2>3. m = 1 => 1 + m = 2
    BY <1>2
  <2>4. m = 2 => 1 + m = 3
    BY <1>2
  <2> HIDE DEF names, m
  <2> QED
    BY <1>1, <2>1, <2>2, <2>3, <2>4
<1>4. m >= 3
  BY <1>2, <1>3
<1>5. \A i \in reasons : m <= Compliance!Severity(i) /\ Compliance!Severity(i) \in 0..4
  BY WorstIs, SeverityIs
<1> QED
  BY <1>2, <1>4, <1>5

LEMMA Covered ==
  ASSUME ComplianceTypeOK, NEW r \in Requirements, Compliance!Demanding(r), ~Compliance!Blocked(r)
  PROVE  \E c \in Compliance!Present : Compliance!Meets(c, r)
<1> DEFINE best == Compliance!Best
           is == Compliance!Effective(best)
<1>1. r.required /\ r.blocks /\ r.verified /\ r.unexpired /\ Compliance!Issues(r) \subseteq {"EXPIRING_SOON"}
  BY DEF Compliance!Demanding, Compliance!Blocked
<1>2. Compliance!Present # {}
  BY <1>1 DEF Compliance!Issues
<1>3. best \in Compliance!Present
  BY <1>2, BestIsPresent
<1>4. is \in {"CURRENT", "EXPIRING_SOON"}
  BY <1>1, <1>2, EffectiveIs DEF Compliance!Issues
<1>5. ~Compliance!Insufficient(r, best)
  BY <1>1, <1>2, <1>4 DEF Compliance!Issues
<1>6. credentials[best].status \in ReviewStatus /\ credentials[best].status # "REMOVED"
      /\ credentials[best].expires \in Dates /\ credentials[best].cover \in Int
  BY <1>3, CredentialRowType DEF Compliance!Present
<1>7. credentials[best].status = "VERIFIED"
  BY <1>4, <1>6 DEF Compliance!Effective, ReviewStatus
<1>8. credentials[best].expires = Compliance!Never \/ today < credentials[best].expires
  BY <1>4, <1>6 DEF Compliance!Effective, Dates, Compliance!Never, ComplianceTypeOK
<1>9. credentials[best].cover >= r.cover
  BY <1>1, <1>5, <1>6, ComplianceAssumption DEF Compliance!Insufficient
<1> QED
  BY <1>3, <1>7, <1>8, <1>9 DEF Compliance!Meets

LEMMA CoveredWhenEligible == ComplianceTypeOK => EligibleIsCovered
<1> SUFFICES ASSUME ComplianceTypeOK PROVE EligibleIsCovered
  OBVIOUS
<1>1. ASSUME NEW trades \in Classifications, NEW r \in Requirements,
             Compliance!Demanding(r), Compliance!Eligible(trades, r.trade)
      PROVE  \E c \in Compliance!Present : Compliance!Meets(c, r)
  <2>1. ~Compliance!Blocked(r)
    BY <1>1 DEF Compliance!Eligible, Compliance!RequirementsOf
  <2> QED
    BY <1>1, <2>1, Covered
<1>2. ASSUME NEW trades \in Classifications, NEW trade \in trades,
             Compliance!Overview(trades) \in {"COMPLIANT", "EXPIRING_SOON"}
      PROVE  Compliance!Eligible(trades, trade)
  <2>1. ASSUME NEW r \in Compliance!RequirementsOf({trade}) PROVE ~Compliance!Blocked(r)
    <3>1. r \in Requirements /\ r \in Compliance!RequirementsOf(trades)
      BY DEF Compliance!RequirementsOf
    <3>2. \A i \in Compliance!Issues(r) : Compliance!Severity(i) >= 3
      BY <1>2, <3>1, GoodOverview DEF Compliance!Overview
    <3>3. Compliance!Issues(r) \subseteq {"EXPIRING_SOON"}
      BY <3>1, <3>2, IssuesAre, SeverityOf
    <3> QED
      BY <3>3 DEF Compliance!Blocked
  <2> QED
    BY <2>1 DEF Compliance!Eligible
<1> QED
  BY <1>1, <1>2 DEF EligibleIsCovered, Compliance!EligibleIsCovered

-----------------------------------------------------------------------------
(***************************************************************************)
(* The steps                                                               *)
(***************************************************************************)

\* A bag with one more of an element.
LEMMA OneMore ==
  ASSUME ComplianceTypeOK, NEW e, notices' = Compliance!(+)(notices, Compliance!SetToBag({e}))
  PROVE  /\ DOMAIN notices' = DOMAIN notices \cup {e}
         /\ notices' \in [DOMAIN notices' -> Nat]
         /\ notices'[e] = (IF e \in DOMAIN notices THEN notices[e] ELSE 0) + 1
         /\ \A x \in DOMAIN notices : x # e => notices'[x] = notices[x]
BY DEF ComplianceTypeOK, Compliance!(+), Compliance!SetToBag, Compliance!BagToSet

\* What an update makes of a row.
LEMMA UpdatedType ==
  ASSUME NEW row \in CredentialRows, NEW set \in Updates
  PROVE  /\ Compliance!Updated(row, set) \in CredentialRows
         /\ Compliance!Updated(row, set).cycle
              = IF Compliance!Moves(row, set) THEN row.cycle + 1 ELSE row.cycle
         /\ Compliance!Updated(row, set).again >= row.again
         /\ Compliance!Updated(row, set).again = row.again /\ ~Compliance!Moves(row, set) =>
              /\ Compliance!Updated(row, set).soonTold = row.soonTold
              /\ Compliance!Updated(row, set).expiredTold = row.expiredTold
<1>1. row.status \in ReviewStatus /\ row.expires \in Dates /\ row.cover \in Int /\ row.soonTold \in BOOLEAN
      /\ row.expiredTold \in BOOLEAN /\ row.cycle \in Nat /\ row.again \in Nat
  BY DEF CredentialRows
<1>2. set.status \in ReviewStatus /\ set.expires \in Dates /\ set.cover \in Int
  BY DEF Updates
<1> QED
  BY <1>1, <1>2 DEF CredentialRows, Compliance!Updated

LEMMA CreateKeeps ==
  ASSUME ComplianceInductive, Compliance!Create
  PROVE  ComplianceInductive'
<1>1. PICK expires \in Expiries, cover \in Covers :
        credentials' = Append(credentials,
          [status |-> "PENDING", expires |-> expires, cover |-> cover,
           soonTold |-> FALSE, expiredTold |-> FALSE, cycle |-> 1, again |-> 0])
  BY DEF Compliance!Create
<1> DEFINE row == [status |-> "PENDING", expires |-> expires, cover |-> cover,
                   soonTold |-> FALSE, expiredTold |-> FALSE, cycle |-> 1, again |-> 0]
           new == Len(credentials) + 1
<1>2. UNCHANGED <<today, request, notifier, notices>>
  BY DEF Compliance!Create
<1>3. row \in CredentialRows /\ row.cycle = 1 /\ row.again = 0
  BY ComplianceAssumption DEF CredentialRows, ReviewStatus, Dates, Compliance!Never
<1> HIDE DEF row
<1>4. credentials \in Seq(CredentialRows) /\ credentials' = Append(credentials, row)
  BY <1>1 DEF ComplianceInductive, ComplianceTypeOK, row
<1>5. credentials' \in Seq(CredentialRows) /\ credentials'[new] = row /\ new \in Nat
  BY <1>3, <1>4
<1>6. \A c \in Compliance!Ids : credentials'[c] = credentials[c]
  BY <1>3, <1>4 DEF Compliance!Ids
<1>7. Compliance!Ids' = Compliance!Ids \cup {new} /\ new \notin Compliance!Ids
  BY <1>3, <1>4 DEF Compliance!Ids
<1>8. ComplianceTypeOK'
  BY <1>2, <1>5 DEF ComplianceInductive, ComplianceTypeOK
<1>9. ASSUME NEW c \in Compliance!Ids', NEW n \in Nat, NEW kind \in Kinds
      PROVE  Tally(c, n, kind)'
  <2>1. CASE c \in Compliance!Ids
    BY <1>2, <1>6, <2>1 DEF ComplianceInductive, NoticesTally, Tally, Told, Copies, AboutToTell
  <2>2. CASE c = new
    <3>1. Copies(c, n, kind)' = 0 /\ AboutToTell(c, n, kind)' = 0
      BY <1>2, <1>7, <2>2 DEF ComplianceInductive, NoticesTally, Copies, AboutToTell
    <3> QED
      BY <1>3, <1>5, <2>2, <3>1 DEF Tally
  <2> QED
    BY <1>7, <2>1, <2>2
<1>10. NoticesTally'
  BY <1>2, <1>7, <1>9 DEF ComplianceInductive, NoticesTally
<1> QED
  BY <1>8, <1>10 DEF ComplianceInductive

LEMMA ReadKeeps ==
  ASSUME ComplianceInductive, NEW s \in Staff, Compliance!Read(s)
  PROVE  ComplianceInductive'
<1>1. UNCHANGED <<today, credentials, notifier, notices>>
  BY DEF Compliance!Read
<1>2. request' \in [Staff -> StaffRequests]
  <2>1. request \in [Staff -> StaffRequests]
    BY DEF ComplianceInductive, ComplianceTypeOK
  <2>2. CASE Compliance!ReadUpdate(s)
    <3>1. PICK c \in Compliance!Present, expires \in Expiries, cover \in Covers, document \in BOOLEAN :
            request' = [request EXCEPT ![s] =
              [op |-> "UPDATE", id |-> c, set |-> Compliance!Changes(c, expires, cover, document)]]
      BY <2>2 DEF Compliance!ReadUpdate
    <3>2. Compliance!Changes(c, expires, cover, document) \in Updates
      BY ComplianceAssumption DEF Compliance!Changes, Updates, ReviewStatus, Dates, Compliance!Never
    <3>3. [op |-> "UPDATE", id |-> c, set |-> Compliance!Changes(c, expires, cover, document)] \in StaffRequests
      BY <3>2 DEF StaffRequests, Compliance!Present, Compliance!Ids
    <3> QED
      BY <2>1, <3>1, <3>3
  <2>3. CASE Compliance!ReadOther(s)
    <3>1. PICK c \in Compliance!Present, status \in {"VERIFIED", "REJECTED", "REMOVED"} :
            request' = [request EXCEPT ![s] = [op |-> "UPDATE", id |-> c,
              set |-> [columns |-> {"status"}, status |-> status, expires |-> Compliance!Never, cover |-> 0]]]
      BY <2>3 DEF Compliance!ReadOther
    <3>2. [columns |-> {"status"}, status |-> status, expires |-> Compliance!Never, cover |-> 0] \in Updates
      BY DEF Updates, ReviewStatus, Dates
    <3>3. [op |-> "UPDATE", id |-> c,
           set |-> [columns |-> {"status"}, status |-> status, expires |-> Compliance!Never, cover |-> 0]]
             \in StaffRequests
      BY <3>2 DEF StaffRequests, Compliance!Present, Compliance!Ids
    <3> QED
      BY <2>1, <3>1, <3>3
  <2> QED
    BY <2>2, <2>3 DEF Compliance!Read
<1> QED
  BY <1>1, <1>2 DEF ComplianceInductive, ComplianceTypeOK, NoticesTally, Tally, Told, Copies, AboutToTell,
                    Compliance!Ids

LEMMA WriteKeeps ==
  ASSUME ComplianceInductive, NEW s \in Staff, Compliance!Write(s)
  PROVE  ComplianceInductive'
<1> DEFINE c == request[s].id
           set == request[s].set
           row == credentials[c]
           new == Compliance!Updated(row, set)
<1>1. UNCHANGED <<today, notifier, notices>> /\ request' = [request EXCEPT ![s] = Compliance!Idle]
  BY DEF Compliance!Write
<1>2. request' \in [Staff -> StaffRequests]
  BY <1>1 DEF ComplianceInductive, ComplianceTypeOK, StaffRequests
<1>3. CASE c \notin Compliance!Present
  <2>1. UNCHANGED credentials
    BY <1>3 DEF Compliance!Write
  <2> QED
    BY <1>1, <1>2, <2>1 DEF ComplianceInductive, ComplianceTypeOK, NoticesTally, Tally, Told, Copies, AboutToTell,
                            Compliance!Ids
<1>4. CASE c \in Compliance!Present
  <2>1. c \in Compliance!Ids /\ row \in CredentialRows
    BY <1>4, CredentialRowType DEF ComplianceInductive, Compliance!Present
  <2>2. set \in Updates
    <3>1. request[s] \in StaffRequests /\ request[s] # Compliance!Idle
      BY DEF ComplianceInductive, ComplianceTypeOK, Compliance!Write
    <3> QED
      BY <3>1 DEF StaffRequests
  <2>3. new \in CredentialRows
    BY <2>1, <2>2, UpdatedType
  <2>4. credentials' = [credentials EXCEPT ![c] = new]
    BY <1>4 DEF Compliance!Write
  <2>5. credentials' \in Seq(CredentialRows) /\ Compliance!Ids' = Compliance!Ids
        /\ credentials'[c] = new /\ \A d \in Compliance!Ids : d # c => credentials'[d] = credentials[d]
    BY <2>1, <2>3, <2>4 DEF ComplianceInductive, ComplianceTypeOK, Compliance!Ids
  <2>6. ComplianceTypeOK'
    BY <1>1, <1>2, <2>5 DEF ComplianceInductive, ComplianceTypeOK
  <2>7. ASSUME NEW d \in Compliance!Ids, NEW n \in Nat, NEW kind \in Kinds
        PROVE  Tally(d, n, kind)'
    <3>1. Copies(d, n, kind)' = Copies(d, n, kind) /\ AboutToTell(d, n, kind)' = AboutToTell(d, n, kind)
      BY <1>1 DEF Copies, AboutToTell
    <3>2. Tally(d, n, kind)
      BY DEF ComplianceInductive, NoticesTally
    <3>3. CASE d # c
      BY <2>5, <3>1, <3>2, <3>3 DEF Tally, Told
    <3>4. CASE d = c
      <4>1. /\ new.cycle = IF Compliance!Moves(row, set) THEN row.cycle + 1 ELSE row.cycle
            /\ new.again >= row.again
            /\ new.again = row.again /\ ~Compliance!Moves(row, set) =>
                 new.soonTold = row.soonTold /\ new.expiredTold = row.expiredTold
        BY <2>1, <2>2, UpdatedType
      <4>2. row.cycle \in Nat /\ row.again \in Nat /\ new.again \in Nat
        BY <2>1, <2>3 DEF CredentialRows
      <4>3. Copies(d, n, kind) \in Nat /\ AboutToTell(d, n, kind) \in {0, 1}
        BY CopiesType DEF ComplianceInductive
      <4> HIDE DEF new, row, set
      <4>4. credentials[d] = row /\ credentials'[d] = new
        BY <2>5, <3>4 DEF row
      <4>5. /\ n > new.cycle => Copies(d, n, kind) = 0 /\ AboutToTell(d, n, kind) = 0
            /\ Copies(d, n, kind) + AboutToTell(d, n, kind) <= 1 + new.again
        BY <3>2, <4>1, <4>2, <4>3, <4>4 DEF Tally
      <4>6. ASSUME n = new.cycle, ~(IF kind = "EXPIRED" THEN new.expiredTold ELSE new.soonTold)
            PROVE  Copies(d, n, kind) <= new.again
        <5>1. CASE Compliance!Moves(row, set)
          BY <3>2, <4>1, <4>2, <4>4, <4>6, <5>1 DEF Tally
        <5>2. CASE ~Compliance!Moves(row, set) /\ new.again = row.again
          BY <3>2, <4>1, <4>2, <4>4, <4>6, <5>2 DEF Tally, Told
        <5>3. CASE ~Compliance!Moves(row, set) /\ new.again # row.again
          BY <3>2, <4>1, <4>2, <4>3, <4>4, <5>3 DEF Tally
        <5> QED
          BY <5>1, <5>2, <5>3
      <4> QED
        BY <3>1, <4>4, <4>5, <4>6 DEF Tally, Told
    <3> QED
      BY <3>3, <3>4
  <2>8. NoticesTally'
    BY <1>1, <2>5, <2>7 DEF ComplianceInductive, NoticesTally
  <2> QED
    BY <2>6, <2>8 DEF ComplianceInductive
<1> QED
  BY <1>3, <1>4

\* A phase reads the rows that are not marked.
LEMMA PhaseKeeps ==
  ASSUME ComplianceInductive, UNCHANGED <<today, credentials, request, notices>>,
         NEW due \in SUBSET Compliance!Ids, NEW kind \in Kinds, \A c \in due : ~Told(c, kind),
         notifier' \in [phase : {kind}, now : Nat, todo : {Compliance!AsRead(due)}]
  PROVE  ComplianceInductive'
<1>1. \A c \in Compliance!Ids : credentials[c].cycle \in Nat /\ credentials[c].again \in Nat /\ c \in Nat
  BY CredentialRowType DEF ComplianceInductive, Compliance!Ids
<1>2. Compliance!AsRead(due) = {<<c, credentials[c].cycle>> : c \in due}
  BY DEF Compliance!AsRead
<1>3. notifier' \in [phase : Kinds \cup {"RESTING"}, now : Nat, todo : SUBSET (Nat \X Nat)]
  BY <1>1, <1>2
<1>4. ComplianceTypeOK'
  BY <1>3 DEF ComplianceInductive, ComplianceTypeOK
<1>5. Compliance!Ids' = Compliance!Ids
  BY DEF Compliance!Ids
<1>6. ASSUME NEW c \in Compliance!Ids, NEW n \in Nat, NEW k \in Kinds
      PROVE  Tally(c, n, k)'
  <2>1. Copies(c, n, k)' = Copies(c, n, k) /\ Copies(c, n, k) \in Nat
    BY CopiesType DEF ComplianceInductive, Copies
  <2>2. AboutToTell(c, n, k)' = IF k = kind /\ <<c, n>> \in Compliance!AsRead(due) THEN 1 ELSE 0
    BY DEF AboutToTell
  <2>3. Tally(c, n, k)
    BY DEF ComplianceInductive, NoticesTally
  <2>4. Told(c, k)' = Told(c, k) /\ credentials'[c] = credentials[c]
    BY DEF Told
  <2>5. CASE k = kind /\ <<c, n>> \in Compliance!AsRead(due)
    <3>1. c \in due /\ n = credentials[c].cycle /\ ~Told(c, k)
      BY <1>2, <2>5
    <3>2. AboutToTell(c, n, k)' = 1 /\ Copies(c, n, k) <= credentials[c].again
      BY <2>2, <2>3, <2>5, <3>1 DEF Tally
    <3> QED
      BY <1>1, <2>1, <2>4, <3>1, <3>2 DEF Tally
  <2>6. CASE ~(k = kind /\ <<c, n>> \in Compliance!AsRead(due))
    <3>1. AboutToTell(c, n, k)' = 0 /\ AboutToTell(c, n, k) \in {0, 1}
      BY <2>2, <2>6, CopiesType DEF ComplianceInductive
    <3> QED
      BY <1>1, <2>1, <2>3, <2>4, <3>1 DEF Tally
  <2> QED
    BY <2>5, <2>6
<1>7. \A r \in notifier'.todo : r[1] \in Compliance!Ids
  BY <1>2
<1>8. NoticesTally'
  BY <1>5, <1>6, <1>7 DEF ComplianceInductive, NoticesTally, Kinds
<1> QED
  BY <1>4, <1>8 DEF ComplianceInductive

\* A check that ends, or is ended, has nothing left to tell.
LEMMA RestKeeps ==
  ASSUME ComplianceInductive, UNCHANGED <<credentials, request, notices>>, today' \in Nat,
         notifier' = Compliance!Resting \/ UNCHANGED notifier
  PROVE  ComplianceInductive'
<1>1. CASE UNCHANGED notifier
  BY <1>1 DEF ComplianceInductive, ComplianceTypeOK, NoticesTally, Tally, Told, Copies, AboutToTell, Compliance!Ids
<1>2. CASE notifier' = Compliance!Resting
  <2>1. ComplianceTypeOK'
    BY <1>2 DEF ComplianceInductive, ComplianceTypeOK, Compliance!Resting
  <2>2. Compliance!Ids' = Compliance!Ids
    BY DEF Compliance!Ids
  <2>3. ASSUME NEW c \in Compliance!Ids, NEW n \in Nat, NEW k \in Kinds
        PROVE  Tally(c, n, k)'
    <3>1. Copies(c, n, k)' = Copies(c, n, k) /\ Told(c, k)' = Told(c, k) /\ Tally(c, n, k)
      BY DEF ComplianceInductive, NoticesTally, Copies, Told
    <3>2. AboutToTell(c, n, k)' = 0
      BY <1>2 DEF AboutToTell, Compliance!Resting, Kinds
    <3>3. Copies(c, n, k) \in Nat /\ AboutToTell(c, n, k) \in {0, 1} /\ credentials[c].again \in Nat
      BY CopiesType, CredentialRowType DEF ComplianceInductive
    <3> QED
      BY <3>1, <3>2, <3>3 DEF Tally
  <2>4. notifier'.todo = {}
    BY <1>2 DEF Compliance!Resting
  <2>5. NoticesTally'
    BY <2>2, <2>3, <2>4 DEF ComplianceInductive, NoticesTally
  <2> QED
    BY <2>1, <2>5 DEF ComplianceInductive
<1> QED
  BY <1>1, <1>2

LEMMA StartCheckKeeps == ASSUME ComplianceInductive, Compliance!StartCheck PROVE ComplianceInductive'
<1> DEFINE due == Compliance!DueSoon(today)
<1>1. notifier' = [phase |-> "EXPIRING_SOON", now |-> today, todo |-> Compliance!AsRead(due)]
      /\ UNCHANGED <<today, credentials, request, notices>> /\ today \in Nat
  BY DEF Compliance!StartCheck, ComplianceInductive, ComplianceTypeOK
<1>2. due \in SUBSET Compliance!Ids /\ \A c \in due : ~Told(c, "EXPIRING_SOON")
  BY DEF Compliance!DueSoon, Compliance!Present, Told
<1> HIDE DEF due
<1>3. notifier' \in [phase : {"EXPIRING_SOON"}, now : Nat, todo : {Compliance!AsRead(due)}]
  BY <1>1
<1>4. "EXPIRING_SOON" \in Kinds
  BY DEF Kinds
<1> QED
  BY <1>1, <1>2, <1>3, <1>4, PhaseKeeps

LEMMA NextPhaseKeeps == ASSUME ComplianceInductive, Compliance!NextPhase PROVE ComplianceInductive'
<1> DEFINE due == Compliance!DueExpired(notifier.now)
<1>1. UNCHANGED <<today, credentials, request, notices>> /\ today \in Nat
  BY DEF Compliance!NextPhase, ComplianceInductive, ComplianceTypeOK
<1>2. CASE notifier.phase = "EXPIRED"
  BY <1>1, <1>2, RestKeeps DEF Compliance!NextPhase
<1>3. CASE notifier.phase # "EXPIRED"
  <2>1. notifier' = [notifier EXCEPT !.phase = "EXPIRED", !.todo = Compliance!AsRead(due)]
    BY <1>3 DEF Compliance!NextPhase
  <2>2. due \in SUBSET Compliance!Ids /\ \A c \in due : ~Told(c, "EXPIRED")
    BY DEF Compliance!DueExpired, Compliance!Present, Told
  <2> HIDE DEF due
  <2>3. notifier' \in [phase : {"EXPIRED"}, now : Nat, todo : {Compliance!AsRead(due)}]
    BY <2>1 DEF ComplianceInductive, ComplianceTypeOK
  <2>4. "EXPIRED" \in Kinds
    BY DEF Kinds
  <2> QED
    BY <1>1, <2>2, <2>3, <2>4, PhaseKeeps
<1> QED
  BY <1>2, <1>3

LEMMA NotifyKeeps == ASSUME ComplianceInductive, Compliance!Notify PROVE ComplianceInductive'
<1>1. PICK row \in notifier.todo :
        LET c == row[1] IN
        IF c \notin Compliance!Present THEN notifier' = Compliance!Resting /\ UNCHANGED <<credentials, notices>>
        ELSE /\ credentials' = IF notifier.phase = "EXPIRED" THEN [credentials EXCEPT ![c].expiredTold = TRUE]
                               ELSE [credentials EXCEPT ![c].soonTold = TRUE]
             /\ notices' = Compliance!(+)(notices, Compliance!SetToBag({<<c, row[2], notifier.phase>>}))
             /\ notifier' = [notifier EXCEPT !.todo = @ \ {row}]
  BY DEF Compliance!Notify
<1> DEFINE c == row[1]
           m == row[2]
           phase == notifier.phase
           told == IF phase = "EXPIRED" THEN [credentials[c] EXCEPT !.expiredTold = TRUE]
                   ELSE [credentials[c] EXCEPT !.soonTold = TRUE]
<1>2. UNCHANGED <<today, request>> /\ today \in Nat /\ request \in [Staff -> StaffRequests]
  BY DEF Compliance!Notify, ComplianceInductive, ComplianceTypeOK
<1>3. CASE c \notin Compliance!Present
  BY <1>1, <1>2, <1>3, RestKeeps
<1>4. CASE c \in Compliance!Present
  <2>1. c \in Compliance!Ids /\ credentials[c] \in CredentialRows
    BY <1>4, CredentialRowType DEF ComplianceInductive, Compliance!Present
  <2>2. row \in Nat \X Nat /\ row = <<c, m>> /\ m \in Nat
    BY DEF ComplianceInductive, ComplianceTypeOK
  <2>3. told \in CredentialRows /\ told.cycle = credentials[c].cycle /\ told.again = credentials[c].again
        /\ (phase = "EXPIRED" => told.expiredTold /\ told.soonTold = credentials[c].soonTold)
        /\ (phase # "EXPIRED" => told.soonTold /\ told.expiredTold = credentials[c].expiredTold)
    BY <2>1 DEF CredentialRows
  <2>4. credentials' = [credentials EXCEPT ![c] = told]
    BY <1>1, <1>4, <2>1 DEF ComplianceInductive, ComplianceTypeOK, Compliance!Ids
  <2> HIDE DEF told
  <2>5. credentials' \in Seq(CredentialRows) /\ Compliance!Ids' = Compliance!Ids
        /\ credentials'[c] = told /\ \A d \in Compliance!Ids : d # c => credentials'[d] = credentials[d]
    BY <2>1, <2>3, <2>4 DEF ComplianceInductive, ComplianceTypeOK, Compliance!Ids
  <2>6. notifier' = [notifier EXCEPT !.todo = @ \ {row}] /\ notices' =
          Compliance!(+)(notices, Compliance!SetToBag({<<c, m, phase>>}))
    BY <1>1, <1>4
  <2>7. /\ DOMAIN notices' = DOMAIN notices \cup {<<c, m, phase>>}
        /\ notices' \in [DOMAIN notices' -> Nat]
        /\ notices'[<<c, m, phase>>] = Copies(c, m, phase) + 1
        /\ \A x \in DOMAIN notices : x # <<c, m, phase>> => notices'[x] = notices[x]
    BY <2>6, OneMore DEF ComplianceInductive, Copies
  <2>8. notifier'.phase = phase /\ notifier'.todo = notifier.todo \ {row}
        /\ notifier' \in [phase : Kinds \cup {"RESTING"}, now : Nat, todo : SUBSET (Nat \X Nat)]
    BY <2>6 DEF ComplianceInductive, ComplianceTypeOK
  <2>9. ComplianceTypeOK'
    BY <1>2, <2>5, <2>7, <2>8 DEF ComplianceTypeOK
  <2>10. ASSUME NEW d \in Compliance!Ids, NEW n \in Nat, NEW k \in Kinds
         PROVE  Tally(d, n, k)'
    <3>1. Tally(d, n, k)
      BY DEF ComplianceInductive, NoticesTally
    <3>2. /\ Copies(d, n, k) \in Nat /\ AboutToTell(d, n, k) \in {0, 1}
          /\ credentials[d].again \in Nat /\ credentials[d].cycle \in Nat
      BY CopiesType, CredentialRowType DEF ComplianceInductive
    <3>3. credentials'[d].again = credentials[d].again /\ credentials'[d].cycle = credentials[d].cycle
      BY <2>3, <2>5
    <3>4. CASE d = c /\ n = m /\ k = phase
      <4>1. Copies(d, n, k)' = Copies(d, n, k) + 1 /\ AboutToTell(d, n, k)' = 0
        BY <2>2, <2>7, <2>8, <3>4 DEF Copies, AboutToTell
      <4>2. AboutToTell(d, n, k) = 1
        BY <2>2, <3>4 DEF AboutToTell
      <4>3. Told(d, k)'
        BY <2>3, <2>5, <3>4 DEF Told
      <4> QED
        BY <3>1, <3>2, <3>3, <4>1, <4>2, <4>3 DEF Tally
    <3>5. CASE ~(d = c /\ n = m /\ k = phase)
      <4>1. <<d, n, k>> # <<c, m, phase>> /\ (k = phase => <<d, n>> # row)
        BY <2>2, <3>5
      <4>2. Copies(d, n, k)' = Copies(d, n, k)
        BY <2>7, <4>1 DEF Copies
      <4>3. AboutToTell(d, n, k)' = AboutToTell(d, n, k)
        BY <2>8, <4>1 DEF AboutToTell
      <4>4. Told(d, k) => Told(d, k)'
        BY <2>3, <2>5 DEF Told
      <4> QED
        BY <3>1, <3>2, <3>3, <4>2, <4>3, <4>4 DEF Tally
    <3> QED
      BY <3>4, <3>5
  <2>11. phase \in Kinds
    BY DEF ComplianceInductive, NoticesTally, ComplianceTypeOK
  <2>12. NoticesTally'
    BY <2>1, <2>2, <2>5, <2>7, <2>8, <2>10, <2>11 DEF ComplianceInductive, NoticesTally
  <2> QED
    BY <2>9, <2>12 DEF ComplianceInductive
<1> QED
  BY <1>3, <1>4

LEMMA InitKeeps == Compliance!Init => ComplianceInductive
<1> SUFFICES ASSUME Compliance!Init PROVE ComplianceInductive
  OBVIOUS
<1>1. credentials = <<>> /\ Compliance!Ids = {}
  BY DEF Compliance!Init, Compliance!Ids
<1>2. DOMAIN notices = {} /\ notices \in [DOMAIN notices -> Nat]
  BY DEF Compliance!Init, Compliance!EmptyBag, Compliance!SetToBag
<1>3. ComplianceTypeOK
  BY <1>2 DEF Compliance!Init, ComplianceTypeOK, StaffRequests, Compliance!Resting
<1> QED
  BY <1>1, <1>2, <1>3 DEF ComplianceInductive, NoticesTally, Compliance!Init, Compliance!Resting

LEMMA StepKeeps == ComplianceInductive /\ [Compliance!Next]_(Compliance!vars) => ComplianceInductive'
<1> SUFFICES ASSUME ComplianceInductive, [Compliance!Next]_(Compliance!vars) PROVE ComplianceInductive'
  OBVIOUS
<1>0. today \in Nat
  BY DEF ComplianceInductive, ComplianceTypeOK
<1>1. CASE UNCHANGED Compliance!vars
  BY <1>0, <1>1, RestKeeps DEF Compliance!vars
<1>2. CASE Compliance!Tick
  BY <1>0, <1>2, RestKeeps DEF Compliance!Tick
<1>3. CASE Compliance!Restart
  BY <1>0, <1>3, RestKeeps DEF Compliance!Restart
<1> QED
  BY <1>1, <1>2, <1>3, CreateKeeps, StartCheckKeeps, NextPhaseKeeps, NotifyKeeps, ReadKeeps, WriteKeeps
     DEF Compliance!Next

THEOREM ComplianceInductiveHolds == ComplianceSpec => []ComplianceInductive
BY InitKeeps, StepKeeps, PTL DEF ComplianceSpec, Compliance!Spec

\* Where an unexpired, reviewed credential is demanded, a contractor who may
\* be given an order holds one at that moment, and an overview that shows
\* nothing worse than an expiry to come is of one who may be given an order
\* (ContractorEligibilityService).
THEOREM EligibleIsCoveredHolds == ComplianceSpec => []EligibleIsCovered
<1>1. ComplianceInductive => EligibleIsCovered
  BY CoveredWhenEligible DEF ComplianceInductive
<1> QED
  BY <1>1, ComplianceInductiveHolds, PTL

\* However many requests of staff, checks and restarts interleave, staff are
\* told of an expiry once, and once more at most for each update that cleared
\* the marks of a date it left (ContractorComplianceNotificationService).
THEOREM ToldOncePerResetHolds == ComplianceSpec => []ToldOncePerReset
<1>1. ComplianceInductive => ToldOncePerReset
  <2> SUFFICES ASSUME ComplianceInductive, NEW e \in DOMAIN notices
               PROVE  notices[e] <= 1 + credentials[e[1]].again
    BY DEF ToldOncePerReset, Compliance!ToldOncePerReset, Compliance!BagToSet
  <2>1. PICK c \in Compliance!Ids, n \in Nat, kind \in Kinds : e = <<c, n, kind>>
    BY DEF ComplianceInductive, NoticesTally
  <2>2. Tally(c, n, kind) /\ Copies(c, n, kind) \in Nat /\ AboutToTell(c, n, kind) \in {0, 1}
        /\ credentials[c].again \in Nat
    BY CopiesType, CredentialRowType DEF ComplianceInductive, NoticesTally
  <2>3. Copies(c, n, kind) = notices[e] /\ e[1] = c
    BY <2>1 DEF Copies
  <2> QED
    BY <2>2, <2>3 DEF Tally
<1> QED
  BY <1>1, ComplianceInductiveHolds, PTL
-----------------------------------------------------------------------------
(***************************************************************************)
(* Maintenance.  A move writes dates as they were read, so what was read   *)
(* must bear the dates of its own status, however old it is.               *)
(***************************************************************************)
RequestRows ==
  [property : Properties, status : Maintenance!Statuses, urgent : BOOLEAN, reported : Nat, resolved : Nat \cup {-1},
   closed : BOOLEAN]

\* The dates of a row are those of its status, and none lies in the future.
Dated(row, time) ==
  /\ row.resolved # -1 <=> row.status \in {"RESOLVED", "CLOSED"}
  /\ row.closed <=> row.status = "CLOSED"
  /\ row.reported <= time
  /\ row.resolved # -1 => row.reported <= row.resolved /\ row.resolved <= time

\* A move has read a row of the request it is about, and leads on from there.
Leads(m, rows, time) ==
  /\ m \in [op : {"MOVE"}, id : DOMAIN rows, was : RequestRows, to : Maintenance!Statuses]
  /\ Dated(m.was, time)
  /\ m.was.reported = rows[m.id].reported
  /\ <<m.was.status, m.to>> \in Maintenance!ValidTransitions

MaintenanceInv ==
  /\ now \in Nat
  /\ requests \in Seq(RequestRows)
  /\ watched \in Watchable
  /\ move = [u \in Clients |-> move[u]]
  /\ \A r \in DOMAIN requests : Dated(requests[r], now)
  /\ \A u \in Clients : move[u] = Maintenance!Idle \/ Leads(move[u], requests, now)

LEMMA MaintenanceStarts == Maintenance!Init => MaintenanceInv
BY DEF Maintenance!Init, MaintenanceInv

LEMMA MaintenanceCreates == MaintenanceInv /\ Maintenance!Create => MaintenanceInv'
<1> SUFFICES ASSUME MaintenanceInv, Maintenance!Create PROVE MaintenanceInv'
  OBVIOUS
<1>1. PICK p \in Properties, urgent \in BOOLEAN :
        requests' = Append(requests, [property |-> p, status |-> "NEW", urgent |-> urgent, reported |-> now,
                                      resolved |-> -1, closed |-> FALSE])
  BY DEF Maintenance!Create, Maintenance!Unset
<1> DEFINE row == [property |-> p, status |-> "NEW", urgent |-> urgent, reported |-> now, resolved |-> -1,
                   closed |-> FALSE]
<1>2. /\ now \in Nat /\ now' = now /\ watched' = watched /\ watched \in Watchable /\ move' = move
      /\ move = [u \in Clients |-> move[u]] /\ requests \in Seq(RequestRows)
  BY DEF MaintenanceInv, Maintenance!Create
<1>3. row \in RequestRows /\ Dated(row, now)
  BY <1>2 DEF RequestRows, Maintenance!Statuses, Dated
<1>4. requests' \in Seq(RequestRows)
  BY <1>1, <1>2, <1>3
<1>5. /\ DOMAIN requests' = DOMAIN requests \cup {Len(requests) + 1}
      /\ \A r \in DOMAIN requests : requests'[r] = requests[r]
      /\ requests'[Len(requests) + 1] = row
  BY <1>1, <1>2
<1>6. \A r \in DOMAIN requests' : Dated(requests'[r], now)
  BY <1>3, <1>5 DEF MaintenanceInv
<1>7. ASSUME NEW u \in Clients PROVE move[u] = Maintenance!Idle \/ Leads(move[u], requests', now)
  <2>1. CASE move[u] = Maintenance!Idle
    BY <2>1
  <2>2. CASE Leads(move[u], requests, now)
    <3>1. move[u].id \in DOMAIN requests
      BY <2>2 DEF Leads
    <3> QED
      BY <2>2, <3>1, <1>5 DEF Leads
  <2> QED
    BY <2>1, <2>2 DEF MaintenanceInv
<1> QED
  BY <1>2, <1>4, <1>6, <1>7 DEF MaintenanceInv

LEMMA MaintenanceUpdates == MaintenanceInv /\ Maintenance!Update => MaintenanceInv'
<1> SUFFICES ASSUME MaintenanceInv, Maintenance!Update PROVE MaintenanceInv'
  OBVIOUS
<1>1. PICK k \in DOMAIN requests, urgent \in BOOLEAN : requests' = [requests EXCEPT ![k].urgent = urgent]
  BY DEF Maintenance!Update
<1>2. /\ now \in Nat /\ now' = now /\ watched' = watched /\ watched \in Watchable /\ move' = move
      /\ move = [u \in Clients |-> move[u]] /\ requests \in Seq(RequestRows)
  BY DEF MaintenanceInv, Maintenance!Update
<1>3. DOMAIN requests' = DOMAIN requests /\ Len(requests') = Len(requests)
  BY <1>1, <1>2
<1>4. ASSUME NEW r \in DOMAIN requests'
      PROVE  /\ requests'[r] \in RequestRows /\ Dated(requests'[r], now)
             /\ requests'[r].reported = requests[r].reported
  <2>1. requests[r] \in RequestRows /\ Dated(requests[r], now)
    BY <1>2, <1>3 DEF MaintenanceInv
  <2>2. requests'[r] = IF r = k THEN [requests[r] EXCEPT !.urgent = urgent] ELSE requests[r]
    BY <1>1, <1>2, <1>3
  <2> QED
    BY <2>1, <2>2 DEF RequestRows, Dated
<1>5. requests' \in Seq(RequestRows)
  BY <1>1, <1>2, <1>3, <1>4
<1>6. ASSUME NEW u \in Clients PROVE move[u] = Maintenance!Idle \/ Leads(move[u], requests', now)
  <2>1. CASE move[u] = Maintenance!Idle
    BY <2>1
  <2>2. CASE Leads(move[u], requests, now)
    BY <2>2, <1>3, <1>4 DEF Leads
  <2> QED
    BY <2>1, <2>2 DEF MaintenanceInv
<1> QED
  BY <1>2, <1>4, <1>5, <1>6 DEF MaintenanceInv

LEMMA MaintenanceReads == MaintenanceInv /\ (\E u \in Clients : Maintenance!ReadMove(u)) => MaintenanceInv'
<1> SUFFICES ASSUME MaintenanceInv, NEW u \in Clients, Maintenance!ReadMove(u) PROVE MaintenanceInv'
  OBVIOUS
<1>1. PICK r \in DOMAIN requests, t \in Maintenance!ValidTransitions :
        /\ requests[r].status = t[1]
        /\ move' = [move EXCEPT ![u] = [op |-> "MOVE", id |-> r, was |-> requests[r], to |-> t[2]]]
  BY DEF Maintenance!ReadMove
<1>2. /\ now \in Nat /\ now' = now /\ watched' = watched /\ watched \in Watchable
      /\ requests' = requests /\ requests \in Seq(RequestRows)
      /\ move = [v \in Clients |-> move[v]]
  BY DEF MaintenanceInv, Maintenance!ReadMove
<1>3. requests[r] \in RequestRows /\ Dated(requests[r], now)
  BY <1>2 DEF MaintenanceInv
<1>4. t = <<t[1], t[2]>> /\ t[2] \in Maintenance!Statuses
  BY DEF Maintenance!ValidTransitions, Maintenance!Statuses
<1>5. Leads([op |-> "MOVE", id |-> r, was |-> requests[r], to |-> t[2]], requests, now)
  BY <1>1, <1>3, <1>4 DEF Leads
<1>6. move' = [v \in Clients |-> move'[v]] /\ \A v \in Clients : v # u => move'[v] = move[v]
  BY <1>1, <1>2
<1>7. move'[u] = [op |-> "MOVE", id |-> r, was |-> requests[r], to |-> t[2]]
  BY <1>1, <1>2
<1>8. \A v \in Clients : move'[v] = Maintenance!Idle \/ Leads(move'[v], requests, now)
  BY <1>5, <1>6, <1>7 DEF MaintenanceInv
<1> QED
  BY <1>2, <1>6, <1>8 DEF MaintenanceInv

LEMMA ExceptIsFunction ==
  ASSUME NEW f, NEW x, NEW y, NEW g, g = [f EXCEPT ![x] = y]
  PROVE  g = [i \in DOMAIN g |-> g[i]]
OBVIOUS

LEMMA MaintenanceWrites == MaintenanceInv /\ (\E u \in Clients : Maintenance!WriteMove(u)) => MaintenanceInv'
<1> SUFFICES ASSUME MaintenanceInv, NEW u \in Clients, Maintenance!WriteMove(u) PROVE MaintenanceInv'
  OBVIOUS
<1> DEFINE m == move[u]
<1>1. /\ now \in Nat /\ now' = now /\ watched' = watched /\ watched \in Watchable
      /\ requests \in Seq(RequestRows)
      /\ move = [v \in Clients |-> move[v]] /\ move' = [move EXCEPT ![u] = Maintenance!Idle]
  BY DEF MaintenanceInv, Maintenance!WriteMove
<1>2. Leads(m, requests, now)
  BY DEF MaintenanceInv, Maintenance!WriteMove, Maintenance!Idle
<1>3. /\ m.id \in DOMAIN requests /\ m.was \in RequestRows /\ m.to \in Maintenance!Statuses
      /\ Dated(m.was, now) /\ m.was.reported = requests[m.id].reported
      /\ <<m.was.status, m.to>> \in Maintenance!ValidTransitions
  BY <1>2 DEF Leads
<1>4. requests' = [requests EXCEPT ![m.id].status = m.to,
                                   ![m.id].resolved = IF m.to = "RESOLVED" THEN now ELSE m.was.resolved,
                                   ![m.id].closed = m.was.closed \/ m.to = "CLOSED"]
  BY DEF Maintenance!WriteMove
<1>5. DOMAIN requests' = DOMAIN requests /\ Len(requests') = Len(requests)
  BY <1>1, <1>4
<1>6. ASSUME NEW r \in DOMAIN requests'
      PROVE  /\ requests'[r] \in RequestRows /\ Dated(requests'[r], now)
             /\ requests'[r].reported = requests[r].reported
  <2>1. requests[r] \in RequestRows /\ Dated(requests[r], now)
    BY <1>1, <1>5 DEF MaintenanceInv
  <2>2. CASE r # m.id
    <3>1. requests'[r] = requests[r]
      BY <2>2, <1>1, <1>4, <1>5
    <3> QED
      BY <2>1, <3>1
  <2>3. CASE r = m.id
    <3>1. /\ requests'[r].property = requests[r].property /\ requests'[r].urgent = requests[r].urgent
          /\ requests'[r].reported = requests[r].reported
          /\ requests'[r].status = m.to
          /\ requests'[r].resolved = IF m.to = "RESOLVED" THEN now ELSE m.was.resolved
          /\ requests'[r].closed = (m.was.closed \/ m.to = "CLOSED")
      BY <2>1, <2>3, <1>1, <1>3, <1>4 DEF RequestRows
    <3>2. /\ m.was.resolved \in Nat \cup {-1} /\ m.was.closed \in BOOLEAN /\ m.was.reported \in Nat
          /\ m.was.resolved # -1 <=> m.was.status \in {"RESOLVED", "CLOSED"}
          /\ m.was.closed <=> m.was.status = "CLOSED"
          /\ m.was.reported <= now
          /\ m.was.resolved # -1 => m.was.reported <= m.was.resolved /\ m.was.resolved <= now
      BY <1>3 DEF RequestRows, Dated
    <3>3. \/ m.to = "RESOLVED" /\ m.was.status = "IN_PROGRESS"
          \/ m.to = "CLOSED" /\ m.was.status = "RESOLVED"
          \/ m.to \notin {"RESOLVED", "CLOSED"} /\ m.was.status \in {"NEW", "UNDER_REVIEW", "IN_PROGRESS"}
      BY <1>3 DEF Maintenance!ValidTransitions
    <3>4. Dated(requests'[r], now)
      <4>1. requests'[r].closed <=> requests'[r].status = "CLOSED"
        BY <3>1, <3>2, <3>3, Zenon
      <4>2. requests'[r].reported \in Nat /\ requests'[r].reported = m.was.reported
        BY <2>3, <3>1, <3>2, <1>3
      <4>3. /\ requests'[r].resolved # -1 <=> requests'[r].status \in {"RESOLVED", "CLOSED"}
            /\ requests'[r].resolved # -1 => requests'[r].reported <= requests'[r].resolved /\ requests'[r].resolved <= now
            /\ requests'[r].reported <= now
        <5> HIDE DEF m
        <5> QED
          BY <3>1, <3>2, <3>3, <4>2, <1>1
      <4> QED
        BY <4>1, <4>2, <4>3 DEF Dated
    <3>5. requests'[r] \in RequestRows
      <4>1. requests'[r] = [property |-> requests[r].property, status |-> m.to, urgent |-> requests[r].urgent,
                            reported |-> requests[r].reported,
                            resolved |-> IF m.to = "RESOLVED" THEN now ELSE m.was.resolved,
                            closed |-> m.was.closed \/ m.to = "CLOSED"]
        BY <2>1, <2>3, <1>1, <1>3, <1>4 DEF RequestRows
      <4> QED
        BY <4>1, <2>1, <3>2, <1>1, <1>3 DEF RequestRows
    <3> QED
      BY <3>1, <3>4, <3>5
  <2> QED
    BY <2>2, <2>3
<1>7. requests' \in Seq(RequestRows)
  <2>1. requests' = [i \in 1..Len(requests) |-> requests'[i]] /\ Len(requests) \in Nat /\ DOMAIN requests' = 1..Len(requests)
    <3>1. requests' = [i \in DOMAIN requests |-> requests'[i]]
      BY <1>4, <1>5, ExceptIsFunction, Zenon
    <3>2. Len(requests) \in Nat /\ DOMAIN requests = 1..Len(requests)
      BY <1>1
    <3> QED
      BY <3>1, <3>2, <1>5
  <2> QED
    BY <2>1, <1>6
<1>8. move' = [v \in Clients |-> move'[v]] /\ move'[u] = Maintenance!Idle /\ \A v \in Clients : v # u => move'[v] = move[v]
  BY <1>1
<1>9. ASSUME NEW v \in Clients PROVE move'[v] = Maintenance!Idle \/ Leads(move'[v], requests', now)
  <2>1. CASE v = u \/ move[v] = Maintenance!Idle
    BY <2>1, <1>8
  <2>2. CASE v # u /\ Leads(move[v], requests, now)
    BY <2>2, <1>5, <1>6, <1>8 DEF Leads
  <2> QED
    BY <2>1, <2>2 DEF MaintenanceInv
<1> QED
  BY <1>1, <1>6, <1>7, <1>8, <1>9 DEF MaintenanceInv

LEMMA MaintenanceElse ==
  MaintenanceInv /\ (Maintenance!Tick \/ (\E u \in Clients : Maintenance!Abandon(u)) \/ UNCHANGED Maintenance!vars)
    => MaintenanceInv'
<1> SUFFICES ASSUME MaintenanceInv, Maintenance!Tick \/ (\E u \in Clients : Maintenance!Abandon(u)) \/ UNCHANGED Maintenance!vars
             PROVE  MaintenanceInv'
  OBVIOUS
<1>1. CASE Maintenance!Tick
  <2>1. now' \in Nat /\ now' > now /\ now \in Nat
    BY <1>1, MaintenanceAssumption DEF Maintenance!Tick, MaintenanceInv
  <2>2. requests' = requests /\ watched' = watched /\ move' = move
    BY <1>1 DEF Maintenance!Tick
  <2>3. \A row \in RequestRows : Dated(row, now) => Dated(row, now')
    BY <2>1 DEF Dated, RequestRows
  <2>4. \A r \in DOMAIN requests : Dated(requests[r], now')
    BY <2>3 DEF MaintenanceInv
  <2>5. \A u \in Clients : Leads(move[u], requests, now) => Leads(move[u], requests, now')
    BY <2>3 DEF Leads
  <2> QED
    BY <2>1, <2>2, <2>4, <2>5 DEF MaintenanceInv
<1>2. CASE \E u \in Clients : Maintenance!Abandon(u)
  <2>1. PICK u \in Clients : Maintenance!Abandon(u)
    BY <1>2
  <2>2. /\ now' = now /\ requests' = requests /\ watched' = watched
        /\ move' = [move EXCEPT ![u] = Maintenance!Idle] /\ move = [v \in Clients |-> move[v]]
    BY <2>1 DEF Maintenance!Abandon, MaintenanceInv
  <2>3. move' = [v \in Clients |-> move'[v]] /\ move'[u] = Maintenance!Idle /\ \A v \in Clients : v # u => move'[v] = move[v]
    BY <2>2
  <2> QED
    BY <2>2, <2>3 DEF MaintenanceInv
<1>3. CASE UNCHANGED Maintenance!vars
  BY <1>3 DEF Maintenance!vars, MaintenanceInv
<1> QED
  BY <1>1, <1>2, <1>3

LEMMA DayFacts ==
  ASSUME NEW h \in Int
  PROVE  Maintenance!Day(h) \in Int /\ 24 * Maintenance!Day(h) <= h /\ h < 24 * Maintenance!Day(h) + 24
BY DEF Maintenance!Day

LEMMA FiguresFollow == MaintenanceInv => FiguresAgree
<1> SUFFICES ASSUME MaintenanceInv PROVE FiguresAgree
  OBVIOUS
<1>1. /\ now \in Nat /\ watched \in Watchable
      /\ \A r \in DOMAIN requests : requests[r] \in RequestRows /\ Dated(requests[r], now)
  BY DEF MaintenanceInv
<1>2. ASSUME NEW r \in DOMAIN requests
      PROVE  /\ requests[r].resolved # Maintenance!Unset <=> requests[r].status \in {"RESOLVED", "CLOSED"}
             /\ requests[r].closed <=> requests[r].status = "CLOSED"
  BY <1>1 DEF Dated, Maintenance!Unset
<1>3. ASSUME NEW scope \in SUBSET Properties
      PROVE  LET d == Maintenance!Dashboard(scope) IN
             /\ d.open = UNION {d.requests[s] : s \in Maintenance!Open}
             /\ d.open = UNION {d.priorities[urgent] : urgent \in BOOLEAN}
             /\ d.averaged \subseteq d.requests["RESOLVED"] \cup d.requests["CLOSED"]
             /\ \A r \in d.averaged : requests[r].reported <= requests[r].resolved
             /\ \A day \in DOMAIN d.trend : d.trend[day].completed \subseteq d.averaged
             /\ \A r \in d.averaged :
                  \/ \E day \in DOMAIN d.trend : r \in d.trend[day].completed
                  \/ Maintenance!Day(requests[r].resolved) = Maintenance!Day(now) - PeriodDays
             /\ d.active = UNION {d.orders[s] : s \in {"READY", "SCHEDULED", "IN_PROGRESS"}}
             /\ d.completed \subseteq d.orders["COMPLETED"]
             /\ d.pending \subseteq d.quotes["PENDING"]
  <2> DEFINE d == Maintenance!Dashboard(scope)
  <2>1. CASE scope = {}
    BY <2>1 DEF Maintenance!Dashboard, Maintenance!EmptyDashboard, Maintenance!Statuses, Maintenance!OrderStatuses,
                Maintenance!Results, Maintenance!Open
  <2>2. CASE scope # {}
    <3>1. /\ d.open = Maintenance!OpenRequests(scope) /\ d.active = Maintenance!ActiveWorkOrders(scope)
          /\ d.completed = Maintenance!CompletedThisPeriod(scope) /\ d.pending = Maintenance!PendingSignature(scope)
          /\ d.requests = Maintenance!RequestsSnapshot(scope) /\ d.orders = Maintenance!WorkOrdersSnapshot(scope)
          /\ d.quotes = Maintenance!QuotesSnapshot(scope) /\ d.trend = Maintenance!Trend(scope)
          /\ d.priorities = Maintenance!PriorityBreakdown(scope) /\ d.averaged = Maintenance!Averaged(scope)
      BY <2>2 DEF Maintenance!Dashboard
    <3> HIDE DEF d
    <3>2. d.open = UNION {d.requests[s] : s \in Maintenance!Open}
      BY <3>1 DEF Maintenance!OpenRequests, Maintenance!RequestsSnapshot, Maintenance!Open, Maintenance!Statuses
    <3>3. d.open = UNION {d.priorities[urgent] : urgent \in BOOLEAN}
      <4>1. \A r \in d.open : requests[r].urgent \in BOOLEAN
        BY <3>1, <1>1 DEF Maintenance!OpenRequests, Maintenance!Visible, RequestRows
      <4> QED
        BY <3>1, <4>1 DEF Maintenance!PriorityBreakdown
    <3>4. d.averaged \subseteq d.requests["RESOLVED"] \cup d.requests["CLOSED"]
      BY <3>1 DEF Maintenance!Averaged, Maintenance!RequestsSnapshot, Maintenance!Statuses
    <3>5. \A r \in d.averaged :
            /\ r \in Maintenance!Visible(scope) /\ requests[r].resolved \in Nat
            /\ requests[r].reported <= requests[r].resolved
            /\ now - PeriodDays * 24 <= requests[r].resolved /\ requests[r].resolved <= now
      BY <3>1, <1>1, MaintenanceAssumption
         DEF Maintenance!Averaged, Maintenance!Visible, Maintenance!Period, Dated, RequestRows
    <3>6. ASSUME NEW day \in DOMAIN d.trend, NEW r \in d.trend[day].completed PROVE r \in d.averaged
      <4>1. /\ day \in (Maintenance!Day(now) - (PeriodDays - 1))..Maintenance!Day(now)
            /\ r \in Maintenance!Visible(scope) /\ requests[r].resolved # -1
            /\ Maintenance!Day(requests[r].resolved) = day
        BY <3>1 DEF Maintenance!Trend, Maintenance!TrendDays, Maintenance!Unset
      <4>2. /\ requests[r].resolved \in Nat /\ requests[r].resolved <= now
            /\ requests[r].status \in {"RESOLVED", "CLOSED"}
        BY <4>1, <1>1 DEF Maintenance!Visible, RequestRows, Dated
      <4>3. requests[r].resolved >= now - PeriodDays * 24
        <5>1. /\ 24 * Maintenance!Day(now) <= now /\ now < 24 * Maintenance!Day(now) + 24 /\ Maintenance!Day(now) \in Int
              /\ 24 * day <= requests[r].resolved
          <6>1. now \in Int /\ requests[r].resolved \in Int
            BY <4>2, <1>1
          <6> QED
            BY <6>1, <4>1, DayFacts, Zenon
        <5>2. day \in Int /\ day >= Maintenance!Day(now) - (PeriodDays - 1) /\ PeriodDays \in Int
          BY <4>1, <5>1, MaintenanceAssumption
        <5> QED
          BY <5>1, <5>2, <4>2, <1>1
      <4> QED
        BY <4>1, <4>2, <4>3, <3>1, <1>1, MaintenanceAssumption DEF Maintenance!Averaged, Maintenance!Period
    <3>7. ASSUME NEW r \in d.averaged
          PROVE  \/ \E day \in DOMAIN d.trend : r \in d.trend[day].completed
                 \/ Maintenance!Day(requests[r].resolved) = Maintenance!Day(now) - PeriodDays
      <4> DEFINE day == Maintenance!Day(requests[r].resolved)
      <4>1. day \in Int /\ Maintenance!Day(now) \in Int /\ day <= Maintenance!Day(now) /\ day >= Maintenance!Day(now) - PeriodDays
        <5>1. /\ requests[r].resolved \in Int /\ now \in Int
              /\ now - PeriodDays * 24 <= requests[r].resolved /\ requests[r].resolved <= now /\ PeriodDays \in Int
          BY <3>5, <1>1, MaintenanceAssumption
        <5>2. /\ 24 * Maintenance!Day(now) <= now /\ now < 24 * Maintenance!Day(now) + 24 /\ Maintenance!Day(now) \in Int
              /\ 24 * day <= requests[r].resolved /\ requests[r].resolved < 24 * day + 24 /\ day \in Int
          BY <5>1, DayFacts, Zenon
        <5> HIDE DEF day
        <5> QED
          BY <5>1, <5>2
      <4>2. CASE day # Maintenance!Day(now) - PeriodDays
        <5>1. day \in Maintenance!TrendDays
          BY <4>1, <4>2, MaintenanceAssumption DEF Maintenance!TrendDays
        <5>2. r \in Maintenance!Visible(scope) /\ requests[r].resolved # Maintenance!Unset
          BY <3>5 DEF Maintenance!Unset
        <5> QED
          BY <5>1, <5>2, <3>1 DEF Maintenance!Trend
      <4> QED
        BY <4>2
    <3>8. d.active = UNION {d.orders[s] : s \in {"READY", "SCHEDULED", "IN_PROGRESS"}}
      BY <3>1 DEF Maintenance!ActiveWorkOrders, Maintenance!WorkOrdersSnapshot, Maintenance!OrderStatuses
    <3>9. d.completed \subseteq d.orders["COMPLETED"]
      BY <3>1 DEF Maintenance!CompletedThisPeriod, Maintenance!WorkOrdersSnapshot, Maintenance!OrderStatuses
    <3>10. ASSUME NEW q \in d.pending PROVE q \in d.quotes["PENDING"]
      <4>1. /\ q \in Maintenance!Watched("QUOTE", scope) /\ q = watched /\ q.kind = "QUOTE"
            /\ q.mode \in {"SIGNATURE_ONLY", "APPROVAL_THEN_SIGNATURE"} /\ q.signature \in {"PENDING", "PARTIALLY_SIGNED"}
        BY <3>1 DEF Maintenance!PendingSignature, Maintenance!Watched
      <4>2. q.mode = "APPROVAL_THEN_SIGNATURE" => q.approval = "APPROVED"
        BY <4>1, <1>1, MaintenanceAssumption
      <4>3. Maintenance!Workflow!SignatureResult(q.signature) = "PENDING"
        BY <4>1 DEF Maintenance!Workflow!SignatureResult
      <4>4. Maintenance!Workflow!Derive(q.mode, q.approval, q.signature) = "PENDING"
        BY <4>1, <4>2, <4>3 DEF Maintenance!Workflow!Derive, Maintenance!Workflow!NeedsApproval, Maintenance!Workflow!NeedsSignature
      <4> QED
        BY <4>1, <4>4, <3>1 DEF Maintenance!QuotesSnapshot, Maintenance!Results
    <3> QED
      BY <3>2, <3>3, <3>4, <3>5, <3>6, <3>7, <3>8, <3>9, <3>10 DEF d
  <2> QED
    BY <2>1, <2>2
<1> QED
  BY <1>2, <1>3 DEF FiguresAgree, Maintenance!FiguresAgree

\* Whatever properties the dashboard's reader may see and however stale the
\* moves of requests that overwrite one another, its figures agree
\* (DashboardService, MaintenanceService.updateStatus).
THEOREM FiguresAgreeHolds == Maintenance!Spec => []FiguresAgree
<1>1. MaintenanceInv /\ [Maintenance!Next]_(Maintenance!vars) => MaintenanceInv'
  BY MaintenanceCreates, MaintenanceUpdates, MaintenanceReads, MaintenanceWrites, MaintenanceElse DEF Maintenance!Next
<1> QED
  BY <1>1, MaintenanceStarts, FiguresFollow, PTL DEF Maintenance!Spec

-----------------------------------------------------------------------------
(***************************************************************************)
(* What needs attention.  Time lengthens every wait and changes no row, so *)
(* each search finds again what it found, as severe or more so; and the    *)
(* list, whichever of the sorted ones it is, starts with the most severe.  *)
(***************************************************************************)
SeverityNames == {"CRITICAL", "WARNING", "INFO"}
TypeNames ==
  {"URGENT_REQUEST_OPEN", "WORK_ORDER_OVERDUE_SCHEDULE", "QUOTE_SIGNATURE_STALLED",
   "QUOTE_PENDING_APPROVAL_TOO_LONG", "WORK_ORDER_STUCK_IN_DRAFT", "STALE_OPEN_REQUEST",
   "QUOTE_REJECTED_NEEDS_FOLLOWUP", "WORK_ORDER_CONTRACTOR_NO_LONGER_ELIGIBLE",
   "CONTRACTOR_CREDENTIAL_EXPIRED", "CONTRACTOR_CREDENTIAL_EXPIRING_SOON",
   "CONTRACTOR_CREDENTIAL_PENDING_VERIFICATION"}
ItemRows == [type : TypeNames, severity : SeverityNames, subject : Nat, occurred : Int]

Grade(severity) == Maintenance!Rank(Maintenance!Severities, severity)

\* The lists of the comparison have every severity and every type.
LEMMA GradesAre ==
  /\ Grade("CRITICAL") = 1 /\ Grade("WARNING") = 2 /\ Grade("INFO") = 3
  /\ \A type \in TypeNames : Maintenance!Rank(Maintenance!Types, type) \in Int
<1>1. Maintenance!Severities[1] = "CRITICAL" /\ Maintenance!Severities[2] = "WARNING" /\ Maintenance!Severities[3] = "INFO"
      /\ DOMAIN Maintenance!Severities = 1..3
  BY DEF Maintenance!Severities
<1>2. Grade("CRITICAL") = 1 /\ Grade("WARNING") = 2 /\ Grade("INFO") = 3
  <2>1. \A n \in 1..3 : n = 1 \/ n = 2 \/ n = 3
    OBVIOUS
  <2>2. \A n \in 1..3 : Maintenance!Severities[n] = "CRITICAL" <=> n = 1
    BY <1>1, <2>1
  <2>3. \A n \in 1..3 : Maintenance!Severities[n] = "WARNING" <=> n = 2
    BY <1>1, <2>1
  <2>4. \A n \in 1..3 : Maintenance!Severities[n] = "INFO" <=> n = 3
    BY <1>1, <2>1
  <2> QED
    BY <1>1, <2>2, <2>3, <2>4 DEF Grade, Maintenance!Rank
<1>3. ASSUME NEW type \in TypeNames PROVE Maintenance!Rank(Maintenance!Types, type) \in Int
  <2>1. DOMAIN Maintenance!Types = 1..11
    BY DEF Maintenance!Types
  <2>2. \E n \in 1..11 : Maintenance!Types[n] = type
    BY DEF TypeNames, Maintenance!Types
  <2> QED
    BY <2>1, <2>2 DEF Maintenance!Rank
<1> QED
  BY <1>2, <1>3

\* Something waits, or not.
LEMMA WaitingIs ==
  ASSUME now \in Nat, NEW type \in TypeNames, NEW subject \in Nat, NEW since \in Int, NEW warn, NEW critical
  PROVE  /\ Maintenance!Waiting(type, subject, since, warn, critical) \in SUBSET ItemRows
         /\ IsFiniteSet(Maintenance!Waiting(type, subject, since, warn, critical))
         /\ \A i \in Maintenance!Waiting(type, subject, since, warn, critical) : i.subject = subject
<1>1. PICK s : s = IF now - since > critical THEN "CRITICAL" ELSE "WARNING"
  OBVIOUS
<1>2. PICK i : i = Maintenance!Item(type, s, subject, since)
  OBVIOUS
<1>3. i \in ItemRows /\ i.subject = subject
  BY <1>1, <1>2 DEF ItemRows, SeverityNames, Maintenance!Item
<1>4. Maintenance!Waiting(type, subject, since, warn, critical) = {i}
      \/ Maintenance!Waiting(type, subject, since, warn, critical) = {}
  BY <1>1, <1>2 DEF Maintenance!Waiting
<1> QED
  BY <1>3, <1>4, FS_Singleton, FS_EmptySet

\* Of some rows of requests, what waits.
WaitingOf(U, D, type, warn, critical) ==
  \A i : i \in U <=> \E r \in D : i \in Maintenance!Waiting(type, r, requests[r].reported, warn, critical)

LEMMA RowsWait ==
  ASSUME MaintenanceInv, NEW type \in TypeNames, NEW warn, NEW critical, NEW D \in SUBSET DOMAIN requests, NEW U,
         WaitingOf(U, D, type, warn, critical)
  PROVE  U \in SUBSET ItemRows /\ IsFiniteSet(U)
<1>1. PICK n \in Nat : DOMAIN requests = 1..n
  BY DEF MaintenanceInv
<1>2. IsFiniteSet(D)
  <2>1. IsFiniteSet(1..n)
    BY FS_Interval
  <2> QED
    BY <1>1, <2>1, FS_Subset
<1>3. PICK F : F = [r \in D |-> Maintenance!Waiting(type, r, requests[r].reported, warn, critical)]
  OBVIOUS
<1>4. ASSUME NEW r \in D PROVE F[r] \in SUBSET ItemRows /\ IsFiniteSet(F[r]) /\ \A i \in F[r] : i.subject = r
  <2>1. r \in Nat /\ r \in DOMAIN requests
    BY <1>1
  <2>2. requests[r] \in RequestRows /\ now \in Nat
    BY <2>1 DEF MaintenanceInv
  <2>3. PICK since \in Int : since = requests[r].reported
    BY <2>2 DEF RequestRows
  <2>4. F[r] = Maintenance!Waiting(type, r, since, warn, critical)
    BY <1>3, <2>3
  <2> QED
    BY <2>1, <2>2, <2>4, WaitingIs
<1>6. \A i : i \in U <=> \E r \in D : i \in F[r]
  BY <1>3 DEF WaitingOf
<1>5. Parts(U, D, F)
  BY <1>2, <1>4, <1>6 DEF Parts
<1> QED
  BY <1>4, <1>5, <1>6, PartsFinite

\* The hours of what is watched.
WatchedWell(x) ==
  \/ x.kind = "ORDER" /\ x.created \in Int /\ x.scheduled \in Int
  \/ x.kind = "QUOTE" /\ x.since \in Int /\ x.rejected \in Int
  \/ x.kind = "CREDENTIAL" /\ x.created \in Int /\ x.expires \in Int

LEMMA OneItem ==
  ASSUME NEW type \in TypeNames, NEW severity \in SeverityNames, NEW occurred \in Int
  PROVE  {Maintenance!Item(type, severity, 0, occurred)} \in SUBSET ItemRows
         /\ IsFiniteSet({Maintenance!Item(type, severity, 0, occurred)})
<1>1. PICK i : i = Maintenance!Item(type, severity, 0, occurred)
  OBVIOUS
<1>2. i \in ItemRows
  BY <1>1 DEF ItemRows, Maintenance!Item
<1> QED
  BY <1>1, <1>2, FS_Singleton

LEMMA WatchedItems ==
  ASSUME now \in Nat, NEW x, WatchedWell(x)
  PROVE  Maintenance!OfWatched(x) \in SUBSET ItemRows /\ IsFiniteSet(Maintenance!OfWatched(x))
<1> DEFINE Well(S) == S \in SUBSET ItemRows /\ IsFiniteSet(S)
<1>0. Well({}) /\ \A S, T : Well(S) /\ Well(T) => Well(S \cup T)
  BY FS_EmptySet, FS_Union
<1>w. ASSUME NEW type \in TypeNames, NEW since \in Int, NEW warn, NEW critical
      PROVE  Well(Maintenance!Waiting(type, 0, since, warn, critical))
  BY WaitingIs
<1>o. ASSUME NEW type \in TypeNames, NEW severity \in SeverityNames, NEW occurred \in Int
      PROVE  Well({Maintenance!Item(type, severity, 0, occurred)})
  BY OneItem
<1> HIDE DEF Well
<1>n. now \in Int
  OBVIOUS
<1>1. CASE x.kind = "ORDER"
  <2>1. x.created \in Int /\ x.scheduled \in Int
    BY <1>1 DEF WatchedWell
  <2>2. Well(Maintenance!WorkOrderStuckInDraft(x))
    <3>1. Well(Maintenance!Waiting("WORK_ORDER_STUCK_IN_DRAFT", 0, x.created, 3 * 24, 7 * 24))
      BY <1>w, <2>1 DEF TypeNames
    <3> QED
      BY <1>0, <3>1 DEF Maintenance!WorkOrderStuckInDraft
  <2>3. Well(Maintenance!WorkOrderOverdueSchedule(x))
    <3>1. \A s \in SeverityNames : Well({Maintenance!Item("WORK_ORDER_OVERDUE_SCHEDULE", s, 0, x.scheduled)})
      BY <1>o, <2>1 DEF TypeNames
    <3> QED
      BY <1>0, <3>1 DEF Maintenance!WorkOrderOverdueSchedule, SeverityNames
  <2>4. Well(Maintenance!WorkOrderContractorNoLongerEligible(x))
    <3>1. Well({Maintenance!Item("WORK_ORDER_CONTRACTOR_NO_LONGER_ELIGIBLE", "CRITICAL", 0, now)})
      BY <1>o, <1>n DEF TypeNames, SeverityNames
    <3> QED
      BY <1>0, <3>1 DEF Maintenance!WorkOrderContractorNoLongerEligible
  <2>5. Maintenance!OfWatched(x) =
          Maintenance!WorkOrderStuckInDraft(x) \cup Maintenance!WorkOrderOverdueSchedule(x)
            \cup Maintenance!WorkOrderContractorNoLongerEligible(x)
    BY <1>1 DEF Maintenance!OfWatched
  <2>6. Well(Maintenance!OfWatched(x))
    BY <1>0, <2>2, <2>3, <2>4, <2>5
  <2> QED
    BY <2>6 DEF Well
<1>2. CASE x.kind = "QUOTE"
  <2>1. x.since \in Int /\ x.rejected \in Int
    BY <1>2 DEF WatchedWell
  <2>2. Well(Maintenance!QuotePendingApprovalTooLong(x))
    <3>1. Well(Maintenance!Waiting("QUOTE_PENDING_APPROVAL_TOO_LONG", 0, x.since, 3 * 24, 7 * 24))
      BY <1>w, <2>1 DEF TypeNames
    <3> QED
      BY <1>0, <3>1 DEF Maintenance!QuotePendingApprovalTooLong
  <2>3. Well(Maintenance!QuoteSignatureStalled(x))
    <3>1. /\ Well(Maintenance!Waiting("QUOTE_SIGNATURE_STALLED", 0, x.since, 3 * 24, 7 * 24))
          /\ Well(Maintenance!Waiting("QUOTE_SIGNATURE_STALLED", 0, x.since, 24, 5 * 24))
      BY <1>w, <2>1 DEF TypeNames
    <3> QED
      BY <1>0, <3>1 DEF Maintenance!QuoteSignatureStalled
  <2>4. Well(Maintenance!QuoteRejectedNeedsFollowup(x))
    <3>1. Well({Maintenance!Item("QUOTE_REJECTED_NEEDS_FOLLOWUP", "WARNING", 0, x.rejected)})
      BY <1>o, <2>1 DEF TypeNames, SeverityNames
    <3> QED
      BY <1>0, <3>1 DEF Maintenance!QuoteRejectedNeedsFollowup
  <2>5. Maintenance!OfWatched(x) =
          Maintenance!QuotePendingApprovalTooLong(x) \cup Maintenance!QuoteSignatureStalled(x)
            \cup Maintenance!QuoteRejectedNeedsFollowup(x)
    BY <1>2 DEF Maintenance!OfWatched
  <2>6. Well(Maintenance!OfWatched(x))
    BY <1>0, <2>2, <2>3, <2>4, <2>5
  <2> QED
    BY <2>6 DEF Well
<1>3. CASE x.kind = "CREDENTIAL"
  <2>1. x.created \in Int /\ x.expires \in Int
    BY <1>3 DEF WatchedWell
  <2>2. Well(Maintenance!ContractorCredentialsExpired(x))
    <3>1. Well({Maintenance!Item("CONTRACTOR_CREDENTIAL_EXPIRED", "CRITICAL", 0, x.expires)})
      BY <1>o, <2>1 DEF TypeNames, SeverityNames
    <3> QED
      BY <1>0, <3>1 DEF Maintenance!ContractorCredentialsExpired
  <2>3. Well(Maintenance!ContractorCredentialsExpiringSoon(x))
    <3>1. \A s \in SeverityNames : Well({Maintenance!Item("CONTRACTOR_CREDENTIAL_EXPIRING_SOON", s, 0, now)})
      BY <1>o, <1>n DEF TypeNames
    <3>2. PICK s \in SeverityNames : s = IF Maintenance!DaysLeft(x.expires - now) <= 7 THEN "WARNING" ELSE "INFO"
      BY DEF SeverityNames
    <3> QED
      BY <1>0, <3>1, <3>2 DEF Maintenance!ContractorCredentialsExpiringSoon
  <2>4. Well(Maintenance!ContractorCredentialsPendingVerification(x))
    <3>1. Well(Maintenance!Waiting("CONTRACTOR_CREDENTIAL_PENDING_VERIFICATION", 0, x.created, 48, Maintenance!Never))
      BY <1>w, <2>1 DEF TypeNames
    <3> QED
      BY <1>0, <3>1 DEF Maintenance!ContractorCredentialsPendingVerification
  <2>5. Maintenance!OfWatched(x) =
          Maintenance!ContractorCredentialsExpired(x) \cup Maintenance!ContractorCredentialsExpiringSoon(x)
            \cup Maintenance!ContractorCredentialsPendingVerification(x)
    BY <1>3 DEF Maintenance!OfWatched
  <2>6. Well(Maintenance!OfWatched(x))
    BY <1>0, <2>2, <2>3, <2>4, <2>5
  <2> QED
    BY <2>6 DEF Well
<1> QED
  BY <1>1, <1>2, <1>3 DEF WatchedWell

\* The requests that the two searches pass on.
UrgentRows == {x \in DOMAIN requests : requests[x].urgent /\ requests[x].status \in Maintenance!Open}
StaleRows == {x \in DOMAIN requests : ~requests[x].urgent /\ requests[x].status \in Maintenance!Open}

LEMMA RequestsWaiting ==
  /\ WaitingOf(Maintenance!UrgentRequestsOpen, UrgentRows, "URGENT_REQUEST_OPEN", 4, 24)
  /\ WaitingOf(Maintenance!StaleOpenRequests, StaleRows, "STALE_OPEN_REQUEST", 7 * 24, Maintenance!Never)
<1>1. WaitingOf(Maintenance!UrgentRequestsOpen, UrgentRows, "URGENT_REQUEST_OPEN", 4, 24)
  BY DEF WaitingOf, Maintenance!UrgentRequestsOpen, UrgentRows
<1>2. WaitingOf(Maintenance!StaleOpenRequests, StaleRows, "STALE_OPEN_REQUEST", 7 * 24, Maintenance!Never)
  BY DEF WaitingOf, Maintenance!StaleOpenRequests, StaleRows
<1> QED
  BY <1>1, <1>2

LEMMA ItemsAre == MaintenanceInv => Maintenance!Items \in SUBSET ItemRows /\ IsFiniteSet(Maintenance!Items)
<1> SUFFICES ASSUME MaintenanceInv PROVE Maintenance!Items \in SUBSET ItemRows /\ IsFiniteSet(Maintenance!Items)
  OBVIOUS
<1>1. Maintenance!UrgentRequestsOpen \in SUBSET ItemRows /\ IsFiniteSet(Maintenance!UrgentRequestsOpen)
  <2>1. PICK U, D : U = Maintenance!UrgentRequestsOpen /\ D = UrgentRows
    OBVIOUS
  <2>2. PICK type, warn, critical : type = "URGENT_REQUEST_OPEN" /\ <<warn, critical>> = <<4, 24>>
    OBVIOUS
  <2>3. type \in TypeNames /\ D \in SUBSET DOMAIN requests
    BY <2>1, <2>2 DEF TypeNames, UrgentRows
  <2>4. WaitingOf(U, D, type, warn, critical)
    BY <2>1, <2>2, RequestsWaiting
  <2>5. U \in SUBSET ItemRows /\ IsFiniteSet(U)
    BY <2>3, <2>4, RowsWait
  <2> QED
    BY <2>1, <2>5
<1>2. Maintenance!StaleOpenRequests \in SUBSET ItemRows /\ IsFiniteSet(Maintenance!StaleOpenRequests)
  <2>1. PICK U, D : U = Maintenance!StaleOpenRequests /\ D = StaleRows
    OBVIOUS
  <2>2. PICK type, warn, critical : type = "STALE_OPEN_REQUEST" /\ <<warn, critical>> = <<7 * 24, Maintenance!Never>>
    OBVIOUS
  <2>3. type \in TypeNames /\ D \in SUBSET DOMAIN requests
    BY <2>1, <2>2 DEF TypeNames, StaleRows
  <2>4. WaitingOf(U, D, type, warn, critical)
    BY <2>1, <2>2, RequestsWaiting
  <2>5. U \in SUBSET ItemRows /\ IsFiniteSet(U)
    BY <2>3, <2>4, RowsWait
  <2> QED
    BY <2>1, <2>5
<1>3. Maintenance!OfWatched(watched) \in SUBSET ItemRows /\ IsFiniteSet(Maintenance!OfWatched(watched))
  <2>1. PICK x : x = watched
    OBVIOUS
  <2>2. now \in Nat /\ WatchedWell(x)
    BY <2>1, MaintenanceAssumption DEF MaintenanceInv, WatchedWell
  <2>3. Maintenance!OfWatched(x) \in SUBSET ItemRows /\ IsFiniteSet(Maintenance!OfWatched(x))
    BY <2>2, WatchedItems
  <2> QED
    BY <2>1, <2>3
<1>4. IsFiniteSet(Maintenance!UrgentRequestsOpen \cup Maintenance!StaleOpenRequests)
  BY <1>1, <1>2, FS_Union
<1>5. IsFiniteSet((Maintenance!UrgentRequestsOpen \cup Maintenance!StaleOpenRequests) \cup Maintenance!OfWatched(watched))
  BY <1>3, <1>4, FS_Union
<1> QED
  BY <1>1, <1>2, <1>3, <1>5 DEF Maintenance!Items

\* Something among J is about the same, and no less severe.
AsSevere(i, J) == \E j \in J : j.subject = i.subject /\ Grade(j.severity) <= Grade(i.severity)

\* What waits will wait longer.
LEMMA WaitingStays ==
  ASSUME now \in Nat, now' \in Nat, now <= now', NEW type, NEW subject, NEW since \in Int, NEW warn \in Int,
         NEW critical \in Int, NEW i \in Maintenance!Waiting(type, subject, since, warn, critical)
  PROVE  AsSevere(i, Maintenance!Waiting(type, subject, since, warn, critical)')
<1>0. now \in Int /\ now' \in Int /\ \A s, t, c \in Int : s <= t /\ s - since > c => t - since > c
  OBVIOUS
<1>1. now - since > warn /\ now' - since > warn /\ i.subject = subject
      /\ i.severity = IF now - since > critical THEN "CRITICAL" ELSE "WARNING"
  <2>1. now - since > warn
    BY DEF Maintenance!Waiting
  <2>2. i.subject = subject /\ i.severity = IF now - since > critical THEN "CRITICAL" ELSE "WARNING"
    BY DEF Maintenance!Waiting, Maintenance!Item
  <2> QED
    BY <1>0, <2>1, <2>2
<1>2. PICK j : j = Maintenance!Item(type, IF now' - since > critical THEN "CRITICAL" ELSE "WARNING", subject, since)
  OBVIOUS
<1>3. j \in Maintenance!Waiting(type, subject, since, warn, critical)'
  BY <1>1, <1>2 DEF Maintenance!Waiting, Maintenance!Item
<1>4. j.subject = subject /\ j.severity = IF now' - since > critical THEN "CRITICAL" ELSE "WARNING"
  BY <1>2 DEF Maintenance!Item
<1>5. Grade(j.severity) <= Grade(i.severity)
  <2>1. now - since > critical => now' - since > critical
    BY <1>0
  <2> QED
    BY <1>1, <1>4, <2>1, GradesAre
<1> QED
  BY <1>1, <1>3, <1>4, <1>5 DEF AsSevere

LEMMA OrdersStay ==
  ASSUME now \in Nat, now' \in Nat, now <= now', NEW x, WatchedWell(x), x.kind = "ORDER",
         NEW i \in Maintenance!OfWatched(x),
         i.type = "WORK_ORDER_CONTRACTOR_NO_LONGER_ELIGIBLE" => now' \in x.ineligible
  PROVE  AsSevere(i, Maintenance!OfWatched(x)')
<1>1. x.created \in Int /\ x.scheduled \in Int
  BY DEF WatchedWell
<1>2. Maintenance!OfWatched(x) =
        Maintenance!WorkOrderStuckInDraft(x) \cup Maintenance!WorkOrderOverdueSchedule(x)
          \cup Maintenance!WorkOrderContractorNoLongerEligible(x)
  BY DEF Maintenance!OfWatched
<1>3. Maintenance!OfWatched(x)' =
        Maintenance!WorkOrderStuckInDraft(x)' \cup Maintenance!WorkOrderOverdueSchedule(x)'
          \cup Maintenance!WorkOrderContractorNoLongerEligible(x)'
  BY DEF Maintenance!OfWatched
<1>4. CASE i \in Maintenance!WorkOrderStuckInDraft(x)
  <2>1. x.status = "DRAFT" /\ i \in Maintenance!Waiting("WORK_ORDER_STUCK_IN_DRAFT", 0, x.created, 3 * 24, 7 * 24)
    BY <1>4 DEF Maintenance!WorkOrderStuckInDraft
  <2>2. AsSevere(i, Maintenance!Waiting("WORK_ORDER_STUCK_IN_DRAFT", 0, x.created, 3 * 24, 7 * 24)')
    BY <1>1, <2>1, WaitingStays
  <2>3. AsSevere(i, Maintenance!WorkOrderStuckInDraft(x)')
    BY <2>1, <2>2 DEF Maintenance!WorkOrderStuckInDraft
  <2> QED
    BY <1>3, <2>3 DEF AsSevere
<1>5. CASE i \in Maintenance!WorkOrderOverdueSchedule(x)
  <2>1. /\ x.status = "SCHEDULED" /\ x.scheduled < now /\ x.scheduled < now' /\ i.subject = 0
        /\ i.severity = IF now - x.scheduled >= 48 THEN "CRITICAL" ELSE "WARNING"
    BY <1>1, <1>5 DEF Maintenance!WorkOrderOverdueSchedule, Maintenance!Item
  <2>2. PICK s : s = IF now' - x.scheduled >= 48 THEN "CRITICAL" ELSE "WARNING"
    OBVIOUS
  <2>3. PICK j : j = Maintenance!Item("WORK_ORDER_OVERDUE_SCHEDULE", s, 0, x.scheduled)
    OBVIOUS
  <2>4. j \in Maintenance!WorkOrderOverdueSchedule(x)' /\ j.subject = 0 /\ j.severity = s
    BY <2>1, <2>2, <2>3 DEF Maintenance!WorkOrderOverdueSchedule, Maintenance!Item
  <2>5. Grade(j.severity) <= Grade(i.severity)
    BY <1>1, <2>1, <2>2, <2>4, GradesAre
  <2> QED
    BY <1>3, <2>1, <2>4, <2>5 DEF AsSevere
<1>6. CASE i \in Maintenance!WorkOrderContractorNoLongerEligible(x)
  <2>1. /\ x.status \in {"SCHEDULED", "IN_PROGRESS"} /\ x.contractor /\ now' \in x.ineligible
        /\ i.subject = 0 /\ i.severity = "CRITICAL"
    BY <1>1, <1>6 DEF Maintenance!WorkOrderContractorNoLongerEligible, Maintenance!Item
  <2>2. PICK j : j = Maintenance!Item("WORK_ORDER_CONTRACTOR_NO_LONGER_ELIGIBLE", "CRITICAL", 0, now')
    OBVIOUS
  <2>3. j \in Maintenance!WorkOrderContractorNoLongerEligible(x)' /\ j.subject = 0 /\ j.severity = "CRITICAL"
    BY <2>1, <2>2 DEF Maintenance!WorkOrderContractorNoLongerEligible, Maintenance!Item
  <2> QED
    BY <1>3, <2>1, <2>3, GradesAre DEF AsSevere
<1> QED
  BY <1>2, <1>4, <1>5, <1>6

LEMMA QuotesStay ==
  ASSUME now \in Nat, now' \in Nat, now <= now', NEW x, WatchedWell(x), x.kind = "QUOTE",
         NEW i \in Maintenance!OfWatched(x), i.type # "QUOTE_REJECTED_NEEDS_FOLLOWUP"
  PROVE  AsSevere(i, Maintenance!OfWatched(x)')
<1>1. x.since \in Int
  BY DEF WatchedWell
<1>2. Maintenance!OfWatched(x) =
        Maintenance!QuotePendingApprovalTooLong(x) \cup Maintenance!QuoteSignatureStalled(x)
          \cup Maintenance!QuoteRejectedNeedsFollowup(x)
  BY DEF Maintenance!OfWatched
<1>3. Maintenance!OfWatched(x)' =
        Maintenance!QuotePendingApprovalTooLong(x)' \cup Maintenance!QuoteSignatureStalled(x)'
          \cup Maintenance!QuoteRejectedNeedsFollowup(x)'
  BY DEF Maintenance!OfWatched
<1>4. CASE i \in Maintenance!QuotePendingApprovalTooLong(x)
  <2>1. /\ x.approval = "PENDING" /\ x.mode \in {"APPROVAL_ONLY", "APPROVAL_THEN_SIGNATURE"}
        /\ i \in Maintenance!Waiting("QUOTE_PENDING_APPROVAL_TOO_LONG", 0, x.since, 3 * 24, 7 * 24)
    BY <1>4 DEF Maintenance!QuotePendingApprovalTooLong
  <2>2. AsSevere(i, Maintenance!Waiting("QUOTE_PENDING_APPROVAL_TOO_LONG", 0, x.since, 3 * 24, 7 * 24)')
    BY <1>1, <2>1, WaitingStays
  <2>3. AsSevere(i, Maintenance!QuotePendingApprovalTooLong(x)')
    BY <2>1, <2>2 DEF Maintenance!QuotePendingApprovalTooLong
  <2> QED
    BY <1>3, <2>3 DEF AsSevere
<1>5. CASE i \in Maintenance!QuoteSignatureStalled(x)
  <2>1. x.mode = "SIGNATURE_ONLY" \/ (x.mode = "APPROVAL_THEN_SIGNATURE" /\ x.approval = "APPROVED")
    BY <1>5 DEF Maintenance!QuoteSignatureStalled
  <2>2. \/ x.signature = "PENDING" /\ i \in Maintenance!Waiting("QUOTE_SIGNATURE_STALLED", 0, x.since, 3 * 24, 7 * 24)
        \/ x.signature = "PARTIALLY_SIGNED" /\ i \in Maintenance!Waiting("QUOTE_SIGNATURE_STALLED", 0, x.since, 24, 5 * 24)
    BY <1>5, <2>1 DEF Maintenance!QuoteSignatureStalled
  <2>3. CASE x.signature = "PENDING"
    <3>1. AsSevere(i, Maintenance!Waiting("QUOTE_SIGNATURE_STALLED", 0, x.since, 3 * 24, 7 * 24)')
      BY <1>1, <2>2, <2>3, WaitingStays
    <3>2. Maintenance!QuoteSignatureStalled(x)' = Maintenance!Waiting("QUOTE_SIGNATURE_STALLED", 0, x.since, 3 * 24, 7 * 24)'
      BY <2>1, <2>3 DEF Maintenance!QuoteSignatureStalled
    <3> QED
      BY <1>3, <3>1, <3>2 DEF AsSevere
  <2>4. CASE x.signature = "PARTIALLY_SIGNED"
    <3>1. AsSevere(i, Maintenance!Waiting("QUOTE_SIGNATURE_STALLED", 0, x.since, 24, 5 * 24)')
      BY <1>1, <2>2, <2>4, WaitingStays
    <3>2. Maintenance!QuoteSignatureStalled(x)' = Maintenance!Waiting("QUOTE_SIGNATURE_STALLED", 0, x.since, 24, 5 * 24)'
      BY <2>1, <2>4 DEF Maintenance!QuoteSignatureStalled
    <3> QED
      BY <1>3, <3>1, <3>2 DEF AsSevere
  <2> QED
    BY <2>2, <2>3, <2>4
<1>6. i \notin Maintenance!QuoteRejectedNeedsFollowup(x)
  BY DEF Maintenance!QuoteRejectedNeedsFollowup, Maintenance!Item
<1> QED
  BY <1>2, <1>4, <1>5, <1>6

LEMMA CredentialsStay ==
  ASSUME now \in Nat, now' \in Nat, now <= now', NEW x, WatchedWell(x), x.kind = "CREDENTIAL",
         NEW i \in Maintenance!OfWatched(x)
  PROVE  AsSevere(i, Maintenance!OfWatched(x)')
<1>1. x.created \in Int /\ x.expires \in Int /\ ExpiryDays \in Nat
  BY MaintenanceAssumption DEF WatchedWell
<1>2. Maintenance!OfWatched(x) =
        Maintenance!ContractorCredentialsExpired(x) \cup Maintenance!ContractorCredentialsExpiringSoon(x)
          \cup Maintenance!ContractorCredentialsPendingVerification(x)
  BY DEF Maintenance!OfWatched
<1>3. Maintenance!OfWatched(x)' =
        Maintenance!ContractorCredentialsExpired(x)' \cup Maintenance!ContractorCredentialsExpiringSoon(x)'
          \cup Maintenance!ContractorCredentialsPendingVerification(x)'
  BY DEF Maintenance!OfWatched
<1>4. ASSUME x.status = "VERIFIED", x.expires < now', i.subject = 0, i.severity \in SeverityNames
      PROVE  AsSevere(i, Maintenance!OfWatched(x)')
  <2>1. PICK j : j = Maintenance!Item("CONTRACTOR_CREDENTIAL_EXPIRED", "CRITICAL", 0, x.expires)
    OBVIOUS
  <2>2. j \in Maintenance!ContractorCredentialsExpired(x)' /\ j.subject = 0 /\ j.severity = "CRITICAL"
    BY <1>4, <2>1 DEF Maintenance!ContractorCredentialsExpired, Maintenance!Item
  <2>3. Grade(j.severity) <= Grade(i.severity)
    BY <1>4, <2>2, GradesAre DEF SeverityNames
  <2> QED
    BY <1>3, <1>4, <2>2, <2>3 DEF AsSevere
<1>5. CASE i \in Maintenance!ContractorCredentialsExpired(x)
  <2>1. x.status = "VERIFIED" /\ x.expires < now /\ i.subject = 0 /\ i.severity = "CRITICAL"
    BY <1>5 DEF Maintenance!ContractorCredentialsExpired, Maintenance!Item
  <2>2. x.expires < now' /\ i.severity \in SeverityNames
    BY <1>1, <2>1 DEF SeverityNames
  <2> QED
    BY <1>4, <2>1, <2>2
<1>6. CASE i \in Maintenance!ContractorCredentialsExpiringSoon(x)
  <2>1. /\ x.status = "VERIFIED" /\ now <= x.expires /\ x.expires <= now + ExpiryDays * 24 /\ i.subject = 0
        /\ i.severity = IF Maintenance!DaysLeft(x.expires - now) <= 7 THEN "WARNING" ELSE "INFO"
    BY <1>6 DEF Maintenance!ContractorCredentialsExpiringSoon, Maintenance!Item
  <2>2. CASE x.expires < now'
    <3>1. i.severity \in SeverityNames
      BY <2>1 DEF SeverityNames
    <3> QED
      BY <1>4, <2>1, <2>2, <3>1
  <2>3. CASE ~(x.expires < now')
    <3>1. now' <= x.expires /\ x.expires <= now' + ExpiryDays * 24
      BY <1>1, <2>1, <2>3
    <3>2. PICK s : s = IF Maintenance!DaysLeft(x.expires - now') <= 7 THEN "WARNING" ELSE "INFO"
      OBVIOUS
    <3>3. PICK j : j = Maintenance!Item("CONTRACTOR_CREDENTIAL_EXPIRING_SOON", s, 0, now')
      OBVIOUS
    <3>4. j \in Maintenance!ContractorCredentialsExpiringSoon(x)' /\ j.subject = 0 /\ j.severity = s
      BY <2>1, <3>1, <3>2, <3>3 DEF Maintenance!ContractorCredentialsExpiringSoon, Maintenance!Item, Maintenance!DaysLeft
    <3>5. Maintenance!DaysLeft(x.expires - now') <= Maintenance!DaysLeft(x.expires - now)
          /\ Maintenance!DaysLeft(x.expires - now') \in Int /\ Maintenance!DaysLeft(x.expires - now) \in Int
      <4>1. \A p, q \in Int : p <= q => Maintenance!DaysLeft(p) <= Maintenance!DaysLeft(q) /\ Maintenance!DaysLeft(p) \in Int /\ Maintenance!DaysLeft(q) \in Int
        BY DEF Maintenance!DaysLeft
      <4>2. x.expires - now' \in Int /\ x.expires - now \in Int /\ x.expires - now' <= x.expires - now
        BY <1>1
      <4> QED
        BY <4>1, <4>2
    <3>6. Grade(j.severity) <= Grade(i.severity)
      BY <2>1, <3>2, <3>4, <3>5, GradesAre
    <3> QED
      BY <1>3, <2>1, <3>4, <3>6 DEF AsSevere
  <2> QED
    BY <2>2, <2>3
<1>7. CASE i \in Maintenance!ContractorCredentialsPendingVerification(x)
  <2>1. PICK never \in Int : never = Maintenance!Never
    BY DEF Maintenance!Never
  <2>2. x.status = "PENDING" /\ i \in Maintenance!Waiting("CONTRACTOR_CREDENTIAL_PENDING_VERIFICATION", 0, x.created, 48, never)
    BY <1>7, <2>1 DEF Maintenance!ContractorCredentialsPendingVerification
  <2>3. AsSevere(i, Maintenance!Waiting("CONTRACTOR_CREDENTIAL_PENDING_VERIFICATION", 0, x.created, 48, never)')
    BY <1>1, <2>2, WaitingStays
  <2>4. AsSevere(i, Maintenance!ContractorCredentialsPendingVerification(x)')
    BY <2>1, <2>2, <2>3 DEF Maintenance!ContractorCredentialsPendingVerification, Maintenance!Never
  <2> QED
    BY <1>3, <2>4 DEF AsSevere
<1> QED
  BY <1>2, <1>5, <1>6, <1>7

\* A request that waits goes on waiting.
LEMMA RequestsStay ==
  ASSUME now \in Nat, now' \in Nat, now <= now', UNCHANGED requests, \A r \in DOMAIN requests : requests[r].reported \in Int,
         NEW type, NEW warn \in Int, NEW critical \in Int, NEW D, D \in SUBSET DOMAIN requests,
         NEW U, WaitingOf(U, D, type, warn, critical), NEW V, WaitingOf(V, D, type, warn, critical)',
         NEW i \in U
  PROVE  AsSevere(i, V)
<1>1. PICK r \in D : i \in Maintenance!Waiting(type, r, requests[r].reported, warn, critical)
  BY DEF WaitingOf
<1>2. PICK since \in Int : since = requests[r].reported
  OBVIOUS
<1>3. i \in Maintenance!Waiting(type, r, since, warn, critical)
  BY <1>1, <1>2
<1>4. AsSevere(i, Maintenance!Waiting(type, r, since, warn, critical)')
  BY <1>3, WaitingStays
<1>5. \A j : j \in Maintenance!Waiting(type, r, since, warn, critical)' => j \in V
  <2>1. \A j : j \in Maintenance!Waiting(type, r, requests[r].reported, warn, critical)' => j \in V
    BY DEF WaitingOf
  <2>2. since = requests'[r].reported
    BY <1>2
  <2> QED
    BY <2>1, <2>2 DEF Maintenance!Waiting
<1> QED
  BY <1>4, <1>5 DEF AsSevere

\* The clock goes on: nothing that is listed and lasts goes.
TimePasses == MaintenanceInv /\ MaintenanceInv' /\ now <= now' /\ UNCHANGED <<requests, watched>>

LEMMA StillListed ==
  ASSUME TimePasses, NEW i \in Maintenance!Items, Maintenance!Lasts(i)
  PROVE  AsSevere(i, Maintenance!Items')
<1>1. /\ now \in Nat /\ now' \in Nat /\ now <= now' /\ requests' = requests /\ watched' = watched
      /\ \A r \in DOMAIN requests : requests[r].reported \in Int
  <2>1. \A r \in DOMAIN requests : requests[r] \in RequestRows
    BY DEF TimePasses, MaintenanceInv
  <2> QED
    BY <2>1 DEF TimePasses, MaintenanceInv, RequestRows
<1>2. Maintenance!Items' =
        Maintenance!UrgentRequestsOpen' \cup Maintenance!StaleOpenRequests' \cup Maintenance!OfWatched(watched)'
  BY DEF Maintenance!Items
<1>3. CASE i \in Maintenance!UrgentRequestsOpen
  <2>1. PICK U, V, D : U = Maintenance!UrgentRequestsOpen /\ V = Maintenance!UrgentRequestsOpen' /\ D = UrgentRows
    OBVIOUS
  <2>2. PICK type, warn, critical : type = "URGENT_REQUEST_OPEN" /\ <<warn, critical>> = <<4, 24>>
    OBVIOUS
  <2>3. warn \in Int /\ critical \in Int /\ D \in SUBSET DOMAIN requests
    BY <2>1, <2>2 DEF UrgentRows
  <2>4. WaitingOf(U, D, type, warn, critical)
    BY <2>1, <2>2, RequestsWaiting
  <2>5. D = UrgentRows'
    BY <1>1, <2>1 DEF UrgentRows
  <2>6. WaitingOf(V, D, type, warn, critical)'
    <3>1. WaitingOf(Maintenance!UrgentRequestsOpen, UrgentRows, "URGENT_REQUEST_OPEN", 4, 24)'
      BY RequestsWaiting, PTL
    <3> QED
      BY <2>1, <2>2, <2>5, <3>1 DEF WaitingOf
  <2>7. i \in U /\ UNCHANGED requests
    BY <1>1, <1>3, <2>1
  <2>8. AsSevere(i, V)
    BY <1>1, <2>3, <2>4, <2>6, <2>7, RequestsStay
  <2> QED
    BY <1>2, <2>1, <2>8 DEF AsSevere
<1>4. CASE i \in Maintenance!StaleOpenRequests
  <2>1. PICK U, V, D : U = Maintenance!StaleOpenRequests /\ V = Maintenance!StaleOpenRequests' /\ D = StaleRows
    OBVIOUS
  <2>2. PICK type, warn, critical : type = "STALE_OPEN_REQUEST" /\ <<warn, critical>> = <<7 * 24, Maintenance!Never>>
    OBVIOUS
  <2>3. warn \in Int /\ critical \in Int /\ D \in SUBSET DOMAIN requests
    BY <2>1, <2>2 DEF StaleRows, Maintenance!Never
  <2>4. WaitingOf(U, D, type, warn, critical)
    BY <2>1, <2>2, RequestsWaiting
  <2>5. D = StaleRows'
    BY <1>1, <2>1 DEF StaleRows
  <2>6. WaitingOf(V, D, type, warn, critical)'
    <3>1. WaitingOf(Maintenance!StaleOpenRequests, StaleRows, "STALE_OPEN_REQUEST", 7 * 24, Maintenance!Never)'
      BY RequestsWaiting, PTL
    <3> QED
      BY <2>1, <2>2, <2>5, <3>1 DEF WaitingOf, Maintenance!Never
  <2>7. i \in U /\ UNCHANGED requests
    BY <1>1, <1>4, <2>1
  <2>8. AsSevere(i, V)
    BY <1>1, <2>3, <2>4, <2>6, <2>7, RequestsStay
  <2> QED
    BY <1>2, <2>1, <2>8 DEF AsSevere
<1>5. CASE i \in Maintenance!OfWatched(watched)
  <2>1. PICK x : x = watched
    OBVIOUS
  <2>2. WatchedWell(x) /\ x = watched' /\ i \in Maintenance!OfWatched(x)
    BY <1>1, <1>5, <2>1, MaintenanceAssumption DEF TimePasses, MaintenanceInv, WatchedWell
  <2>3. AsSevere(i, Maintenance!OfWatched(x)')
    <3>1. CASE x.kind = "ORDER"
      <4>1. i.type = "WORK_ORDER_CONTRACTOR_NO_LONGER_ELIGIBLE" => now' \in x.ineligible
        BY <2>1 DEF Maintenance!Lasts
      <4> QED
        BY <1>1, <2>2, <3>1, <4>1, OrdersStay
    <3>2. CASE x.kind = "QUOTE"
      BY <1>1, <2>2, <3>2, QuotesStay DEF Maintenance!Lasts
    <3>3. CASE x.kind = "CREDENTIAL"
      BY <1>1, <2>2, <3>3, CredentialsStay
    <3> QED
      BY <2>2, <3>1, <3>2, <3>3 DEF WatchedWell
  <2> QED
    BY <1>2, <2>2, <2>3 DEF AsSevere
<1> QED
  BY <1>3, <1>4, <1>5 DEF Maintenance!Items

-----------------------------------------------------------------------------
\* What the list puts before what.
Precedence == {p \in ItemRows \X ItemRows : Maintenance!Before(p[1], p[2])}

LEMMA PrecedenceIs ==
  /\ \A i, j \in ItemRows : <<i, j>> \in Precedence <=> Maintenance!Before(i, j)
  /\ \A i, j \in ItemRows : ~Maintenance!Before(j, i) => Grade(i.severity) <= Grade(j.severity)
  /\ StrictOrder(Precedence, ItemRows)
<1>1. ASSUME NEW i \in ItemRows
      PROVE  /\ Grade(i.severity) \in Int /\ Maintenance!Rank(Maintenance!Types, i.type) \in Int /\ i.occurred \in Int
  <2>1. i.severity \in SeverityNames /\ i.type \in TypeNames /\ i.occurred \in Int
    BY DEF ItemRows
  <2> QED
    BY <2>1, GradesAre DEF SeverityNames
<1> DEFINE G(i) == Grade(i.severity)
           T(i) == Maintenance!Rank(Maintenance!Types, i.type)
<1>2. \A i, j : Maintenance!Before(i, j) <=>
        \/ G(i) - G(j) < 0
        \/ G(i) - G(j) = 0 /\ T(i) - T(j) < 0
        \/ G(i) - G(j) = 0 /\ T(i) - T(j) = 0 /\ i.occurred < j.occurred
  BY DEF Maintenance!Before, Grade
<1>3. \A i \in ItemRows : G(i) \in Int /\ T(i) \in Int /\ i.occurred \in Int
  BY <1>1
<1>4. \A i, j \in ItemRows : <<i, j>> \in Precedence <=> Maintenance!Before(i, j)
  BY DEF Precedence
<1>5. \A i, j \in ItemRows : ~Maintenance!Before(j, i) => Grade(i.severity) <= Grade(j.severity)
  <2> SUFFICES ASSUME NEW i \in ItemRows, NEW j \in ItemRows, ~Maintenance!Before(j, i)
               PROVE  G(i) <= G(j)
    OBVIOUS
  <2> HIDE DEF G, T
  <2> QED
    BY <1>2, <1>3
<1> HIDE DEF G, T
<1>6. \A i \in ItemRows : <<i, i>> \notin Precedence
  BY <1>2, <1>3, <1>4
<1>7. ASSUME NEW i \in ItemRows, NEW j \in ItemRows, NEW k \in ItemRows, <<i, j>> \in Precedence, <<j, k>> \in Precedence
      PROVE  <<i, k>> \in Precedence
  <2>1. Maintenance!Before(i, j) /\ Maintenance!Before(j, k)
    BY <1>4, <1>7
  <2>2. Maintenance!Before(i, k)
    BY <1>2, <1>3, <2>1
  <2> QED
    BY <1>4, <2>2
<1> QED
  BY <1>4, <1>5, <1>6, <1>7 DEF StrictOrder

\* The list is sorted, so it starts with an item than which none is more
\* severe, unless there is none.
LEMMA TopOfList ==
  MaintenanceInv =>
    /\ Maintenance!AttentionItems # <<>> <=> Maintenance!Items # {}
    /\ Maintenance!Items # {} =>
         /\ Maintenance!AttentionItems[1] \in Maintenance!Items
         /\ \A i \in Maintenance!Items : Grade(Maintenance!AttentionItems[1].severity) <= Grade(i.severity)
<1> SUFFICES ASSUME MaintenanceInv
             PROVE  /\ Maintenance!AttentionItems # <<>> <=> Maintenance!Items # {}
                    /\ Maintenance!Items # {} =>
                         /\ Maintenance!AttentionItems[1] \in Maintenance!Items
                         /\ \A i \in Maintenance!Items : Grade(Maintenance!AttentionItems[1].severity) <= Grade(i.severity)
  OBVIOUS
<1>1. PICK S : S = Maintenance!Items
  OBVIOUS
<1>2. S \in SUBSET ItemRows /\ IsFiniteSet(S)
  BY <1>1, ItemsAre
<1>3. PICK n \in Nat : n = Cardinality(S)
  BY <1>2, FS_CardinalityType
<1> DEFINE Sorted(list) == \A j, k \in DOMAIN list : j < k => ~Maintenance!Before(list[k], list[j])
           all == CHOOSE list \in Maintenance!SetToSeqs(S) : Sorted(list)
<1>4. Maintenance!SetToSeqs(S) = {f \in [1..n -> S] : \A j, k \in 1..n : j # k => f[j] # f[k]}
  <2>1. Maintenance!Cardinality(S) = Cardinality(S)
    BY DEF Maintenance!Cardinality, Cardinality
  <2> QED
    BY <1>3, <2>1 DEF Maintenance!SetToSeqs
<1>5. \E list \in Maintenance!SetToSeqs(S) : Sorted(list)
  <2>1. PICK list : SortedBy(list, Precedence, S)
    <3>1. StrictOrder(Precedence, S)
      BY <1>2, PrecedenceIs DEF StrictOrder
    <3> QED
      BY <1>2, <3>1, SortedExists
  <2>2. list \in [1..n -> S] /\ (\A j, k \in 1..n : j # k => list[j] # list[k])
        /\ \A j, k \in 1..n : j < k => <<list[k], list[j]>> \notin Precedence
    BY <1>3, <2>1 DEF SortedBy
  <2>3. Sorted(list)
    BY <1>2, <2>2, PrecedenceIs
  <2> QED
    BY <1>4, <2>2, <2>3
<1>6. all \in Maintenance!SetToSeqs(S) /\ Sorted(all)
  BY <1>5
<1>7. all \in [1..n -> S] /\ all \in Seq(S) /\ Len(all) = n
  <2>1. all \in [1..n -> S]
    BY <1>4, <1>6
  <2> HIDE DEF all
  <2> QED
    BY <2>1
<1>8. PICK m \in Nat : m = Maintenance!Min({n, HardCap}) /\ (m = 0 <=> n = 0) /\ m <= n
  <2>1. HardCap \in Nat /\ HardCap >= 1
    BY MaintenanceAssumption
  <2>2. PICK x \in {n, HardCap} : \A y \in {n, HardCap} : x <= y
    BY <2>1
  <2>3. Maintenance!Min({n, HardCap}) \in {n, HardCap} /\ \A y \in {n, HardCap} : Maintenance!Min({n, HardCap}) <= y
    BY <2>2 DEF Maintenance!Min
  <2> QED
    BY <2>1, <2>3
<1>9. Maintenance!AttentionItems = SubSeq(all, 1, m)
  <2>1. Maintenance!AttentionItems = SubSeq(all, 1, Maintenance!Min({Len(all), HardCap}))
    BY <1>1 DEF Maintenance!AttentionItems
  <2> HIDE DEF all
  <2> QED
    BY <1>7, <1>8, <2>1
<1> HIDE DEF all
<1>10. n = 0 <=> S = {}
  BY <1>2, <1>3, FS_EmptySet
<1>11. CASE n = 0
  BY <1>1, <1>7, <1>8, <1>9, <1>10, <1>11
<1>12. CASE n # 0
  <2>1. SubSeq(all, 1, m) # <<>> /\ SubSeq(all, 1, m)[1] = all[1]
    BY <1>7, <1>8, <1>12
  <2>2. PICK top \in S : top = all[1]
    BY <1>7, <1>12
  <2>3. ASSUME NEW i \in S PROVE Grade(top.severity) <= Grade(i.severity)
    <3>1. PICK k \in 1..n : all[k] = i
      <4>1. all \in Injection(1..n, S)
        BY <1>4, <1>6, <1>7 DEF Injection, IsInjective
      <4>2. IsFiniteSet(1..n) /\ Cardinality(1..n) = Cardinality(S)
        BY <1>3, FS_Interval
      <4>3. all \in Surjection(1..n, S)
        BY <1>2, <4>1, <4>2, FS_Injection
      <4> QED
        BY <4>3 DEF Surjection
    <3>2. CASE k = 1
      <4>1. i = top /\ i \in ItemRows
        BY <1>2, <2>2, <3>1, <3>2
      <4>2. ~Maintenance!Before(i, i)
        BY <4>1, PrecedenceIs DEF StrictOrder
      <4> QED
        BY <4>1, <4>2, PrecedenceIs
    <3>3. CASE k # 1
      <4>1. ~Maintenance!Before(i, top)
        BY <1>6, <1>7, <2>2, <3>1, <3>3
      <4>2. i \in ItemRows /\ top \in ItemRows
        BY <1>2
      <4> QED
        BY <4>1, <4>2, PrecedenceIs
    <3> QED
      BY <3>2, <3>3
  <2> QED
    BY <1>1, <1>9, <1>10, <1>12, <2>1, <2>2, <2>3
<1> QED
  BY <1>11, <1>12

LEMMA NothingFalls ==
  ASSUME TimePasses
  PROVE  /\ \A i \in Maintenance!Items : Maintenance!Lasts(i) => AsSevere(i, Maintenance!Items')
         /\ Maintenance!AttentionItems # <<>> /\ Maintenance!Lasts(Maintenance!AttentionItems[1]) =>
              /\ Maintenance!AttentionItems' # <<>>
              /\ Grade(Maintenance!AttentionItems'[1].severity) <= Grade(Maintenance!AttentionItems[1].severity)
<1>1. \A i \in Maintenance!Items : Maintenance!Lasts(i) => AsSevere(i, Maintenance!Items')
  BY StillListed
<1>2. ASSUME Maintenance!AttentionItems # <<>>, Maintenance!Lasts(Maintenance!AttentionItems[1])
      PROVE  /\ Maintenance!AttentionItems' # <<>>
             /\ Grade(Maintenance!AttentionItems'[1].severity) <= Grade(Maintenance!AttentionItems[1].severity)
  <2>1. PICK top : top = Maintenance!AttentionItems[1]
    OBVIOUS
  <2>2. top \in Maintenance!Items /\ Maintenance!Items \in SUBSET ItemRows
    BY <1>2, <2>1, TopOfList, ItemsAre DEF TimePasses
  <2>3. PICK j \in Maintenance!Items' : Grade(j.severity) <= Grade(top.severity)
    BY <1>1, <1>2, <2>1, <2>2 DEF AsSevere
  <2>4. /\ Maintenance!AttentionItems' # <<>> /\ Maintenance!AttentionItems'[1] \in Maintenance!Items'
        /\ Grade(Maintenance!AttentionItems'[1].severity) <= Grade(j.severity)
    <3>1. /\ (Maintenance!AttentionItems # <<>> <=> Maintenance!Items # {})'
          /\ (Maintenance!Items # {} =>
               /\ Maintenance!AttentionItems[1] \in Maintenance!Items
               /\ \A i \in Maintenance!Items : Grade(Maintenance!AttentionItems[1].severity) <= Grade(i.severity))'
      <4>1. MaintenanceInv'
        BY DEF TimePasses
      <4> QED
        BY <4>1, TopOfList, PTL
    <3> QED
      BY <3>1
  <2>5. PICK new : new = Maintenance!AttentionItems'[1]
    OBVIOUS
  <2>6. Maintenance!Items' \in SUBSET ItemRows
    <3>1. MaintenanceInv'
      BY DEF TimePasses
    <3>2. (Maintenance!Items \in SUBSET ItemRows /\ IsFiniteSet(Maintenance!Items))'
      BY <3>1, ItemsAre, PTL
    <3> QED
      BY <3>2
  <2>7. new \in ItemRows /\ j \in ItemRows /\ top \in ItemRows /\ Grade(new.severity) <= Grade(j.severity)
    BY <2>2, <2>4, <2>5, <2>6
  <2>8. \A i \in ItemRows : Grade(i.severity) \in Int
    BY GradesAre DEF ItemRows, SeverityNames
  <2>9. Grade(new.severity) <= Grade(top.severity)
    BY <2>3, <2>7, <2>8
  <2> QED
    BY <2>1, <2>4, <2>5, <2>9
<1> QED
  BY <1>1, <1>2

\* The passing of time alone takes nothing off the list of what needs
\* attention and makes neither an item nor its top less severe, but for the
\* nudge about a rejected quote and a contractor who is eligible again
\* (attention-engine).
THEOREM SeverityStays == Maintenance!Spec => SeverityNeverFalls
<1> DEFINE Stays ==
      now' # now =>
        /\ \A i \in Maintenance!Items : Maintenance!Lasts(i) =>
             \E j \in Maintenance!Items' :
               j.subject = i.subject
               /\ Maintenance!Rank(Maintenance!Severities, j.severity) <= Maintenance!Rank(Maintenance!Severities, i.severity)
        /\ Maintenance!AttentionItems # <<>> /\ Maintenance!Lasts(Maintenance!AttentionItems[1]) =>
             /\ Maintenance!AttentionItems' # <<>>
             /\ Maintenance!Rank(Maintenance!Severities, Maintenance!AttentionItems'[1].severity)
                  <= Maintenance!Rank(Maintenance!Severities, Maintenance!AttentionItems[1].severity)
<1>1. MaintenanceInv /\ [Maintenance!Next]_(Maintenance!vars) => MaintenanceInv'
  BY MaintenanceCreates, MaintenanceUpdates, MaintenanceReads, MaintenanceWrites, MaintenanceElse DEF Maintenance!Next
<1>2. ASSUME MaintenanceInv, MaintenanceInv', [Maintenance!Next]_(Maintenance!vars) PROVE Stays
  <2>1. CASE now' = now
    BY <2>1
  <2>2. CASE now' # now
    <3>1. Maintenance!Tick
      BY <1>2, <2>2 DEF Maintenance!Next, Maintenance!vars, Maintenance!Create, Maintenance!Update, Maintenance!ReadMove,
                        Maintenance!WriteMove, Maintenance!Abandon
    <3>2. TimePasses
      <4>1. now \in Nat /\ now' \in Nat
        BY <1>2 DEF MaintenanceInv
      <4>2. now < now' /\ UNCHANGED <<requests, watched>>
        BY <3>1 DEF Maintenance!Tick
      <4> QED
        BY <1>2, <4>1, <4>2 DEF TimePasses
    <3> QED
      BY <3>2, NothingFalls DEF AsSevere, Grade
  <2> QED
    BY <2>1, <2>2
<1>3. MaintenanceInv /\ MaintenanceInv' /\ [Maintenance!Next]_(Maintenance!vars) => [Stays]_(Maintenance!vars)
  BY <1>2
<1> QED
  BY <1>1, <1>3, MaintenanceStarts, PTL DEF Maintenance!Spec, SeverityNeverFalls, Maintenance!SeverityNeverFalls
=============================================================================
