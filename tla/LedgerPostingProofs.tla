------------------------ MODULE LedgerPostingProofs -------------------------
(***************************************************************************)
(* Proofs about LedgerPosting, for every set of clients, accounts, funds,  *)
(* dates and commands and every bound.  The inductive invariant adds two   *)
(* facts to the properties: only the holder of the property lock has a     *)
(* transaction open, and what that transaction validated still holds when  *)
(* it commits.  The second part is about FinancialReports: every posted    *)
(* journal balances, as a whole and within each fund, so the books do, for *)
(* every day and set of funds, by induction over the sets that are summed. *)
(* The third part is about the bank account the ledger is reconciled       *)
(* with, for any requests at once: the receipts made of its deposits, its  *)
(* matches and its reconciliations.  The fourth part is about the chart of *)
(* accounts, for any requests at once.                                     *)
(***************************************************************************)
EXTENDS FinancialReports, MCBanking, CollectionTheorems

\* Only the lock's holder has a transaction open.
LockExclusive == \A p \in Clients : tx[p] # Idle => lock = p

\* A validated journal may still be posted: its source key is unused, its
\* period open, and it is either a well-formed command or the first reversal
\* of a posted journal.
InsertStillValid(js, ps, j) ==
  /\ PostedFor(js, j.type, j.source) = {}
  /\ j.period \in OpenFor(ps, j.date)
  /\ \/ /\ \E c \in Commands :
             /\ j.type = c.type /\ j.source = c.source
             /\ j.lines = c.lines /\ j.date = c.date
        /\ WellFormed(j.lines, FALSE)
        /\ j.reversalOf = NotAReversal /\ j.reason = NoReason
     \/ /\ j.type = "REVERSAL" /\ j.source \in DOMAIN js
        /\ j.reversalOf = j.source /\ ReversalsOf(js, j.source) = {}
        /\ j.lines = Swapped(js[j.source].lines)
        /\ j.date \in Dates /\ j.reason \in Reasons

StillValid(js, ps, w) ==
  /\ w.kind = "INSERT" /\ InsertStillValid(js, ps, w.journal)
  \/ /\ w.kind = "PERIOD"
     /\ w.period.start < w.period.end /\ w.period.status = "OPEN"
     /\ \A i \in DOMAIN ps : ~Overlap(w.period, ps[i])
  \/ /\ w.kind = "STATUS"
     /\ w.at \in DOMAIN ps /\ ps[w.at].status # w.status

StagedStillValid ==
  \A p \in Clients : tx[p].phase = "STAGED" => StillValid(journals, periods, tx[p].write)

Inductive == TypeOK /\ LockExclusive /\ StagedStillValid
             /\ ExactlyOncePerSource /\ ReversalsMirror /\ PeriodsDisjoint

-----------------------------------------------------------------------------
(***************************************************************************)
(* Data.                                                                   *)
(***************************************************************************)

\* Swapping the sides of a journal's lines gives lines again.
LEMMA SwappedType ==
  ASSUME NEW lines \in Seq(Line)
  PROVE  Swapped(lines) \in Seq(Line)
<1> DEFINE n == Len(lines)
<1>1. lines \in [1 .. n -> Line] /\ n \in Nat /\ DOMAIN lines = 1 .. n
  OBVIOUS
<1>2. ASSUME NEW i \in 1 .. n
      PROVE  [lines[i] EXCEPT !.amount = -@] \in Line
  <2>1. lines[i] \in Line
    BY <1>1
  <2>2. lines[i].amount \in Int \ {0}
    BY <2>1 DEF Line
  <2>3. -lines[i].amount \in Int \ {0}
    BY <2>2
  <2> QED
    BY <2>1, <2>3 DEF Line
<1>3. Swapped(lines) \in [1 .. n -> Line]
  BY <1>1, <1>2 DEF Swapped
<1> QED
  BY <1>1, <1>3

\* The covering open period a posting picks is one of them.
LEMMA OpenPeriodPicked ==
  ASSUME NEW date, OpenFor(periods, date) # {}, periods \in Seq(Period)
  PROVE  /\ (CHOOSE i \in OpenFor(periods, date) : TRUE) \in OpenFor(periods, date)
         /\ (CHOOSE i \in OpenFor(periods, date) : TRUE) \in Nat \ {0}
         /\ (CHOOSE i \in OpenFor(periods, date) : TRUE) \in DOMAIN periods
BY DEF OpenFor, Covering

\* Command types are not REVERSAL.
LEMMA CommandType ==
  ASSUME NEW c \in Commands
  PROVE  /\ c.type \in ProducerTypes /\ c.type # "REVERSAL"
         /\ c.source \in Nat /\ c.lines \in Seq(Line) /\ c.date \in Dates
BY CommandsAssumption, SourceIdsAssumption DEF ProducerTypes, SubledgerTypes

\* A transaction that has something to write is a known request.
LEMMA OpenTransaction ==
  ASSUME TypeOK, NEW p \in Clients
  PROVE  /\ tx[p].phase = "LOCKED" => tx[p] # Idle /\ tx[p].req \in Requests
         /\ tx[p].phase = "STAGED" =>
              tx[p] # Idle /\ tx[p].req \in Requests /\ tx[p].write \in Writes
BY DEF TypeOK, Transactions, Idle

\* What a transaction stages has its type.
LEMMA StageType ==
  ASSUME TypeOK, NEW p \in Clients, tx[p].phase = "LOCKED",
         NEW w \in Writes, Stage(p, w)
  PROVE  TypeOK'
<1>1. [phase |-> "STAGED", req |-> tx[p].req, write |-> w] \in Transactions
  BY OpenTransaction DEF Transactions
<1> QED
  BY <1>1 DEF TypeOK, Stage

LEMMA FinishType ==
  ASSUME TypeOK, NEW p \in Clients, Finish(p)
  PROVE  TypeOK'
BY DEF TypeOK, Finish, Transactions

\* The journal row a transaction builds has its type.
LEMMA EntryType ==
  ASSUME TypeOK, NEW type \in ProducerTypes \cup {"REVERSAL"}, NEW source \in Nat,
         NEW lines \in Seq(Line), NEW date \in Dates, NEW of \in Nat,
         NEW why \in Reasons \cup {NoReason}, OpenFor(periods, date) # {}
  PROVE  /\ Entry(type, source, lines, date, of, why) \in Journal
         /\ Entry(type, source, lines, date, of, why).period \in OpenFor(periods, date)
<1>1. periods \in Seq(Period)
  BY DEF TypeOK
<1> QED
  BY <1>1, OpenPeriodPicked DEF Entry, Journal

\* What validation establishes: a staged write is typed and valid.
LEMMA PostStages ==
  ASSUME TypeOK, NEW p \in Clients, PostJournal(p)
  PROVE  Finish(p) \/ \E w \in Writes : Stage(p, w) /\ StillValid(journals, periods, w)
<1> DEFINE c == tx[p].req.command
           j == Entry(c.type, c.source, c.lines, c.date, NotAReversal, NoReason)
           w == [kind |-> "INSERT", journal |-> j]
<1>1. CASE PostedFor(journals, c.type, c.source) = {} /\ Postable(c.lines, FALSE, c.date)
  <2>1. c \in Commands
    BY OpenTransaction DEF PostJournal, Holds, Requests
  <2>2. j \in Journal /\ j.period \in OpenFor(periods, c.date)
    BY <1>1, <2>1, CommandType, EntryType DEF Postable, NotAReversal
  <2>3. Stage(p, w)
    BY <1>1 DEF PostJournal
  <2>4. w \in Writes
    BY <2>2 DEF Writes
  <2>5. /\ j.type = c.type /\ j.source = c.source /\ j.lines = c.lines /\ j.date = c.date
        /\ j.reversalOf = NotAReversal /\ j.reason = NoReason
    BY DEF Entry
  <2>6. InsertStillValid(journals, periods, j)
    BY <1>1, <2>1, <2>2, <2>5 DEF InsertStillValid, Postable
  <2> QED
    BY <2>3, <2>4, <2>6 DEF StillValid
<1>2. CASE ~(PostedFor(journals, c.type, c.source) = {} /\ Postable(c.lines, FALSE, c.date))
  BY <1>2 DEF PostJournal
<1> QED
  BY <1>1, <1>2

LEMMA ReverseStages ==
  ASSUME TypeOK, ReversalsMirror, NEW p \in Clients, ReverseJournal(p)
  PROVE  Finish(p) \/ \E w \in Writes : Stage(p, w) /\ StillValid(journals, periods, w)
<1> DEFINE r == tx[p].req
           k == r.journal
           lines == Swapped(journals[k].lines)
           posted == PostedFor(journals, "REVERSAL", k)
           j == Entry("REVERSAL", k, lines, r.date, k, r.reason)
           w == [kind |-> "INSERT", journal |-> j]
<1>1. r \in Requests /\ r.op = "REVERSE"
  BY OpenTransaction DEF ReverseJournal, Holds
<1>2. r.date \in Dates /\ r.reason \in Reasons /\ k \in Nat
  BY <1>1, BoundsAssumption DEF Requests
<1>3. CASE ~MayReverse(k, r.allowLevySourced)
  BY <1>3 DEF ReverseJournal
<1>4. CASE MayReverse(k, r.allowLevySourced)
  <2>1. k \in DOMAIN journals /\ ReversalsOf(journals, k) = {}
    BY <1>4 DEF MayReverse
  <2>2. posted = {}
    BY <2>1 DEF PostedFor, ReversalsOf, ReversalsMirror, MirrorAt
  <2>3. CASE Postable(lines, TRUE, r.date)
    <3>0. journals[k] \in Journal
      BY <2>1 DEF TypeOK
    <3>1. journals[k].lines \in Seq(Line)
      BY <3>0 DEF Journal
    <3>2. lines \in Seq(Line)
      BY <3>1, SwappedType
    <3>3. j \in Journal /\ j.period \in OpenFor(periods, r.date)
      BY <2>3, <3>2, <1>2, EntryType DEF Postable
    <3>4. Stage(p, w)
      BY <1>4, <2>2, <2>3 DEF ReverseJournal
    <3>5. w \in Writes
      BY <3>3 DEF Writes
    <3>6. /\ j.type = "REVERSAL" /\ j.source = k /\ j.lines = lines /\ j.date = r.date
          /\ j.reversalOf = k /\ j.reason = r.reason
      BY DEF Entry
    <3>7. InsertStillValid(journals, periods, j)
      BY <1>2, <2>1, <2>2, <3>3, <3>6 DEF InsertStillValid
    <3> QED
      BY <3>4, <3>5, <3>7 DEF StillValid
  <2>4. CASE ~Postable(lines, TRUE, r.date)
    BY <1>4, <2>2, <2>4 DEF ReverseJournal
  <2> QED
    BY <2>3, <2>4
<1> QED
  BY <1>3, <1>4

LEMMA CreatePeriodStages ==
  ASSUME TypeOK, NEW p \in Clients, CreatePeriod(p)
  PROVE  Finish(p) \/ \E w \in Writes : Stage(p, w) /\ StillValid(journals, periods, w)
<1> DEFINE new == [start |-> tx[p].req.start, end |-> tx[p].req.end, status |-> "OPEN"]
           w == [kind |-> "PERIOD", period |-> new]
           fits == new.start < new.end /\ \A i \in DOMAIN periods : ~Overlap(new, periods[i])
<1>1. tx[p].req \in Requests /\ tx[p].req.op = "OPEN_PERIOD"
  BY OpenTransaction DEF CreatePeriod, Holds
<1>2. new \in Period
  BY <1>1 DEF Requests, Period
<1>3. w \in Writes
  BY <1>2 DEF Writes
<1>4. CASE fits
  <2>1. Stage(p, w)
    BY <1>4 DEF CreatePeriod
  <2>2. StillValid(journals, periods, w)
    BY <1>4 DEF StillValid
  <2> QED
    BY <1>3, <2>1, <2>2
<1>5. CASE ~fits
  BY <1>5 DEF CreatePeriod
<1> QED
  BY <1>4, <1>5

LEMMA ChangePeriodStages ==
  ASSUME TypeOK, NEW p \in Clients, ClosePeriod(p) \/ ReopenPeriod(p)
  PROVE  Finish(p) \/ \E w \in Writes : Stage(p, w) /\ StillValid(journals, periods, w)
<1> DEFINE i == tx[p].req.period
           to == IF tx[p].req.op = "CLOSE" THEN "CLOSED" ELSE "OPEN"
           from == IF tx[p].req.op = "CLOSE" THEN "OPEN" ELSE "CLOSED"
           w == [kind |-> "STATUS", at |-> i, status |-> to]
<1>1. tx[p].req \in Requests /\ tx[p].req.op \in {"CLOSE", "REOPEN"}
  BY OpenTransaction DEF ClosePeriod, ReopenPeriod, ChangePeriod, Holds
<1>2. i \in Nat
  BY <1>1, BoundsAssumption DEF Requests
<1>3. w \in Writes
  BY <1>2 DEF Writes
<1>4. IF i \in DOMAIN periods /\ periods[i].status = from THEN Stage(p, w) ELSE Finish(p)
  BY <1>1 DEF ClosePeriod, ReopenPeriod, ChangePeriod, Holds
<1>5. from # to
  OBVIOUS
<1> QED
  BY <1>3, <1>4, <1>5 DEF StillValid

\* Every step of a client either takes the lock, stages a valid write, ends
\* without one, or commits a staged one.
LEMMA ClientSteps ==
  ASSUME TypeOK, ReversalsMirror, NEW p \in Clients,
         PostJournal(p) \/ ReverseJournal(p) \/ CreatePeriod(p)
           \/ ClosePeriod(p) \/ ReopenPeriod(p)
  PROVE  /\ tx[p].phase = "LOCKED"
         /\ Finish(p) \/ \E w \in Writes : Stage(p, w) /\ StillValid(journals, periods, w)
BY PostStages, ReverseStages, CreatePeriodStages, ChangePeriodStages
   DEF PostJournal, ReverseJournal, CreatePeriod, ClosePeriod, ReopenPeriod, ChangePeriod, Holds

-----------------------------------------------------------------------------
(***************************************************************************)
(* Commits.                                                                *)
(***************************************************************************)

\* The journal a valid insert appends leaves every journal invariant true.
LEMMA InsertPreserves ==
  ASSUME TypeOK, ExactlyOncePerSource, ReversalsMirror,
         NEW j \in Journal, InsertStillValid(journals, periods, j), journals' = Append(journals, j)
  PROVE  ExactlyOncePerSource' /\ ReversalsMirror'
<1> DEFINE n == Len(journals)
<1>1. /\ n \in Nat /\ DOMAIN journals = 1 .. n /\ DOMAIN journals' = 1 .. (n + 1)
      /\ \A i \in 1 .. n : journals'[i] = journals[i] /\ journals[i] \in Journal
      /\ journals'[n + 1] = j
  BY DEF TypeOK
<1>2. \A i \in 1 .. n : ~(journals[i].type = j.type /\ journals[i].source = j.source)
  BY <1>1 DEF InsertStillValid, PostedFor
<1>3. ExactlyOncePerSource'
  <2> SUFFICES ASSUME NEW a \in 1 .. (n + 1), NEW b \in 1 .. (n + 1),
                      journals'[a].type = journals'[b].type,
                      journals'[a].source = journals'[b].source
               PROVE  a = b
    BY <1>1 DEF ExactlyOncePerSource
  <2>1. CASE a \in 1 .. n /\ b \in 1 .. n
    BY <1>1, <2>1 DEF ExactlyOncePerSource
  <2>2. CASE a = n + 1 \/ b = n + 1
    BY <1>1, <1>2, <2>2
  <2> QED
    BY <1>1, <2>1, <2>2
<1>4. CASE j.type # "REVERSAL" /\ j.reversalOf = NotAReversal
  <2>1. \A k \in Nat : k # NotAReversal => ReversalsOf(journals', k) = ReversalsOf(journals, k)
    BY <1>1, <1>4 DEF ReversalsOf, NotAReversal
  <2>2. ASSUME NEW i \in 1 .. (n + 1)
        PROVE  MirrorAt(journals', i)
    <3>1. CASE i \in 1 .. n
      <4>1. MirrorAt(journals, i) /\ journals'[i] = journals[i] /\ journals[i].reversalOf \in Nat
        BY <1>1, <3>1 DEF ReversalsMirror, Journal
      <4>2. journals[i].reversalOf # NotAReversal => journals[i].reversalOf \in 1 .. n
        BY <4>1, <3>1 DEF MirrorAt, NotAReversal
      <4> QED
        BY <1>1, <2>1, <4>1, <4>2 DEF MirrorAt
    <3>2. CASE i = n + 1
      BY <1>1, <1>4, <3>2 DEF MirrorAt
    <3> QED
      BY <1>1, <3>1, <3>2
  <2> QED
    BY <1>1, <1>3, <2>2 DEF ReversalsMirror
<1>5. CASE /\ j.type = "REVERSAL" /\ j.source \in DOMAIN journals
           /\ j.reversalOf = j.source /\ ReversalsOf(journals, j.source) = {}
           /\ j.lines = Swapped(journals[j.source].lines)
  <2>1. j.source \in 1 .. n
    BY <1>1, <1>5
  <2>2. ReversalsOf(journals', j.source) = {n + 1}
    BY <1>1, <1>5 DEF ReversalsOf
  <2>3. \A k \in Nat : k # j.source => ReversalsOf(journals', k) = ReversalsOf(journals, k)
    BY <1>1, <1>5 DEF ReversalsOf
  <2>4. \A i \in 1 .. n : journals[i].reversalOf # j.source
    BY <1>1, <1>5 DEF ReversalsOf
  <2>5. ASSUME NEW i \in 1 .. (n + 1)
        PROVE  MirrorAt(journals', i)
    <3>1. CASE i \in 1 .. n
      <4>1. MirrorAt(journals, i) /\ journals'[i] = journals[i] /\ journals[i].reversalOf \in Nat
        BY <1>1, <3>1 DEF ReversalsMirror, Journal
      <4>2. journals[i].reversalOf # NotAReversal => journals[i].reversalOf \in 1 .. n
        BY <4>1, <3>1 DEF MirrorAt, NotAReversal
      <4>3. journals[i].reversalOf # j.source
        BY <2>4, <3>1
      <4> QED
        BY <1>1, <2>3, <4>1, <4>2, <4>3 DEF MirrorAt
    <3>2. CASE i = n + 1
      BY <1>1, <1>5, <2>1, <2>2, <3>2 DEF MirrorAt, NotAReversal
    <3> QED
      BY <1>1, <3>1, <3>2
  <2> QED
    BY <1>1, <1>3, <2>5 DEF ReversalsMirror
<1> QED
  BY <1>4, <1>5, CommandType DEF InsertStillValid

\* A commit of a valid write: the journal is appended, or a period is added
\* or changes status; nothing else.
CommitEffect(w) ==
  \/ /\ w.kind = "INSERT" /\ InsertStillValid(journals, periods, w.journal) /\ w.journal \in Journal
     /\ journals' = Append(journals, w.journal) /\ periods' = periods
  \/ /\ w.kind = "PERIOD" /\ w.period \in Period /\ w.period.start < w.period.end
     /\ w.period.status = "OPEN"
     /\ \A i \in DOMAIN periods : ~Overlap(w.period, periods[i])
     /\ periods' = Append(periods, w.period) /\ journals' = journals
  \/ /\ w.kind = "STATUS" /\ w.at \in DOMAIN periods /\ w.status \in {"OPEN", "CLOSED"}
     /\ periods[w.at].status # w.status
     /\ periods' = [periods EXCEPT ![w.at].status = w.status] /\ journals' = journals

LEMMA CommitCases ==
  ASSUME TypeOK, NEW p \in Clients, Commit(p), StillValid(journals, periods, tx[p].write)
  PROVE  CommitEffect(tx[p].write)
<1> DEFINE w == tx[p].write
<1>1. w \in Writes
  BY OpenTransaction DEF Commit
<1>2. Apply(w)
  BY DEF Commit
<1>3. CASE w.kind = "INSERT" /\ InsertStillValid(journals, periods, w.journal)
  <2>1. w.journal \in Journal
    BY <1>1, <1>3 DEF Writes
  <2> QED
    BY <1>2, <1>3, <2>1 DEF Apply, InsertStillValid, CommitEffect
<1>4. CASE /\ w.kind = "PERIOD"
           /\ w.period.start < w.period.end /\ w.period.status = "OPEN"
           /\ \A i \in DOMAIN periods : ~Overlap(w.period, periods[i])
  <2>1. w.period \in Period
    BY <1>1, <1>4 DEF Writes
  <2>2. periods' = Append(periods, w.period) /\ journals' = journals
    BY <1>2, <1>4 DEF Apply
  <2> QED
    BY <1>4, <2>1, <2>2 DEF CommitEffect
<1>5. CASE /\ w.kind = "STATUS"
           /\ w.at \in DOMAIN periods /\ periods[w.at].status # w.status
  <2>1. w.status \in {"OPEN", "CLOSED"}
    BY <1>1, <1>5 DEF Writes
  <2>2. periods' = [periods EXCEPT ![w.at].status = w.status] /\ journals' = journals
    BY <1>2, <1>5 DEF Apply
  <2> QED
    BY <1>5, <2>1, <2>2 DEF CommitEffect
<1> QED
  BY <1>3, <1>4, <1>5 DEF StillValid

\* Committing a valid write preserves the data invariants.
LEMMA CommitPreserves ==
  ASSUME TypeOK, ExactlyOncePerSource, ReversalsMirror, PeriodsDisjoint,
         NEW w, CommitEffect(w)
  PROVE  /\ journals' \in Seq(Journal) /\ periods' \in Seq(Period)
         /\ ExactlyOncePerSource' /\ ReversalsMirror' /\ PeriodsDisjoint'
<1>1. CASE /\ w.kind = "INSERT" /\ InsertStillValid(journals, periods, w.journal) /\ w.journal \in Journal
           /\ journals' = Append(journals, w.journal) /\ periods' = periods
  <2>1. ExactlyOncePerSource' /\ ReversalsMirror'
    BY <1>1, InsertPreserves
  <2>2. PeriodsDisjoint'
    BY <1>1 DEF PeriodsDisjoint
  <2>3. journals' \in Seq(Journal) /\ periods' \in Seq(Period)
    BY <1>1 DEF TypeOK
  <2> QED
    BY <2>1, <2>2, <2>3
<1>2. ASSUME journals' = journals
      PROVE  ExactlyOncePerSource' /\ ReversalsMirror' /\ journals' \in Seq(Journal)
  BY <1>2 DEF ExactlyOncePerSource, ReversalsMirror, TypeOK
<1>3. CASE /\ w.period \in Period
           /\ \A i \in DOMAIN periods : ~Overlap(w.period, periods[i])
           /\ periods' = Append(periods, w.period) /\ journals' = journals
  <2> DEFINE n == Len(periods)
  <2>1. /\ n \in Nat /\ DOMAIN periods = 1 .. n /\ DOMAIN periods' = 1 .. (n + 1)
        /\ \A i \in 1 .. n : periods'[i] = periods[i]
        /\ periods'[n + 1] = w.period /\ periods' \in Seq(Period)
    BY <1>3 DEF TypeOK
  <2>2. \A i \in 1 .. n : ~Overlap(w.period, periods[i]) /\ ~Overlap(periods[i], w.period)
    BY <1>3, <2>1 DEF Overlap
  <2>3. PeriodsDisjoint'
    BY <2>1, <2>2 DEF PeriodsDisjoint
  <2> QED
    BY <1>2, <1>3, <2>1, <2>3
<1>4. CASE /\ w.at \in DOMAIN periods /\ w.status \in {"OPEN", "CLOSED"}
           /\ periods' = [periods EXCEPT ![w.at].status = w.status] /\ journals' = journals
  <2> DEFINE n == Len(periods)
             S == DOMAIN periods
  <2>0. n \in Nat /\ S = 1 .. n /\ periods \in [S -> Period]
    BY DEF TypeOK
  <2>1. /\ DOMAIN periods' = S
        /\ \A i \in S : periods[i] \in Period
                                   /\ periods'[i] = IF i = w.at
                                        THEN [periods[i] EXCEPT !.status = w.status]
                                        ELSE periods[i]
    <3> HIDE DEF S
    <3> QED
      BY <1>4, <2>0
  <2>2. \A i \in DOMAIN periods : /\ periods'[i] \in Period
                                 /\ periods'[i].start = periods[i].start
                                 /\ periods'[i].end = periods[i].end
    BY <1>4, <2>1 DEF Period
  <2>3. PeriodsDisjoint'
    BY <2>1, <2>2 DEF PeriodsDisjoint, Overlap
  <2>4. periods' \in Seq(Period)
    <3>1. periods' = [i \in 1 .. n |-> periods'[i]] /\ \A i \in 1 .. n : periods'[i] \in Period
      BY <1>4, <2>0, <2>1, <2>2
    <3> QED
      BY <2>0, <3>1
  <2> QED
    BY <1>2, <1>4, <2>3, <2>4
<1> QED
  BY <1>1, <1>3, <1>4 DEF CommitEffect

-----------------------------------------------------------------------------
(***************************************************************************)
(* The inductive invariant.                                                *)
(***************************************************************************)

LEMMA InitInductive == Init => Inductive
<1> SUFFICES ASSUME Init PROVE Inductive
  OBVIOUS
<1> USE DEF Init
<1>1. TypeOK
  BY DEF TypeOK, Transactions
<1>2. LockExclusive /\ StagedStillValid
  BY DEF LockExclusive, StagedStillValid, Idle
<1>3. ExactlyOncePerSource /\ ReversalsMirror /\ PeriodsDisjoint
  BY DEF ExactlyOncePerSource, ReversalsMirror, PeriodsDisjoint
<1> QED
  BY <1>1, <1>2, <1>3 DEF Inductive

\* Facts that speak of committed rows alone survive a step that commits
\* nothing.
LEMMA UncommittedStep ==
  ASSUME UNCHANGED <<journals, periods>>
  PROVE  /\ ExactlyOncePerSource' <=> ExactlyOncePerSource
         /\ ReversalsMirror' <=> ReversalsMirror
         /\ PeriodsDisjoint' <=> PeriodsDisjoint
BY DEF ExactlyOncePerSource, ReversalsMirror, PeriodsDisjoint

\* Staging preserves the invariant.
LEMMA StagePreserves ==
  ASSUME Inductive, NEW p \in Clients, tx[p].phase = "LOCKED",
         NEW w \in Writes, Stage(p, w), StillValid(journals, periods, w)
  PROVE  Inductive'
<1>1. TypeOK'
  BY StageType DEF Inductive
<1>2. UNCHANGED <<journals, periods>> /\ lock' = lock
  BY DEF Stage
<1>3. /\ tx[p] # Idle
      /\ \A q \in Clients : q # p => tx'[q] = tx[q]
      /\ tx'[p].write = w
  BY OpenTransaction DEF Inductive, TypeOK, Stage
<1>4. LockExclusive'
  BY <1>2, <1>3 DEF Inductive, LockExclusive
<1>5. StagedStillValid'
  <2> SUFFICES ASSUME NEW q \in Clients, tx'[q].phase = "STAGED"
               PROVE  StillValid(journals', periods', tx'[q].write)
    BY DEF StagedStillValid
  <2>1. StillValid(journals, periods, tx'[q].write)
    BY <1>3 DEF Inductive, StagedStillValid
  <2> QED
    BY <1>2, <2>1
<1> QED
  BY <1>1, <1>2, <1>4, <1>5, UncommittedStep DEF Inductive

\* When the lock's holder ends, no transaction is open.
LEMMA HolderEnds ==
  ASSUME TypeOK, LockExclusive, NEW p \in Clients, tx[p] # Idle,
         tx' = [tx EXCEPT ![p] = Idle], lock' = IF lock = p THEN NoClient ELSE lock
  PROVE  LockExclusive' /\ StagedStillValid'
<1>1. \A q \in Clients : tx'[q] = Idle
  BY DEF TypeOK, LockExclusive
<1> QED
  BY <1>1 DEF LockExclusive, StagedStillValid, Idle

LEMMA FinishPreserves ==
  ASSUME Inductive, NEW p \in Clients, tx[p] # Idle, Finish(p)
  PROVE  Inductive'
<1>1. TypeOK'
  BY FinishType DEF Inductive
<1>2. LockExclusive' /\ StagedStillValid'
  BY HolderEnds DEF Inductive, Finish
<1> QED
  BY <1>1, <1>2, UncommittedStep DEF Inductive, Finish

LEMMA CommitInductive ==
  ASSUME Inductive, NEW p \in Clients, Commit(p)
  PROVE  Inductive'
<1>1. tx[p] # Idle /\ StillValid(journals, periods, tx[p].write)
  BY OpenTransaction DEF Inductive, Commit, StagedStillValid
<1>2. CommitEffect(tx[p].write)
  BY <1>1, CommitCases DEF Inductive
<1>3. /\ journals' \in Seq(Journal) /\ periods' \in Seq(Period)
      /\ ExactlyOncePerSource' /\ ReversalsMirror' /\ PeriodsDisjoint'
  BY <1>2, CommitPreserves DEF Inductive
<1>4. LockExclusive' /\ StagedStillValid'
  BY <1>1, HolderEnds DEF Inductive, Commit
<1>5. TypeOK'
  BY <1>3 DEF Inductive, TypeOK, Commit, Transactions
<1> QED
  BY <1>3, <1>4, <1>5 DEF Inductive

LEMMA AcquirePreserves ==
  ASSUME Inductive, NEW p \in Clients, NEW r \in Requests, AcquireLock(p, r)
  PROVE  Inductive'
<1>1. TypeOK'
  <2>1. [phase |-> "LOCKED", req |-> r] \in Transactions
    BY DEF Transactions
  <2> QED
    BY <2>1 DEF Inductive, TypeOK, AcquireLock
<1>2. \A q \in Clients : tx[q] = Idle
  BY NoClientAssumption DEF Inductive, LockExclusive, AcquireLock
<1>3. LockExclusive' /\ StagedStillValid'
  BY <1>2 DEF Inductive, TypeOK, LockExclusive, StagedStillValid, AcquireLock, Idle
<1> QED
  BY <1>1, <1>3, UncommittedStep DEF Inductive, AcquireLock

\* Steps that touch neither transactions nor committed rows.
LEMMA OutsideStep ==
  ASSUME Inductive, UNCHANGED <<journals, periods, tx, lock>>, active' \in SUBSET Accounts
  PROVE  Inductive'
<1>1. TypeOK' /\ LockExclusive' /\ StagedStillValid'
  BY DEF Inductive, TypeOK, LockExclusive, StagedStillValid
<1> QED
  BY <1>1, UncommittedStep DEF Inductive

LEMMA NextInductive == Inductive /\ [Next]_vars => Inductive'
<1> SUFFICES ASSUME Inductive, [Next]_vars PROVE Inductive'
  OBVIOUS
<1>1. ASSUME NEW p \in Clients, NEW r \in Requests, AcquireLock(p, r)
      PROVE  Inductive'
  BY <1>1, AcquirePreserves
<1>2. ASSUME NEW p \in Clients,
             PostJournal(p) \/ ReverseJournal(p) \/ CreatePeriod(p)
               \/ ClosePeriod(p) \/ ReopenPeriod(p)
      PROVE  Inductive'
  <2>1. /\ tx[p].phase = "LOCKED"
        /\ Finish(p) \/ \E w \in Writes : Stage(p, w) /\ StillValid(journals, periods, w)
    BY <1>2, ClientSteps DEF Inductive
  <2>2. tx[p] # Idle
    BY <2>1 DEF Idle
  <2> QED
    BY <2>1, <2>2, FinishPreserves, StagePreserves
<1>3. ASSUME NEW p \in Clients, Commit(p)
      PROVE  Inductive'
  BY <1>3, CommitInductive
<1>4. ASSUME NEW p \in Clients, Rollback(p)
      PROVE  Inductive'
  BY <1>4, FinishPreserves DEF Rollback
<1>5. ASSUME NEW a \in Accounts, Deactivate(a) \/ Reactivate(a)
      PROVE  Inductive'
  BY <1>5, OutsideStep DEF Deactivate, Reactivate, Inductive, TypeOK
<1>6. CASE UNCHANGED vars
  BY <1>6, OutsideStep DEF vars, Inductive, TypeOK
<1> QED
  BY <1>1, <1>2, <1>3, <1>4, <1>5, <1>6 DEF Next

\* The inductive invariant holds in every reachable state.
THEOREM InductiveHolds == Spec => []Inductive
<1>1. Init => Inductive
  BY InitInductive
<1>2. Inductive /\ [Next]_vars => Inductive'
  BY NextInductive
<1> QED
  BY <1>1, <1>2, PTL DEF Spec

-----------------------------------------------------------------------------
(***************************************************************************)
(* The theorems.                                                           *)
(***************************************************************************)

\* Every reachable state of the ledger is well typed.
THEOREM TypeCorrect == Spec => []TypeOK
<1>1. Inductive => TypeOK
  BY DEF Inductive
<1> QED
  BY <1>1, InductiveHolds, PTL

\* A source key has at most one journal, for any number of clients.
THEOREM ExactlyOnce == Spec => []ExactlyOncePerSource
<1>1. Inductive => ExactlyOncePerSource
  BY DEF Inductive
<1> QED
  BY <1>1, InductiveHolds, PTL

\* Every reversal is the exact opposite of one earlier journal, and the only
\* one of it.
THEOREM ReversalsExact == Spec => []ReversalsMirror
<1>1. Inductive => ReversalsMirror
  BY DEF Inductive
<1> QED
  BY <1>1, InductiveHolds, PTL

\* Accounting periods never overlap.
THEOREM PeriodsNeverOverlap == Spec => []PeriodsDisjoint
<1>1. Inductive => PeriodsDisjoint
  BY DEF Inductive
<1> QED
  BY <1>1, InductiveHolds, PTL

\* A step that does not commit leaves the committed rows alone; a commit
\* writes what was validated.
LEMMA StepEffect ==
  ASSUME Inductive, [Next]_vars
  PROVE  UNCHANGED ledgerVars \/ \E w \in Writes : CommitEffect(w)
<1>1. ASSUME NEW p \in Clients, NEW r \in Requests, AcquireLock(p, r)
      PROVE  UNCHANGED ledgerVars
  BY <1>1 DEF AcquireLock, ledgerVars
<1>2. ASSUME NEW p \in Clients,
             PostJournal(p) \/ ReverseJournal(p) \/ CreatePeriod(p)
               \/ ClosePeriod(p) \/ ReopenPeriod(p)
      PROVE  UNCHANGED ledgerVars
  BY <1>2, ClientSteps DEF Inductive, Finish, Stage, ledgerVars
<1>3. ASSUME NEW p \in Clients, Commit(p)
      PROVE  \E w \in Writes : CommitEffect(w)
  <2>1. tx[p].write \in Writes /\ StillValid(journals, periods, tx[p].write)
    BY <1>3, OpenTransaction DEF Inductive, Commit, StagedStillValid
  <2>2. CommitEffect(tx[p].write)
    BY <1>3, <2>1, CommitCases DEF Inductive
  <2> QED
    BY <2>1, <2>2
<1>4. ASSUME NEW p \in Clients, Rollback(p)
      PROVE  UNCHANGED ledgerVars
  BY <1>4 DEF Rollback, Finish, ledgerVars
<1>5. ASSUME NEW a \in Accounts, Deactivate(a) \/ Reactivate(a)
      PROVE  UNCHANGED ledgerVars
  BY <1>5 DEF Deactivate, Reactivate, ledgerVars
<1>6. CASE UNCHANGED vars
  BY <1>6 DEF vars, ledgerVars
<1> QED
  BY <1>1, <1>2, <1>3, <1>4, <1>5, <1>6 DEF Next

\* A commit is one atomic operation of the abstract ledger.
LEMMA CommitIsAtomic ==
  ASSUME Inductive, NEW w \in Writes, CommitEffect(w)
  PROVE  LedgerNext
<1>1. CASE /\ InsertStillValid(journals, periods, w.journal) /\ w.journal \in Journal
           /\ journals' = Append(journals, w.journal) /\ periods' = periods
  <2> DEFINE j == w.journal
  <2>1. /\ PostedFor(journals, j.type, j.source) = {} /\ j.period \in OpenFor(periods, j.date)
        /\ j = [type |-> j.type, source |-> j.source, lines |-> j.lines, date |-> j.date,
                period |-> j.period, reversalOf |-> j.reversalOf, reason |-> j.reason]
    BY <1>1 DEF InsertStillValid, Journal
  <2>2. ASSUME NEW c \in Commands,
               j.type = c.type, j.source = c.source, j.lines = c.lines, j.date = c.date,
               WellFormed(j.lines, FALSE), j.reversalOf = NotAReversal, j.reason = NoReason
        PROVE  AtomicPost(c)
    BY <1>1, <2>1, <2>2 DEF AtomicPost
  <2>3. ASSUME j.type = "REVERSAL", j.source \in DOMAIN journals,
               j.reversalOf = j.source, ReversalsOf(journals, j.source) = {},
               j.lines = Swapped(journals[j.source].lines)
        PROVE  AtomicReverse(j.source, j.date, j.reason)
    BY <1>1, <2>1, <2>3 DEF AtomicReverse
  <2> QED
    BY <1>1, <2>2, <2>3 DEF InsertStillValid, LedgerNext
<1>2. CASE /\ w.period \in Period /\ w.period.start < w.period.end
           /\ w.period.status = "OPEN"
           /\ \A i \in DOMAIN periods : ~Overlap(w.period, periods[i])
           /\ periods' = Append(periods, w.period) /\ journals' = journals
  <2> DEFINE s == w.period.start
             e == w.period.end
             opened == [start |-> s, end |-> e, status |-> "OPEN"]
  <2>1. s \in Dates /\ e \in Dates /\ w.period = opened
    BY <1>2 DEF Period
  <2>2. \A i \in DOMAIN periods : ~Overlap([start |-> s, end |-> e], periods[i])
    BY <1>2 DEF Overlap
  <2>3. AtomicOpenPeriod(s, e)
    BY <1>2, <2>1, <2>2 DEF AtomicOpenPeriod
  <2> QED
    BY <2>1, <2>3 DEF LedgerNext
<1>3. CASE /\ w.at \in DOMAIN periods /\ w.status \in {"OPEN", "CLOSED"}
           /\ periods[w.at].status # w.status
           /\ periods' = [periods EXCEPT ![w.at].status = w.status] /\ journals' = journals
  <2>1. AtomicSetStatus(w.at, w.status)
    BY <1>3 DEF AtomicSetStatus
  <2> QED
    BY <1>3, <2>1 DEF LedgerNext
<1> QED
  BY <1>1, <1>2, <1>3 DEF CommitEffect

\* The locked transactions implement the atomic ledger.
THEOREM Refinement == Spec => ImplementsGeneralLedger
<1>1. Init => LedgerInit
  BY DEF Init, LedgerInit
<1>2. Inductive /\ [Next]_vars => [LedgerNext]_ledgerVars
  BY StepEffect, CommitIsAtomic
<1> QED
  BY <1>1, <1>2, InductiveHolds, PTL DEF Spec, ImplementsGeneralLedger, GeneralLedgerSpec

\* No committed journal is ever edited or lost.
THEOREM LogOnlyGrows == Spec => AppendOnly
<1>1. Inductive /\ [Next]_vars => [IsPrefix(journals, journals')]_vars
  <2> SUFFICES ASSUME Inductive, [Next]_vars PROVE IsPrefix(journals, journals')
    OBVIOUS
  <2>1. journals \in Seq(Journal)
    BY DEF Inductive, TypeOK
  <2>2. journals' = journals \/ \E j \in Journal : journals' = Append(journals, j)
    BY StepEffect DEF CommitEffect, ledgerVars
  <2> QED
    BY <2>1, <2>2 DEF IsPrefix
<1> QED
  BY <1>1, InductiveHolds, PTL DEF Spec, AppendOnly

\* Every journal is committed into a period that covers its date and is open
\* at that instant.
THEOREM OnlyIntoOpenPeriods == Spec => PostsIntoOpenPeriods
<1> DEFINE Posts == \A i \in DOMAIN journals' \ DOMAIN journals :
                       journals'[i].period \in OpenFor(periods, journals'[i].date)
<1>1. Inductive /\ [Next]_vars => [Posts]_vars
  <2> SUFFICES ASSUME Inductive, [Next]_vars PROVE Posts
    OBVIOUS
  <2>1. journals \in Seq(Journal)
    BY DEF Inductive, TypeOK
  <2>2. CASE journals' = journals
    BY <2>2
  <2>3. ASSUME NEW j \in Journal, journals' = Append(journals, j),
               InsertStillValid(journals, periods, j)
        PROVE  Posts
    <3>1. \A i \in DOMAIN journals' \ DOMAIN journals : journals'[i] = j
      BY <2>1, <2>3
    <3> QED
      BY <2>3, <3>1 DEF InsertStillValid
  <2> QED
    BY <2>2, <2>3, StepEffect DEF CommitEffect, ledgerVars
<1> QED
  BY <1>1, InductiveHolds, PTL DEF Spec, PostsIntoOpenPeriods
-----------------------------------------------------------------------------
(***************************************************************************)
(* What is reported of the journals.  Every posted journal balances, on    *)
(* its own and within every fund, so the nets of all accounts sum to zero; *)
(* the figures are such nets, taken apart by account and by day.           *)
(***************************************************************************)

Balanced ==
  \A j \in DOMAIN journals : Balances(journals[j].lines) /\ FundBalanced(journals[j].lines)

\* The lines of a journal, or some of them, have a sum.
LEMMA LinesFinite ==
  ASSUME NEW lines \in Seq(Line), NEW S \in SUBSET DOMAIN lines
  PROVE  /\ IsFiniteSet(S)
         /\ \A i \in S : lines[i] \in Line /\ lines[i].amount \in Int
         /\ SumOf(lines, S) \in Int
<1>1. IsFiniteSet(DOMAIN lines)
  <2>1. Len(lines) \in Nat /\ DOMAIN lines = 1 .. Len(lines)
    OBVIOUS
  <2> QED
    BY <2>1, FS_Interval
<1>2. IsFiniteSet(S)
  BY <1>1, FS_Subset
<1>3. \A i \in S : lines[i] \in Line /\ lines[i].amount \in Int
  <2>1. \A i \in S : lines[i] \in Line
    OBVIOUS
  <2> QED
    BY <2>1 DEF Line
<1>4. SumOf(lines, S) \in Int
  <2> DEFINE f == [i \in S |-> lines[i].amount]
  <2>1. \A i \in S : f[i] \in Int
    BY <1>3
  <2> HIDE DEF f
  <2>2. SumOver(f, S) \in Int
    BY <1>2, <2>1, SumType
  <2> QED
    BY <2>2 DEF f, SumOf
<1> QED
  BY <1>2, <1>3, <1>4

\* Swapping the sides changes the sign of every sum.
LEMMA SwappedSum ==
  ASSUME NEW lines \in Seq(Line), NEW S \in SUBSET DOMAIN lines
  PROVE  SumOf(Swapped(lines), S) \in Int /\ SumOf(lines, S) + SumOf(Swapped(lines), S) = 0
<1> DEFINE f == [i \in S |-> lines[i].amount]
           g == [i \in S |-> Swapped(lines)[i].amount]
           h == [i \in S |-> 0]
<1>1. IsFiniteSet(S) /\ SumOf(lines, S) \in Int /\ SumOf(Swapped(lines), S) \in Int
  BY LinesFinite, SwappedType DEF Swapped
<1>2. \A i \in S : f[i] \in Int /\ g[i] \in Int /\ h[i] = f[i] + g[i]
  <2> TAKE i \in S
  <2>1. lines[i] \in Line /\ lines[i].amount \in Int /\ i \in DOMAIN lines
    BY LinesFinite
  <2>2. Swapped(lines)[i].amount = -lines[i].amount
    BY <2>1 DEF Swapped, Line
  <2> QED
    BY <2>1, <2>2
<1>3. \A i \in S : h[i] = 0
  OBVIOUS
<1>4. SumOf(lines, S) = SumOver(f, S) /\ SumOf(Swapped(lines), S) = SumOver(g, S)
  BY DEF SumOf
<1> HIDE DEF f, g, h
<1>5. SumOver(h, S) = SumOver(f, S) + SumOver(g, S)
  BY <1>1, <1>2, SumPlus
<1>6. SumOver(h, S) = 0
  BY <1>1, <1>3, SumZero
<1> QED
  BY <1>1, <1>4, <1>5, <1>6

LEMMA SwappedBalances ==
  ASSUME NEW lines \in Seq(Line), Balances(lines), FundBalanced(lines)
  PROVE  Balances(Swapped(lines)) /\ FundBalanced(Swapped(lines))
<1>1. DOMAIN Swapped(lines) = DOMAIN lines /\ \A i \in DOMAIN lines : Swapped(lines)[i].fund = lines[i].fund
  <2>1. \A i \in DOMAIN lines : lines[i] \in Line
    OBVIOUS
  <2>2. \A l \in Line : [l EXCEPT !.amount = -@].fund = l.fund
    BY DEF Line
  <2> QED
    BY <2>1, <2>2 DEF Swapped
<1>2. Balances(Swapped(lines))
  <2>1. /\ SumOf(Swapped(lines), DOMAIN lines) \in Int
        /\ SumOf(lines, DOMAIN lines) + SumOf(Swapped(lines), DOMAIN lines) = 0
    BY SwappedSum
  <2> QED
    BY <1>1, <2>1 DEF Balances
<1>3. ASSUME NEW f \in Funds
      PROVE  SumOf(Swapped(lines), {i \in DOMAIN Swapped(lines) : Swapped(lines)[i].fund = f}) = 0
  <2> DEFINE S == {i \in DOMAIN lines : lines[i].fund = f}
  <2>1. {i \in DOMAIN Swapped(lines) : Swapped(lines)[i].fund = f} = S
    BY <1>1
  <2>2. S \in SUBSET DOMAIN lines
    OBVIOUS
  <2>3. SumOf(lines, S) = 0
    BY DEF FundBalanced
  <2> HIDE DEF S
  <2>4. SumOf(Swapped(lines), S) \in Int /\ SumOf(lines, S) + SumOf(Swapped(lines), S) = 0
    BY <2>2, SwappedSum
  <2>5. SumOf(Swapped(lines), S) = 0
    BY <2>3, <2>4
  <2> QED
    BY <2>1, <2>5, Zenon
<1> QED
  BY <1>2, <1>3 DEF FundBalanced

LEMMA NextBalanced ==
  ASSUME Inductive, Balanced, [Next]_vars
  PROVE  Balanced'
<1>1. journals \in Seq(Journal)
  BY DEF Inductive, TypeOK
<1>2. CASE journals' = journals
  BY <1>2 DEF Balanced
<1>3. ASSUME NEW j \in Journal, journals' = Append(journals, j), InsertStillValid(journals, periods, j)
      PROVE  Balanced'
  <2>1. Balances(j.lines) /\ FundBalanced(j.lines)
    <3>1. CASE WellFormed(j.lines, FALSE)
      BY <3>1 DEF WellFormed
    <3>2. CASE j.source \in DOMAIN journals /\ j.lines = Swapped(journals[j.source].lines)
      <4>1. journals[j.source] \in Journal
        BY <1>1, <3>2
      <4>2. journals[j.source].lines \in Seq(Line)
        BY <4>1 DEF Journal
      <4> QED
        BY <3>2, <4>2, SwappedBalances DEF Balanced
    <3> QED
      BY <1>3, <3>1, <3>2 DEF InsertStillValid
  <2>2. \A i \in DOMAIN journals' : (i \in DOMAIN journals /\ journals'[i] = journals[i]) \/ journals'[i] = j
    BY <1>1, <1>3
  <2> QED
    BY <2>1, <2>2 DEF Balanced
<1> QED
  BY <1>2, <1>3, StepEffect DEF CommitEffect, ledgerVars

\* Every posted journal balances, whatever was reversed.
THEOREM BalancedHolds == Spec => []Balanced
<1>1. Init => Balanced
  BY DEF Init, Balanced
<1>2. Inductive /\ Balanced /\ [Next]_vars => Balanced'
  BY NextBalanced
<1> QED
  BY <1>1, <1>2, InductiveHolds, PTL DEF Spec

-----------------------------------------------------------------------------
\* A journal's net of disjoint sets of accounts is the sum of their nets, and
\* that of all accounts is nothing.
LEMMA NetOfParts ==
  ASSUME NEW j \in Journal, NEW A, NEW B, A \cap B = {}, NEW F
  PROVE  /\ NetOf(j, A, F) \in Int
         /\ NetOf(j, A \cup B, F) = NetOf(j, A, F) + NetOf(j, B, F)
<1> DEFINE lines == j.lines
           Of(X) == {i \in DOMAIN lines : lines[i].account \in X /\ lines[i].fund \in F}
           all == [i \in DOMAIN lines |-> lines[i].amount]
<1>1. lines \in Seq(Line)
  BY DEF Journal
<1>2. IsFiniteSet(DOMAIN lines) /\ \A i \in DOMAIN lines : all[i] \in Int
  BY <1>1, LinesFinite
<1>3. ASSUME NEW X PROVE NetOf(j, X, F) = SumOver(all, Of(X)) /\ NetOf(j, X, F) \in Int
  <2> DEFINE S == Of(X)
             f == [i \in S |-> lines[i].amount]
  <2>1. S \in SUBSET DOMAIN lines /\ IsFiniteSet(S)
    BY <1>2, FS_Subset
  <2>2. \A i \in S : all[i] \in Int /\ f[i] = all[i]
    BY <1>2, <2>1
  <2>3. NetOf(j, X, F) = SumOver(f, S)
    BY DEF NetOf, SumOf
  <2> HIDE DEF f, S, all
  <2>4. SumOver(f, S) = SumOver(all, S) /\ SumOver(all, S) \in Int
    BY <2>1, <2>2, SumCongruent, SumType
  <2> QED
    BY <2>3, <2>4 DEF S
<1>4. Of(A) \in SUBSET DOMAIN lines /\ Of(B) \in SUBSET DOMAIN lines /\ Of(A) \cap Of(B) = {}
      /\ Of(A \cup B) = Of(A) \cup Of(B)
  OBVIOUS
<1>5. SumOver(all, Of(A \cup B)) = SumOver(all, Of(A)) + SumOver(all, Of(B))
  <2> DEFINE left == Of(A)
             right == Of(B)
  <2>1. left \in SUBSET DOMAIN lines /\ right \in SUBSET DOMAIN lines /\ left \cap right = {}
        /\ Of(A \cup B) = left \cup right
    BY <1>4
  <2> HIDE DEF all, left, right, lines
  <2>2. SumOver(all, left \cup right) = SumOver(all, left) + SumOver(all, right)
    BY <1>2, <2>1, SumUnion
  <2> HIDE DEF Of
  <2> QED
    BY <2>1, <2>2 DEF left, right
<1> QED
  <2>1. /\ NetOf(j, A \cup B, F) = SumOver(all, Of(A \cup B))
        /\ NetOf(j, A, F) = SumOver(all, Of(A)) /\ NetOf(j, A, F) \in Int
        /\ NetOf(j, B, F) = SumOver(all, Of(B))
    <3> HIDE DEF all, Of, lines
    <3> QED
      BY <1>3
  <2> HIDE DEF all, Of, lines
  <2> QED
    BY <1>5, <2>1

LEMMA NetOfAll ==
  ASSUME Balanced, NEW k \in DOMAIN journals, journals[k] \in Journal, NEW F \in Scopes
  PROVE  NetOf(journals[k], Accounts, F) = 0
<1> DEFINE lines == journals[k].lines
<1>1. lines \in Seq(Line)
  BY DEF Journal
<1>2. \A i \in DOMAIN lines : lines[i].account \in Accounts /\ lines[i].fund \in Funds
  <2>1. \A i \in DOMAIN lines : lines[i] \in Line
    BY <1>1
  <2> QED
    BY <2>1 DEF Line
<1>3. Balances(lines) /\ FundBalanced(lines)
  BY DEF Balanced
<1> HIDE DEF lines
<1>4. CASE F = Funds
  <2>1. {i \in DOMAIN lines : lines[i].account \in Accounts /\ lines[i].fund \in F} = DOMAIN lines
    BY <1>2, <1>4
  <2> QED
    BY <2>1, <1>3 DEF NetOf, Balances, lines
<1>5. ASSUME NEW f \in Funds, F = {f}
      PROVE  NetOf(journals[k], Accounts, F) = 0
  <2>1. {i \in DOMAIN lines : lines[i].account \in Accounts /\ lines[i].fund \in F}
          = {i \in DOMAIN lines : lines[i].fund = f}
    BY <1>2, <1>5
  <2> QED
    BY <2>1, <1>3 DEF NetOf, FundBalanced, lines
<1> QED
  BY <1>4, <1>5 DEF Scopes
-----------------------------------------------------------------------------
\* What the report takes: the journals dated on some days, and the nets of
\* theirs that it sums.
Dated(days) == {j \in DOMAIN journals : journals[j].date \in days}
Nets(accounts, funds) == [j \in DOMAIN journals |-> NetOf(journals[j], accounts, funds)]

LEMMA NetIsSum ==
  ASSUME TypeOK, NEW A, NEW F, NEW D
  PROVE  /\ IsFiniteSet(DOMAIN journals) /\ Dated(D) \in SUBSET DOMAIN journals /\ IsFiniteSet(Dated(D))
         /\ \A j \in DOMAIN journals : Nets(A, F)[j] \in Int
         /\ Net(A, F, D) = SumOver(Nets(A, F), Dated(D)) /\ Net(A, F, D) \in Int
<1> DEFINE S == Dated(D)
           f == [j \in S |-> NetOf(journals[j], A, F)]
           n == Nets(A, F)
<1>1. journals \in Seq(Journal) /\ \A j \in DOMAIN journals : journals[j] \in Journal
  BY DEF TypeOK
<1>2. IsFiniteSet(DOMAIN journals)
  <2>1. Len(journals) \in Nat /\ DOMAIN journals = 1 .. Len(journals)
    BY <1>1
  <2> QED
    BY <2>1, FS_Interval
<1>3. \A j \in DOMAIN journals : NetOf(journals[j], A, F) \in Int
  <2> TAKE j \in DOMAIN journals
  <2>1. journals[j] \in Journal
    BY <1>1
  <2>2. A \cap {} = {}
    OBVIOUS
  <2> QED
    BY <2>1, <2>2, NetOfParts
<1>4. S \in SUBSET DOMAIN journals /\ IsFiniteSet(S)
  BY <1>2, FS_Subset DEF Dated
<1>5. /\ \A j \in DOMAIN journals : n[j] \in Int
      /\ \A j \in S : n[j] \in Int /\ f[j] = n[j]
  BY <1>3, <1>4 DEF Nets
<1>6. Net(A, F, D) = SumOver(f, S)
  BY DEF Net, Dated
<1> HIDE DEF f, n, S
<1>7. SumOver(f, S) = SumOver(n, S) /\ SumOver(n, S) \in Int
  BY <1>4, <1>5, SumCongruent, SumType
<1> QED
  BY <1>2, <1>4, <1>5, <1>6, <1>7 DEF n, S

LEMMA NetOfAccounts ==
  ASSUME TypeOK, NEW A, NEW B, A \cap B = {}, NEW F, NEW D
  PROVE  Net(A \cup B, F, D) = Net(A, F, D) + Net(B, F, D)
<1> DEFINE S == Dated(D)
           f == Nets(A, F)
           g == Nets(B, F)
           h == Nets(A \cup B, F)
<1>1. /\ IsFiniteSet(S)
      /\ Net(A, F, D) = SumOver(f, S) /\ Net(B, F, D) = SumOver(g, S) /\ Net(A \cup B, F, D) = SumOver(h, S)
  BY NetIsSum
<1>2. \A j \in S : f[j] \in Int /\ g[j] \in Int /\ h[j] = f[j] + g[j]
  <2> TAKE j \in S
  <2>1. j \in DOMAIN journals /\ journals[j] \in Journal
    BY DEF Dated, TypeOK
  <2>2. NetOf(journals[j], A, F) \in Int /\ NetOf(journals[j], B, F) \in Int
        /\ NetOf(journals[j], A \cup B, F) = NetOf(journals[j], A, F) + NetOf(journals[j], B, F)
    <3>1. \A x \in Journal : NetOf(x, A \cup B, F) = NetOf(x, A, F) + NetOf(x, B, F) /\ NetOf(x, A, F) \in Int
      BY NetOfParts
    <3>2. \A x \in Journal : NetOf(x, B, F) \in Int
      <4>1. B \cap {} = {}
        OBVIOUS
      <4> QED
        BY <4>1, NetOfParts
    <3> QED
      BY <2>1, <3>1, <3>2, Zenon
  <2> QED
    BY <2>1, <2>2 DEF Nets
<1> HIDE DEF f, g, h, S
<1>3. SumOver(h, S) = SumOver(f, S) + SumOver(g, S)
  BY <1>1, <1>2, SumPlus
<1> QED
  BY <1>1, <1>3

LEMMA NetOfDays ==
  ASSUME TypeOK, NEW A, NEW F, NEW D, NEW E, D \cap E = {}
  PROVE  Net(A, F, D \cup E) = Net(A, F, D) + Net(A, F, E)
<1> DEFINE J == DOMAIN journals
           f == Nets(A, F)
           S == Dated(D)
           T == Dated(E)
<1>1. /\ IsFiniteSet(J) /\ S \in SUBSET J /\ T \in SUBSET J /\ \A j \in J : f[j] \in Int
      /\ Net(A, F, D) = SumOver(f, S) /\ Net(A, F, E) = SumOver(f, T)
      /\ Net(A, F, D \cup E) = SumOver(f, Dated(D \cup E))
  BY NetIsSum
<1>2. Dated(D \cup E) = S \cup T /\ S \cap T = {}
  BY DEF Dated
<1> HIDE DEF f, J, S, T
<1>3. SumOver(f, S \cup T) = SumOver(f, S) + SumOver(f, T)
  BY <1>1, <1>2, SumUnion
<1> QED
  BY <1>1, <1>2, <1>3

\* All accounts together net to nothing, on any days, in any fund or in all.
LEMMA NetOfEverything ==
  ASSUME TypeOK, Balanced, NEW F \in Scopes, NEW D
  PROVE  Net(Accounts, F, D) = 0
<1> DEFINE S == Dated(D)
           f == Nets(Accounts, F)
<1>1. IsFiniteSet(S) /\ Net(Accounts, F, D) = SumOver(f, S)
  BY NetIsSum
<1>2. \A j \in S : f[j] = 0
  <2> TAKE j \in S
  <2>1. j \in DOMAIN journals /\ journals[j] \in Journal
    BY DEF Dated, TypeOK
  <2>2. NetOf(journals[j], Accounts, F) = 0
    BY <2>1, NetOfAll
  <2> QED
    BY <2>1, <2>2 DEF Nets
<1> HIDE DEF f, S
<1>3. SumOver(f, S) = 0
  BY <1>1, <1>2, SumZero
<1> QED
  BY <1>1, <1>3

LEMMA NetOfNone ==
  ASSUME TypeOK, NEW F, NEW D
  PROVE  Net({}, F, D) = 0
<1>1. {} \cap {} = {} /\ {} \cup {} = {}
  OBVIOUS
<1>2. Net({} \cup {}, F, D) = Net({}, F, D) + Net({}, F, D)
  BY <1>1, NetOfAccounts
<1>3. Net({}, F, D) \in Int
  BY NetIsSum
<1> DEFINE n == Net({}, F, D)
<1>4. n = n + n /\ n \in Int
  BY <1>1, <1>2, <1>3, Zenon
<1> HIDE DEF n
<1>5. n = 0
  BY <1>4
<1> QED
  BY <1>5 DEF n

\* The balances of some accounts, one by one, sum to the net of them all.
LEMMA TrialBalanceSum ==
  ASSUME TypeOK, NEW F, NEW day
  PROVE  /\ \A a \in Accounts : TrialBalance(F, day)[a] \in Int
         /\ \A T \in SUBSET Accounts : SumOver(TrialBalance(F, day), T) = Net(T, F, UpTo(day))
<1> DEFINE b == TrialBalance(F, day)
           D == UpTo(day)
           G == {T \in SUBSET Accounts : SumOver(b, T) = Net(T, F, D)}
<1>1. \A a \in Accounts : b[a] = Net({a}, F, D)
  BY DEF TrialBalance
<1>2. \A a \in Accounts : b[a] \in Int
  <2> TAKE a \in Accounts
  <2>1. Net({a}, F, D) \in Int
    BY NetIsSum
  <2> QED
    BY <1>1, <2>1
<1> HIDE DEF b, D
<1>3. {} \in G
  BY SumEmpty, NetOfNone
<1>4. ASSUME NEW T \in SUBSET Accounts, NEW a \in Accounts, T \in G, a \notin T
      PROVE  T \cup {a} \in G
  <2>1. IsFiniteSet(T) /\ T \cap {a} = {} /\ T \cup {a} \in SUBSET Accounts
    BY <1>4, AccountsAssumption, FS_Subset
  <2>2. \A y \in T \cup {a} : b[y] \in Int
    BY <1>2
  <2>3. SumOver(b, T \cup {a}) = SumOver(b, T) + b[a]
    BY <1>4, <2>1, <2>2, SumAdd
  <2>4. Net(T \cup {a}, F, D) = Net(T, F, D) + Net({a}, F, D)
    BY <2>1, NetOfAccounts
  <2>5. SumOver(b, T) = Net(T, F, D) /\ b[a] = Net({a}, F, D)
    BY <1>1, <1>4
  <2>6. SumOver(b, T \cup {a}) = Net(T \cup {a}, F, D)
    BY <2>3, <2>4, <2>5
  <2> QED
    BY <2>1, <2>6
<1>5. \A T \in SUBSET Accounts : T \in G
  <2> HIDE DEF G
  <2> QED
    BY <1>3, <1>4, AccountsAssumption, SetInduction
<1>6. \A T \in SUBSET Accounts : SumOver(b, T) = Net(T, F, D)
  BY <1>5
<1> QED
  BY <1>2, <1>6 DEF b, D

\* Both columns of the trial balance are equal.
LEMMA ColumnsAgree ==
  ASSUME TypeOK, Balanced, NEW F \in Scopes, NEW day
  PROVE  Presented("DEBIT", TrialBalance(F, day)) = Presented("CREDIT", TrialBalance(F, day))
<1> DEFINE b == TrialBalance(F, day)
           On(side) == {a \in Accounts : PresentedSide(a, b[a]) = side}
           debits == On("DEBIT")
           credits == On("CREDIT")
           d == [a \in debits |-> b[a]]
           c == [a \in credits |-> -b[a]]
           z == [a \in credits |-> 0]
<1>1. (\A a \in Accounts : b[a] \in Int) /\ SumOver(b, Accounts) = 0
  <2>1. SumOver(b, Accounts) = Net(Accounts, F, UpTo(day))
    BY TrialBalanceSum
  <2>2. Net(Accounts, F, UpTo(day)) = 0
    BY NetOfEverything
  <2> QED
    BY <2>1, <2>2, TrialBalanceSum
<1> HIDE DEF b
<1>2. /\ debits \in SUBSET Accounts /\ credits \in SUBSET Accounts
      /\ debits \cap credits = {} /\ debits \cup credits = Accounts
  BY DEF PresentedSide
<1>3. Presented("DEBIT", b) = SumOver(d, debits) /\ Presented("CREDIT", b) = SumOver(c, credits)
  BY DEF Presented
<1>4. /\ \A a \in debits : b[a] \in Int /\ d[a] = b[a]
      /\ \A a \in credits : b[a] \in Int /\ c[a] \in Int /\ z[a] = b[a] + c[a] /\ z[a] = 0
  BY <1>1, <1>2
<1> HIDE DEF debits, credits, d, c, z
<1>5. IsFiniteSet(debits) /\ IsFiniteSet(credits)
  BY <1>2, AccountsAssumption, FS_Subset
<1>6. SumOver(b, debits \cup credits) = SumOver(b, debits) + SumOver(b, credits)
  BY <1>1, <1>2, AccountsAssumption, SumUnion
<1>7. SumOver(d, debits) = SumOver(b, debits) /\ SumOver(b, debits) \in Int
  BY <1>4, <1>5, SumCongruent, SumType
<1>8. SumOver(z, credits) = SumOver(b, credits) + SumOver(c, credits)
  BY <1>4, <1>5, SumPlus
<1>9. SumOver(z, credits) = 0 /\ SumOver(b, credits) \in Int /\ SumOver(c, credits) \in Int
  BY <1>4, <1>5, SumZero, SumType
<1> QED
  <2> DEFINE left == SumOver(b, debits)
             right == SumOver(b, credits)
             credit == SumOver(c, credits)
  <2>1. left \in Int /\ right \in Int /\ credit \in Int /\ left + right = 0 /\ right + credit = 0
    <3>1. left + right = 0
      BY <1>1, <1>2, <1>6
    <3>2. right + credit = 0
      BY <1>8, <1>9
    <3> QED
      BY <1>7, <1>9, <3>1, <3>2
  <2>2. Presented("DEBIT", b) = left /\ Presented("CREDIT", b) = credit
    BY <1>3, <1>7
  <2> HIDE DEF left, right, credit
  <2>3. Presented("DEBIT", b) = Presented("CREDIT", b)
    BY <2>1, <2>2
  <2> QED
    BY <2>3 DEF b

\* The nets of the five classes sum to nothing.
LEMMA ClassesSum ==
  ASSUME TypeOK, Balanced, NEW F \in Scopes, NEW D
  PROVE  Net(OfClass({"ASSET"}), F, D) + Net(OfClass({"LIABILITY"}), F, D) + Net(OfClass({"EQUITY"}), F, D)
           + Net(OfClass({"INCOME"}), F, D) + Net(OfClass({"EXPENSE"}), F, D) = 0
<1> DEFINE A == OfClass({"ASSET"})
           L == OfClass({"LIABILITY"})
           E == OfClass({"EQUITY"})
           I == OfClass({"INCOME"})
           X == OfClass({"EXPENSE"})
<1>1. /\ A \cap L = {} /\ (A \cup L) \cap E = {} /\ (A \cup L \cup E) \cap I = {}
      /\ (A \cup L \cup E \cup I) \cap X = {} /\ A \cup L \cup E \cup I \cup X = Accounts
  BY ClassificationAssumption DEF OfClass
<1> HIDE DEF A, L, E, I, X
<1>2. Net(A \cup L, F, D) = Net(A, F, D) + Net(L, F, D)
  BY <1>1, NetOfAccounts
<1>3. Net(A \cup L \cup E, F, D) = Net(A \cup L, F, D) + Net(E, F, D)
  BY <1>1, NetOfAccounts
<1>4. Net(A \cup L \cup E \cup I, F, D) = Net(A \cup L \cup E, F, D) + Net(I, F, D)
  BY <1>1, NetOfAccounts
<1>5. Net(A \cup L \cup E \cup I \cup X, F, D) = Net(A \cup L \cup E \cup I, F, D) + Net(X, F, D)
  BY <1>1, NetOfAccounts
<1>6. Net(A \cup L \cup E \cup I \cup X, F, D) = 0
  BY <1>1, NetOfEverything
<1>7. /\ Net(A, F, D) \in Int /\ Net(L, F, D) \in Int /\ Net(E, F, D) \in Int
      /\ Net(I, F, D) \in Int /\ Net(X, F, D) \in Int
  BY NetIsSum
<1>8. Net(A, F, D) + Net(L, F, D) + Net(E, F, D) + Net(I, F, D) + Net(X, F, D) = 0
  BY <1>2, <1>3, <1>4, <1>5, <1>6, <1>7
<1> QED
  BY <1>8 DEF A, L, E, I, X

\* The balance sheet is out by what was earned before the cutover.
LEMMA SheetIsOutBy ==
  ASSUME TypeOK, Balanced, NEW F \in Scopes, NEW day
  PROVE  BalanceCheckDifference(F, day) = Surplus(F, UpTo(day) \ SinceCutover(UpTo(day)))
<1> DEFINE U == UpTo(day)
           S == SinceCutover(U)
           B == U \ S
           N(class, days) == Net(OfClass({class}), F, days)
<1>1. U = B \cup S /\ B \cap S = {}
  BY DEF SinceCutover
<1>2. N("ASSET", U) + N("LIABILITY", U) + N("EQUITY", U) + N("INCOME", U) + N("EXPENSE", U) = 0
  BY ClassesSum
<1> HIDE DEF U, S, B
<1>3. ASSUME NEW class PROVE N(class, U) = N(class, B) + N(class, S)
  <2>1. Net(OfClass({class}), F, B \cup S) = Net(OfClass({class}), F, B) + Net(OfClass({class}), F, S)
    BY <1>1, NetOfDays
  <2> QED
    BY <2>1, <1>1
<1>4. ASSUME NEW class, NEW days PROVE N(class, days) \in Int
  BY NetIsSum
<1>5. /\ N("INCOME", U) = N("INCOME", B) + N("INCOME", S) /\ N("EXPENSE", U) = N("EXPENSE", B) + N("EXPENSE", S)
      /\ N("ASSET", U) \in Int /\ N("LIABILITY", U) \in Int /\ N("EQUITY", U) \in Int
      /\ N("INCOME", B) \in Int /\ N("INCOME", S) \in Int /\ N("EXPENSE", B) \in Int /\ N("EXPENSE", S) \in Int
  <2> HIDE DEF N
  <2> QED
    BY <1>3, <1>4
<1>6. /\ BalanceCheckDifference(F, day) =
           N("ASSET", U) - ((-N("LIABILITY", U)) + (-N("EQUITY", U)) + ((-N("INCOME", S)) - N("EXPENSE", S)))
      /\ Surplus(F, B) = (-N("INCOME", B)) - N("EXPENSE", B)
  BY DEF BalanceCheckDifference, TotalAssets, TotalLiabilitiesAndEquity, CurrentEarnings, Surplus, Total,
         AccountNet, CreditNormal, U, S
<1> HIDE DEF N
<1>7. BalanceCheckDifference(F, day) = Surplus(F, B)
  BY <1>2, <1>5, <1>6
<1> QED
  BY <1>7 DEF U, S, B

\* Whatever is posted, reversed and retried, and however accounts are
\* classified, the reported figures balance on every day.
THEOREM BooksAlwaysBalance == Spec => []BooksBalance
<1>1. Inductive /\ Balanced => BooksBalance
  <2>1. ASSUME Inductive, Balanced PROVE BooksBalance
    <3>1. TypeOK
      BY <2>1 DEF Inductive
    <3> QED
      BY <2>1, <3>1, ColumnsAgree, SheetIsOutBy DEF BooksBalance
  <2> QED
    BY <2>1
<1> QED
  BY <1>1, InductiveHolds, BalancedHolds, PTL

-----------------------------------------------------------------------------
(***************************************************************************)
(* Bank statements and their matching (BankMatching, BankReconciliation).  *)
(***************************************************************************)
BankReceiptRows == [key : Rows \cup Keys, amount : Int, day : Int, status : {"RECORDED", "REVERSED"}]

Serving == serving = [c \in Handlers |-> serving[c]]

\* A key has one receipt, and a deposit that is to have one is a bank row.
KeysOnce ==
  /\ Serving
  /\ receipts \in Seq(BankReceiptRows)
  /\ \A r, s \in DOMAIN receipts : receipts[r].key = receipts[s].key => r = s
  /\ \A c \in Handlers : serving[c].op = "RECEIPT" => serving[c].txn \in Rows

LEMMA NewReceiptType == \A key \in Rows \cup Keys : Bank!NewReceipt(key) \in BankReceiptRows /\ Bank!NewReceipt(key).key = key
BY RowsAssumption, KeysAssumption DEF Bank!NewReceipt, BankReceiptRows

\* A receipt is recorded under a key that has none, or nothing is.
LEMMA RecordOnce ==
  ASSUME KeysOnce, NEW key \in Rows \cup Keys, Bank!Record(key)
  PROVE  /\ receipts' \in Seq(BankReceiptRows)
         /\ \A r, s \in DOMAIN receipts' : receipts'[r].key = receipts'[s].key => r = s
<1>1. CASE UNCHANGED receipts
  BY <1>1 DEF KeysOnce
<1>2. CASE receipts' = Append(receipts, Bank!NewReceipt(key)) /\ Bank!WithKey(key) = {}
  <2> DEFINE new == Bank!NewReceipt(key)
  <2>1. new \in BankReceiptRows /\ new.key = key
    BY NewReceiptType
  <2>2. \A r \in DOMAIN receipts : receipts[r].key # key
    BY <1>2 DEF KeysOnce, Bank!WithKey, Bank!ReceiptIds
  <2> HIDE DEF new
  <2>3. receipts' = Append(receipts, new)
    BY <1>2 DEF new
  <2> QED
    BY <2>1, <2>2, <2>3 DEF KeysOnce
<1> QED
  BY <1>1, <1>2 DEF Bank!Record

LEMMA KeysOnceStep ==
  ASSUME KeysOnce, Bank!Next
  PROVE  KeysOnce'
<1>1. CASE Bank!RecordByHand
  <2>1. PICK key \in Keys : Bank!Record(key)
    BY <1>1 DEF Bank!RecordByHand
  <2>2. serving' = serving
    BY <1>1 DEF Bank!RecordByHand
  <2> QED
    BY <2>1, <2>2, RecordOnce DEF KeysOnce, Serving
<1>2. CASE Bank!ReverseReceipt
  <2>1. PICK r \in Bank!ReceiptIds : receipts' = [receipts EXCEPT ![r].status = "REVERSED"]
    BY <1>2 DEF Bank!ReverseReceipt
  <2> DEFINE row == [receipts[r] EXCEPT !.status = "REVERSED"]
  <2>2. r \in DOMAIN receipts /\ receipts[r] \in BankReceiptRows
    BY DEF KeysOnce, Bank!ReceiptIds
  <2>3. receipts' = [receipts EXCEPT ![r] = row] /\ row \in BankReceiptRows /\ row.key = receipts[r].key
    BY <2>1, <2>2 DEF BankReceiptRows
  <2> HIDE DEF row
  <2>4. serving' = serving
    BY <1>2 DEF Bank!ReverseReceipt
  <2> QED
    BY <2>2, <2>3, <2>4 DEF KeysOnce, Serving
<1>3. ASSUME NEW c \in Handlers, Bank!WriteReceipt(c) PROVE KeysOnce'
  <2>1. serving[c].txn \in Rows
    BY <1>3 DEF KeysOnce, Bank!WriteReceipt
  <2>2. /\ receipts' \in Seq(BankReceiptRows)
        /\ \A r, s \in DOMAIN receipts' : receipts'[r].key = receipts'[s].key => r = s
    BY <1>3, <2>1, RecordOnce DEF Bank!WriteReceipt
  <2>3. PICK r \in 1..Len(receipts') : serving' = [serving EXCEPT ![c] = [op |-> "LINK", txn |-> serving[c].txn, target |-> Bank!Receipt(r)]]
    BY <1>3 DEF Bank!WriteReceipt
  <2>4. Serving' /\ \A d \in Handlers : serving'[d].op = "RECEIPT" => serving'[d] = serving[d]
    BY <2>3 DEF KeysOnce, Serving
  <2> QED
    BY <2>2, <2>4 DEF KeysOnce
<1>4. ASSUME NEW c \in Handlers, NEW what, receipts' = receipts, serving' = [serving EXCEPT ![c] = what],
             what.op = "RECEIPT" => what.txn \in Rows
      PROVE  KeysOnce'
  BY <1>4 DEF KeysOnce, Serving
<1>5. ASSUME NEW c \in Handlers, Bank!Read(c) \/ Bank!ReadRecon(c) PROVE KeysOnce'
  <2>1. receipts' = receipts
    BY <1>5 DEF Bank!Read, Bank!ReadRecon
  <2>2. /\ serving' = [serving EXCEPT ![c] = serving'[c]]
        /\ serving'[c].op = "RECEIPT" => serving'[c].txn \in Rows
    <3>0. Serving
      BY DEF KeysOnce
    <3>1. CASE \E t \in Bank!Present : Bank!Begin(c, [op |-> "RECEIPT", txn |-> t])
      BY <3>0, <3>1 DEF Bank!Begin, Bank!Present, Serving
    <3>2. CASE \E t \in Bank!Present : Bank!Begin(c, [op |-> "IGNORE", txn |-> t])
      BY <3>0, <3>2 DEF Bank!Begin, Serving
    <3>3. CASE \E t \in Bank!Present, target \in Bank!Targets : Bank!Begin(c, [op |-> "LINK", txn |-> t, target |-> target])
      BY <3>0, <3>3 DEF Bank!Begin, Serving
    <3>4. CASE \E m \in Bank!MatchIds : \/ Bank!Begin(c, [op |-> "CONFIRM", match |-> m, txn |-> matches[m].txn])
                                       \/ Bank!Begin(c, [op |-> "UNLINK", match |-> m, txn |-> matches[m].txn])
      BY <3>0, <3>4 DEF Bank!Begin, Serving
    <3>5. CASE \E t \in Bank!Present : Bank!Begin(c, [op |-> "SUGGEST", txn |-> t, picked |-> Bank!Picks(t), seen |-> txns[t].match])
      BY <3>0, <3>5 DEF Bank!Begin, Serving
    <3>6. CASE \E file \in Files : Bank!Begin(c, [op |-> "APPLY", file |-> file])
      BY <3>0, <3>6 DEF Bank!Begin, Serving
    <3>7. CASE \E span \in Spans, supersedes \in {0} \cup Bank!ReconIds : \E closing \in Closings[span.first] :
                 Bank!Begin(c, [op |-> "DRAFT", span |-> span, closing |-> closing, supersedes |-> supersedes])
      BY <3>0, <3>7 DEF Bank!Begin, Serving
    <3>8. CASE \E k \in Bank!ReconIds : Bank!Begin(c, [op |-> "COMPLETE", recon |-> k]) \/ Bank!Begin(c, [op |-> "REOPEN", recon |-> k])
      BY <3>0, <3>8 DEF Bank!Begin, Serving
    <3> QED
      BY <1>5, <3>1, <3>2, <3>3, <3>4, <3>5, <3>6, <3>7, <3>8, Zenon DEF Bank!Read, Bank!ReadRecon, Bank!With
  <2> QED
    BY <1>4, <2>1, <2>2
<1>6. ASSUME NEW c \in Handlers, Bank!Write(c) \/ Bank!Abandon(c) \/ Bank!WriteRecon(c) PROVE KeysOnce'
  <2>1. receipts' = receipts
    BY <1>6 DEF Bank!Write, Bank!Abandon, Bank!WriteRecon, Bank!Apply, Bank!Suggest, Bank!Confirm, Bank!ManualMatch,
                Bank!ReverseMatch, Bank!Ignore, Bank!Complete, Bank!Reopen
  <2>2. serving' = [serving EXCEPT ![c] = Bank!Idle]
    BY <1>6 DEF Bank!Write, Bank!Abandon, Bank!WriteRecon, Bank!End
  <2>3. Bank!Idle.op # "RECEIPT"
    BY DEF Bank!Idle
  <2> QED
    BY <1>4, <2>1, <2>2, <2>3
<1> QED
  BY <1>1, <1>2, <1>3, <1>5, <1>6 DEF Bank!Next, Bank!Step

\* Whatever requests overlap, die between their transactions and are made
\* again, and whatever receipts are recorded by hand or reversed meanwhile: a
\* deposit has one receipt (BankMatchingService.createReceiptFromTransaction).
THEOREM OneReceiptAlways == Bank!Spec => []OneReceiptPerDeposit
<1>1. Bank!InitAll => KeysOnce
  BY DEF Bank!InitAll, Bank!Init, KeysOnce, Serving, Bank!Idle
<1>2. KeysOnce /\ [Bank!Next]_(Bank!allVars) => KeysOnce'
  <2>1. CASE UNCHANGED Bank!allVars
    BY <2>1 DEF Bank!allVars, Bank!vars, KeysOnce, Serving
  <2> QED
    BY <2>1, KeysOnceStep
<1>3. KeysOnce => OneReceiptPerDeposit
  <2> SUFFICES ASSUME KeysOnce, NEW t \in Rows PROVE Cardinality(Bank!WithKey(t)) <= 1
    BY DEF OneReceiptPerDeposit, Bank!OneReceiptPerDeposit, Cardinality, Bank!Cardinality
  <2>1. CASE Bank!WithKey(t) = {}
    BY <2>1, FS_EmptySet
  <2>2. CASE Bank!WithKey(t) # {}
    <3>1. PICK r : Bank!WithKey(t) = {r}
      BY <2>2 DEF KeysOnce, Bank!WithKey, Bank!ReceiptIds
    <3> QED
      BY <3>1, FS_Singleton
  <2> QED
    BY <2>1, <2>2
<1> QED
  BY <1>1, <1>2, <1>3, PTL DEF Bank!Spec
-----------------------------------------------------------------------------
(***************************************************************************)
(* Matching and reconciling, for any requests at once.  Nothing is locked, *)
(* so the inductive invariant speaks of a transaction as long as no two    *)
(* requests have handled it together: it is matched by one match exactly,  *)
(* and whoever handles it writes what is still right.  Other transactions  *)
(* may be handled by anybody meanwhile.                                    *)
(***************************************************************************)
Statuses == {"ABSENT", "UNMATCHED", "SUGGESTED", "MATCHED", "IGNORED"}
TargetRows == [table : {"RECEIPT", "REVERSAL", "PAYMENT"}, id : Nat \cup DOMAIN Payments]
MatchRows == [txn : Rows, target : TargetRows, status : {"SUGGESTED", "CONFIRMED", "REVERSED"}]
ReconRows ==
  [span : Spans, opening : Int, closing : Int, status : {"DRAFT", "RECONCILED", "REOPENED"},
   supersedes : Nat]
TxnRows == [match : Statuses, recon : Nat]

\* What a request carries from its reads to its writes.
BankJobs ==
  [op : {"IDLE"}] \cup [op : {"APPLY"}, file : Files]
    \cup [op : {"SUGGEST"}, txn : Rows, picked : SUBSET TargetRows, seen : Statuses]
    \cup [op : {"CONFIRM", "UNLINK"}, match : Nat, txn : Rows]
    \cup [op : {"LINK"}, txn : Rows, target : TargetRows]
    \cup [op : {"IGNORE", "RECEIPT"}, txn : Rows]
    \cup [op : {"DRAFT"}, span : Spans, closing : Int, supersedes : Nat]
    \cup [op : {"COMPLETE", "REOPEN"}, recon : Nat]

JobRight(q) ==
  /\ q \in BankJobs
  /\ q.op \in {"CONFIRM", "UNLINK"} => q.match \in DOMAIN matches /\ matches[q.match].txn = q.txn
  /\ q.op \in {"COMPLETE", "REOPEN"} => q.recon \in DOMAIN recons

RowsTyped == txns \in [Rows -> TxnRows] /\ matches \in Seq(MatchRows)

BankTypeOK ==
  /\ Serving /\ RowsTyped /\ recons \in Seq(ReconRows)
  /\ \A c \in Handlers : JobRight(serving[c])

AboutOne == {"SUGGEST", "CONFIRM", "LINK", "UNLINK", "IGNORE", "RECEIPT"}
About(q, t) == q.op \in AboutOne /\ q.txn = t

\* A matched transaction has one confirmed match, and no suggestion; the
\* others have no confirmed match, and one suggestion at most.
ConfirmedOf(t) == {m \in DOMAIN matches : matches[m].txn = t /\ matches[m].status = "CONFIRMED"}
SuggestedOf(t) == {m \in DOMAIN matches : matches[m].txn = t /\ matches[m].status = "SUGGESTED"}
MatchedRightly(t) ==
  /\ txns[t].match = "MATCHED" => (\E m : ConfirmedOf(t) = {m}) /\ SuggestedOf(t) = {}
  /\ txns[t].match # "MATCHED" => ConfirmedOf(t) = {}
  /\ \A m, n \in SuggestedOf(t) : m = n

\* A request about a transaction will write what is still right.
Fits(q, t) ==
  /\ q.op \in {"SUGGEST", "LINK", "IGNORE", "RECEIPT"} => txns[t].match # "MATCHED"
  /\ q.op = "CONFIRM" => q.match \in SuggestedOf(t)
  /\ q.op = "UNLINK" => q.match \in ConfirmedOf(t)

Sound(t) ==
  /\ txns[t].match = "MATCHED" => ConfirmedOf(t) # {}
  /\ txns[t].recon # 0 =>
       /\ txns[t].recon \in DOMAIN recons
       /\ recons[txns[t].recon].status = "RECONCILED"
       /\ Bank!Within(recons[txns[t].recon].span, Day[t])

Alone(t) == \A c, d \in Handlers : About(serving[c], t) /\ About(serving[d], t) => c = d

Single(t) ==
  t \notin crossed =>
    /\ MatchedRightly(t) /\ Alone(t)
    /\ \A c \in Handlers : About(serving[c], t) => Fits(serving[c], t)

\* Nobody is about to take its match from a transaction that is reconciled.
Undoing == {"SUGGEST", "UNLINK", "IGNORE"}
Held(t) ==
  txns[t].recon # 0 /\ t \notin overtaken =>
    /\ txns[t].match = "MATCHED"
    /\ \A c \in Handlers : About(serving[c], t) => serving[c].op \notin Undoing

BankSound == BankTypeOK /\ \A t \in Rows : Sound(t) /\ Single(t) /\ Held(t)

-----------------------------------------------------------------------------
(***************************************************************************)
(* What the steps do, told by the status and the matches of a transaction. *)
(***************************************************************************)
\* Only the row and the matches of t change.
Only(t) ==
  /\ RowsTyped'
  /\ txns'[t].recon = txns[t].recon
  /\ \A m \in DOMAIN matches : m \in DOMAIN matches' /\ matches'[m].txn = matches[m].txn
  /\ \A u \in Rows \ {t} : /\ txns'[u] = txns[u]
                           /\ ConfirmedOf(u)' = ConfirmedOf(u) /\ SuggestedOf(u)' = SuggestedOf(u)

Suggests(t) ==
  /\ txns'[t].match = txns[t].match \/ txns'[t].match \in {"UNMATCHED", "SUGGESTED"}
  /\ ConfirmedOf(t)' = ConfirmedOf(t)
  /\ \A m, n \in SuggestedOf(t)' : m = n
Confirms(t, m) ==
  /\ txns'[t].match = "MATCHED"
  /\ ConfirmedOf(t)' = ConfirmedOf(t) \cup {m} /\ SuggestedOf(t)' = SuggestedOf(t) \ {m}
Links(t) ==
  /\ txns'[t].match = "MATCHED"
  /\ \E m : ConfirmedOf(t)' = ConfirmedOf(t) \cup {m}
  /\ SuggestedOf(t)' = {}
Unlinks(t, m) ==
  /\ txns'[t].match = "UNMATCHED"
  /\ ConfirmedOf(t)' = ConfirmedOf(t) \ {m} /\ SuggestedOf(t)' = SuggestedOf(t) \ {m}
Ignores(t) ==
  /\ txns'[t].match = "IGNORED"
  /\ ConfirmedOf(t)' = ConfirmedOf(t) /\ SuggestedOf(t)' = SuggestedOf(t)

Wrote(q) ==
  /\ q.op \in AboutOne \ {"RECEIPT"} /\ Only(q.txn)
  /\ q.op = "SUGGEST" => Suggests(q.txn)
  /\ q.op = "CONFIRM" => Confirms(q.txn, q.match)
  /\ q.op = "LINK" => Links(q.txn)
  /\ q.op = "UNLINK" => Unlinks(q.txn, q.match)
  /\ q.op = "IGNORE" => Ignores(q.txn)

LEMMA MatchRow ==
  ASSUME RowsTyped, NEW m \in DOMAIN matches
  PROVE  matches[m] \in MatchRows /\ matches[m].txn \in Rows
<1>1. \A i \in DOMAIN matches : matches[i] \in MatchRows
  BY DEF RowsTyped
<1> QED
  BY <1>1 DEF MatchRows

\* What Mark does of a row.
LEMMA Marked ==
  ASSUME RowsTyped, NEW t \in Rows, NEW status \in {"UNMATCHED", "SUGGESTED", "MATCHED", "IGNORED"},
         Bank!Mark(t, status)
  PROVE  /\ txns' \in [Rows -> TxnRows]
         /\ txns'[t].match = status /\ txns'[t].recon = txns[t].recon
         /\ \A u \in Rows \ {t} : txns'[u] = txns[u]
<1> DEFINE row == [txns[t] EXCEPT !.match = status]
<1>1. txns[t] \in TxnRows /\ txns \in [Rows -> TxnRows]
  BY DEF RowsTyped
<1>2. row \in TxnRows /\ row.match = status /\ row.recon = txns[t].recon
  BY <1>1 DEF TxnRows, Statuses
<1>3. txns' = [txns EXCEPT ![t] = row]
  BY DEF Bank!Mark
<1> HIDE DEF row
<1> QED
  BY <1>1, <1>2, <1>3

\* What superseding a transaction's suggestions does.
LEMMA Superseded ==
  ASSUME RowsTyped, NEW t \in Rows
  PROVE  /\ Bank!Supersede(t) \in Seq(MatchRows)
         /\ DOMAIN Bank!Supersede(t) = DOMAIN matches
         /\ Len(Bank!Supersede(t)) = Len(matches)
         /\ \A m \in DOMAIN matches :
              /\ Bank!Supersede(t)[m].txn = matches[m].txn
              /\ Bank!Supersede(t)[m].status
                   = IF matches[m].txn = t /\ matches[m].status = "SUGGESTED" THEN "REVERSED" ELSE matches[m].status
<1> DEFINE Row(m) == IF matches[m].txn = t /\ matches[m].status = "SUGGESTED"
                     THEN [matches[m] EXCEPT !.status = "REVERSED"] ELSE matches[m]
<1>1. /\ Len(matches) \in Nat /\ DOMAIN matches = 1..Len(matches)
      /\ \A m \in DOMAIN matches : matches[m] \in MatchRows
  BY DEF RowsTyped
<1>2. \A m \in 1..Len(matches) :
        /\ Row(m) \in MatchRows /\ Row(m).txn = matches[m].txn
        /\ Row(m).status = IF matches[m].txn = t /\ matches[m].status = "SUGGESTED" THEN "REVERSED" ELSE matches[m].status
  BY <1>1 DEF MatchRows
<1>3. Bank!Supersede(t) = [m \in 1..Len(matches) |-> Row(m)]
  BY DEF Bank!Supersede, Bank!MatchIds
<1> HIDE DEF Row
<1> QED
  BY <1>1, <1>2, <1>3

LEMMA RowAppended ==
  ASSUME NEW S, NEW s \in Seq(S), NEW row \in S
  PROVE  /\ Append(s, row) \in Seq(S)
         /\ DOMAIN Append(s, row) = DOMAIN s \cup {Len(s) + 1}
         /\ Len(s) + 1 \notin DOMAIN s
         /\ Append(s, row)[Len(s) + 1] = row
         /\ \A m \in DOMAIN s : Append(s, row)[m] = s[m]
OBVIOUS

\* A match is added where the suggestions were superseded.
Superseding(s, t) ==
  /\ s \in Seq(MatchRows) /\ DOMAIN s = DOMAIN matches
  /\ \A m \in DOMAIN matches :
       /\ s[m].txn = matches[m].txn
       /\ s[m].status = IF matches[m].txn = t /\ matches[m].status = "SUGGESTED" THEN "REVERSED" ELSE matches[m].status

LEMMA Appended ==
  ASSUME NEW t \in Rows, NEW s, Superseding(s, t), NEW row \in MatchRows, row.txn = t, matches' = Append(s, row)
  PROVE  /\ matches' \in Seq(MatchRows)
         /\ \A m \in DOMAIN matches : m \in DOMAIN matches' /\ matches'[m].txn = matches[m].txn
         /\ \A u \in Rows \ {t} : ConfirmedOf(u)' = ConfirmedOf(u) /\ SuggestedOf(u)' = SuggestedOf(u)
         /\ row.status = "SUGGESTED" => ConfirmedOf(t)' = ConfirmedOf(t) /\ \A m, n \in SuggestedOf(t)' : m = n
         /\ row.status = "CONFIRMED" => SuggestedOf(t)' = {} /\ \E m : ConfirmedOf(t)' = ConfirmedOf(t) \cup {m}
<1>1. /\ DOMAIN s = DOMAIN matches
      /\ \A m \in DOMAIN matches :
           /\ s[m].txn = matches[m].txn
           /\ s[m].status = IF matches[m].txn = t /\ matches[m].status = "SUGGESTED" THEN "REVERSED" ELSE matches[m].status
  BY DEF Superseding
<1>2. PICK new :
        /\ matches' \in Seq(MatchRows) /\ DOMAIN matches' = DOMAIN matches \cup {new}
        /\ new \notin DOMAIN matches
        /\ matches'[new] = row /\ \A m \in DOMAIN matches : matches'[m] = s[m]
  <2>1. s \in Seq(MatchRows)
    BY DEF Superseding
  <2> QED
    BY <1>1, <2>1, RowAppended
<1>3. \A m \in DOMAIN matches : m \in DOMAIN matches' /\ matches'[m].txn = matches[m].txn
  BY <1>1, <1>2
<1>4. ASSUME NEW u \in Rows \ {t} PROVE ConfirmedOf(u)' = ConfirmedOf(u) /\ SuggestedOf(u)' = SuggestedOf(u)
  BY <1>1, <1>2 DEF ConfirmedOf, SuggestedOf
<1>5. ASSUME row.status = "SUGGESTED" PROVE ConfirmedOf(t)' = ConfirmedOf(t) /\ SuggestedOf(t)' \subseteq {new}
  BY <1>1, <1>2, <1>5 DEF ConfirmedOf, SuggestedOf
<1>6. ASSUME row.status = "CONFIRMED" PROVE SuggestedOf(t)' = {} /\ ConfirmedOf(t)' = ConfirmedOf(t) \cup {new}
  BY <1>1, <1>2, <1>6 DEF ConfirmedOf, SuggestedOf
<1> QED
  BY <1>2, <1>3, <1>4, <1>5, <1>6

\* A match changes its status.
LEMMA Restated ==
  ASSUME RowsTyped, NEW m \in DOMAIN matches, NEW status \in {"CONFIRMED", "REVERSED"}, NEW t, t = matches[m].txn,
         matches' = [matches EXCEPT ![m].status = status]
  PROVE  /\ matches' \in Seq(MatchRows)
         /\ \A n \in DOMAIN matches : n \in DOMAIN matches' /\ matches'[n].txn = matches[n].txn
         /\ \A u \in Rows \ {t} : ConfirmedOf(u)' = ConfirmedOf(u) /\ SuggestedOf(u)' = SuggestedOf(u)
         /\ SuggestedOf(t)' = SuggestedOf(t) \ {m}
         /\ ConfirmedOf(t)' = IF status = "CONFIRMED" THEN ConfirmedOf(t) \cup {m} ELSE ConfirmedOf(t) \ {m}
<1> DEFINE row == [matches[m] EXCEPT !.status = status]
<1>1. matches[m] \in MatchRows /\ matches \in Seq(MatchRows)
  BY MatchRow DEF RowsTyped
<1>2. row \in MatchRows /\ row.txn = t /\ row.status = status
  BY <1>1 DEF MatchRows
<1>3. matches' = [matches EXCEPT ![m] = row]
  OBVIOUS
<1> HIDE DEF row
<1>4. /\ matches' \in Seq(MatchRows) /\ DOMAIN matches' = DOMAIN matches
      /\ matches'[m] = row /\ \A n \in DOMAIN matches \ {m} : matches'[n] = matches[n]
  BY <1>1, <1>2, <1>3
<1> QED
  BY <1>2, <1>4 DEF ConfirmedOf, SuggestedOf

LEMMA SuggestWrites ==
  ASSUME RowsTyped, NEW t \in Rows, NEW picked \in SUBSET TargetRows, NEW seen, Bank!Suggest(t, picked, seen)
  PROVE  Only(t) /\ Suggests(t)
<1>1. txns \in [Rows -> TxnRows]
  BY DEF RowsTyped
<1>2. CASE picked = {}
  <2> DEFINE s == Bank!Supersede(t)
  <2>1. /\ s \in Seq(MatchRows) /\ DOMAIN s = DOMAIN matches
        /\ \A m \in DOMAIN matches :
             /\ s[m].txn = matches[m].txn
             /\ s[m].status = IF matches[m].txn = t /\ matches[m].status = "SUGGESTED" THEN "REVERSED" ELSE matches[m].status
    BY Superseded
  <2>2. matches' = s
    BY <1>2 DEF Bank!Suggest
  <2> HIDE DEF s
  <2>3. /\ txns' \in [Rows -> TxnRows] /\ txns'[t].recon = txns[t].recon /\ \A u \in Rows \ {t} : txns'[u] = txns[u]
        /\ txns'[t].match = txns[t].match \/ txns'[t].match = "UNMATCHED"
    <3>1. CASE UNCHANGED txns
      BY <1>1, <3>1
    <3>2. CASE Bank!Mark(t, "UNMATCHED")
      BY <3>2, Marked
    <3> QED
      BY <1>2, <3>1, <3>2 DEF Bank!Suggest
  <2>4. SuggestedOf(t)' = {} /\ ConfirmedOf(t)' = ConfirmedOf(t)
    BY <2>1, <2>2 DEF SuggestedOf, ConfirmedOf
  <2>5. ASSUME NEW u \in Rows \ {t} PROVE ConfirmedOf(u)' = ConfirmedOf(u) /\ SuggestedOf(u)' = SuggestedOf(u)
    BY <2>1, <2>2 DEF SuggestedOf, ConfirmedOf
  <2>6. Only(t)
    BY <2>1, <2>2, <2>3, <2>5 DEF Only, RowsTyped
  <2>7. Suggests(t)
    BY <2>3, <2>4 DEF Suggests
  <2> QED
    BY <2>6, <2>7
<1>3. CASE picked # {}
  <2>1. PICK target \in picked : matches' = Append(Bank!Supersede(t), [txn |-> t, target |-> target, status |-> "SUGGESTED"])
    BY <1>3 DEF Bank!Suggest
  <2>2. target \in TargetRows
    OBVIOUS
  <2>3. Bank!Mark(t, "SUGGESTED")
    BY <1>3 DEF Bank!Suggest
  <2>4. /\ txns' \in [Rows -> TxnRows] /\ txns'[t].match = "SUGGESTED" /\ txns'[t].recon = txns[t].recon
        /\ \A u \in Rows \ {t} : txns'[u] = txns[u]
    BY <2>3, Marked
  <2>5. /\ matches' \in Seq(MatchRows)
        /\ \A m \in DOMAIN matches : m \in DOMAIN matches' /\ matches'[m].txn = matches[m].txn
        /\ \A u \in Rows \ {t} : ConfirmedOf(u)' = ConfirmedOf(u) /\ SuggestedOf(u)' = SuggestedOf(u)
        /\ ConfirmedOf(t)' = ConfirmedOf(t) /\ \A m, n \in SuggestedOf(t)' : m = n
    <3> DEFINE row == [txn |-> t, target |-> target, status |-> "SUGGESTED"]
    <3>1. row \in MatchRows /\ row.txn = t /\ row.status = "SUGGESTED"
      BY <2>2 DEF MatchRows
    <3>2. matches' = Append(Bank!Supersede(t), row)
      BY <2>1
    <3>3. Superseding(Bank!Supersede(t), t)
      BY Superseded DEF Superseding
    <3> HIDE DEF row
    <3> QED
      BY <3>1, <3>2, <3>3, Appended
  <2>6. Only(t)
    BY <2>4, <2>5 DEF Only, RowsTyped
  <2>7. Suggests(t)
    BY <2>4, <2>5 DEF Suggests
  <2> QED
    BY <2>6, <2>7
<1> QED
  BY <1>2, <1>3

LEMMA LinkWrites ==
  ASSUME RowsTyped, NEW t \in Rows, NEW target \in TargetRows, Bank!ManualMatch(t, target)
  PROVE  Only(t) /\ Links(t)
<1>1. /\ txns' \in [Rows -> TxnRows] /\ txns'[t].match = "MATCHED" /\ txns'[t].recon = txns[t].recon
      /\ \A u \in Rows \ {t} : txns'[u] = txns[u]
  BY Marked DEF Bank!ManualMatch
<1>2. /\ matches' \in Seq(MatchRows)
      /\ \A m \in DOMAIN matches : m \in DOMAIN matches' /\ matches'[m].txn = matches[m].txn
      /\ \A u \in Rows \ {t} : ConfirmedOf(u)' = ConfirmedOf(u) /\ SuggestedOf(u)' = SuggestedOf(u)
      /\ SuggestedOf(t)' = {} /\ \E m : ConfirmedOf(t)' = ConfirmedOf(t) \cup {m}
  <2> DEFINE row == [txn |-> t, target |-> target, status |-> "CONFIRMED"]
  <2>1. row \in MatchRows /\ row.txn = t /\ row.status = "CONFIRMED"
    BY DEF MatchRows
  <2>2. matches' = Append(Bank!Supersede(t), row)
    BY DEF Bank!ManualMatch
  <2>3. Superseding(Bank!Supersede(t), t)
    BY Superseded DEF Superseding
  <2> HIDE DEF row
  <2> QED
    BY <2>1, <2>2, <2>3, Appended
<1> QED
  BY <1>1, <1>2 DEF Only, Links, RowsTyped

LEMMA ConfirmWrites ==
  ASSUME RowsTyped, NEW m \in DOMAIN matches, NEW t \in Rows, matches[m].txn = t, Bank!Confirm(m)
  PROVE  Only(t) /\ Confirms(t, m)
<1>1. /\ txns' \in [Rows -> TxnRows] /\ txns'[t].match = "MATCHED" /\ txns'[t].recon = txns[t].recon
      /\ \A u \in Rows \ {t} : txns'[u] = txns[u]
  BY Marked DEF Bank!Confirm
<1>2. /\ matches' \in Seq(MatchRows)
      /\ \A n \in DOMAIN matches : n \in DOMAIN matches' /\ matches'[n].txn = matches[n].txn
      /\ \A u \in Rows \ {t} : ConfirmedOf(u)' = ConfirmedOf(u) /\ SuggestedOf(u)' = SuggestedOf(u)
      /\ SuggestedOf(t)' = SuggestedOf(t) \ {m} /\ ConfirmedOf(t)' = ConfirmedOf(t) \cup {m}
  BY Restated DEF Bank!Confirm
<1> QED
  BY <1>1, <1>2 DEF Only, Confirms, RowsTyped

LEMMA UnlinkWrites ==
  ASSUME RowsTyped, NEW m \in DOMAIN matches, NEW t \in Rows, matches[m].txn = t, Bank!ReverseMatch(m)
  PROVE  Only(t) /\ Unlinks(t, m)
<1>1. /\ txns' \in [Rows -> TxnRows] /\ txns'[t].match = "UNMATCHED" /\ txns'[t].recon = txns[t].recon
      /\ \A u \in Rows \ {t} : txns'[u] = txns[u]
  BY Marked DEF Bank!ReverseMatch
<1>2. /\ matches' \in Seq(MatchRows)
      /\ \A n \in DOMAIN matches : n \in DOMAIN matches' /\ matches'[n].txn = matches[n].txn
      /\ \A u \in Rows \ {t} : ConfirmedOf(u)' = ConfirmedOf(u) /\ SuggestedOf(u)' = SuggestedOf(u)
      /\ SuggestedOf(t)' = SuggestedOf(t) \ {m} /\ ConfirmedOf(t)' = ConfirmedOf(t) \ {m}
  BY Restated DEF Bank!ReverseMatch
<1> QED
  BY <1>1, <1>2 DEF Only, Unlinks, RowsTyped

LEMMA IgnoreWrites ==
  ASSUME RowsTyped, NEW t \in Rows, Bank!Ignore(t)
  PROVE  Only(t) /\ Ignores(t)
<1>1. /\ txns' \in [Rows -> TxnRows] /\ txns'[t].match = "IGNORED" /\ txns'[t].recon = txns[t].recon
      /\ \A u \in Rows \ {t} : txns'[u] = txns[u]
  BY Marked DEF Bank!Ignore
<1>2. matches' = matches
  BY DEF Bank!Ignore
<1>3. \A u : ConfirmedOf(u)' = ConfirmedOf(u) /\ SuggestedOf(u)' = SuggestedOf(u)
  BY <1>2 DEF ConfirmedOf, SuggestedOf
<1> QED
  BY <1>1, <1>2, <1>3 DEF Only, Ignores, RowsTyped

-----------------------------------------------------------------------------
(***************************************************************************)
(* Six kinds of step, and one that leaves everything alone.                *)
(***************************************************************************)
Unmoved == txns' = txns /\ matches' = matches /\ recons' = recons /\ overtaken' = overtaken

StillStep == Unmoved /\ serving' = serving

\* A request begins, is over, or goes on from its receipt to its match.
QuietStep(c) ==
  /\ Unmoved
  /\ serving' = [serving EXCEPT ![c] = serving'[c]]
  /\ JobRight(serving'[c])
  /\ \A t \in Rows : About(serving'[c], t) =>
       /\ \/ Fits(serving'[c], t)
          \/ About(serving[c], t) /\ serving[c].op = "RECEIPT" /\ serving'[c].op = "LINK"
       /\ serving'[c].op \in Undoing => txns[t].recon = 0 \/ txns[t].match # "MATCHED"

WriteStep(c) ==
  /\ \E q : q = serving[c] /\ Wrote(q) /\ q.txn \in Rows
  /\ Bank!End(c) /\ recons' = recons /\ overtaken' = overtaken

ImportStep(c) ==
  /\ Bank!End(c) /\ matches' = matches /\ recons' = recons /\ overtaken' = overtaken
  /\ RowsTyped'
  /\ \A t \in Rows : \/ txns'[t] = txns[t]
                     \/ txns[t].match = "ABSENT" /\ txns'[t].match = "UNMATCHED" /\ txns'[t].recon = 0

DraftStep(c) ==
  /\ Bank!End(c) /\ txns' = txns /\ matches' = matches /\ overtaken' = overtaken
  /\ recons' \in Seq(ReconRows)
  /\ \A k \in DOMAIN recons : k \in DOMAIN recons' /\ recons'[k] = recons[k]

\* The status of reconciliation k becomes what is given.
ReconStep(c, k, status) ==
  /\ Bank!End(c) /\ matches' = matches /\ RowsTyped'
  /\ k \in DOMAIN recons /\ k # 0
  /\ recons' \in Seq(ReconRows) /\ DOMAIN recons' = DOMAIN recons
  /\ recons'[k].status = status /\ recons'[k].span = recons[k].span
  /\ \A j \in DOMAIN recons \ {k} : recons'[j] = recons[j]
  /\ \A t \in Rows : txns'[t].match = txns[t].match

ReadyFor(t, k) == txns[t].match = "MATCHED" /\ Bank!Within(recons[k].span, Day[t])

CompleteStep(c, k) ==
  /\ ReconStep(c, k, "RECONCILED")
  /\ \A t \in Rows :
       /\ txns'[t].recon = IF ReadyFor(t, k) THEN k ELSE txns[t].recon
       /\ t \in overtaken' <=> IF ReadyFor(t, k) THEN \E d \in Handlers : About(serving[d], t) ELSE t \in overtaken

ReopenStep(c, k) ==
  /\ ReconStep(c, k, "REOPENED") /\ overtaken' = overtaken
  /\ \A t \in Rows : txns'[t].recon = IF txns[t].recon = k THEN 0 ELSE txns[t].recon

BankStep ==
  \/ StillStep
  \/ \E c \in Handlers :
       \/ QuietStep(c) \/ WriteStep(c) \/ ImportStep(c) \/ DraftStep(c)
       \/ \E k : CompleteStep(c, k) \/ ReopenStep(c, k)

\* The requests about a transaction are those Handling names.
LEMMA HandlingIs ==
  ASSUME BankTypeOK, NEW t \in Rows
  PROVE  Bank!Handling(t) = {c \in Handlers : About(serving[c], t)}
<1>1. ASSUME NEW q \in BankJobs PROVE "txn" \in DOMAIN q <=> q.op \in AboutOne
  BY DEF BankJobs, AboutOne
<1>2. \A c \in Handlers : serving[c] \in BankJobs
  BY DEF BankTypeOK, JobRight
<1> QED
  BY <1>1, <1>2 DEF Bank!Handling, About

LEMMA EndIs ==
  ASSUME Serving, NEW c \in Handlers, Bank!End(c)
  PROVE  /\ Serving' /\ serving'[c] = [op |-> "IDLE"] /\ \A d \in Handlers \ {c} : serving'[d] = serving[d]
         /\ JobRight(serving[c])' /\ \A t : ~About(serving'[c], t)
<1>1. Serving' /\ serving'[c] = [op |-> "IDLE"] /\ \A d \in Handlers \ {c} : serving'[d] = serving[d]
  BY DEF Bank!End, Bank!Idle, Serving
<1>2. JobRight(serving[c])'
  BY <1>1 DEF JobRight, BankJobs
<1>3. \A t : ~About(serving'[c], t)
  BY <1>1 DEF About, AboutOne
<1> QED
  BY <1>1, <1>2, <1>3

-----------------------------------------------------------------------------
LEMMA TargetsTyped ==
  ASSUME KeysOnce
  PROVE  Bank!Targets \subseteq TargetRows /\ \A t \in Rows : Bank!Picks(t) \subseteq TargetRows
<1>1. Len(receipts) \in Nat
  BY DEF KeysOnce
<1>2. Bank!ReceiptIds \subseteq Nat
  BY <1>1 DEF Bank!ReceiptIds
<1>3. \A r \in Bank!ReceiptIds : Bank!Receipt(r) \in TargetRows
  BY <1>2 DEF Bank!Receipt, TargetRows
<1>4. Bank!CreditLines \subseteq TargetRows
  <2>1. \A r \in Bank!ReceiptIds : Bank!Line("REVERSAL", r) \in TargetRows
    BY <1>2 DEF Bank!Line, TargetRows
  <2>2. \A p \in DOMAIN Payments : Bank!Line("PAYMENT", p) \in TargetRows
    BY DEF Bank!Line, TargetRows
  <2> QED
    BY <2>1, <2>2 DEF Bank!CreditLines
<1>5. Bank!Targets \subseteq TargetRows
  BY <1>3, <1>4 DEF Bank!Targets
<1>6. ASSUME NEW t \in Rows, NEW rule PROVE Bank!Recognised(t, rule) \subseteq TargetRows
  <2>1. Bank!Candidates(t) \subseteq TargetRows
    BY <1>3, <1>4 DEF Bank!Candidates, Bank!CandidateReceipts, Bank!CandidateLines
  <2> QED
    BY <2>1, Zenon DEF Bank!Recognised
<1>7. ASSUME NEW t \in Rows PROVE Bank!Picks(t) \subseteq TargetRows
  BY <1>6, Zenon DEF Bank!Picks
<1> QED
  BY <1>5, <1>7

\* A request that has read and checked.
LEMMA BeginsQuietly ==
  ASSUME BankTypeOK, NEW c \in Handlers, Unmoved, NEW q, Bank!Begin(c, q), JobRight(q),
         q.op \in AboutOne => /\ Fits(q, q.txn)
                              /\ q.op \in Undoing => txns[q.txn].recon = 0 \/ txns[q.txn].match # "MATCHED"
  PROVE  QuietStep(c)
<1>1. serving' = [serving EXCEPT ![c] = serving'[c]] /\ serving'[c] = q
  BY DEF Bank!Begin, BankTypeOK, Serving
<1> QED
  BY <1>1 DEF QuietStep, About

LEMMA ReadsQuietly ==
  ASSUME BankTypeOK, KeysOnce, NEW c \in Handlers, Unmoved, Bank!Read(c) \/ Bank!ReadRecon(c)
  PROVE  QuietStep(c)
<1>0. /\ DOMAIN matches = Bank!MatchIds /\ DOMAIN recons = Bank!ReconIds
      /\ Bank!MatchIds \subseteq Nat /\ Bank!ReconIds \subseteq Nat
  BY DEF BankTypeOK, RowsTyped, Bank!MatchIds, Bank!ReconIds
<1>1. RowsTyped
  BY DEF BankTypeOK
<1>2. CASE \E t \in Bank!Present : Bank!CreateReceiptAllowed(t) /\ Bank!Begin(c, [op |-> "RECEIPT", txn |-> t])
  <2>1. PICK t \in Rows : Bank!CreateReceiptAllowed(t) /\ Bank!Begin(c, [op |-> "RECEIPT", txn |-> t])
    BY <1>2 DEF Bank!Present
  <2> DEFINE q == [op |-> "RECEIPT", txn |-> t]
  <2>2. JobRight(q) /\ Fits(q, t) /\ q.op \notin Undoing /\ q.txn = t
    BY <2>1 DEF Bank!CreateReceiptAllowed, JobRight, BankJobs, Fits, Undoing
  <2>3. Bank!Begin(c, q)
    BY <2>1
  <2> HIDE DEF q
  <2> QED
    BY <2>2, <2>3, BeginsQuietly
<1>3. CASE \E t \in Bank!Present : Bank!IgnoreAllowed(t) /\ Bank!Begin(c, [op |-> "IGNORE", txn |-> t])
  <2>1. PICK t \in Rows : Bank!IgnoreAllowed(t) /\ Bank!Begin(c, [op |-> "IGNORE", txn |-> t])
    BY <1>3 DEF Bank!Present
  <2> DEFINE q == [op |-> "IGNORE", txn |-> t]
  <2>2. JobRight(q) /\ Fits(q, t) /\ txns[t].match # "MATCHED" /\ q.txn = t
    BY <2>1 DEF Bank!IgnoreAllowed, JobRight, BankJobs, Fits
  <2>3. Bank!Begin(c, q)
    BY <2>1
  <2> HIDE DEF q
  <2> QED
    BY <2>2, <2>3, BeginsQuietly
<1>4. CASE \E t \in Bank!Present, target \in Bank!Targets : Bank!ManualMatchAllowed(t, target)
             /\ Bank!Begin(c, [op |-> "LINK", txn |-> t, target |-> target])
  <2>1. PICK t \in Rows, target \in TargetRows : Bank!ManualMatchAllowed(t, target)
             /\ Bank!Begin(c, [op |-> "LINK", txn |-> t, target |-> target])
    BY <1>4, TargetsTyped DEF Bank!Present
  <2> DEFINE q == [op |-> "LINK", txn |-> t, target |-> target]
  <2>2. JobRight(q) /\ Fits(q, t) /\ txns[t].match # "MATCHED" /\ q.txn = t
    BY <2>1 DEF Bank!ManualMatchAllowed, JobRight, BankJobs, Fits
  <2>3. Bank!Begin(c, q)
    BY <2>1
  <2> HIDE DEF q
  <2> QED
    BY <2>2, <2>3, BeginsQuietly
<1>5. CASE \E m \in Bank!MatchIds : Bank!ConfirmAllowed(m)
             /\ Bank!Begin(c, [op |-> "CONFIRM", match |-> m, txn |-> matches[m].txn])
  <2>1. PICK m \in DOMAIN matches : Bank!ConfirmAllowed(m)
             /\ Bank!Begin(c, [op |-> "CONFIRM", match |-> m, txn |-> matches[m].txn])
    BY <1>0, <1>5
  <2>2. PICK t \in Rows : t = matches[m].txn
    BY <1>1, MatchRow
  <2> DEFINE q == [op |-> "CONFIRM", match |-> m, txn |-> t]
  <2>3. JobRight(q)
    BY <1>0, <2>2 DEF JobRight, BankJobs
  <2>4. Fits(q, t) /\ q.op \notin Undoing /\ q.txn = t
    BY <2>1, <2>2 DEF Bank!ConfirmAllowed, SuggestedOf, Fits, Undoing
  <2>5. Bank!Begin(c, q)
    BY <2>1, <2>2
  <2> HIDE DEF q
  <2> QED
    BY <2>3, <2>4, <2>5, BeginsQuietly
<1>6. CASE \E m \in Bank!MatchIds : Bank!ReverseMatchAllowed(m)
             /\ Bank!Begin(c, [op |-> "UNLINK", match |-> m, txn |-> matches[m].txn])
  <2>1. PICK m \in DOMAIN matches : Bank!ReverseMatchAllowed(m)
             /\ Bank!Begin(c, [op |-> "UNLINK", match |-> m, txn |-> matches[m].txn])
    BY <1>0, <1>6
  <2>2. PICK t \in Rows : t = matches[m].txn
    BY <1>1, MatchRow
  <2> DEFINE q == [op |-> "UNLINK", match |-> m, txn |-> t]
  <2>3. JobRight(q)
    BY <1>0, <2>2 DEF JobRight, BankJobs
  <2>4. Fits(q, t) /\ txns[t].recon = 0 /\ q.txn = t
    BY <2>1, <2>2 DEF Bank!ReverseMatchAllowed, ConfirmedOf, Fits
  <2>5. Bank!Begin(c, q)
    BY <2>1, <2>2
  <2> HIDE DEF q
  <2> QED
    BY <2>3, <2>4, <2>5, BeginsQuietly
<1>7. CASE \E t \in Bank!Present : Bank!SuggestAllowed(t)
             /\ Bank!Begin(c, [op |-> "SUGGEST", txn |-> t, picked |-> Bank!Picks(t), seen |-> txns[t].match])
  <2>1. PICK t \in Rows : Bank!SuggestAllowed(t)
             /\ Bank!Begin(c, [op |-> "SUGGEST", txn |-> t, picked |-> Bank!Picks(t), seen |-> txns[t].match])
    BY <1>7 DEF Bank!Present
  <2>2. PICK picked \in SUBSET TargetRows : picked = Bank!Picks(t)
    BY TargetsTyped
  <2>3. PICK seen \in Statuses : seen = txns[t].match
    BY <1>1 DEF RowsTyped, TxnRows
  <2> DEFINE q == [op |-> "SUGGEST", txn |-> t, picked |-> picked, seen |-> seen]
  <2>4. JobRight(q) /\ Fits(q, t) /\ txns[t].match # "MATCHED" /\ q.txn = t
    BY <2>1 DEF Bank!SuggestAllowed, JobRight, BankJobs, Fits
  <2>5. Bank!Begin(c, q)
    BY <2>1, <2>2, <2>3
  <2> HIDE DEF q
  <2> QED
    BY <2>4, <2>5, BeginsQuietly
<1>8. CASE \E file \in Files : Bank!Begin(c, [op |-> "APPLY", file |-> file])
  <2>1. PICK file \in Files : Bank!Begin(c, [op |-> "APPLY", file |-> file])
    BY <1>8
  <2> DEFINE q == [op |-> "APPLY", file |-> file]
  <2>2. JobRight(q) /\ q.op \notin AboutOne /\ Bank!Begin(c, q)
    BY <2>1 DEF JobRight, BankJobs, AboutOne
  <2> HIDE DEF q
  <2> QED
    BY <2>2, BeginsQuietly
<1>9. CASE \E span \in Spans, supersedes \in {0} \cup Bank!ReconIds : \E closing \in Closings[span.first] :
             Bank!Begin(c, [op |-> "DRAFT", span |-> span, closing |-> closing, supersedes |-> supersedes])
  <2>1. PICK span \in Spans, supersedes \in Nat, closing \in Int :
          Bank!Begin(c, [op |-> "DRAFT", span |-> span, closing |-> closing, supersedes |-> supersedes])
    BY <1>0, <1>9, BalancesAssumption
  <2> DEFINE q == [op |-> "DRAFT", span |-> span, closing |-> closing, supersedes |-> supersedes]
  <2>2. JobRight(q) /\ q.op \notin AboutOne /\ Bank!Begin(c, q)
    BY <2>1 DEF JobRight, BankJobs, AboutOne
  <2> HIDE DEF q
  <2> QED
    BY <2>2, BeginsQuietly
<1>10. CASE \E k \in Bank!ReconIds : \E op \in {"COMPLETE", "REOPEN"} : Bank!Begin(c, [op |-> op, recon |-> k])
  <2>1. PICK k \in DOMAIN recons, op \in {"COMPLETE", "REOPEN"} : Bank!Begin(c, [op |-> op, recon |-> k])
    BY <1>0, <1>10
  <2> DEFINE q == [op |-> op, recon |-> k]
  <2>2. JobRight(q) /\ q.op \notin AboutOne /\ Bank!Begin(c, q)
    BY <1>0, <2>1 DEF JobRight, BankJobs, AboutOne
  <2> HIDE DEF q
  <2> QED
    BY <2>2, BeginsQuietly
<1>11. CASE \E k \in Bank!ReconIds : Bank!Begin(c, [op |-> "COMPLETE", recon |-> k]) \/ Bank!Begin(c, [op |-> "REOPEN", recon |-> k])
  BY <1>10, <1>11
<1> QED
  BY <1>2, <1>3, <1>4, <1>5, <1>6, <1>7, <1>8, <1>9, <1>11, Zenon DEF Bank!Read, Bank!ReadRecon, Bank!With

\* The receipt is recorded, or found; the deposit is still to be matched.
LEMMA ReceiptQuietly ==
  ASSUME BankTypeOK, KeysOnce, KeysOnce', NEW c \in Handlers, Unmoved, Bank!WriteReceipt(c)
  PROVE  QuietStep(c)
<1>1. PICK r \in 1..Len(receipts') :
        serving' = [serving EXCEPT ![c] = [op |-> "LINK", txn |-> serving[c].txn, target |-> Bank!Receipt(r)]]
  BY DEF Bank!WriteReceipt
<1>2. serving[c].op = "RECEIPT" /\ serving[c].txn \in Rows
  BY DEF Bank!WriteReceipt, KeysOnce
<1>3. Len(receipts') \in Nat
  BY DEF KeysOnce
<1>4. Bank!Receipt(r) \in TargetRows
  BY <1>1, <1>3 DEF Bank!Receipt, TargetRows
<1> DEFINE q == [op |-> "LINK", txn |-> serving[c].txn, target |-> Bank!Receipt(r)]
<1>5. JobRight(q) /\ q.op = "LINK" /\ q.txn = serving[c].txn
  BY <1>2, <1>4 DEF JobRight, BankJobs
<1>6. serving' = [serving EXCEPT ![c] = q]
  BY <1>1
<1> HIDE DEF q
<1>7. serving'[c] = q /\ serving' = [serving EXCEPT ![c] = serving'[c]]
  BY <1>6 DEF BankTypeOK, Serving
<1> QED
  BY <1>2, <1>5, <1>7 DEF QuietStep, About, AboutOne, Undoing

LEMMA AbandonQuietly ==
  ASSUME BankTypeOK, NEW c \in Handlers, Unmoved, Bank!Abandon(c)
  PROVE  QuietStep(c)
<1>1. serving'[c] = [op |-> "IDLE"] /\ serving' = [serving EXCEPT ![c] = serving'[c]]
  BY DEF Bank!Abandon, Bank!End, Bank!Idle, BankTypeOK, Serving
<1> QED
  BY <1>1 DEF QuietStep, JobRight, BankJobs, About, AboutOne

LEMMA ImportKind ==
  ASSUME BankTypeOK, NEW c \in Handlers, NEW file, Bank!Apply(file), Bank!End(c), recons' = recons, overtaken' = overtaken
  PROVE  ImportStep(c)
<1> DEFINE fresh == {file[i] : i \in DOMAIN file} \ Bank!Present
           row == [match |-> "UNMATCHED", recon |-> 0]
<1>1. txns' = [t \in Rows |-> IF t \in fresh THEN row ELSE txns[t]] /\ matches' = matches
  BY DEF Bank!Apply
<1>2. \A t \in Rows : t \in fresh => txns[t].match = "ABSENT"
  BY DEF Bank!Present, Bank!Absent
<1>3. row \in TxnRows /\ row.match = "UNMATCHED" /\ row.recon = 0
  BY DEF TxnRows, Statuses
<1> HIDE DEF fresh, row
<1>4. RowsTyped'
  BY <1>1, <1>3 DEF BankTypeOK, RowsTyped
<1> QED
  BY <1>1, <1>2, <1>3, <1>4 DEF ImportStep

LEMMA WriteKind ==
  ASSUME BankTypeOK, NEW c \in Handlers, Bank!Write(c), recons' = recons, overtaken' = overtaken
  PROVE  WriteStep(c) \/ ImportStep(c)
<1>0. PICK q : q = serving[c]
  OBVIOUS
<1>1. JobRight(q) /\ RowsTyped
  BY <1>0 DEF BankTypeOK
<1>2. Bank!End(c)
  BY DEF Bank!Write
<1>3. CASE q.op = "APPLY" /\ Bank!Apply(q.file)
  BY <1>0, <1>2, <1>3, ImportKind
<1>4. CASE q.op = "SUGGEST" /\ Bank!Suggest(q.txn, q.picked, q.seen)
  <2>1. q.txn \in Rows /\ q.picked \in SUBSET TargetRows
    BY <1>1, <1>4 DEF JobRight, BankJobs
  <2>2. Only(q.txn) /\ Suggests(q.txn)
    BY <1>1, <1>4, <2>1, SuggestWrites
  <2> QED
    BY <1>0, <1>2, <1>4, <2>1, <2>2 DEF WriteStep, Wrote, AboutOne
<1>5. CASE q.op = "CONFIRM" /\ Bank!Confirm(q.match)
  <2>1. q.txn \in Rows /\ q.match \in DOMAIN matches /\ matches[q.match].txn = q.txn
    BY <1>1, <1>5 DEF JobRight, BankJobs
  <2>2. Only(q.txn) /\ Confirms(q.txn, q.match)
    BY <1>1, <1>5, <2>1, ConfirmWrites
  <2> QED
    BY <1>0, <1>2, <1>5, <2>1, <2>2 DEF WriteStep, Wrote, AboutOne
<1>6. CASE q.op = "LINK" /\ Bank!ManualMatch(q.txn, q.target)
  <2>1. q.txn \in Rows /\ q.target \in TargetRows
    BY <1>1, <1>6 DEF JobRight, BankJobs
  <2>2. Only(q.txn) /\ Links(q.txn)
    BY <1>1, <1>6, <2>1, LinkWrites
  <2> QED
    BY <1>0, <1>2, <1>6, <2>1, <2>2 DEF WriteStep, Wrote, AboutOne
<1>7. CASE q.op = "UNLINK" /\ Bank!ReverseMatch(q.match)
  <2>1. q.txn \in Rows /\ q.match \in DOMAIN matches /\ matches[q.match].txn = q.txn
    BY <1>1, <1>7 DEF JobRight, BankJobs
  <2>2. Only(q.txn) /\ Unlinks(q.txn, q.match)
    BY <1>1, <1>7, <2>1, UnlinkWrites
  <2> QED
    BY <1>0, <1>2, <1>7, <2>1, <2>2 DEF WriteStep, Wrote, AboutOne
<1>8. CASE q.op = "IGNORE" /\ Bank!Ignore(q.txn)
  <2>1. q.txn \in Rows
    BY <1>1, <1>8 DEF JobRight, BankJobs
  <2>2. Only(q.txn) /\ Ignores(q.txn)
    BY <1>1, <1>8, <2>1, IgnoreWrites
  <2> QED
    BY <1>0, <1>2, <1>8, <2>1, <2>2 DEF WriteStep, Wrote, AboutOne
<1> QED
  BY <1>0, <1>3, <1>4, <1>5, <1>6, <1>7, <1>8 DEF Bank!Write

-----------------------------------------------------------------------------
LEMMA ReconRow ==
  ASSUME BankTypeOK, NEW k \in DOMAIN recons
  PROVE  recons[k] \in ReconRows
BY DEF BankTypeOK

LEMMA OpeningIsNumber ==
  ASSUME BankTypeOK
  PROVE  Bank!ExpectedOpening \in Int
<1>1. CASE Bank!Latest = {}
  BY <1>1, BalancesAssumption DEF Bank!ExpectedOpening
<1>2. CASE Bank!Latest # {}
  <2> DEFINE k == CHOOSE i \in Bank!Latest : TRUE
  <2>1. k \in Bank!Latest
    BY <1>2
  <2>2. k \in DOMAIN recons
    BY <2>1 DEF Bank!Latest, Bank!With, Bank!ReconIds, BankTypeOK
  <2>3. recons[k].closing \in Int
    BY <2>2, ReconRow DEF ReconRows
  <2> QED
    BY <1>2, <2>3 DEF Bank!ExpectedOpening
<1> QED
  BY <1>1, <1>2

LEMMA DraftKind ==
  ASSUME BankTypeOK, NEW c \in Handlers, NEW span \in Spans, NEW closing \in Int, NEW supersedes \in Nat,
         Bank!Draft(span, closing, supersedes), Bank!End(c), txns' = txns, matches' = matches, overtaken' = overtaken
  PROVE  DraftStep(c)
<1> DEFINE row == [span |-> span, opening |-> Bank!ExpectedOpening, closing |-> closing,
                   status |-> "DRAFT", supersedes |-> supersedes]
<1>1. row \in ReconRows
  BY OpeningIsNumber DEF ReconRows
<1>2. recons' = Append(recons, row)
  BY DEF Bank!Draft
<1>3. recons \in Seq(ReconRows)
  BY DEF BankTypeOK
<1> HIDE DEF row
<1>4. /\ recons' \in Seq(ReconRows)
      /\ \A k \in DOMAIN recons : k \in DOMAIN recons' /\ recons'[k] = recons[k]
  BY <1>1, <1>2, <1>3
<1> QED
  BY <1>4 DEF DraftStep

\* What becomes of a reconciliation's row.
LEMMA StatusSet ==
  ASSUME BankTypeOK, NEW k \in DOMAIN recons, NEW status \in {"DRAFT", "RECONCILED", "REOPENED"},
         recons' = [recons EXCEPT ![k].status = status]
  PROVE  /\ recons' \in Seq(ReconRows) /\ DOMAIN recons' = DOMAIN recons
         /\ recons'[k].status = status /\ recons'[k].span = recons[k].span
         /\ \A j \in DOMAIN recons \ {k} : recons'[j] = recons[j]
<1> DEFINE row == [recons[k] EXCEPT !.status = status]
<1>1. recons[k] \in ReconRows /\ recons \in Seq(ReconRows)
  BY ReconRow DEF BankTypeOK
<1>2. row \in ReconRows /\ row.status = status /\ row.span = recons[k].span
  BY <1>1 DEF ReconRows
<1>3. recons' = [recons EXCEPT ![k] = row]
  OBVIOUS
<1> HIDE DEF row
<1> QED
  BY <1>1, <1>2, <1>3

LEMMA CompleteKind ==
  ASSUME BankTypeOK, NEW c \in Handlers, NEW k \in DOMAIN recons, Bank!Complete(k), Bank!End(c)
  PROVE  CompleteStep(c, k)
<1> DEFINE New(t) == [txns[t] EXCEPT !.recon = k]
<1>1. /\ txns' = [t \in Rows |-> IF t \in Bank!Ready(k) THEN New(t) ELSE txns[t]]
      /\ overtaken' = (overtaken \ Bank!Ready(k)) \cup {t \in Bank!Ready(k) : Bank!Handling(t) # {}}
      /\ matches' = matches /\ recons' = [recons EXCEPT ![k].status = "RECONCILED"]
  BY DEF Bank!Complete, Bank!MarkReconciled
<1>2. k \in Nat \ {0} /\ txns \in [Rows -> TxnRows] /\ matches \in Seq(MatchRows)
  BY DEF BankTypeOK, RowsTyped
<1>3. \A t \in Rows : New(t) \in TxnRows /\ New(t).match = txns[t].match /\ New(t).recon = k
  BY <1>2 DEF TxnRows
<1>4. \A t \in Rows : t \in Bank!Ready(k) <=> ReadyFor(t, k)
  BY DEF Bank!Ready, ReadyFor
<1> HIDE DEF New
<1>5. RowsTyped'
  BY <1>1, <1>2, <1>3 DEF RowsTyped
<1>6. \A t \in Rows : txns'[t].match = txns[t].match /\ txns'[t].recon = IF ReadyFor(t, k) THEN k ELSE txns[t].recon
  BY <1>1, <1>3, <1>4
<1>7. \A t \in Rows : t \in overtaken' <=> IF ReadyFor(t, k) THEN \E d \in Handlers : About(serving[d], t) ELSE t \in overtaken
  <2> SUFFICES ASSUME NEW t \in Rows
               PROVE  t \in overtaken' <=> IF ReadyFor(t, k) THEN \E d \in Handlers : About(serving[d], t) ELSE t \in overtaken
    OBVIOUS
  <2>1. Bank!Handling(t) # {} <=> \E d \in Handlers : About(serving[d], t)
    BY HandlingIs
  <2> QED
    BY <1>1, <1>4, <2>1
<1>8. /\ recons' \in Seq(ReconRows) /\ DOMAIN recons' = DOMAIN recons
      /\ recons'[k].status = "RECONCILED" /\ recons'[k].span = recons[k].span
      /\ \A j \in DOMAIN recons \ {k} : recons'[j] = recons[j]
  BY <1>1, StatusSet
<1>9. ReconStep(c, k, "RECONCILED")
  BY <1>1, <1>2, <1>5, <1>6, <1>8 DEF ReconStep
<1> QED
  BY <1>6, <1>7, <1>9 DEF CompleteStep

LEMMA ReopenKind ==
  ASSUME BankTypeOK, NEW c \in Handlers, NEW k \in DOMAIN recons, Bank!Reopen(k), Bank!End(c)
  PROVE  ReopenStep(c, k)
<1> DEFINE New(t) == [txns[t] EXCEPT !.recon = 0]
<1>1. /\ txns' = [t \in Rows |-> IF txns[t].recon = k THEN New(t) ELSE txns[t]]
      /\ matches' = matches /\ recons' = [recons EXCEPT ![k].status = "REOPENED"] /\ overtaken' = overtaken
  BY DEF Bank!Reopen
<1>2. k \in Nat \ {0} /\ txns \in [Rows -> TxnRows] /\ matches \in Seq(MatchRows)
  BY DEF BankTypeOK, RowsTyped
<1>3. \A t \in Rows : New(t) \in TxnRows /\ New(t).match = txns[t].match /\ New(t).recon = 0
  BY <1>2 DEF TxnRows
<1> HIDE DEF New
<1>4. RowsTyped'
  BY <1>1, <1>2, <1>3 DEF RowsTyped
<1>5. \A t \in Rows : txns'[t].match = txns[t].match /\ txns'[t].recon = IF txns[t].recon = k THEN 0 ELSE txns[t].recon
  BY <1>1, <1>3
<1>6. /\ recons' \in Seq(ReconRows) /\ DOMAIN recons' = DOMAIN recons
      /\ recons'[k].status = "REOPENED" /\ recons'[k].span = recons[k].span
      /\ \A j \in DOMAIN recons \ {k} : recons'[j] = recons[j]
  BY <1>1, StatusSet
<1>7. ReconStep(c, k, "REOPENED")
  BY <1>1, <1>2, <1>4, <1>5, <1>6 DEF ReconStep
<1> QED
  BY <1>1, <1>5, <1>7 DEF ReopenStep

LEMMA StepKinds ==
  ASSUME BankTypeOK, KeysOnce, KeysOnce', Bank!Step
  PROVE  BankStep
<1>1. CASE (Bank!RecordByHand \/ Bank!ReverseReceipt) /\ UNCHANGED <<recons, overtaken>>
  BY <1>1 DEF Bank!RecordByHand, Bank!ReverseReceipt, BankStep, StillStep, Unmoved
<1>2. ASSUME NEW c \in Handlers, (Bank!Read(c) /\ UNCHANGED <<recons, overtaken>>) \/ Bank!ReadRecon(c)
      PROVE  QuietStep(c)
  <2>1. Unmoved
    BY <1>2 DEF Bank!Read, Bank!ReadRecon, Unmoved
  <2> QED
    BY <1>2, <2>1, ReadsQuietly
<1>3. ASSUME NEW c \in Handlers, Bank!Write(c), UNCHANGED <<recons, overtaken>>
      PROVE  WriteStep(c) \/ ImportStep(c)
  BY <1>3, WriteKind
<1>4. ASSUME NEW c \in Handlers, Bank!WriteReceipt(c) \/ Bank!Abandon(c), UNCHANGED <<recons, overtaken>>
      PROVE  QuietStep(c)
  <2>1. Unmoved
    BY <1>4 DEF Bank!WriteReceipt, Bank!Abandon, Unmoved
  <2> QED
    BY <1>4, <2>1, ReceiptQuietly, AbandonQuietly
<1>5. ASSUME NEW c \in Handlers, Bank!WriteRecon(c)
      PROVE  DraftStep(c) \/ \E k : CompleteStep(c, k) \/ ReopenStep(c, k)
  <2>0. PICK q : q = serving[c]
    OBVIOUS
  <2>1. JobRight(q)
    BY <2>0 DEF BankTypeOK
  <2>2. CASE q.op = "DRAFT" /\ Bank!Draft(q.span, q.closing, q.supersedes) /\ Bank!End(c) /\ UNCHANGED <<txns, matches, overtaken>>
    <3>1. q.span \in Spans /\ q.closing \in Int /\ q.supersedes \in Nat
      BY <2>1, <2>2 DEF JobRight, BankJobs
    <3> QED
      BY <2>2, <3>1, DraftKind
  <2>3. CASE q.op = "COMPLETE" /\ Bank!Complete(q.recon) /\ Bank!End(c)
    BY <2>1, <2>3, CompleteKind DEF JobRight
  <2>4. CASE q.op = "REOPEN" /\ Bank!Reopen(q.recon) /\ Bank!End(c)
    BY <2>1, <2>4, ReopenKind DEF JobRight
  <2> QED
    BY <1>5, <2>0, <2>2, <2>3, <2>4 DEF Bank!WriteRecon
<1> QED
  BY <1>1, <1>2, <1>3, <1>4, <1>5, Zenon DEF Bank!Step, BankStep

-----------------------------------------------------------------------------
(***************************************************************************)
(* The invariant over the kinds of step.                                   *)
(***************************************************************************)
LEMMA JobStays ==
  ASSUME BankTypeOK, NEW d \in Handlers, serving'[d] = serving[d],
         \A m \in DOMAIN matches : m \in DOMAIN matches' /\ matches'[m].txn = matches[m].txn,
         DOMAIN recons \subseteq DOMAIN recons'
  PROVE  JobRight(serving[d])'
<1>1. JobRight(serving[d])
  BY DEF BankTypeOK
<1> QED
  BY <1>1 DEF JobRight

LEMMA MatchesStay ==
  ASSUME matches' = matches
  PROVE  \A t : ConfirmedOf(t)' = ConfirmedOf(t) /\ SuggestedOf(t)' = SuggestedOf(t)
BY DEF ConfirmedOf, SuggestedOf

\* A request is over, and what the others rely on has stayed.
LEMMA TypeStays ==
  ASSUME BankTypeOK, NEW c \in Handlers, Bank!End(c), RowsTyped', recons' \in Seq(ReconRows),
         \A m \in DOMAIN matches : m \in DOMAIN matches' /\ matches'[m].txn = matches[m].txn,
         DOMAIN recons \subseteq DOMAIN recons'
  PROVE  BankTypeOK'
<1>1. Serving
  BY DEF BankTypeOK
<1>2. Serving' /\ JobRight(serving[c])' /\ \A d \in Handlers \ {c} : serving'[d] = serving[d]
  BY <1>1, EndIs
<1>3. \A d \in Handlers \ {c} : JobRight(serving[d])'
  BY <1>2, JobStays
<1> QED
  BY <1>2, <1>3 DEF BankTypeOK

LEMMA TypeOverSteps ==
  ASSUME BankTypeOK, BankStep
  PROVE  BankTypeOK'
<1>1. CASE StillStep
  BY <1>1 DEF StillStep, Unmoved, BankTypeOK, Serving, RowsTyped, JobRight
<1>2. ASSUME NEW c \in Handlers, QuietStep(c) PROVE BankTypeOK'
  <2>1. /\ txns' = txns /\ matches' = matches /\ recons' = recons
        /\ serving' = [serving EXCEPT ![c] = serving'[c]] /\ JobRight(serving'[c])
    BY <1>2 DEF QuietStep, Unmoved
  <2>2. Serving' /\ \A d \in Handlers \ {c} : serving'[d] = serving[d]
    BY <2>1 DEF BankTypeOK, Serving
  <2>3. JobRight(serving[c])'
    BY <2>1 DEF JobRight
  <2>4. \A d \in Handlers \ {c} : JobRight(serving[d])'
    BY <2>1, <2>2, JobStays
  <2>5. RowsTyped' /\ recons' \in Seq(ReconRows)
    BY <2>1 DEF BankTypeOK, RowsTyped
  <2> QED
    BY <2>2, <2>3, <2>4, <2>5 DEF BankTypeOK
<1>3. ASSUME NEW c \in Handlers, WriteStep(c) PROVE BankTypeOK'
  <2>1. /\ Bank!End(c) /\ RowsTyped' /\ recons' = recons
        /\ \A m \in DOMAIN matches : m \in DOMAIN matches' /\ matches'[m].txn = matches[m].txn
    BY <1>3 DEF WriteStep, Wrote, Only
  <2>2. recons' \in Seq(ReconRows)
    BY <2>1 DEF BankTypeOK
  <2> QED
    BY <2>1, <2>2, TypeStays
<1>4. ASSUME NEW c \in Handlers, ImportStep(c) PROVE BankTypeOK'
  <2>1. Bank!End(c) /\ RowsTyped' /\ recons' = recons /\ matches' = matches /\ recons' \in Seq(ReconRows)
    BY <1>4 DEF ImportStep, BankTypeOK
  <2> QED
    BY <2>1, TypeStays
<1>5. ASSUME NEW c \in Handlers, DraftStep(c) PROVE BankTypeOK'
  <2>1. Bank!End(c) /\ RowsTyped' /\ matches' = matches /\ recons' \in Seq(ReconRows) /\ DOMAIN recons \subseteq DOMAIN recons'
    BY <1>5 DEF DraftStep, BankTypeOK, RowsTyped
  <2> QED
    BY <2>1, TypeStays
<1>6. ASSUME NEW c \in Handlers, NEW k, NEW status, ReconStep(c, k, status) PROVE BankTypeOK'
  <2>1. Bank!End(c) /\ RowsTyped' /\ matches' = matches /\ recons' \in Seq(ReconRows) /\ DOMAIN recons \subseteq DOMAIN recons'
    BY <1>6 DEF ReconStep
  <2> QED
    BY <2>1, TypeStays
<1> QED
  BY <1>1, <1>2, <1>3, <1>4, <1>5, <1>6 DEF BankStep, CompleteStep, ReopenStep

LEMMA HandlingAre == BankTypeOK => \A t \in Rows : Bank!Handling(t) = {c \in Handlers : About(serving[c], t)}
BY HandlingIs

LEMMA HandlingNext == (BankTypeOK => \A t \in Rows : Bank!Handling(t) = {c \in Handlers : About(serving[c], t)})'
BY HandlingAre, PTL

\* A transaction that is not noted as handled by two is not.
Calm == \A t \in Rows : t \notin crossed' => t \notin crossed /\ Alone(t)'

LEMMA NoticeCalms ==
  ASSUME BankTypeOK', Bank!Notice
  PROVE  Calm
<1>1. \A t \in Rows : Bank!Handling(t)' = {c \in Handlers : About(serving[c], t)}'
  BY HandlingNext
<1>2. \A t \in Rows : t \notin crossed' => t \notin crossed /\ \A c, d \in Bank!Handling(t)' : c = d
  BY DEF Bank!Notice
<1> QED
  BY <1>1, <1>2 DEF Calm, Alone, About

LEMMA SoundOverSteps ==
  ASSUME BankSound, BankStep, NEW t \in Rows
  PROVE  Sound(t)'
<1>1. Sound(t)
  BY DEF BankSound
<1>2. ASSUME matches' = matches, recons' = recons, txns'[t] = txns[t] PROVE Sound(t)'
  BY <1>1, <1>2, MatchesStay DEF Sound, Bank!Within
<1>3. CASE StillStep \/ \E c \in Handlers : QuietStep(c)
  BY <1>2, <1>3 DEF StillStep, QuietStep, Unmoved
<1>4. ASSUME NEW c \in Handlers, WriteStep(c) PROVE Sound(t)'
  <2>0. PICK q : q = serving[c] /\ Wrote(q) /\ q.txn \in Rows
    BY <1>4 DEF WriteStep
  <2>1. Wrote(q) /\ q.txn \in Rows /\ recons' = recons
    BY <1>4, <2>0 DEF WriteStep
  <2>2. Only(q.txn)
    BY <2>1 DEF Wrote
  <2>3. CASE t # q.txn
    <3>1. txns'[t] = txns[t] /\ ConfirmedOf(t)' = ConfirmedOf(t)
      BY <2>2, <2>3 DEF Only
    <3> QED
      BY <1>1, <2>1, <3>1 DEF Sound, Bank!Within
  <2>4. CASE t = q.txn
    <3>1. txns'[t].recon = txns[t].recon
      BY <2>2, <2>4 DEF Only
    <3>2. txns'[t].match = "MATCHED" => ConfirmedOf(t)' # {}
      BY <1>1, <2>1, <2>4 DEF Sound, Wrote, AboutOne, Suggests, Confirms, Links, Unlinks, Ignores
    <3> QED
      BY <1>1, <2>1, <3>1, <3>2 DEF Sound, Bank!Within
  <2> QED
    BY <2>3, <2>4
<1>5. ASSUME NEW c \in Handlers, ImportStep(c) PROVE Sound(t)'
  <2>1. matches' = matches /\ recons' = recons
    BY <1>5 DEF ImportStep
  <2>2. CASE txns'[t] = txns[t]
    BY <1>2, <2>1, <2>2
  <2>3. CASE txns'[t].match = "UNMATCHED" /\ txns'[t].recon = 0
    BY <2>3 DEF Sound
  <2> QED
    BY <1>5, <2>2, <2>3 DEF ImportStep
<1>6. ASSUME NEW c \in Handlers, DraftStep(c) PROVE Sound(t)'
  BY <1>1, <1>6, MatchesStay DEF DraftStep, Sound, Bank!Within
<1>7. ASSUME NEW c \in Handlers, NEW k, CompleteStep(c, k) PROVE Sound(t)'
  <2>1. ConfirmedOf(t)' = ConfirmedOf(t) /\ txns'[t].match = txns[t].match
    BY <1>7, MatchesStay DEF CompleteStep, ReconStep
  <2> QED
    BY <1>1, <1>7, <2>1 DEF CompleteStep, ReconStep, ReadyFor, Sound, Bank!Within
<1>8. ASSUME NEW c \in Handlers, NEW k, ReopenStep(c, k) PROVE Sound(t)'
  <2>1. ConfirmedOf(t)' = ConfirmedOf(t) /\ txns'[t].match = txns[t].match
    BY <1>8, MatchesStay DEF ReopenStep, ReconStep
  <2> QED
    BY <1>1, <1>8, <2>1 DEF ReopenStep, ReconStep, Sound, Bank!Within
<1> QED
  BY <1>3, <1>4, <1>5, <1>6, <1>7, <1>8 DEF BankStep

\* Whose status and matches stay is still matched rightly, and still fits.
LEMMA RightStays ==
  ASSUME NEW t \in Rows, txns'[t].match = txns[t].match,
         ConfirmedOf(t)' = ConfirmedOf(t), SuggestedOf(t)' = SuggestedOf(t)
  PROVE  /\ MatchedRightly(t) => MatchedRightly(t)'
         /\ \A d \in Handlers : serving'[d] = serving[d] /\ Fits(serving[d], t) => Fits(serving[d], t)'
BY DEF MatchedRightly, Fits

LEMMA SingleOverSteps ==
  ASSUME BankSound, BankStep, Calm, NEW t \in Rows, t \notin crossed'
  PROVE  MatchedRightly(t)' /\ \A d \in Handlers : About(serving[d], t)' => Fits(serving[d], t)'
<1>0. Alone(t)'
  BY DEF Calm
<1>1. /\ MatchedRightly(t) /\ Alone(t)
      /\ \A d \in Handlers : About(serving[d], t) => Fits(serving[d], t)
  BY DEF BankSound, Single, Calm
<1>2. Serving /\ RowsTyped
  BY DEF BankSound, BankTypeOK
<1>3. ASSUME NEW c \in Handlers, Bank!End(c), txns'[t].match = txns[t].match,
             ConfirmedOf(t)' = ConfirmedOf(t), SuggestedOf(t)' = SuggestedOf(t)
      PROVE  MatchedRightly(t)' /\ \A d \in Handlers : About(serving[d], t)' => Fits(serving[d], t)'
  <2>1. ~About(serving'[c], t) /\ \A d \in Handlers \ {c} : serving'[d] = serving[d]
    BY <1>2, <1>3, EndIs
  <2>2. /\ MatchedRightly(t)'
        /\ \A d \in Handlers : serving'[d] = serving[d] /\ Fits(serving[d], t) => Fits(serving[d], t)'
    BY <1>1, <1>3, RightStays
  <2> QED
    BY <1>1, <2>1, <2>2 DEF About
<1>4. CASE StillStep
  BY <1>1, <1>4, MatchesStay DEF StillStep, Unmoved, MatchedRightly, About, Fits
<1>5. ASSUME NEW c \in Handlers, QuietStep(c)
      PROVE  MatchedRightly(t)' /\ \A d \in Handlers : About(serving[d], t)' => Fits(serving[d], t)'
  <2>1. Unmoved /\ serving' = [serving EXCEPT ![c] = serving'[c]]
    BY <1>5 DEF QuietStep
  <2>2. \A d \in Handlers \ {c} : serving'[d] = serving[d]
    BY <1>2, <2>1 DEF Serving
  <2>3. /\ MatchedRightly(t)'
        /\ \A d \in Handlers : serving'[d] = serving[d] /\ Fits(serving[d], t) => Fits(serving[d], t)'
    BY <1>1, <2>1, MatchesStay, RightStays DEF Unmoved
  <2>4. ASSUME About(serving'[c], t) PROVE Fits(serving'[c], t)
    <3>1. \/ Fits(serving'[c], t)
          \/ About(serving[c], t) /\ serving[c].op = "RECEIPT" /\ serving'[c].op = "LINK"
      BY <1>5, <2>4 DEF QuietStep
    <3>2. CASE About(serving[c], t) /\ serving[c].op = "RECEIPT" /\ serving'[c].op = "LINK"
      BY <1>1, <3>2 DEF Fits
    <3> QED
      BY <3>1, <3>2
  <2>5. Fits(serving'[c], t) => Fits(serving[c], t)'
    BY <2>1, MatchesStay DEF Fits, Unmoved
  <2> QED
    BY <1>1, <2>2, <2>3, <2>4, <2>5 DEF About
<1>6. ASSUME NEW c \in Handlers, WriteStep(c)
      PROVE  MatchedRightly(t)' /\ \A d \in Handlers : About(serving[d], t)' => Fits(serving[d], t)'
  <2>0. PICK q : q = serving[c] /\ Wrote(q) /\ q.txn \in Rows
    BY <1>6 DEF WriteStep
  <2>1. Wrote(q) /\ q.txn \in Rows /\ Bank!End(c)
    BY <1>6, <2>0 DEF WriteStep
  <2>2. q.op \in AboutOne
    BY <2>1 DEF Wrote
  <2>3. t = q.txn => About(q, t)
    BY <2>2 DEF About
  <2>4. t = q.txn => Fits(q, t)
    BY <1>1, <2>0, <2>3
  <2>5. t = q.txn => \A d \in Handlers \ {c} : ~About(serving[d], t)
    BY <1>1, <2>0, <2>3 DEF Alone
  <2>6. ~About(serving'[c], t) /\ \A d \in Handlers \ {c} : serving'[d] = serving[d]
    BY <1>2, <2>1, EndIs
  <2>7. CASE t # q.txn
    <3>1. txns'[t].match = txns[t].match /\ ConfirmedOf(t)' = ConfirmedOf(t) /\ SuggestedOf(t)' = SuggestedOf(t)
      BY <2>1, <2>7 DEF Wrote, Only
    <3> QED
      BY <1>3, <2>1, <3>1
  <2>8. CASE t = q.txn
    <3>1. MatchedRightly(t)'
      BY <1>1, <2>1, <2>4, <2>8 DEF Wrote, AboutOne, Suggests, Confirms, Links, Unlinks, Ignores, Fits, MatchedRightly
    <3>2. \A d \in Handlers : ~About(serving[d], t)'
      BY <2>5, <2>6, <2>8 DEF About
    <3> QED
      BY <3>1, <3>2
  <2> QED
    BY <2>7, <2>8
<1>7. ASSUME NEW c \in Handlers, ImportStep(c)
      PROVE  MatchedRightly(t)' /\ \A d \in Handlers : About(serving[d], t)' => Fits(serving[d], t)'
  <2>1. Bank!End(c) /\ ConfirmedOf(t)' = ConfirmedOf(t) /\ SuggestedOf(t)' = SuggestedOf(t)
    BY <1>7, MatchesStay DEF ImportStep
  <2>2. CASE txns'[t] = txns[t]
    BY <1>3, <2>1, <2>2
  <2>3. CASE txns[t].match = "ABSENT" /\ txns'[t].match = "UNMATCHED"
    <3>1. MatchedRightly(t)'
      BY <1>1, <2>1, <2>3 DEF MatchedRightly
    <3>2. ~About(serving'[c], t) /\ \A d \in Handlers \ {c} : serving'[d] = serving[d]
      BY <1>2, <2>1, EndIs
    <3>3. \A d \in Handlers : serving'[d] = serving[d] /\ Fits(serving[d], t) => Fits(serving[d], t)'
      BY <2>1, <2>3 DEF Fits
    <3> QED
      BY <1>1, <3>1, <3>2, <3>3 DEF About
  <2> QED
    BY <1>7, <2>2, <2>3 DEF ImportStep
<1>8. ASSUME NEW c \in Handlers, DraftStep(c)
      PROVE  MatchedRightly(t)' /\ \A d \in Handlers : About(serving[d], t)' => Fits(serving[d], t)'
  BY <1>3, <1>8, MatchesStay DEF DraftStep
<1>9. ASSUME NEW c \in Handlers, NEW k, NEW status, ReconStep(c, k, status)
      PROVE  MatchedRightly(t)' /\ \A d \in Handlers : About(serving[d], t)' => Fits(serving[d], t)'
  BY <1>3, <1>9, MatchesStay DEF ReconStep
<1> QED
  BY <1>4, <1>5, <1>6, <1>7, <1>8, <1>9 DEF BankStep, CompleteStep, ReopenStep

LEMMA HeldOverSteps ==
  ASSUME BankSound, BankStep, NEW t \in Rows
  PROVE  Held(t)'
<1>1. Held(t) /\ Serving
  BY DEF BankSound, BankTypeOK
<1>2. ASSUME NEW c \in Handlers, Bank!End(c), txns'[t].match = txns[t].match, txns'[t].recon # 0 => txns'[t].recon = txns[t].recon,
             t \in overtaken' <=> t \in overtaken
      PROVE  Held(t)'
  <2>1. ~About(serving'[c], t) /\ \A d \in Handlers \ {c} : serving'[d] = serving[d]
    BY <1>1, <1>2, EndIs
  <2> QED
    BY <1>1, <1>2, <2>1 DEF Held
<1>3. CASE StillStep
  BY <1>1, <1>3 DEF StillStep, Unmoved, Held
<1>4. ASSUME NEW c \in Handlers, QuietStep(c) PROVE Held(t)'
  <2>1. Unmoved /\ serving' = [serving EXCEPT ![c] = serving'[c]]
    BY <1>4 DEF QuietStep
  <2>2. \A d \in Handlers \ {c} : serving'[d] = serving[d]
    BY <1>1, <2>1 DEF Serving
  <2>3. About(serving'[c], t) /\ serving'[c].op \in Undoing => txns[t].recon = 0 \/ txns[t].match # "MATCHED"
    BY <1>4 DEF QuietStep
  <2> QED
    BY <1>1, <2>1, <2>2, <2>3 DEF Held, Unmoved
<1>5. ASSUME NEW c \in Handlers, WriteStep(c) PROVE Held(t)'
  <2>0. PICK q : q = serving[c] /\ Wrote(q) /\ q.txn \in Rows
    BY <1>5 DEF WriteStep
  <2>1. Wrote(q) /\ q.txn \in Rows /\ Bank!End(c) /\ overtaken' = overtaken
    BY <1>5, <2>0 DEF WriteStep
  <2>2. q.op \in AboutOne \ {"RECEIPT"}
    BY <2>1 DEF Wrote
  <2>3. ~About(serving'[c], t) /\ \A d \in Handlers \ {c} : serving'[d] = serving[d]
    BY <1>1, <2>1, EndIs
  <2>4. t = q.txn /\ txns[t].recon # 0 /\ t \notin overtaken => q.op \notin Undoing
    BY <1>1, <2>0, <2>2 DEF Held, About
  <2>5. CASE t # q.txn
    <3>1. txns'[t] = txns[t]
      BY <2>1, <2>5 DEF Wrote, Only
    <3> QED
      BY <1>2, <2>1, <3>1
  <2>6. CASE t = q.txn
    <3>1. txns'[t].recon = txns[t].recon
      BY <2>1, <2>6 DEF Wrote, Only
    <3>2. q.op \notin Undoing => txns'[t].match = "MATCHED"
      BY <2>1, <2>2, <2>6 DEF AboutOne, Undoing, Wrote, Confirms, Links
    <3> QED
      BY <1>1, <2>1, <2>3, <2>4, <2>6, <3>1, <3>2 DEF Held
  <2> QED
    BY <2>5, <2>6
<1>6. ASSUME NEW c \in Handlers, ImportStep(c) PROVE Held(t)'
  <2>1. Bank!End(c) /\ overtaken' = overtaken
    BY <1>6 DEF ImportStep
  <2>2. CASE txns'[t] = txns[t]
    BY <1>2, <2>1, <2>2
  <2>3. CASE txns'[t].recon = 0
    BY <2>3 DEF Held
  <2> QED
    BY <1>6, <2>2, <2>3 DEF ImportStep
<1>7. ASSUME NEW c \in Handlers, DraftStep(c) PROVE Held(t)'
  BY <1>2, <1>7 DEF DraftStep
<1>8. ASSUME NEW c \in Handlers, NEW k, CompleteStep(c, k) PROVE Held(t)'
  <2>1. Bank!End(c) /\ txns'[t].match = txns[t].match
    BY <1>8 DEF CompleteStep, ReconStep
  <2>2. /\ txns'[t].recon = IF ReadyFor(t, k) THEN k ELSE txns[t].recon
        /\ t \in overtaken' <=> IF ReadyFor(t, k) THEN \E d \in Handlers : About(serving[d], t) ELSE t \in overtaken
    BY <1>8 DEF CompleteStep
  <2>3. CASE ReadyFor(t, k)
    <3>1. txns[t].match = "MATCHED"
      BY <2>3 DEF ReadyFor
    <3>2. ~About(serving'[c], t) /\ \A d \in Handlers \ {c} : serving'[d] = serving[d]
      BY <1>1, <2>1, EndIs
    <3> QED
      BY <2>1, <2>2, <2>3, <3>1, <3>2 DEF Held
  <2>4. CASE ~ReadyFor(t, k)
    BY <1>2, <2>1, <2>2, <2>4
  <2> QED
    BY <2>3, <2>4
<1>9. ASSUME NEW c \in Handlers, NEW k, ReopenStep(c, k) PROVE Held(t)'
  BY <1>2, <1>9 DEF ReopenStep, ReconStep
<1> QED
  BY <1>3, <1>4, <1>5, <1>6, <1>7, <1>8, <1>9 DEF BankStep

LEMMA BankSoundStep ==
  ASSUME BankSound, KeysOnce, KeysOnce', [Bank!Next]_(Bank!allVars)
  PROVE  BankSound'
<1>1. BankTypeOK
  BY DEF BankSound
<1>2. CASE Bank!Next
  <2>1. BankStep
    BY <1>1, <1>2, StepKinds DEF Bank!Next
  <2>2. BankTypeOK'
    BY <1>1, <2>1, TypeOverSteps
  <2>3. Calm
    BY <1>2, <2>2, NoticeCalms DEF Bank!Next
  <2>4. \A t \in Rows : Sound(t)' /\ Held(t)'
    BY <2>1, SoundOverSteps, HeldOverSteps
  <2>5. \A t \in Rows : t \notin crossed' => Alone(t)'
    BY <2>3 DEF Calm
  <2>6. \A t \in Rows : Single(t)'
    BY <2>1, <2>3, <2>5, SingleOverSteps DEF Single
  <2> QED
    BY <2>2, <2>4, <2>6 DEF BankSound
<1>3. CASE UNCHANGED Bank!allVars
  <2>1. StillStep /\ crossed' = crossed
    BY <1>3 DEF Bank!allVars, Bank!vars, StillStep, Unmoved
  <2>2. BankStep
    BY <2>1 DEF BankStep
  <2>3. BankTypeOK' /\ \A t \in Rows : Sound(t)' /\ Held(t)'
    BY <1>1, <2>2, TypeOverSteps, SoundOverSteps, HeldOverSteps
  <2>4. \A t \in Rows : Single(t) => Single(t)'
    BY <2>1, MatchesStay DEF StillStep, Unmoved, Single, MatchedRightly, Alone, About, Fits
  <2> QED
    BY <2>3, <2>4 DEF BankSound
<1> QED
  BY <1>2, <1>3

LEMMA BankSoundStarts == Bank!InitAll => BankSound
<1> SUFFICES ASSUME Bank!InitAll PROVE BankSound
  OBVIOUS
<1>1. /\ Serving /\ RowsTyped /\ recons = <<>> /\ \A t \in Rows : txns[t] = [match |-> "ABSENT", recon |-> 0]
      /\ \A c \in Handlers : serving[c] = [op |-> "IDLE"]
  BY DEF Bank!InitAll, Bank!Init, Bank!Idle, Bank!Absent, RowsTyped, Serving, TxnRows, Statuses
<1>2. \A c \in Handlers : JobRight(serving[c]) /\ \A t : ~About(serving[c], t)
  BY <1>1 DEF JobRight, BankJobs, About, AboutOne
<1>3. BankTypeOK
  BY <1>1, <1>2 DEF BankTypeOK
<1>4. \A t \in Rows : ConfirmedOf(t) = {} /\ SuggestedOf(t) = {}
  BY DEF Bank!InitAll, Bank!Init, ConfirmedOf, SuggestedOf
<1>5. \A t \in Rows : Sound(t) /\ Held(t)
  BY <1>1 DEF Sound, Held
<1>6. ASSUME NEW t \in Rows PROVE Single(t)
  <2>1. MatchedRightly(t)
    BY <1>1, <1>4 DEF MatchedRightly
  <2>2. \A c \in Handlers : ~About(serving[c], t)
    BY <1>2
  <2> QED
    BY <2>1, <2>2 DEF Single, Alone
<1> QED
  BY <1>3, <1>5, <1>6 DEF BankSound

LEMMA BankStaysSound == Bank!Spec => []BankSound
<1>1. Bank!InitAll => KeysOnce
  BY DEF Bank!InitAll, Bank!Init, KeysOnce, Serving, Bank!Idle
<1>2. KeysOnce /\ [Bank!Next]_(Bank!allVars) => KeysOnce'
  <2>1. CASE UNCHANGED Bank!allVars
    BY <2>1 DEF Bank!allVars, Bank!vars, KeysOnce, Serving
  <2> QED
    BY <2>1, KeysOnceStep
<1>3. BankSound /\ KeysOnce /\ KeysOnce' /\ [Bank!Next]_(Bank!allVars) => BankSound'
  BY BankSoundStep
<1> QED
  BY <1>1, <1>2, <1>3, BankSoundStarts, PTL DEF Bank!Spec

\* However suggestions, confirmations, matches by hand, receipts, reversals,
\* imports and reconciliations overlap or die: a MATCHED transaction has a
\* confirmed match, and while no two requests have handled it together it has
\* exactly one, and none when it is not MATCHED (BankMatchingService).
THEOREM MatchedIsConfirmed == Bank!Spec => []MatchedIffConfirmed
<1>1. BankSound => MatchedIffConfirmed
  <2> SUFFICES ASSUME BankSound, NEW t \in Rows
               PROVE  /\ txns[t].match = "MATCHED" => ConfirmedOf(t) # {}
                      /\ t \notin crossed => Cardinality(ConfirmedOf(t)) = IF txns[t].match = "MATCHED" THEN 1 ELSE 0
    <3>1. DOMAIN matches = Bank!MatchIds
      BY DEF BankSound, BankTypeOK, RowsTyped, Bank!MatchIds
    <3>2. \A t \in Rows : ConfirmedOf(t) = Bank!ConfirmedMatches(t)
      BY <3>1 DEF ConfirmedOf, Bank!ConfirmedMatches
    <3> QED
      BY <3>2 DEF MatchedIffConfirmed, Bank!MatchedIffConfirmed, Cardinality, Bank!Cardinality
  <2>1. Sound(t) /\ Single(t)
    BY DEF BankSound
  <2>2. ASSUME t \notin crossed PROVE Cardinality(ConfirmedOf(t)) = IF txns[t].match = "MATCHED" THEN 1 ELSE 0
    <3>1. MatchedRightly(t)
      BY <2>1, <2>2 DEF Single
    <3> QED
      BY <3>1, FS_EmptySet, FS_Singleton DEF MatchedRightly
  <2> QED
    BY <2>1, <2>2 DEF Sound
<1> QED
  BY <1>1, BankStaysSound, PTL

\* What counts as reconciled lies in a completed reconciliation that covers
\* its day, for any requests at once.  It is matched, even when its match was
\* reversed between complete's recalculation and its marking, unless a request
\* about it was under way when it was marked (BankReconciliationService).
THEOREM ReconciledStaysMatched == Bank!Spec => []ReconciledIsBacked
<1>1. BankSound => ReconciledIsBacked
  <2> SUFFICES ASSUME BankSound, NEW t \in Rows, txns[t].recon # 0
               PROVE  /\ recons[txns[t].recon].status = "RECONCILED"
                      /\ Bank!Within(recons[txns[t].recon].span, Day[t])
                      /\ txns[t].match = "MATCHED" \/ t \in overtaken
    BY DEF ReconciledIsBacked, Bank!ReconciledIsBacked
  <2>1. Sound(t) /\ Held(t)
    BY DEF BankSound
  <2> QED
    BY <2>1 DEF Sound, Held
<1> QED
  BY <1>1, BankStaysSound, PTL

-----------------------------------------------------------------------------
(***************************************************************************)
(* The chart of accounts.  Rows are checked when they are read and written *)
(* later, so the inductive invariant says what somebody who is about to    *)
(* write may still rely on: the codes of the rows differ from each other,  *)
(* what a template's rows leave out is on the chart, and the version read  *)
(* is at most one ahead.  Whether a code has been taken meanwhile is left  *)
(* to the unique index.                                                    *)
(***************************************************************************)
\* Numbered rows, no two of one code.
Coded(rows) ==
  /\ Len(rows) \in Nat /\ DOMAIN rows = 1..Len(rows)
  /\ \A n, k \in DOMAIN rows : rows[n].code = rows[k].code => n = k

ChartTypeOK ==
  /\ IsList(chart) /\ IsList(imports) /\ IsList(templates)
  /\ \A a \in DOMAIN chart : {"code", "batch"} \subseteq DOMAIN chart[a] /\ chart[a].batch \in 0..Len(imports)
  /\ \A t \in DOMAIN templates : Coded(templates[t].lines)
  /\ provisioned \subseteq DOMAIN templates
  /\ requests = [r \in ChartRequests |-> requests[r]]

MadeBy(b) == {a \in DOMAIN chart : chart[a].batch = b}
ImportsWhole ==
  \A b \in DOMAIN imports :
    /\ {chart[a].code : a \in MadeBy(b)} = Chart!CodesOf(imports[b].rows)
    /\ imports[b].created = Cardinality(MadeBy(b))
TemplatesWhole == \A t \in provisioned : Chart!CodesOf(templates[t].lines) \subseteq Chart!CodesTaken
CodesApart == \A a, z \in DOMAIN chart : chart[a].code = chart[z].code => a = z
VersionsRunOn == \A t \in DOMAIN templates : templates[t].version = t

ChartJobOK(q) ==
  /\ q.op = "TEMPLATE" => Coded(q.lines) /\ q.version \in 1..(Len(templates) + 1)
  /\ q.op = "INSERT" =>
       /\ Coded(q.rows) /\ q.batch \in BOOLEAN
       /\ q.batch => q.template = 0
       /\ ~q.batch => /\ q.template \in DOMAIN templates
                      /\ Chart!CodesOf(templates[q.template].lines) \subseteq Chart!CodesOf(q.rows) \cup Chart!CodesTaken
  /\ q.op = "UPDATE" => DOMAIN q.change \cap {"code", "batch"} = {}

ChartWhole == ImportsWhole /\ TemplatesWhole /\ CodesApart /\ VersionsRunOn
ChartSound == ChartTypeOK /\ ChartWhole /\ \A r \in ChartRequests : ChartJobOK(requests[r])

LEMMA SameCardinality ==
  ASSUME NEW S PROVE Chart!Cardinality(S) = Cardinality(S)
BY DEF Chart!Cardinality, Cardinality

\* The lists of a template's missing lines have its missing codes, once each.
LEMMA PickedCodes ==
  ASSUME NEW lines, Coded(lines), NEW S \in SUBSET DOMAIN lines
  PROVE  /\ Coded(Chart!Picked(lines, S))
         /\ Chart!CodesOf(Chart!Picked(lines, S)) = {lines[n].code : n \in S}
<1> DEFINE rows == Picked(lines, S)
           n == Cardinality(S)
           s == Ascending(S)
<1>1. Chart!Picked(lines, S) = rows
  BY DEF Chart!Picked, Picked, Chart!Ascending, Ascending, Chart!Cardinality, Cardinality
<1>2. S \in SUBSET Nat /\ IsFiniteSet(S)
  <2>1. IsFiniteSet(1..Len(lines))
    BY FS_Interval DEF Coded
  <2> QED
    BY <2>1, FS_Subset DEF Coded
<1>3. /\ n \in Nat /\ DOMAIN rows = 1..n
      /\ \A k \in 1..n : s[k] \in S /\ rows[k] = lines[s[k]]
      /\ \A j, k \in 1..n : j < k => s[j] < s[k]
      /\ \A x \in S : \E k \in 1..n : s[k] = x /\ rows[k] = lines[x]
  <2> HIDE DEF rows, n, s
  <2> USE DEF rows, n, s
  <2> QED
    BY <1>2, PickedHas
<1>4. IsList(rows) /\ Len(rows) = n
  <2>1. rows = [k \in 1..n |-> rows[k]]
    BY DEF Picked
  <2> HIDE DEF rows, n
  <2> QED
    BY <2>1, <1>3, ListOf
<1> HIDE DEF rows, n, s
<1>5. Coded(rows)
  <2>1. ASSUME NEW j \in 1..n, NEW k \in 1..n, rows[j].code = rows[k].code PROVE j = k
    <3>1. s[j] = s[k]
      BY <1>3, <2>1 DEF Coded
    <3>2. s[j] \in Nat
      BY <1>2, <1>3
    <3> QED
      BY <1>3, <3>1, <3>2
  <2> QED
    BY <1>3, <1>4, <2>1 DEF Coded
<1>6. Chart!CodesOf(rows) = {lines[k].code : k \in S}
  BY <1>3 DEF Chart!CodesOf
<1> QED
  BY <1>1, <1>5, <1>6

LEMMA ChartStarts == Chart!Init => ChartSound
<1> SUFFICES ASSUME Chart!Init PROVE ChartSound
  OBVIOUS
<1>1. IsList(<<>>) /\ DOMAIN <<>> = {}
  <2>1. <<>> \in Seq({})
    OBVIOUS
  <2> QED
    BY <2>1 DEF IsList
<1>2. chart = <<>> /\ imports = <<>> /\ templates = <<>> /\ provisioned = {}
      /\ requests = [r \in ChartRequests |-> Chart!Idle]
  BY DEF Chart!Init
<1>3. ChartTypeOK
  BY <1>1, <1>2 DEF ChartTypeOK
<1>4. ChartWhole
  BY <1>1, <1>2 DEF ChartWhole, ImportsWhole, TemplatesWhole, CodesApart, VersionsRunOn
<1>5. \A r \in ChartRequests : requests[r].op = "IDLE"
  BY <1>2 DEF Chart!Idle
<1> QED
  BY <1>3, <1>4, <1>5 DEF ChartSound, ChartJobOK

\* What a request has read stays right while rows only come to be more.
ChartGrew ==
  /\ Chart!CodesTaken \subseteq Chart!CodesTaken'
  /\ Len(templates) <= Len(templates')
  /\ \A t \in DOMAIN templates : templates'[t] = templates[t]

LEMMA JobsStay ==
  ASSUME IsList(templates), IsList(templates'), ChartGrew, NEW q, ChartJobOK(q)
  PROVE  ChartJobOK(q)'
<1>1. /\ Len(templates) \in Nat /\ DOMAIN templates = 1..Len(templates)
      /\ Len(templates') \in Nat /\ DOMAIN templates' = 1..Len(templates')
  BY ListHas
<1>2. DOMAIN templates \subseteq DOMAIN templates' /\ 1..(Len(templates) + 1) \subseteq 1..(Len(templates') + 1)
  BY <1>1 DEF ChartGrew
<1>3. ASSUME q.op = "INSERT", ~q.batch
      PROVE  Chart!CodesOf(templates'[q.template].lines) \subseteq Chart!CodesOf(q.rows) \cup Chart!CodesTaken'
  <2>1. q.template \in DOMAIN templates
        /\ Chart!CodesOf(templates[q.template].lines) \subseteq Chart!CodesOf(q.rows) \cup Chart!CodesTaken
    BY <1>3 DEF ChartJobOK
  <2>2. templates'[q.template] = templates[q.template] /\ Chart!CodesTaken \subseteq Chart!CodesTaken'
    BY <2>1 DEF ChartGrew
  <2> QED
    BY <2>1, <2>2
<1> QED
  BY <1>2, <1>3 DEF ChartJobOK

\* Only one request's own part changes.
OnlyJob(r, what) == requests' = [requests EXCEPT ![r] = what]

LEMMA JobsSound ==
  ASSUME ChartSound, IsList(templates'), ChartGrew,
         NEW r \in ChartRequests, NEW what, OnlyJob(r, what), ChartJobOK(what)'
  PROVE  /\ requests' = [d \in ChartRequests |-> requests'[d]]
         /\ \A d \in ChartRequests : ChartJobOK(requests[d])'
<1>1. requests = [d \in ChartRequests |-> requests[d]] /\ IsList(templates)
  BY DEF ChartSound, ChartTypeOK
<1>2. requests' = [d \in ChartRequests |-> IF d = r THEN what ELSE requests[d]]
  BY <1>1 DEF OnlyJob
<1>3. requests' = [d \in ChartRequests |-> requests'[d]]
  BY <1>2
<1>4. ASSUME NEW d \in ChartRequests PROVE ChartJobOK(requests[d])'
  <2>1. PICK q : q = requests'[d]
    OBVIOUS
  <2>2. CASE d = r
    <3>1. q = what
      BY <2>1, <2>2, <1>2
    <3> QED
      BY <3>1, <2>1
  <2>3. CASE d # r
    <3>1. q = requests[d]
      BY <2>1, <2>3, <1>2
    <3>2. ChartJobOK(q)
      BY <3>1 DEF ChartSound
    <3>3. ChartJobOK(q)'
      BY <3>2, <1>1, JobsStay
    <3> QED
      BY <3>3, <2>1
  <2> QED
    BY <2>2, <2>3
<1> QED
  BY <1>3, <1>4

LEMMA ChartReads ==
  ASSUME ChartSound, NEW r \in ChartRequests, NEW what, OnlyJob(r, what), ChartJobOK(what),
         UNCHANGED <<chart, imports, templates, provisioned>>
  PROVE  ChartSound'
<1>1. ChartGrew
  <2>1. Chart!CodesTaken' = Chart!CodesTaken
    BY DEF Chart!CodesTaken, Chart!Ids
  <2>2. templates' = templates /\ Len(templates) \in Nat
    BY ListHas DEF ChartSound, ChartTypeOK
  <2> QED
    BY <2>1, <2>2 DEF ChartGrew
<1>2. IsList(templates) /\ IsList(templates')
  BY DEF ChartSound, ChartTypeOK
<1>3. ChartJobOK(what)'
  BY <1>1, <1>2, JobsStay
<1>4. requests' = [d \in ChartRequests |-> requests'[d]] /\ \A d \in ChartRequests : ChartJobOK(requests[d])'
  BY <1>1, <1>2, <1>3, JobsSound
<1>5. ChartTypeOK'
  BY <1>4 DEF ChartSound, ChartTypeOK
<1>6. ChartWhole'
  BY DEF ChartSound, ChartWhole, ImportsWhole, MadeBy, TemplatesWhole, CodesApart, VersionsRunOn,
         Chart!CodesTaken, Chart!Ids
<1> QED
  BY <1>4, <1>5, <1>6 DEF ChartSound

LEMMA IdleSound == ChartJobOK(Chart!Idle) /\ ChartJobOK(Chart!Idle)'
BY DEF ChartJobOK, Chart!Idle

LEMMA ImportRead ==
  ASSUME ChartSound, NEW r \in ChartRequests, Chart!ReadImport(r)
  PROVE  ChartSound'
<1>1. PICK file \in ChartFiles, overrides \in Chosen :
        /\ Len(imports) < MaxBatches /\ Len(chart) < MaxAccounts
        /\ \A n \in DOMAIN file : Chart!RowStatus(file, overrides, n) # "ERROR"
        /\ Chart!Write(r, [op |-> "INSERT", batch |-> TRUE, template |-> 0,
                           rows |-> [n \in DOMAIN file |-> [code |-> file[n].code, name |-> file[n].name, parent |-> Unknown,
                                                            classification |-> Chart!Resolved(file, overrides, n)]]])
  BY Zenon DEF Chart!ReadImport
<1>2. PICK rows : rows = [n \in DOMAIN file |-> [code |-> file[n].code, name |-> file[n].name, parent |-> Unknown,
                                                 classification |-> Chart!Resolved(file, overrides, n)]]
  OBVIOUS
<1>3. Len(file) \in Nat /\ DOMAIN file = 1..Len(file)
  BY ChartAssumption
<1>4. \A n, m \in DOMAIN file : m \in 1..(n - 1) => file[m].code # file[n].code
  <2>1. \A n \in DOMAIN file : ~Chart!Erroneous(file, overrides, n)
    BY <1>1 DEF Chart!RowStatus
  <2> QED
    BY <2>1 DEF Chart!Erroneous
<1>5. DOMAIN rows = DOMAIN file /\ \A n \in DOMAIN file : rows[n].code = file[n].code
  BY <1>2
<1>6. Len(rows) = Len(file)
  <2>1. rows = [n \in 1..Len(file) |-> rows[n]]
    BY <1>2, <1>3
  <2> QED
    BY <2>1, <1>3, ListOf
<1>7. Coded(rows)
  <2>1. ASSUME NEW n \in DOMAIN file, NEW m \in DOMAIN file, file[n].code = file[m].code PROVE n = m
    <3>1. n \in Nat /\ m \in Nat /\ n >= 1 /\ m >= 1
      BY <1>3
    <3>2. ~(m < n) /\ ~(n < m)
      BY <3>1, <2>1, <1>4
    <3> QED
      BY <3>1, <3>2
  <2> QED
    BY <2>1, <1>3, <1>5, <1>6 DEF Coded
<1> DEFINE what == [op |-> "INSERT", batch |-> TRUE, template |-> 0, rows |-> rows]
<1>8. ChartJobOK(what)
  BY <1>7 DEF ChartJobOK
<1>9. OnlyJob(r, what) /\ UNCHANGED <<chart, imports, templates, provisioned>>
  <2> HIDE <1>2
  <2>1. Chart!Write(r, what)
    BY <1>1, <1>2
  <2> HIDE DEF what
  <2> QED
    BY <2>1 DEF Chart!Write, OnlyJob
<1> HIDE DEF what
<1> QED
  BY <1>8, <1>9, ChartReads

LEMMA TemplateRead ==
  ASSUME ChartSound, NEW r \in ChartRequests, Chart!ReadTemplate(r)
  PROVE  ChartSound'
<1>1. PICK lines \in Provisions :
        /\ Len(templates) < MaxTemplates
        /\ Chart!WellFormedTemplate(lines)
        /\ Chart!Write(r, [op |-> "TEMPLATE", lines |-> lines,
                           version |-> Chart!Max({templates[t].version : t \in DOMAIN templates} \cup {0}) + 1])
  BY Zenon DEF Chart!ReadTemplate
<1> DEFINE versions == {templates[t].version : t \in DOMAIN templates} \cup {0}
           what == [op |-> "TEMPLATE", lines |-> lines, version |-> Chart!Max(versions) + 1]
<1>2. Coded(lines)
  <2>1. Len(lines) \in Nat /\ DOMAIN lines = 1..Len(lines)
    BY ChartAssumption
  <2>2. \A n, k \in DOMAIN lines : lines[n].code = lines[k].code => n = k
    BY <1>1 DEF Chart!WellFormedTemplate, Chart!IsInjective
  <2> QED
    BY <2>1, <2>2 DEF Coded
<1>3. Len(templates) \in Nat /\ DOMAIN templates = 1..Len(templates)
  BY ListHas DEF ChartSound, ChartTypeOK
<1>4. versions = 0..Len(templates)
  <2>1. \A t \in DOMAIN templates : templates[t].version = t
    BY DEF ChartSound, ChartWhole, VersionsRunOn
  <2>2. ASSUME NEW v PROVE v \in versions <=> v \in 0..Len(templates)
    BY <2>1, <1>3
  <2> QED
    BY <2>2
<1>5. Chart!Max(versions) = Len(templates)
  <2>1. PICK n : n = Len(templates)
    OBVIOUS
  <2>2. n \in Nat /\ versions = 0..n
    BY <2>1, <1>3, <1>4
  <2> HIDE DEF versions
  <2>3. Chart!Max(versions) = CHOOSE x \in 0..n : \A y \in 0..n : x >= y
    BY <2>2 DEF Chart!Max
  <2>4. n \in 0..n /\ \A y \in 0..n : n >= y
    BY <2>2
  <2>5. \A x \in 0..n : (\A y \in 0..n : x >= y) => x = n
    BY <2>2, <2>4
  <2>6. Chart!Max(versions) = n
    BY <2>3, <2>4, <2>5
  <2> QED
    BY <2>1, <2>6
<1> HIDE DEF versions
<1>6. ChartJobOK(what)
  BY <1>2, <1>3, <1>5 DEF ChartJobOK
<1>7. OnlyJob(r, what) /\ UNCHANGED <<chart, imports, templates, provisioned>>
  <2>1. Chart!Write(r, what)
    BY <1>1 DEF versions
  <2> HIDE DEF what
  <2> QED
    BY <2>1 DEF Chart!Write, OnlyJob
<1> HIDE DEF what
<1> QED
  BY <1>6, <1>7, ChartReads

LEMMA ProvisionRead ==
  ASSUME ChartSound, NEW r \in ChartRequests, Chart!ReadProvision(r)
  PROVE  ChartSound'
<1>1. PICK t \in DOMAIN templates :
        LET lines == templates[t].lines
            missing == {n \in DOMAIN lines : lines[n].code \notin Chart!CodesTaken}
        IN /\ Len(chart) < MaxAccounts
           /\ Chart!Write(r, [op |-> "INSERT", batch |-> FALSE, template |-> t, rows |-> Chart!Picked(lines, missing)])
  BY Zenon DEF Chart!ReadProvision
<1> DEFINE lines == templates[t].lines
           missing == {n \in DOMAIN lines : lines[n].code \notin Chart!CodesTaken}
           rows == Chart!Picked(lines, missing)
           what == [op |-> "INSERT", batch |-> FALSE, template |-> t, rows |-> rows]
<1>2. Coded(lines) /\ missing \in SUBSET DOMAIN lines
  BY DEF ChartSound, ChartTypeOK
<1>3. Coded(rows) /\ Chart!CodesOf(rows) = {lines[n].code : n \in missing}
  <2> HIDE DEF lines, missing
  <2> QED
    BY <1>2, PickedCodes
<1>4. Chart!CodesOf(lines) \subseteq Chart!CodesOf(rows) \cup Chart!CodesTaken
  <2>1. \A n \in DOMAIN lines : n \in missing \/ lines[n].code \in Chart!CodesTaken
    OBVIOUS
  <2> HIDE DEF lines, missing, rows
  <2> QED
    BY <2>1, <1>3 DEF Chart!CodesOf
<1>5. OnlyJob(r, what) /\ UNCHANGED <<chart, imports, templates, provisioned>>
  <2>1. Chart!Write(r, what)
    BY <1>1
  <2> HIDE DEF what
  <2> QED
    BY <2>1 DEF Chart!Write, OnlyJob
<1> HIDE DEF rows
<1>6. ChartJobOK(what)
  BY <1>3, <1>4 DEF ChartJobOK
<1> HIDE DEF what
<1> QED
  BY <1>5, <1>6, ChartReads

LEMMA OtherReads ==
  ASSUME ChartSound, NEW r \in ChartRequests,
         Chart!ReadCreate(r) \/ Chart!ReadUpdate(r) \/ Chart!ReadActivity(r) \/ Chart!ReadRegister(r)
  PROVE  ChartSound'
<1>1. PICK what : Chart!Write(r, what) /\ ChartJobOK(what)
  <2>1. ASSUME Chart!ReadCreate(r) PROVE \E what : Chart!Write(r, what) /\ ChartJobOK(what)
    <3>1. PICK new \in NewAccounts : Chart!Write(r, [op |-> "CREATE", new |-> new])
      BY <2>1 DEF Chart!ReadCreate
    <3>2. ChartJobOK([op |-> "CREATE", new |-> new])
      BY DEF ChartJobOK
    <3> QED
      BY <3>1, <3>2, Zenon
  <2>2. ASSUME Chart!ReadUpdate(r) PROVE \E what : Chart!Write(r, what) /\ ChartJobOK(what)
    <3>1. PICK a \in Chart!Ids, change \in Updates : Chart!Write(r, [op |-> "UPDATE", account |-> a, change |-> change])
      BY <2>2 DEF Chart!ReadUpdate
    <3>2. DOMAIN change \cap {"code", "batch"} = {}
      BY ChartAssumption
    <3>3. ChartJobOK([op |-> "UPDATE", account |-> a, change |-> change])
      BY <3>2 DEF ChartJobOK
    <3> QED
      BY <3>1, <3>3, Zenon
  <2>3. ASSUME Chart!ReadActivity(r) PROVE \E what : Chart!Write(r, what) /\ ChartJobOK(what)
    <3>1. PICK a \in Chart!Ids : Chart!Write(r, [op |-> "UPDATE", account |-> a, change |-> [active |-> ~chart[a].active]])
      BY <2>3 DEF Chart!ReadActivity
    <3>2. ChartJobOK([op |-> "UPDATE", account |-> a, change |-> [active |-> ~chart[a].active]])
      BY DEF ChartJobOK
    <3> QED
      BY <3>1, <3>2, Zenon
  <2>4. ASSUME Chart!ReadRegister(r) PROVE \E what : Chart!Write(r, what) /\ ChartJobOK(what)
    <3>1. PICK a \in Chart!Ids, fund \in CashFunds \cup {NoFund} :
            Chart!Write(r, [op |-> "REGISTER", account |-> a, fund |-> fund])
      BY <2>4 DEF Chart!ReadRegister
    <3>2. ChartJobOK([op |-> "REGISTER", account |-> a, fund |-> fund])
      BY DEF ChartJobOK
    <3> QED
      BY <3>1, <3>2, Zenon
  <2> QED
    BY <2>1, <2>2, <2>3, <2>4
<1>2. OnlyJob(r, what) /\ UNCHANGED <<chart, imports, templates, provisioned>>
  BY <1>1 DEF Chart!Write, OnlyJob
<1> QED
  BY <1>1, <1>2, ChartReads
-----------------------------------------------------------------------------
\* Rows that come onto the chart after those that are there.
RowsAdded(new, batch) ==
  /\ IsList(chart') /\ Len(chart') = Len(chart) + Len(new)
  /\ \A a \in 1..Len(chart) : chart'[a] = chart[a]
  /\ \A n \in 1..Len(new) :
       /\ chart'[Len(chart) + n].code = new[n].code /\ chart'[Len(chart) + n].batch = batch
       /\ {"code", "batch"} \subseteq DOMAIN chart'[Len(chart) + n]

\* The batch that counts them, if they are of one.
Counted(new, batch) ==
  \/ batch = 0 /\ imports' = imports
  \/ /\ batch = Len(imports) + 1 /\ IsList(imports') /\ Len(imports') = batch
     /\ \A b \in 1..Len(imports) : imports'[b] = imports[b]
     /\ imports'[batch].rows = new /\ imports'[batch].created = Len(new)

LEMMA ChartRows ==
  ASSUME ChartTypeOK
  PROVE  /\ Len(chart) \in Nat /\ DOMAIN chart = 1..Len(chart)
         /\ Len(imports) \in Nat /\ DOMAIN imports = 1..Len(imports)
         /\ Len(templates) \in Nat /\ DOMAIN templates = 1..Len(templates)
BY ListHas DEF ChartTypeOK

LEMMA CodesGrow ==
  ASSUME ChartTypeOK, NEW new, Coded(new), NEW batch, RowsAdded(new, batch)
  PROVE  /\ DOMAIN chart' = 1..(Len(chart) + Len(new))
         /\ Chart!CodesTaken' = Chart!CodesTaken \cup Chart!CodesOf(new)
<1>1. Len(chart) \in Nat /\ DOMAIN chart = 1..Len(chart) /\ Len(new) \in Nat /\ DOMAIN new = 1..Len(new)
  BY ChartRows DEF Coded
<1>2. DOMAIN chart' = 1..(Len(chart) + Len(new))
  BY ListHas DEF RowsAdded
<1>3. ASSUME NEW a \in DOMAIN chart' PROVE chart'[a].code \in Chart!CodesTaken \cup Chart!CodesOf(new)
  <2>1. CASE a \in 1..Len(chart)
    BY <2>1, <1>1 DEF RowsAdded, Chart!CodesTaken, Chart!Ids
  <2>2. CASE a \notin 1..Len(chart)
    <3>1. a - Len(chart) \in 1..Len(new) /\ a = Len(chart) + (a - Len(chart))
      BY <2>2, <1>1, <1>2
    <3> QED
      BY <3>1, <1>1 DEF RowsAdded, Chart!CodesOf
  <2> QED
    BY <2>1, <2>2
<1>4. ASSUME NEW x \in Chart!CodesTaken PROVE x \in Chart!CodesTaken'
  <2>1. PICK a \in DOMAIN chart : x = chart[a].code
    BY DEF Chart!CodesTaken, Chart!Ids
  <2>2. a \in DOMAIN chart' /\ chart'[a] = chart[a]
    BY <1>1, <1>2 DEF RowsAdded
  <2> QED
    BY <2>1, <2>2 DEF Chart!CodesTaken, Chart!Ids
<1>5. ASSUME NEW x \in Chart!CodesOf(new) PROVE x \in Chart!CodesTaken'
  <2>1. PICK n \in 1..Len(new) : x = new[n].code
    BY <1>1 DEF Chart!CodesOf
  <2>2. Len(chart) + n \in DOMAIN chart' /\ chart'[Len(chart) + n].code = x
    BY <1>1, <1>2, <2>1 DEF RowsAdded
  <2> QED
    BY <2>2 DEF Chart!CodesTaken, Chart!Ids
<1>6. ASSUME NEW x \in Chart!CodesTaken' PROVE x \in Chart!CodesTaken \cup Chart!CodesOf(new)
  <2>1. PICK a \in DOMAIN chart' : x = chart'[a].code
    BY <1>6 DEF Chart!CodesTaken, Chart!Ids
  <2> QED
    BY <2>1, <1>3
<1> QED
  BY <1>2, <1>4, <1>5, <1>6

\* The old rows are of old batches, the new ones of theirs.
LEMMA BatchesGrow ==
  ASSUME ChartTypeOK, NEW new, Coded(new), NEW batch, RowsAdded(new, batch), Counted(new, batch)
  PROVE  /\ \A b \in 1..Len(imports) : MadeBy(b)' = MadeBy(b)
         /\ batch # 0 => MadeBy(batch)' = (Len(chart) + 1)..(Len(chart) + Len(new))
<1>1. /\ Len(chart) \in Nat /\ DOMAIN chart = 1..Len(chart) /\ Len(new) \in Nat /\ Len(imports) \in Nat
      /\ \A a \in DOMAIN chart : chart[a].batch \in 0..Len(imports)
  BY ChartRows DEF Coded, ChartTypeOK
<1>2. DOMAIN chart' = 1..(Len(chart) + Len(new))
  BY CodesGrow
<1>3. \A a \in 1..Len(chart) : a \in DOMAIN chart' /\ chart'[a].batch = chart[a].batch
  BY <1>1, <1>2 DEF RowsAdded
<1>4. \A a \in DOMAIN chart' : a \notin 1..Len(chart) => chart'[a].batch = batch
  <2>1. \A a \in DOMAIN chart' : a \notin 1..Len(chart) => a - Len(chart) \in 1..Len(new) /\ a = Len(chart) + (a - Len(chart))
    BY <1>1, <1>2
  <2> QED
    BY <2>1 DEF RowsAdded
<1>5. batch \notin 1..Len(imports)
  BY <1>1 DEF Counted
<1>6. ASSUME NEW b \in 1..Len(imports) PROVE MadeBy(b)' = MadeBy(b)
  <2>1. ASSUME NEW a PROVE a \in MadeBy(b)' <=> a \in MadeBy(b)
    BY <1>1, <1>3, <1>4, <1>5 DEF MadeBy
  <2> QED
    BY <2>1
<1>7. ASSUME batch # 0 PROVE MadeBy(batch)' = (Len(chart) + 1)..(Len(chart) + Len(new))
  <2>1. batch = Len(imports) + 1
    BY <1>7 DEF Counted
  <2>2. \A a \in 1..Len(chart) : chart'[a].batch # batch
    BY <1>1, <1>3, <2>1
  <2>3. ASSUME NEW a PROVE a \in MadeBy(batch)' <=> a \in DOMAIN chart' /\ a \notin 1..Len(chart)
    BY <1>4, <2>2 DEF MadeBy
  <2>4. ASSUME NEW a PROVE a \in DOMAIN chart' /\ a \notin 1..Len(chart) <=> a \in (Len(chart) + 1)..(Len(chart) + Len(new))
    BY <1>1, <1>2
  <2> QED
    BY <2>3, <2>4
<1> QED
  BY <1>6, <1>7

LEMMA GrowthKeeps ==
  ASSUME ChartTypeOK, ChartWhole, NEW new, Coded(new), Chart!CodesOf(new) \cap Chart!CodesTaken = {},
         NEW batch, RowsAdded(new, batch), Counted(new, batch)
  PROVE  /\ ImportsWhole' /\ CodesApart'
         /\ IsList(chart') /\ IsList(imports')
         /\ \A a \in DOMAIN chart' : {"code", "batch"} \subseteq DOMAIN chart'[a] /\ chart'[a].batch \in 0..Len(imports')
<1>1. /\ Len(chart) \in Nat /\ DOMAIN chart = 1..Len(chart) /\ Len(imports) \in Nat /\ DOMAIN imports = 1..Len(imports)
      /\ Len(new) \in Nat /\ DOMAIN new = 1..Len(new)
  BY ChartRows DEF Coded
<1>2. DOMAIN chart' = 1..(Len(chart) + Len(new)) /\ Chart!CodesTaken' = Chart!CodesTaken \cup Chart!CodesOf(new)
  BY CodesGrow
<1>3. \A a \in DOMAIN chart' : a \notin 1..Len(chart) => a - Len(chart) \in 1..Len(new) /\ a = Len(chart) + (a - Len(chart))
  BY <1>1, <1>2
<1>4. IsList(chart') /\ IsList(imports') /\ DOMAIN imports' = 1..Len(imports') /\ Len(imports) <= Len(imports')
  <2>1. IsList(chart') /\ IsList(imports') /\ Len(imports) <= Len(imports')
    BY <1>1 DEF RowsAdded, Counted, ChartTypeOK
  <2> QED
    BY <2>1, ListHas
<1>5. ASSUME NEW a \in DOMAIN chart'
      PROVE  {"code", "batch"} \subseteq DOMAIN chart'[a] /\ chart'[a].batch \in 0..Len(imports')
  <2>0. batch \in 0..Len(imports') /\ Len(imports') \in Nat
    BY <1>1, <1>4, ListHas DEF Counted
  <2>1. CASE a \in 1..Len(chart)
    <3>1. chart'[a] = chart[a] /\ {"code", "batch"} \subseteq DOMAIN chart[a] /\ chart[a].batch \in 0..Len(imports)
      BY <1>1, <2>1 DEF RowsAdded, ChartTypeOK
    <3> QED
      BY <3>1, <1>1, <1>4, <2>0
  <2>2. CASE a \notin 1..Len(chart)
    <3>1. a - Len(chart) \in 1..Len(new) /\ a = Len(chart) + (a - Len(chart))
      BY <2>2, <1>3
    <3> QED
      BY <3>1, <2>0 DEF RowsAdded
  <2> QED
    BY <2>1, <2>2
<1>6. CodesApart'
  <2>0. CodesApart
    BY DEF ChartWhole
  <2>1. ASSUME NEW a \in DOMAIN chart', NEW z \in DOMAIN chart', a \in 1..Len(chart), z \in 1..Len(chart), chart'[a].code = chart'[z].code
        PROVE  a = z
    BY <2>0, <2>1, <1>1 DEF RowsAdded, CodesApart
  <2>2. ASSUME NEW a \in DOMAIN chart', NEW z \in DOMAIN chart', a \in 1..Len(chart), z \notin 1..Len(chart)
        PROVE  chart'[a].code # chart'[z].code
    <3>1. chart'[a].code \in Chart!CodesTaken
      BY <2>2, <1>1 DEF RowsAdded, Chart!CodesTaken, Chart!Ids
    <3>2. chart'[z].code \in Chart!CodesOf(new)
      <4>1. z - Len(chart) \in 1..Len(new) /\ z = Len(chart) + (z - Len(chart))
        BY <2>2, <1>3
      <4> QED
        BY <4>1, <1>1 DEF RowsAdded, Chart!CodesOf
    <3> QED
      BY <3>1, <3>2
  <2>3. ASSUME NEW a \in DOMAIN chart', NEW z \in DOMAIN chart', a \notin 1..Len(chart), z \notin 1..Len(chart), chart'[a].code = chart'[z].code
        PROVE  a = z
    <3>1. /\ a - Len(chart) \in DOMAIN new /\ a = Len(chart) + (a - Len(chart))
          /\ z - Len(chart) \in DOMAIN new /\ z = Len(chart) + (z - Len(chart))
      BY <2>3, <1>1, <1>3
    <3>2. new[a - Len(chart)].code = new[z - Len(chart)].code
      BY <2>3, <3>1, <1>1 DEF RowsAdded
    <3>3. a - Len(chart) = z - Len(chart)
      BY <3>1, <3>2 DEF Coded
    <3> QED
      BY <3>1, <3>3
  <2> QED
    BY <2>1, <2>2, <2>3 DEF CodesApart
<1>7. /\ \A b \in 1..Len(imports) : MadeBy(b)' = MadeBy(b)
      /\ batch # 0 => MadeBy(batch)' = (Len(chart) + 1)..(Len(chart) + Len(new))
  BY BatchesGrow
<1>8. ASSUME NEW b \in 1..Len(imports), imports'[b] = imports[b]
      PROVE  /\ {chart'[a].code : a \in MadeBy(b)'} = Chart!CodesOf(imports'[b].rows)
             /\ imports'[b].created = Cardinality(MadeBy(b)')
  <2>1. MadeBy(b)' = MadeBy(b)
    BY <1>7
  <2>2. \A a \in MadeBy(b) : chart'[a].code = chart[a].code
    BY <1>1 DEF RowsAdded, MadeBy
  <2>3. {chart'[a].code : a \in MadeBy(b)} = {chart[a].code : a \in MadeBy(b)}
    BY <2>2
  <2>4. /\ {chart[a].code : a \in MadeBy(b)} = Chart!CodesOf(imports[b].rows)
        /\ imports[b].created = Cardinality(MadeBy(b))
    BY <1>1 DEF ChartWhole, ImportsWhole
  <2> QED
    BY <2>1, <2>3, <2>4, <1>8
<1>9. ASSUME batch # 0
      PROVE  /\ {chart'[a].code : a \in MadeBy(batch)'} = Chart!CodesOf(imports'[batch].rows)
             /\ imports'[batch].created = Cardinality(MadeBy(batch)')
  <2>1. imports'[batch].rows = new /\ imports'[batch].created = Len(new)
    BY <1>9 DEF Counted
  <2> DEFINE made == (Len(chart) + 1)..(Len(chart) + Len(new))
  <2>2. MadeBy(batch)' = made
    BY <1>7, <1>9
  <2>3. Cardinality(made) = Len(new)
    <3>1. PICK m \in Nat, n \in Nat : m = Len(chart) /\ n = Len(new)
      BY <1>1
    <3>2. Cardinality((m + 1)..(m + n)) = IF (m + 1) > (m + n) THEN 0 ELSE (m + n) - (m + 1) + 1
      BY FS_Interval
    <3>3. Cardinality((m + 1)..(m + n)) = n
      BY <3>2
    <3> QED
      BY <3>1, <3>3
  <2>4. {chart'[a].code : a \in made} = Chart!CodesOf(new)
    <3>1. ASSUME NEW a \in made PROVE chart'[a].code \in Chart!CodesOf(new)
      <4>1. PICK n \in 1..Len(new) : a = Len(chart) + n
        <5>1. a - Len(chart) \in 1..Len(new) /\ a = Len(chart) + (a - Len(chart))
          BY <1>1
        <5> QED
          BY <5>1
      <4>2. new[n].code = chart'[a].code /\ n \in DOMAIN new
        BY <4>1, <1>1 DEF RowsAdded
      <4> QED
        BY <4>2 DEF Chart!CodesOf
    <3>2. ASSUME NEW x \in Chart!CodesOf(new) PROVE \E a \in made : chart'[a].code = x
      <4>1. PICK n \in 1..Len(new) : x = new[n].code
        BY <1>1 DEF Chart!CodesOf
      <4>2. Len(chart) + n \in made /\ chart'[Len(chart) + n].code = x
        BY <1>1, <4>1 DEF RowsAdded
      <4> QED
        BY <4>2
    <3> QED
      BY <3>1, <3>2
  <2> HIDE DEF made
  <2> QED
    BY <2>1, <2>2, <2>3, <2>4
<1>10. ImportsWhole'
  <2>1. CASE batch = 0
    <3>1. imports' = imports
      BY <2>1, <1>1 DEF Counted
    <3> QED
      BY <3>1, <1>1, <1>8 DEF ImportsWhole
  <2>2. CASE batch # 0
    <3>1. batch = Len(imports) + 1 /\ Len(imports') = batch /\ \A b \in 1..Len(imports) : imports'[b] = imports[b]
      BY <2>2 DEF Counted
    <3>2. \A b \in DOMAIN imports' : b \in 1..Len(imports) \/ b = batch
      BY <3>1, <1>1, <1>4
    <3> QED
      BY <3>1, <3>2, <1>8, <1>9, <2>2 DEF ImportsWhole
  <2> QED
    BY <2>1, <2>2
<1> QED
  BY <1>4, <1>5, <1>6, <1>10
-----------------------------------------------------------------------------
\* A write that adds no row, changes no code and leaves no batch.
ChartKept ==
  /\ IsList(chart') /\ DOMAIN chart' = DOMAIN chart
  /\ \A a \in DOMAIN chart : /\ chart'[a].code = chart[a].code /\ chart'[a].batch = chart[a].batch
                             /\ DOMAIN chart'[a] = DOMAIN chart[a]
  /\ UNCHANGED <<imports, templates, provisioned>>

LEMMA KeptSound ==
  ASSUME ChartSound, ChartKept, NEW r \in ChartRequests, OnlyJob(r, Chart!Idle)
  PROVE  ChartSound'
<1>1. Chart!CodesTaken' = Chart!CodesTaken
  <2>1. ASSUME NEW x PROVE x \in Chart!CodesTaken' <=> x \in Chart!CodesTaken
    BY DEF ChartKept, Chart!CodesTaken, Chart!Ids
  <2> QED
    BY <2>1
<1>2. ChartGrew
  <2>1. templates' = templates /\ Len(templates) \in Nat
    BY ListHas DEF ChartKept, ChartSound, ChartTypeOK
  <2> QED
    BY <1>1, <2>1 DEF ChartGrew
<1>3. IsList(templates')
  BY DEF ChartKept, ChartSound, ChartTypeOK
<1>4. /\ requests' = [d \in ChartRequests |-> requests'[d]]
      /\ \A d \in ChartRequests : ChartJobOK(requests[d])'
  BY <1>2, <1>3, IdleSound, JobsSound
<1>5. ChartTypeOK'
  BY <1>4 DEF ChartKept, ChartSound, ChartTypeOK
<1>6. \A b : MadeBy(b)' = MadeBy(b)
  <2>1. ASSUME NEW b, NEW a PROVE a \in MadeBy(b)' <=> a \in MadeBy(b)
    BY DEF MadeBy, ChartKept
  <2> QED
    BY <2>1
<1>7. ImportsWhole'
  <2>1. ASSUME NEW b \in DOMAIN imports
        PROVE  {chart'[a].code : a \in MadeBy(b)'} = Chart!CodesOf(imports[b].rows) /\ imports[b].created = Cardinality(MadeBy(b)')
    <3>1. \A a \in MadeBy(b) : chart'[a].code = chart[a].code
      BY DEF MadeBy, ChartKept
    <3>2. {chart'[a].code : a \in MadeBy(b)} = {chart[a].code : a \in MadeBy(b)}
      BY <3>1
    <3>3. {chart[a].code : a \in MadeBy(b)} = Chart!CodesOf(imports[b].rows) /\ imports[b].created = Cardinality(MadeBy(b))
      BY DEF ChartSound, ChartWhole, ImportsWhole
    <3> QED
      BY <1>6, <3>2, <3>3
  <2>2. imports' = imports
    BY DEF ChartKept
  <2> QED
    BY <2>1, <2>2 DEF ImportsWhole
<1>8. TemplatesWhole' /\ CodesApart' /\ VersionsRunOn'
  BY <1>1 DEF ChartKept, ChartSound, ChartWhole, TemplatesWhole, CodesApart, VersionsRunOn
<1> QED
  BY <1>4, <1>5, <1>7, <1>8 DEF ChartSound, ChartWhole

LEMMA UpdateSound ==
  ASSUME ChartSound, NEW r \in ChartRequests, Chart!Update(r)
  PROVE  ChartSound'
<1>1. PICK a, change : a = requests[r].account /\ change = requests[r].change
  OBVIOUS
<1>2. /\ chart' = [chart EXCEPT ![a] = [f \in DOMAIN @ |-> IF f \in DOMAIN change THEN change[f] ELSE @[f]]]
      /\ OnlyJob(r, Chart!Idle) /\ UNCHANGED <<imports, templates, provisioned>>
  BY <1>1 DEF Chart!Update, Chart!Done, OnlyJob
<1>3. DOMAIN change \cap {"code", "batch"} = {}
  BY <1>1 DEF Chart!Update, ChartSound, ChartJobOK
<1>4. PICK row : row = [f \in DOMAIN chart[a] |-> IF f \in DOMAIN change THEN change[f] ELSE chart[a][f]]
  OBVIOUS
<1>5. DOMAIN row = DOMAIN chart[a] /\ ({"code", "batch"} \subseteq DOMAIN chart[a] => row.code = chart[a].code /\ row.batch = chart[a].batch)
  BY <1>3, <1>4
<1>6. chart' = [chart EXCEPT ![a] = row]
  BY <1>2, <1>4
<1>7. IsList(chart) /\ \A z \in DOMAIN chart : {"code", "batch"} \subseteq DOMAIN chart[z]
  BY DEF ChartSound, ChartTypeOK
<1>8. IsList(chart') /\ DOMAIN chart' = DOMAIN chart
  <2>1. Len(chart) \in Nat /\ DOMAIN chart = 1..Len(chart)
    BY <1>7, ListHas
  <2>2. DOMAIN chart' = 1..Len(chart) /\ chart' = [k \in 1..Len(chart) |-> chart'[k]]
    <3>1. PICK X : chart \in Seq(X)
      BY <1>7 DEF IsList
    <3>2. chart = [k \in 1..Len(chart) |-> chart[k]]
      BY <3>1
    <3> QED
      BY <3>2, <1>6
  <2> QED
    BY <2>1, <2>2, ListOf
<1>9. ChartKept
  BY <1>2, <1>5, <1>6, <1>7, <1>8 DEF ChartKept
<1> QED
  BY <1>2, <1>9, KeptSound

LEMMA RegisterSound ==
  ASSUME ChartSound, NEW r \in ChartRequests, Chart!Register(r)
  PROVE  ChartSound'
<1>1. ChartKept
  BY DEF Chart!Register, ChartKept, ChartSound, ChartTypeOK
<1>2. OnlyJob(r, Chart!Idle)
  BY DEF Chart!Register, Chart!Done, OnlyJob
<1> QED
  BY <1>1, <1>2, KeptSound

LEMMA TemplateSound ==
  ASSUME ChartSound, NEW r \in ChartRequests, Chart!InsertTemplate(r)
  PROVE  ChartSound'
<1>1. PICK lines, version : lines = requests[r].lines /\ version = requests[r].version
  OBVIOUS
<1>2. /\ OnlyJob(r, Chart!Idle) /\ UNCHANGED <<chart, imports, provisioned>>
      /\ templates' = IF \E t \in DOMAIN templates : templates[t].version = version THEN templates
                      ELSE Append(templates, [version |-> version, lines |-> lines])
  BY <1>1 DEF Chart!InsertTemplate, Chart!Done, OnlyJob
<1>3. Coded(lines) /\ version \in 1..(Len(templates) + 1)
  BY <1>1 DEF Chart!InsertTemplate, ChartSound, ChartJobOK
<1>4. ChartTypeOK /\ ImportsWhole /\ TemplatesWhole /\ CodesApart /\ VersionsRunOn
  BY DEF ChartSound, ChartWhole
<1>5. Len(templates) \in Nat /\ DOMAIN templates = 1..Len(templates)
  BY <1>4, ChartRows
<1>6. CASE \E t \in DOMAIN templates : templates[t].version = version
  <2>1. ChartKept
    BY <1>2, <1>6, <1>4 DEF ChartKept, ChartTypeOK
  <2> QED
    BY <1>2, <2>1, KeptSound
<1>7. CASE ~\E t \in DOMAIN templates : templates[t].version = version
  <2>1. PICK row : row = [version |-> version, lines |-> lines]
    OBVIOUS
  <2>2. templates' = Append(templates, row) /\ row.version = version /\ row.lines = lines
    BY <1>2, <1>7, <2>1
  <2>3. version = Len(templates) + 1
    <3>1. version \notin DOMAIN templates
      BY <1>4, <1>7 DEF VersionsRunOn
    <3>2. PICK n \in Nat : n = Len(templates)
      BY <1>5
    <3>3. version \in 1..(n + 1) /\ version \notin 1..n
      BY <1>3, <1>5, <3>1, <3>2
    <3>4. version = n + 1
      BY <3>3
    <3> QED
      BY <3>2, <3>4
  <2>4. /\ IsList(templates') /\ Len(templates') = Len(templates) + 1
        /\ \A k \in 1..Len(templates) : templates'[k] = templates[k]
        /\ templates'[Len(templates) + 1] = row
    BY <1>4, <2>2, ListAppend DEF ChartTypeOK
  <2>5. DOMAIN templates' = 1..(Len(templates) + 1)
    BY <2>4, ListHas
  <2>6. Chart!CodesTaken' = Chart!CodesTaken
    BY <1>2 DEF Chart!CodesTaken, Chart!Ids
  <2>7. ChartGrew
    BY <2>4, <2>6, <1>5 DEF ChartGrew
  <2>8. /\ requests' = [d \in ChartRequests |-> requests'[d]]
        /\ \A d \in ChartRequests : ChartJobOK(requests[d])'
    BY <1>2, <2>4, <2>7, IdleSound, JobsSound
  <2>9. \A t \in DOMAIN templates' : \/ t \in DOMAIN templates /\ templates'[t] = templates[t]
                                     \/ t = Len(templates) + 1 /\ templates'[t] = row
    BY <2>4, <2>5, <1>5
  <2>10. \A t \in DOMAIN templates' : Coded(templates'[t].lines) /\ templates'[t].version = t
    BY <2>9, <2>2, <2>3, <1>3, <1>4 DEF ChartTypeOK, VersionsRunOn
  <2>11. ChartTypeOK'
    <3>1. DOMAIN templates \subseteq DOMAIN templates'
      BY <2>5, <1>5
    <3> QED
      BY <1>2, <1>4, <2>4, <2>8, <2>10, <3>1 DEF ChartTypeOK
  <2>12. ImportsWhole' /\ CodesApart'
    <3>1. chart' = chart /\ imports' = imports
      BY <1>2
    <3>2. \A b : MadeBy(b)' = MadeBy(b)
      BY <3>1 DEF MadeBy
    <3> QED
      BY <1>4, <3>1, <3>2 DEF ImportsWhole, CodesApart
  <2>13. TemplatesWhole'
    <3>1. \A t \in provisioned : templates'[t] = templates[t]
      BY <1>4, <1>5, <2>4 DEF ChartTypeOK
    <3> QED
      BY <1>2, <1>4, <2>6, <3>1 DEF TemplatesWhole
  <2> QED
    BY <2>8, <2>10, <2>11, <2>12, <2>13 DEF ChartSound, ChartWhole, VersionsRunOn
<1> QED
  BY <1>6, <1>7

\* Rows whose codes are free come on, and with them what a template provisions.
LEMMA AddedSound ==
  ASSUME ChartSound, NEW new, Coded(new), Chart!CodesOf(new) \cap Chart!CodesTaken = {},
         NEW batch, RowsAdded(new, batch), Counted(new, batch),
         templates' = templates, provisioned' \subseteq DOMAIN templates,
         \A t \in provisioned' \ provisioned : Chart!CodesOf(templates[t].lines) \subseteq Chart!CodesOf(new) \cup Chart!CodesTaken,
         NEW r \in ChartRequests, OnlyJob(r, Chart!Idle)
  PROVE  ChartSound'
<1>1. ChartTypeOK /\ ChartWhole
  BY DEF ChartSound
<1>2. Chart!CodesTaken' = Chart!CodesTaken \cup Chart!CodesOf(new)
  BY <1>1, CodesGrow
<1>3. IsList(templates) /\ IsList(templates') /\ Len(templates) \in Nat
  BY <1>1, ListHas DEF ChartTypeOK
<1>4. ChartGrew
  BY <1>2, <1>3 DEF ChartGrew
<1>5. /\ requests' = [d \in ChartRequests |-> requests'[d]]
      /\ \A d \in ChartRequests : ChartJobOK(requests[d])'
  BY <1>3, <1>4, IdleSound, JobsSound
<1>6. /\ ImportsWhole' /\ CodesApart'
      /\ IsList(chart') /\ IsList(imports')
      /\ \A a \in DOMAIN chart' : {"code", "batch"} \subseteq DOMAIN chart'[a] /\ chart'[a].batch \in 0..Len(imports')
  BY <1>1, GrowthKeeps
<1>7. ChartTypeOK'
  BY <1>1, <1>3, <1>5, <1>6 DEF ChartTypeOK
<1>8. TemplatesWhole'
  <2>1. \A t \in provisioned' : Chart!CodesOf(templates[t].lines) \subseteq Chart!CodesTaken'
    BY <1>1, <1>2 DEF ChartWhole, TemplatesWhole
  <2> QED
    BY <2>1 DEF TemplatesWhole
<1>9. VersionsRunOn'
  BY <1>1 DEF ChartWhole, VersionsRunOn
<1> QED
  BY <1>5, <1>6, <1>7, <1>8, <1>9 DEF ChartSound, ChartWhole

LEMMA CreateSound ==
  ASSUME ChartSound, NEW r \in ChartRequests, Chart!Create(r)
  PROVE  ChartSound'
<1>1. PICK x : x = requests[r].new
  OBVIOUS
<1>2. /\ OnlyJob(r, Chart!Idle) /\ UNCHANGED <<imports, templates, provisioned>>
      /\ chart' = IF x.code \in Chart!CodesTaken THEN chart ELSE Append(chart, Chart!Account(x, x.parent, x.fund, 0))
  BY <1>1 DEF Chart!Create, Chart!Done, OnlyJob
<1>3. ChartTypeOK
  BY DEF ChartSound
<1>4. CASE x.code \in Chart!CodesTaken
  <2>1. chart' = chart
    BY <1>2, <1>4
  <2>2. ChartKept
    BY <1>2, <1>3, <2>1 DEF ChartKept, ChartTypeOK
  <2> QED
    BY <1>2, <2>2, KeptSound
<1>5. CASE x.code \notin Chart!CodesTaken
  <2>1. PICK row : row = Chart!Account(x, x.parent, x.fund, 0)
    OBVIOUS
  <2>2. row.code = x.code /\ row.batch = 0 /\ {"code", "batch"} \subseteq DOMAIN row
    BY <2>1 DEF Chart!Account
  <2>3. chart' = Append(chart, row)
    BY <1>2, <1>5, <2>1
  <2>4. /\ IsList(chart') /\ Len(chart') = Len(chart) + 1
        /\ \A k \in 1..Len(chart) : chart'[k] = chart[k]
        /\ chart'[Len(chart) + 1] = row
    BY <1>3, <2>3, ListAppend DEF ChartTypeOK
  <2>5. PICK new : new = <<x>>
    OBVIOUS
  <2>6. Len(new) = 1 /\ DOMAIN new = 1..1 /\ new[1] = x
    BY <2>5
  <2>7. Coded(new) /\ Chart!CodesOf(new) = {x.code}
    BY <2>6 DEF Coded, Chart!CodesOf
  <2>8. RowsAdded(new, 0)
    BY <2>2, <2>4, <2>6 DEF RowsAdded
  <2>9. Counted(new, 0)
    BY <1>2 DEF Counted
  <2>10. templates' = templates /\ provisioned' = provisioned /\ provisioned \subseteq DOMAIN templates
    BY <1>2, <1>3 DEF ChartTypeOK
  <2>11. Chart!CodesOf(new) \cap Chart!CodesTaken = {}
    BY <1>5, <2>7
  <2> QED
    BY <1>2, <2>7, <2>8, <2>9, <2>10, <2>11, AddedSound
<1> QED
  BY <1>4, <1>5

LEMMA InsertSound ==
  ASSUME ChartSound, NEW r \in ChartRequests, Chart!Insert(r)
  PROVE  ChartSound'
<1>1. ChartTypeOK
  BY DEF ChartSound
<1>2. PICK q : q = requests[r]
  OBVIOUS
<1>3. q.op = "INSERT" /\ ChartJobOK(q)
  BY <1>2 DEF ChartSound, Chart!Insert
<1>4. PICK rows : rows = q.rows
  OBVIOUS
<1>5. Coded(rows) /\ q.batch \in BOOLEAN
  BY <1>3, <1>4 DEF ChartJobOK
<1>6. CASE Chart!CodesOf(rows) \cap Chart!CodesTaken # {}
  <2>1. OnlyJob(r, Chart!Idle) /\ UNCHANGED <<chart, imports, templates, provisioned>>
    BY <1>2, <1>4, <1>6 DEF Chart!Insert, Chart!Done, OnlyJob
  <2>2. ChartKept
    BY <1>1, <2>1 DEF ChartKept, ChartTypeOK
  <2> QED
    BY <2>1, <2>2, KeptSound
<1>7. CASE Chart!CodesOf(rows) \cap Chart!CodesTaken = {}
  <2>1. Chart!InsertRows(r, rows)
    BY <1>2, <1>4, <1>7 DEF Chart!Insert
  <2>2. PICK batch : batch = IF q.batch THEN Len(imports) + 1 ELSE 0
    OBVIOUS
  <2> DEFINE Parent(n) == LET at == {k \in DOMAIN rows : rows[k].code = rows[n].parent}
                          IN IF at = {} THEN 0 ELSE Len(chart) + Chart!Max(at)
  <2>3. PICK added : added = [n \in DOMAIN rows |-> Chart!Account(rows[n], Parent(n), NoFund, batch)]
    OBVIOUS
  <2>4. /\ OnlyJob(r, Chart!Idle) /\ templates' = templates
        /\ chart' = chart \o added
        /\ imports' = IF q.batch THEN Append(imports, [rows |-> rows, created |-> Len(rows)]) ELSE imports
        /\ provisioned' = IF q.template = 0 THEN provisioned ELSE provisioned \cup {q.template}
    BY <2>1, <2>2, <2>3, <1>2, <1>4 DEF Chart!InsertRows, Chart!Done, OnlyJob
  <2>5. \A n \in DOMAIN rows : added[n].code = rows[n].code /\ added[n].batch = batch /\ {"code", "batch"} \subseteq DOMAIN added[n]
    <3> HIDE DEF Parent
    <3> QED
      BY <2>3 DEF Chart!Account
  <2>6. IsList(added) /\ Len(added) = Len(rows)
    <3>1. added = [n \in 1..Len(rows) |-> added[n]]
      BY <2>3, <1>5 DEF Coded
    <3> QED
      BY <3>1, <1>5, ListOf DEF Coded
  <2>7. RowsAdded(rows, batch)
    <3>1. /\ IsList(chart') /\ Len(chart') = Len(chart) + Len(added)
          /\ \A k \in 1..Len(chart) : chart'[k] = chart[k]
          /\ \A k \in 1..Len(added) : chart'[Len(chart) + k] = added[k]
      BY <1>1, <2>4, <2>6, ListJoin DEF ChartTypeOK
    <3> QED
      BY <3>1, <2>5, <2>6, <1>5 DEF RowsAdded, Coded
  <2>8. Counted(rows, batch)
    <3>1. CASE ~q.batch
      BY <3>1, <2>2, <2>4 DEF Counted
    <3>2. CASE q.batch
      <4>1. PICK row : row = [rows |-> rows, created |-> Len(rows)]
        OBVIOUS
      <4>2. row.rows = rows /\ row.created = Len(rows) /\ imports' = Append(imports, row) /\ batch = Len(imports) + 1
        BY <4>1, <2>2, <2>4, <3>2
      <4>3. /\ IsList(imports') /\ Len(imports') = Len(imports) + 1
            /\ \A k \in 1..Len(imports) : imports'[k] = imports[k]
            /\ imports'[Len(imports) + 1] = row
        BY <1>1, <4>2, ListAppend DEF ChartTypeOK
      <4> QED
        BY <4>2, <4>3 DEF Counted
    <3> QED
      BY <3>1, <3>2, <1>5
  <2>9. /\ provisioned' \subseteq DOMAIN templates
        /\ \A t \in provisioned' \ provisioned :
             Chart!CodesOf(templates[t].lines) \subseteq Chart!CodesOf(rows) \cup Chart!CodesTaken
    <3>1. CASE q.template = 0
      BY <3>1, <2>4, <1>1 DEF ChartTypeOK
    <3>2. CASE q.template # 0
      <4>1. q.template \in DOMAIN templates
            /\ Chart!CodesOf(templates[q.template].lines) \subseteq Chart!CodesOf(rows) \cup Chart!CodesTaken
        BY <3>2, <1>3, <1>4, <1>5 DEF ChartJobOK
      <4>2. provisioned' = provisioned \cup {q.template}
        BY <3>2, <2>4
      <4> QED
        BY <4>1, <4>2, <1>1 DEF ChartTypeOK
    <3> QED
      BY <3>1, <3>2
  <2>10. OnlyJob(r, Chart!Idle) /\ templates' = templates
    BY <2>4
  <2> QED
    BY <1>5, <1>7, <2>7, <2>8, <2>9, <2>10, AddedSound
<1> QED
  BY <1>6, <1>7

LEMMA ChartKeeps == ChartSound /\ [Chart!Next]_(Chart!vars) => ChartSound'
<1> SUFFICES ASSUME ChartSound, [Chart!Next]_(Chart!vars) PROVE ChartSound'
  OBVIOUS
<1>1. ASSUME NEW r \in ChartRequests,
             Chart!ReadImport(r) \/ Chart!ReadTemplate(r) \/ Chart!ReadProvision(r) \/ Chart!ReadCreate(r)
               \/ Chart!ReadUpdate(r) \/ Chart!ReadActivity(r) \/ Chart!ReadRegister(r)
      PROVE  ChartSound'
  BY <1>1, ImportRead, TemplateRead, ProvisionRead, OtherReads
<1>2. ASSUME NEW r \in ChartRequests, 
             Chart!InsertTemplate(r) \/ Chart!Create(r) \/ Chart!Update(r) \/ Chart!Insert(r) \/ Chart!Register(r)
      PROVE  ChartSound'
  BY <1>2, TemplateSound, CreateSound, UpdateSound, InsertSound, RegisterSound
<1>3. CASE UNCHANGED <<chart, imports, templates, provisioned, requests>>
  <2>1. Chart!CodesTaken' = Chart!CodesTaken /\ \A b : MadeBy(b)' = MadeBy(b)
    BY <1>3 DEF Chart!CodesTaken, Chart!Ids, MadeBy
  <2>2. ChartTypeOK' /\ ChartWhole'
    <3>1. ChartTypeOK'
      BY <1>3 DEF ChartSound, ChartTypeOK
    <3>2. ImportsWhole'
      BY <1>3, <2>1 DEF ChartSound, ChartWhole, ImportsWhole
    <3>3. TemplatesWhole' /\ CodesApart' /\ VersionsRunOn'
      BY <1>3, <2>1 DEF ChartSound, ChartWhole, TemplatesWhole, CodesApart, VersionsRunOn
    <3> QED
      BY <3>1, <3>2, <3>3 DEF ChartWhole
  <2>3. ASSUME NEW r \in ChartRequests PROVE ChartJobOK(requests[r])'
    BY <1>3, <2>1 DEF ChartSound, ChartJobOK
  <2> QED
    BY <2>2, <2>3 DEF ChartSound
<1>4. ASSUME Chart!SwitchBankAccount PROVE ChartSound'
  BY <1>3, <1>4 DEF Chart!SwitchBankAccount
<1>5. CASE UNCHANGED Chart!vars
  BY <1>3, <1>5 DEF Chart!vars
<1> QED
  BY <1>1, <1>2, <1>4, <1>5 DEF Chart!Next

\* However imports, templates, hand-made accounts and updates overlap between
\* what they read and what they write, an import has brought all its rows onto
\* the chart or none, and its batch counts them; a template that was applied has
\* all its codes there; no two accounts share a code; versions of a template
\* run on (account-imports.service.ts, account-templates.service.ts).
THEOREM ImportsArriveWhole == Chart!Spec => []WholeOrNothing
<1>1. Chart!Init => ChartSound
  BY ChartStarts
<1>2. ChartSound /\ [Chart!Next]_(Chart!vars) => ChartSound'
  BY ChartKeeps
<1>3. ChartSound => WholeOrNothing
  <2> SUFFICES ASSUME ChartWhole PROVE WholeOrNothing
    BY DEF ChartSound
  <2>1. \A b \in DOMAIN imports :
          LET made == {a \in Chart!Ids : chart[a].batch = b}
          IN /\ {chart[a].code : a \in made} = Chart!CodesOf(imports[b].rows)
             /\ imports[b].created = Chart!Cardinality(made)
    BY SameCardinality DEF ChartWhole, ImportsWhole, MadeBy, Chart!Ids
  <2> QED
    BY <2>1 DEF ChartWhole, TemplatesWhole, CodesApart, VersionsRunOn, WholeOrNothing, Chart!WholeOrNothing, Chart!Ids
<1> QED
  BY <1>1, <1>2, <1>3, PTL DEF Chart!Spec
=============================================================================
