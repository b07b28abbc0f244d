--------------------------- MODULE GeneralLedger ----------------------------
(***************************************************************************)
(* What the ledger promises its callers: posting, reversing and the period *)
(* calendar are single atomic steps on an append-only log of journals, one *)
(* journal per source key, one reversal per journal, and nothing posted    *)
(* outside an open period.  LedgerPosting extends this module with its own *)
(* variables and is shown to implement it.                                 *)
(***************************************************************************)
EXTENDS Journals

VARIABLES
  journals,  \* committed rows of journal_entries, in insertion order
  periods    \* committed rows of accounting_periods

ledgerVars == <<journals, periods>>

LedgerInit == journals = <<>> /\ periods = <<>>

AtomicPost(c) ==
  /\ PostedFor(journals, c.type, c.source) = {}
  /\ WellFormed(c.lines, FALSE)
  /\ \E per \in OpenFor(periods, c.date) :
       journals' = Append(journals,
         [type |-> c.type, source |-> c.source, lines |-> c.lines, date |-> c.date,
          period |-> per, reversalOf |-> NotAReversal, reason |-> NoReason])
  /\ UNCHANGED periods

AtomicReverse(k, date, why) ==
  /\ ReversalsOf(journals, k) = {}
  /\ PostedFor(journals, "REVERSAL", k) = {}
  /\ \E per \in OpenFor(periods, date) :
       journals' = Append(journals,
         [type |-> "REVERSAL", source |-> k, lines |-> Swapped(journals[k].lines),
          date |-> date, period |-> per, reversalOf |-> k, reason |-> why])
  /\ UNCHANGED periods

AtomicOpenPeriod(s, e) ==
  /\ s < e
  /\ \A i \in DOMAIN periods : ~Overlap([start |-> s, end |-> e], periods[i])
  /\ periods' = Append(periods, [start |-> s, end |-> e, status |-> "OPEN"])
  /\ UNCHANGED journals

AtomicSetStatus(i, status) ==
  /\ periods[i].status # status
  /\ periods' = [periods EXCEPT ![i].status = status]
  /\ UNCHANGED journals

LedgerNext ==
  \/ \E c \in Commands : AtomicPost(c)
  \/ \E k \in DOMAIN journals, d \in Dates, why \in Reasons : AtomicReverse(k, d, why)
  \/ \E s, e \in Dates : AtomicOpenPeriod(s, e)
  \/ \E i \in DOMAIN periods, status \in {"OPEN", "CLOSED"} : AtomicSetStatus(i, status)

GeneralLedgerSpec == LedgerInit /\ [][LedgerNext]_ledgerVars
=============================================================================
