---------------------------- MODULE BankMatching ----------------------------
(***************************************************************************)
(* Bank statements and their matching: BankImportService and               *)
(* BankMatchingService.  A row of a statement is known by its hash, so a   *)
(* bank transaction is named by the row it came from.  A request reads and *)
(* checks when it starts and writes when it commits; nothing is locked, so *)
(* whatever other clients commit in between goes unseen.  A request may    *)
(* die before a commit; createReceiptFromTransaction has two of them.      *)
(* Dates are days, and a suggestion by date looks DateWindow days around.  *)
(***************************************************************************)
EXTENDS Integers, Sequences, FiniteSets, FiniteSetsExt

CONSTANTS
  Clients,
  Rows,           \* the statement rows, by their hash
  Amount,         \* Amount[row]: what came in, or out when negative
  Day,            \* Day[row]: its date
  BadRows,        \* rows that normalizeRows finds an issue with
  Files,          \* statement files: sequences of rows
  Keys,           \* idempotency keys of receipts a manager records by hand
  KeyAmount, KeyDay,
  Today,          \* the day a reversal is posted on
  Payments,       \* outgoing cash lines of the ledger: <<[amount, day], ...>>
  Evidence,       \* Evidence[rule]: pairs <<row, key>> a rule on references recognises
  DateWindow,     \* DATE_WINDOW_DAYS
  MaxMatches, MaxReceipts      \* bounds on what is created

VARIABLES
  imported,     \* files the account has a BankStatementImport for
  txns,         \* BankTransaction rows, by statement row
  receipts,     \* Receipt rows: key, amount, day, status
  matches,      \* BankTransactionMatch rows: txn, target, status
  job,          \* per client: the request that has read and not yet written
  crossed       \* history: transactions that two requests have handled at once

vars == <<imported, txns, receipts, matches, job, crossed>>

Absent == [match |-> "ABSENT", recon |-> 0]      \* recon 0: UNRECONCILED
Present == {t \in Rows : txns[t] # Absent}

ReceiptIds == 1..Len(receipts)
MatchIds == 1..Len(matches)
AbsoluteOf(n) == IF n < 0 THEN -n ELSE n

\* What a match points at: a receipt, or one line of the ledger.  The cash
\* lines of a receipt's journal and of its reversal are lines too.
Receipt(r) == [table |-> "RECEIPT", id |-> r]
Line(kind, n) == [table |-> kind, id |-> n]
CreditLines ==
  {Line("REVERSAL", r) : r \in {i \in ReceiptIds : receipts[i].status = "REVERSED"}}
    \cup {Line("PAYMENT", p) : p \in DOMAIN Payments}
Credit(l) == IF l.table = "PAYMENT" THEN Payments[l.id].amount ELSE receipts[l.id].amount

LineDay(l) ==
  IF l.table = "PAYMENT" THEN Payments[l.id].day
  ELSE IF l.table = "REVERSAL" THEN Today ELSE receipts[l.id].day

Confirmed(target) == \E m \in MatchIds : matches[m].target = target /\ matches[m].status = "CONFIRMED"

-----------------------------------------------------------------------------
(***************************************************************************)
(* Statements                                                              *)
(***************************************************************************)

\* Every row is checked before anything is written; a file that is already
\* imported is answered with the import it made.
ApplyAllowed(file) ==
  /\ file \notin imported
  /\ file # <<>> /\ \A i \in DOMAIN file : file[i] \notin BadRows

\* One transaction: rows seen in an earlier statement, or earlier in this
\* one, are skipped.
Apply(file) ==
  LET fresh == {file[i] : i \in DOMAIN file} \ Present IN
  /\ imported' = imported \cup {file}
  /\ txns' = [t \in Rows |-> IF t \in fresh THEN [match |-> "UNMATCHED", recon |-> 0] ELSE txns[t]]
  /\ UNCHANGED <<receipts, matches>>

-----------------------------------------------------------------------------
(***************************************************************************)
(* Suggestions                                                             *)
(***************************************************************************)

CandidateReceipts(t) ==
  {r \in ReceiptIds : receipts[r].status = "RECORDED" /\ receipts[r].amount = Amount[t]
                        /\ ~Confirmed(Receipt(r))}

CandidateLines(t) == {l \in CreditLines : Credit(l) = -Amount[t] /\ ~Confirmed(l)}

Candidates(t) == IF Amount[t] > 0 THEN {Receipt(r) : r \in CandidateReceipts(t)} ELSE CandidateLines(t)

\* The candidates a rule recognises.  After the rules on references, which
\* are about receipts, comes the one on dates, the only one for payments.
Recognised(t, rule) ==
  {l \in Candidates(t) :
     IF rule \in DOMAIN Evidence
     THEN l.table = "RECEIPT" /\ <<t, receipts[l.id].key>> \in Evidence[rule]
     ELSE AbsoluteOf(LineDay(l) - Day[t]) <= DateWindow}

\* The first rule that leaves exactly one candidate; no rule, no pick.
Picks(t) ==
  LET deciding == {k \in 1..(Len(Evidence) + 1) : Cardinality(Recognised(t, k)) = 1} IN
  IF deciding = {} THEN {} ELSE Recognised(t, Min(deciding))

Supersede(t) ==
  [m \in MatchIds |-> IF matches[m].txn = t /\ matches[m].status = "SUGGESTED"
                      THEN [matches[m] EXCEPT !.status = "REVERSED"] ELSE matches[m]]

Mark(t, status) == txns' = [txns EXCEPT ![t].match = status]

SuggestAllowed(t) == txns[t].match \notin {"MATCHED", "IGNORED"}

\* seen is the status as it was read with the candidates.
Suggest(t, picked, seen) ==
  /\ UNCHANGED <<imported, receipts>>
  /\ IF picked = {}
     THEN /\ matches' = Supersede(t)
          /\ IF seen = "UNMATCHED" THEN UNCHANGED txns ELSE Mark(t, "UNMATCHED")
     ELSE /\ \E target \in picked :
               matches' = Append(Supersede(t), [txn |-> t, target |-> target, status |-> "SUGGESTED"])
          /\ Mark(t, "SUGGESTED")

-----------------------------------------------------------------------------
(***************************************************************************)
(* Confirming, matching by hand, unmatching                                *)
(***************************************************************************)

\* assertStillValid.  A line's credit is compared with the absolute amount.
StillValid(t, target) ==
  /\ ~Confirmed(target)
  /\ IF target.table = "RECEIPT"
     THEN receipts[target.id].status = "RECORDED" /\ receipts[target.id].amount = Amount[t]
     ELSE Credit(target) = AbsoluteOf(Amount[t])

ConfirmAllowed(m) == matches[m].status = "SUGGESTED" /\ StillValid(matches[m].txn, matches[m].target)

Confirm(m) ==
  /\ matches' = [matches EXCEPT ![m].status = "CONFIRMED"]
  /\ Mark(matches[m].txn, "MATCHED")
  /\ UNCHANGED <<imported, receipts>>

ManualMatchAllowed(t, target) == txns[t].match # "MATCHED" /\ StillValid(t, target)

\* Faulty variant: an open suggestion survives the match made by hand.
ManualMatchKeepingSuggestion(t, target) ==
  /\ matches' = Append(matches, [txn |-> t, target |-> target, status |-> "CONFIRMED"])
  /\ Mark(t, "MATCHED")
  /\ UNCHANGED <<imported, receipts>>

\* The second half of manualMatchReceipt and manualMatchJournalLine, and of
\* createReceiptFromTransaction, which checks nothing again.
ManualMatch(t, target) ==
  /\ matches' = Append(Supersede(t), [txn |-> t, target |-> target, status |-> "CONFIRMED"])
  /\ Mark(t, "MATCHED")
  /\ UNCHANGED <<imported, receipts>>

ReverseMatchAllowed(m) == matches[m].status = "CONFIRMED" /\ txns[matches[m].txn].recon = 0

ReverseMatch(m) ==
  /\ matches' = [matches EXCEPT ![m].status = "REVERSED"]
  /\ Mark(matches[m].txn, "UNMATCHED")
  /\ UNCHANGED <<imported, receipts>>

IgnoreAllowed(t) == txns[t].match # "MATCHED"

Ignore(t) == Mark(t, "IGNORED") /\ UNCHANGED <<imported, receipts, matches>>

-----------------------------------------------------------------------------
(***************************************************************************)
(* Receipts, as far as matching calls and reads them.  The key of a receipt*)
(* made from a bank transaction is BANKTX- and the transaction's id: here  *)
(* the row itself.                                                         *)
(***************************************************************************)

NewReceipt(key) ==
  IF key \in Rows THEN [key |-> key, amount |-> Amount[key], day |-> Day[key], status |-> "RECORDED"]
  ELSE [key |-> key, amount |-> KeyAmount[key], day |-> KeyDay[key], status |-> "RECORDED"]

WithKey(key) == {r \in ReceiptIds : receipts[r].key = key}

\* Faulty variant: the receipt is recorded without a key.
RecordUnkeyed(key) ==
  /\ Len(receipts) < MaxReceipts
  /\ receipts' = Append(receipts, NewReceipt(key))

\* A key that was used before is answered with the receipt it made.
Record(key) ==
  \/ WithKey(key) # {} /\ UNCHANGED receipts
  \/ /\ WithKey(key) = {} /\ Len(receipts) < MaxReceipts
     /\ receipts' = Append(receipts, NewReceipt(key))

CreateReceiptAllowed(t) == txns[t].match # "MATCHED" /\ Amount[t] > 0

\* reverseReceipt knows nothing of bank matches.
ReverseReceipt ==
  /\ \E r \in ReceiptIds :
       /\ receipts[r].status = "RECORDED"
       /\ receipts' = [receipts EXCEPT ![r].status = "REVERSED"]
  /\ UNCHANGED <<imported, txns, matches, job>>

RecordByHand ==
  /\ \E key \in Keys : WithKey(key) = {} /\ Record(key)
  /\ UNCHANGED <<imported, txns, matches, job>>

-----------------------------------------------------------------------------
(***************************************************************************)
(* Requests                                                                *)
(***************************************************************************)

Idle == [op |-> "IDLE"]
Begin(c, request) == job[c] = Idle /\ job' = [job EXCEPT ![c] = request]
End(c) == job' = [job EXCEPT ![c] = Idle]

\* The clients that are about a transaction.
Handling(t) == {c \in Clients : "txn" \in DOMAIN job[c] /\ job[c].txn = t}

Notice == crossed' = crossed \cup {t \in Rows : \E c, d \in Handling(t)' : c # d}

Targets == {Receipt(r) : r \in ReceiptIds} \cup CreditLines

\* What the handlers of this service read and check.
Read(c) ==
  /\ UNCHANGED <<imported, txns, receipts, matches>>
  /\ \/ \E file \in Files : ApplyAllowed(file) /\ Begin(c, [op |-> "APPLY", file |-> file])
     \/ \E t \in Present : SuggestAllowed(t)
          /\ Begin(c, [op |-> "SUGGEST", txn |-> t, picked |-> Picks(t), seen |-> txns[t].match])
     \/ \E m \in MatchIds : ConfirmAllowed(m)
          /\ Begin(c, [op |-> "CONFIRM", match |-> m, txn |-> matches[m].txn])
     \/ \E t \in Present, target \in Targets : ManualMatchAllowed(t, target)
          /\ Begin(c, [op |-> "LINK", txn |-> t, target |-> target])
     \/ \E m \in MatchIds : ReverseMatchAllowed(m)
          /\ Begin(c, [op |-> "UNLINK", match |-> m, txn |-> matches[m].txn])
     \/ \E t \in Present : IgnoreAllowed(t) /\ Begin(c, [op |-> "IGNORE", txn |-> t])
     \/ \E t \in Present : CreateReceiptAllowed(t) /\ Begin(c, [op |-> "RECEIPT", txn |-> t])

\* The transaction that writes.
Write(c) ==
  \/ job[c].op = "APPLY" /\ Apply(job[c].file) /\ End(c)
  \/ /\ job[c].op = "SUGGEST" /\ Len(matches) < MaxMatches
     /\ Suggest(job[c].txn, job[c].picked, job[c].seen) /\ End(c)
  \/ job[c].op = "CONFIRM" /\ Confirm(job[c].match) /\ End(c)
  \/ /\ job[c].op = "LINK" /\ Len(matches) < MaxMatches
     /\ ManualMatch(job[c].txn, job[c].target) /\ End(c)
  \/ job[c].op = "UNLINK" /\ ReverseMatch(job[c].match) /\ End(c)
  \/ job[c].op = "IGNORE" /\ Ignore(job[c].txn) /\ End(c)

\* createReceiptFromTransaction: the receipt commits first, then the match.
WriteReceipt(c) ==
  /\ job[c].op = "RECEIPT"
  /\ Record(job[c].txn)
  /\ \E r \in 1..Len(receipts') :
       /\ receipts'[r].key = job[c].txn
       /\ job' = [job EXCEPT ![c] = [op |-> "LINK", txn |-> job[c].txn, target |-> Receipt(r)]]
  /\ UNCHANGED <<imported, txns, matches>>

\* The process dies, or the commit fails: what has not been written is lost.
Abandon(c) == job[c] # Idle /\ End(c) /\ UNCHANGED <<imported, txns, receipts, matches>>

Init ==
  /\ imported = {} /\ txns = [t \in Rows |-> Absent]
  /\ receipts = <<>> /\ matches = <<>>
  /\ job = [c \in Clients |-> Idle] /\ crossed = {}

-----------------------------------------------------------------------------
(***************************************************************************)
(* Properties                                                              *)
(***************************************************************************)

ConfirmedMatches(t) == {m \in MatchIds : matches[m].txn = t /\ matches[m].status = "CONFIRMED"}

\* A MATCHED transaction has a confirmed match, however its confirmation,
\* suggestions, overrides and reversals overlap.  It is MATCHED exactly when
\* it has one, and has one only, unless two requests have handled this very
\* transaction at once: what other requests do meanwhile never matters.
MatchedIffConfirmed ==
  \A t \in Rows :
    /\ txns[t].match = "MATCHED" => ConfirmedMatches(t) # {}
    /\ t \notin crossed =>
         Cardinality(ConfirmedMatches(t)) = IF txns[t].match = "MATCHED" THEN 1 ELSE 0

\* No bank transaction has two confirmed matches, and no receipt either.
ConfirmedOnce ==
  \A m, n \in MatchIds :
    /\ m # n /\ matches[m].status = "CONFIRMED" /\ matches[n].status = "CONFIRMED"
    => /\ matches[m].txn # matches[n].txn
       /\ matches[m].target.table = "RECEIPT" => matches[m].target # matches[n].target

\* createReceiptFromTransaction records one receipt of a deposit, however
\* often it dies between its transactions and is called again.
OneReceiptPerDeposit == \A t \in Rows : Cardinality(WithKey(t)) <= 1
=============================================================================
