--------------------------- MODULE ChartOfAccounts ---------------------------
(***************************************************************************)
(* The chart of accounts of one property: accounts made by hand, imported  *)
(* from a file or provisioned from a template, and the bank accounts       *)
(* registered on them.  A request reads what it checks and writes later;   *)
(* between the two others write, and only the unique indexes look again.   *)
(***************************************************************************)
EXTENDS SequencesExt, Collections

CONSTANTS
  Requests,         \* concurrent requests
  Funds,
  CashRules,        \* rules of the posting profile for FUND_CASH: [code, fund]
  NoFund,
  ByHand,           \* accounts somebody creates: [code, name, classification, parent, fund]
  Changes,          \* what somebody changes of an account, a record of some fields
  Files,            \* files: sequences of [code, name, suggested, confidence]
  Overrides,        \* classifications chosen for rows: functions of row numbers
  Templates,        \* lines of templates: sequences of [code, name, classification, parent]
  Unknown,          \* a classification, code or name that is not there
  MaxAccounts, MaxBatches, MaxTemplates, MaxBankAccounts   \* bounds

VARIABLES
  accounts,         \* AccountingAccount rows, in the order they were created
  batches,          \* AccountImportBatch rows: the rows of the file, and how many were created
  templates,        \* AccountTemplate rows of one name
  bankAccounts,     \* BankAccount rows
  provisioned,      \* history: templates that were applied
  job               \* per request: what it is about to write

vars == <<accounts, batches, templates, bankAccounts, provisioned, job>>

-----------------------------------------------------------------------------
Ids == DOMAIN accounts
CodesTaken == {accounts[a].code : a \in Ids}
NamesTaken == {accounts[a].name : a \in Ids}
CodesOf(rows) == {rows[n].code : n \in DOMAIN rows}

Idle == [op |-> "IDLE"]
Write(r, what) == job' = [job EXCEPT ![r] = what] /\ UNCHANGED <<accounts, batches, templates, bankAccounts, provisioned>>
Done(r) == job' = [job EXCEPT ![r] = Idle]

\* An account of no batch, whose parent is given.
Account(line, parent, fund, batch) ==
  [code |-> line.code, name |-> line.name, classification |-> line.classification,
   parent |-> parent, fund |-> fund, active |-> TRUE, batch |-> batch]

-----------------------------------------------------------------------------
(***************************************************************************)
(* The import.                                                             *)
(***************************************************************************)
\* The classification a row is imported with: one chosen for it, or the
\* suggestion.
Resolved(file, overrides, n) == IF n \in DOMAIN overrides THEN overrides[n] ELSE file[n].suggested

Erroneous(file, overrides, n) ==
  \/ file[n].code = Unknown \/ file[n].name = Unknown
  \/ file[n].code \in CodesTaken
  \/ \E k \in 1 .. n - 1 : file[k].code = file[n].code
  \/ Resolved(file, overrides, n) = Unknown

Doubtful(file, overrides, n) ==
  \/ file[n].name \in NamesTaken
  \/ \E k \in 1 .. n - 1 : file[k].name = file[n].name
  \/ n \notin DOMAIN overrides /\ file[n].confidence = "heuristic"

RowStatus(file, overrides, n) ==
  IF Erroneous(file, overrides, n) THEN "ERROR" ELSE IF Doubtful(file, overrides, n) THEN "WARNING" ELSE "READY"

\* Warnings do not stop an import, one error does.
ReadImport(r) ==
  \E file \in Files, overrides \in Overrides :
    /\ Len(batches) < MaxBatches /\ Len(accounts) < MaxAccounts
    /\ \A n \in DOMAIN file : RowStatus(file, overrides, n) # "ERROR"
    /\ Write(r, [op |-> "INSERT", batch |-> TRUE, template |-> 0,
                 rows |-> [n \in DOMAIN file |-> [code |-> file[n].code, name |-> file[n].name, parent |-> Unknown,
                                                  classification |-> Resolved(file, overrides, n)]]])

-----------------------------------------------------------------------------
(***************************************************************************)
(* Templates.                                                              *)
(***************************************************************************)
WellFormedTemplate(lines) ==
  /\ IsInjective([n \in DOMAIN lines |-> lines[n].code])
  /\ \A n \in DOMAIN lines : lines[n].parent \in CodesOf(lines) \cup {Unknown}

\* The next version is read before the transaction begins.
ReadTemplate(r) ==
  \E lines \in Templates :
    /\ Len(templates) < MaxTemplates
    /\ WellFormedTemplate(lines)
    /\ Write(r, [op |-> "TEMPLATE", lines |-> lines,
                 version |-> Max({templates[t].version : t \in DOMAIN templates} \cup {0}) + 1])

InsertTemplate(r) ==
  /\ job[r].op = "TEMPLATE"
  /\ Done(r)
  /\ templates' = IF \E t \in DOMAIN templates : templates[t].version = job[r].version THEN templates
                  ELSE Append(templates, [version |-> job[r].version, lines |-> job[r].lines])
  /\ UNCHANGED <<accounts, batches, bankAccounts, provisioned>>

\* Codes that are there already are skipped.
ReadProvision(r) ==
  \E t \in DOMAIN templates :
    LET lines == templates[t].lines
        missing == {n \in DOMAIN lines : lines[n].code \notin CodesTaken}
    IN /\ Len(accounts) < MaxAccounts
       /\ Write(r, [op |-> "INSERT", batch |-> FALSE, template |-> t, rows |-> Picked(lines, missing)])

-----------------------------------------------------------------------------
(***************************************************************************)
(* Accounts one by one.                                                    *)
(***************************************************************************)
ReadCreate(r) ==
  \E new \in ByHand :
    /\ Len(accounts) < MaxAccounts
    /\ new.code \notin CodesTaken
    /\ new.parent # 0 => new.parent \in Ids
    /\ Write(r, [op |-> "CREATE", new |-> new])

Create(r) ==
  /\ job[r].op = "CREATE"
  /\ Done(r)
  /\ LET new == job[r].new IN
     accounts' = IF new.code \in CodesTaken THEN accounts ELSE Append(accounts, Account(new, new.parent, new.fund, 0))
  /\ UNCHANGED <<batches, templates, bankAccounts, provisioned>>

\* Only the new parent's own parent is looked at.
ReadUpdate(r) ==
  \E a \in Ids, change \in Changes :
    /\ "parent" \in DOMAIN change =>
         change.parent = 0 \/ (change.parent \in Ids \ {a} /\ accounts[change.parent].parent # a)
    /\ Write(r, [op |-> "UPDATE", account |-> a, change |-> change])

ReadActivity(r) ==
  \E a \in Ids : Write(r, [op |-> "UPDATE", account |-> a, change |-> [active |-> ~accounts[a].active]])

Update(r) ==
  /\ job[r].op = "UPDATE"
  /\ Done(r)
  /\ accounts' = [accounts EXCEPT ![job[r].account] =
                    [f \in DOMAIN @ |-> IF f \in DOMAIN job[r].change THEN job[r].change[f] ELSE @[f]]]
  /\ UNCHANGED <<batches, templates, bankAccounts, provisioned>>

\* Rows of an import or a template, and the batch, in one transaction: a code
\* taken meanwhile undoes it.  Parents are looked up among the rows alone.
InsertRows(r, rows) ==
  LET Parent(n) == LET at == {k \in DOMAIN rows : rows[k].code = rows[n].parent}
                   IN IF at = {} THEN 0 ELSE Len(accounts) + Max(at)
      Batch == IF job[r].batch THEN Len(batches) + 1 ELSE 0
  IN /\ Done(r)
     /\ accounts' = accounts \o [n \in DOMAIN rows |-> Account(rows[n], Parent(n), NoFund, Batch)]
     /\ batches' = IF job[r].batch THEN Append(batches, [rows |-> job[r].rows, created |-> Len(job[r].rows)]) ELSE batches
     /\ provisioned' = IF job[r].template = 0 THEN provisioned ELSE provisioned \cup {job[r].template}
     /\ UNCHANGED <<templates, bankAccounts>>

\* Wrong: rows whose code was taken meanwhile are left out.
InsertWhatFits(r) ==
  LET Free(row) == row.code \notin CodesTaken
  IN job[r].op = "INSERT" /\ InsertRows(r, SelectSeq(job[r].rows, Free))

Insert(r) ==
  /\ job[r].op = "INSERT"
  /\ IF CodesOf(job[r].rows) \cap CodesTaken # {}
     THEN Done(r) /\ UNCHANGED <<accounts, batches, templates, bankAccounts, provisioned>>
     ELSE InsertRows(r, job[r].rows)

-----------------------------------------------------------------------------
(***************************************************************************)
(* Bank accounts.                                                          *)
(***************************************************************************)
Linked(a) == \E b \in DOMAIN bankAccounts : bankAccounts[b].account = a /\ bankAccounts[b].status = "ACTIVE"

\* Whichever rule of the account is found first decides on the fund; every
\* request names its bank account anew.
MayRegister(a, fund) ==
  /\ accounts[a].active /\ accounts[a].classification = "ASSET"
  /\ \E rule \in CashRules :
       /\ rule.code = accounts[a].code
       /\ fund # NoFund => rule.fund \in {NoFund, fund} /\ accounts[a].fund \in {NoFund, fund}
  /\ ~Linked(a)

ReadRegister(r) ==
  \E a \in Ids, fund \in Funds \cup {NoFund} :
    /\ Len(bankAccounts) < MaxBankAccounts
    /\ MayRegister(a, fund)
    /\ Write(r, [op |-> "REGISTER", account |-> a, fund |-> fund])

Register(r) ==
  /\ job[r].op = "REGISTER"
  /\ Done(r)
  /\ bankAccounts' = Append(bankAccounts, [account |-> job[r].account, fund |-> job[r].fund, status |-> "ACTIVE"])
  /\ UNCHANGED <<accounts, batches, templates, provisioned>>

\* Nothing is read but that the account exists.
SwitchBankAccount ==
  \E b \in DOMAIN bankAccounts, status \in {"ACTIVE", "INACTIVE"} :
    /\ bankAccounts' = [bankAccounts EXCEPT ![b].status = status]
    /\ UNCHANGED <<accounts, batches, templates, provisioned, job>>

-----------------------------------------------------------------------------
Init ==
  /\ accounts = <<>> /\ batches = <<>> /\ templates = <<>> /\ bankAccounts = <<>>
  /\ provisioned = {}
  /\ job = [r \in Requests |-> Idle]

Next ==
  \/ \E r \in Requests :
       /\ job[r] = Idle
       /\ ReadImport(r) \/ ReadTemplate(r) \/ ReadProvision(r) \/ ReadCreate(r) \/ ReadUpdate(r) \/ ReadActivity(r)
            \/ ReadRegister(r)
  \/ \E r \in Requests : InsertTemplate(r) \/ Create(r) \/ Update(r) \/ Insert(r) \/ Register(r)
  \/ SwitchBankAccount

Spec == Init /\ [][Next]_vars

-----------------------------------------------------------------------------
\* However imports, templates, hand-made accounts and updates overlap, an
\* import has brought every row of its file onto the chart, or has left no
\* trace; its batch counts them rightly; a template that was applied has all
\* its codes there; no two accounts have one code; and the versions of a
\* template run on.
WholeOrNothing ==
  /\ \A b \in DOMAIN batches :
       LET made == {a \in Ids : accounts[a].batch = b}
       IN /\ {accounts[a].code : a \in made} = CodesOf(batches[b].rows)
          /\ batches[b].created = Cardinality(made)
  /\ \A t \in provisioned : CodesOf(templates[t].lines) \subseteq CodesTaken
  /\ \A a, z \in Ids : accounts[a].code = accounts[z].code => a = z
  /\ \A t \in DOMAIN templates : templates[t].version = t
=============================================================================
