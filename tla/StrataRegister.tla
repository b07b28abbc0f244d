--------------------------- MODULE StrataRegister ---------------------------
(***************************************************************************)
(* The strata register of a property: which of its spaces are lots, their  *)
(* units of entitlement and the plan's declared total (StrataService,      *)
(* SpacesService, PropertiesService).  A request reads, looks whether new  *)
(* lots find room, and writes in a later statement; nothing is locked, so  *)
(* other requests come in between.  The rows that one check reads it reads *)
(* in one step, except for the plan's total and the lots held against it;  *)
(* the writes of one transaction take effect together.                     *)
(* Names, codes and lot numbers are left out: the indexes that keep them   *)
(* apart only make requests fail.  Entitlements are whole.                 *)
(***************************************************************************)
EXTENDS Integers, Sequences, FiniteSetsExt, Collections

CONSTANTS
  Nil,
  Clients,      \* concurrent requests
  Units,        \* units of entitlement a request may give a lot
  PlanEdits,    \* what a request may set of the plan: its number (plan), its declared total
  MaxSpaces,    \* bound on spaces
  MaxEntries,   \* bound on the spaces one request lists
  MaxNew        \* bound on the entitlement that one request allocates anew

VARIABLES
  property,     \* strataStatus, isStrataManaged, whether a plan number is recorded, the declared total
  spaces,       \* Space rows in order of creation
  job,          \* per client: the request that has read and not yet written
  ceiling       \* history: what the lots of an active scheme may add up to, its edits considered

vars == <<property, spaces, job, ceiling>>

Enabled == property.status # "NOT_ENABLED"
ActiveScheme == property.status = "ACTIVE"

LotsOf(list) == {s \in DOMAIN list : list[s].class = "LOT"}
Lots == LotsOf(spaces)
Unclassified == {s \in DOMAIN spaces : spaces[s].class = "UNCLASSIFIED"}

Uoe(space) == IF space.uoe = Nil THEN 0 ELSE space.uoe
\* calculateTotalUoe
TotalOf(list) == SumOver([s \in LotsOf(list) |-> Uoe(list[s])], LotsOf(list))

\* reconcileUoe: what of the declared total the lots do not take up; negative
\* when they take more, and Nil while no total is declared.
Remaining(list, declared) == IF declared = Nil THEN Nil ELSE declared - TotalOf(list)

\* buildSummary, as far as it decides anything.
Summary == [lots |-> Lots, unclassified |-> Unclassified, remaining |-> Remaining(spaces, property.declared)]

Lot(uoe) == [class |-> "LOT", uoe |-> uoe]
CommonProperty == [class |-> "COMMON_PROPERTY", uoe |-> Nil]

\* The fields that a request does not send are kept.
Sent(row, fields) == [f \in DOMAIN row |-> IF f \in DOMAIN fields THEN fields[f] ELSE row[f]]

\* The spaces once some are put and others added.
After(put, add) ==
  [s \in DOMAIN spaces |-> IF s \in DOMAIN put THEN Sent(spaces[s], put[s]) ELSE spaces[s]] \o add

\* An edit of the plan, or of what is a lot already, is only warned about.
Allowed(p, list) == IF p.status = "ACTIVE" /\ p.declared # Nil THEN Max({p.declared, TotalOf(list)}) ELSE 0

-----------------------------------------------------------------------------
Idle == [op |-> "IDLE"]
Become(c, next) == job' = [job EXCEPT ![c] = next]

\* A request has written, and what others have read is fresh no more.
Done(c) ==
  job' = [d \in Clients |-> IF d = c THEN Idle
                            ELSE IF "fresh" \in DOMAIN job[d] THEN [job[d] EXCEPT !.fresh = FALSE] ELSE job[d]]

\* A request fails: a number or a code is taken, or the process stops.
Fail(c) ==
  /\ job[c] # Idle /\ Become(c, Idle)
  /\ UNCHANGED <<property, spaces, ceiling>>

-----------------------------------------------------------------------------
(***************************************************************************)
(* The plan                                                                *)
(***************************************************************************)

Write(c, fields) == Become(c, [op |-> "PLAN", fields |-> fields])

\* enable: also for an enabled scheme, whose status it writes as it read it.
Enable(c) ==
  \E edit \in PlanEdits :
    /\ "declared" \in DOMAIN edit => edit.declared # Nil
    /\ Write(c, [f \in {"status", "managed"} \cup DOMAIN edit |->
                   CASE f = "status" -> IF Enabled THEN property.status ELSE "SETUP_IN_PROGRESS"
                     [] f = "managed" -> TRUE
                     [] OTHER -> edit[f]])

UpdatePlan(c) == Enabled /\ \E edit \in PlanEdits : Write(c, edit)

\* PropertiesService.update with the old flag isStrataManaged.
SetManaged(c) ==
  \E desired \in BOOLEAN :
    /\ ~desired => ~ActiveScheme
    /\ Write(c, [managed |-> desired,
                 status |-> IF ~desired THEN "NOT_ENABLED"
                            ELSE IF Enabled THEN property.status ELSE "SETUP_IN_PROGRESS"])

ReadPlan(c) ==
  /\ job[c] = Idle /\ (Enable(c) \/ UpdatePlan(c) \/ SetManaged(c))
  /\ UNCHANGED <<property, spaces, ceiling>>

WritePlan(c) ==
  /\ job[c].op = "PLAN"
  /\ property' = Sent(property, job[c].fields)
  /\ ceiling' = IF property'.status = property.status /\ property'.declared = property.declared
                THEN ceiling ELSE Allowed(property', spaces)
  /\ Done(c) /\ UNCHANGED spaces

\* completeSetup: an active scheme is left as it is; the summary is compared
\* in one statement, and the scheme activated in another.
ReadSetup(c) ==
  /\ job[c] = Idle /\ property.status = "SETUP_IN_PROGRESS" /\ property.plan
  /\ Become(c, [op |-> "SUMMARISE"])
  /\ UNCHANGED <<property, spaces, ceiling>>

CompareSummary(c) ==
  /\ job[c].op = "SUMMARISE"
  /\ Summary.lots # {} /\ Summary.unclassified = {} /\ Summary.remaining \in {0, Nil}
  /\ Become(c, [op |-> "ACTIVATE", fresh |-> TRUE])
  /\ UNCHANGED <<property, spaces, ceiling>>

\* A summary that is still fresh leaves room for nothing beyond the plan.
CompleteSetup(c) ==
  /\ job[c].op = "ACTIVATE"
  /\ property' = [property EXCEPT !.status = "ACTIVE"]
  /\ ceiling' = IF ActiveScheme THEN ceiling
                ELSE IF job[c].fresh /\ property.declared # Nil THEN property.declared
                ELSE Allowed(property', spaces)
  /\ Done(c) /\ UNCHANGED spaces

-----------------------------------------------------------------------------
(***************************************************************************)
(* Lots in bulk.  What a request reads decides what it writes, how much of *)
(* it is new and whether it edits what is a lot already.                   *)
(***************************************************************************)

\* Only what is new is asked for.
Ask(c, put, add, new, edit) ==
  /\ new <= MaxNew
  /\ Become(c, [op |-> IF new > 0 THEN "ASK" ELSE "FITS", put |-> put, add |-> add, new |-> new,
                edit |-> edit, total |-> Nil, fresh |-> TRUE])

Listed(S, add) == Cardinality(S) + Len(add) \in 1 .. MaxEntries

\* bulkSetLots: each entry makes a new space, or an existing one, a lot.
BulkSetLots(c) ==
  /\ Enabled
  /\ \E S \in SUBSET DOMAIN spaces : \E given \in [S -> Units], add \in {<<>>} \cup {<<Lot(u)>> : u \in Units} :
       /\ Listed(S, add)
       /\ Ask(c, [s \in S |-> Lot(given[s])], add, SumOver(given, S \ Lots) + TotalOf(add), S \cap Lots # {})

\* classifySpaces: what becomes common property loses its entitlement.
ClassifySpaces(c) ==
  /\ Enabled
  /\ \E S \in SUBSET DOMAIN spaces : \E given \in [S -> Units \cup {Nil}] :
       LET asLot == {s \in S : given[s] # Nil} IN
       /\ Listed(S, <<>>)
       /\ Ask(c, [s \in S |-> IF s \in asLot THEN Lot(given[s]) ELSE CommonProperty], <<>>,
              SumOver(given, asLot \ Lots), asLot \cap Lots # {})

-----------------------------------------------------------------------------
(***************************************************************************)
(* Spaces one by one, with the class or with the old flag isStrataLot      *)
(***************************************************************************)

\* resolveSpaceClassification; Nil is a field that is not sent.
Resolve(current, class, flag) ==
  CASE class # Nil -> class
    [] class = Nil /\ flag = TRUE -> "LOT"
    [] class = Nil /\ flag = FALSE /\ current = "LOT" -> "UNCLASSIFIED"
    [] OTHER -> current

Classes == {"LOT", "COMMON_PROPERTY", Nil}

\* An explicit lot has an entitlement; the old flag asks for a managed
\* property only.
Acceptable(class, flag, uoe) ==
  /\ class = "LOT" => uoe # Nil
  /\ flag = TRUE => property.managed

NoPut == [s \in {} |-> Nil]

\* Faulty variant: no room is asked for.
CreateSpaceAnyway(c) ==
  \E class \in Classes, flag \in BOOLEAN, uoe \in Units \cup {Nil} :
    /\ Acceptable(class, flag, uoe) /\ (ActiveScheme => class # Nil)
    /\ Ask(c, NoPut, <<[class |-> Resolve("UNCLASSIFIED", class, flag), uoe |-> uoe]>>, 0, FALSE)

\* A new space of an active scheme says what it is.
CreateSpace(c) ==
  \E class \in Classes, flag \in BOOLEAN, uoe \in Units \cup {Nil} :
    LET add == <<[class |-> Resolve("UNCLASSIFIED", class, flag), uoe |-> uoe]>> IN
    /\ Acceptable(class, flag, uoe) /\ (ActiveScheme => class # Nil)
    /\ Ask(c, NoPut, add, TotalOf(add), FALSE)

\* The class is written as it was resolved, an entitlement only if it is sent:
\* one that was kept counts again when the space becomes a lot again.
UpdateSpace(c) ==
  \E s \in DOMAIN spaces, class \in Classes, flag \in BOOLEAN \cup {Nil}, given \in Units \cup {Nil} :
    LET becomes == Resolve(spaces[s].class, class, flag)
        space == [class |-> becomes, uoe |-> IF given = Nil THEN spaces[s].uoe ELSE given]
        sent == IF given = Nil THEN [class |-> becomes] ELSE space
        touched == class # Nil \/ flag # Nil \/ given # Nil
    IN /\ Acceptable(class, IF flag = Nil /\ touched THEN s \in Lots ELSE flag, space.uoe)
       /\ Ask(c, [x \in {s} |-> sent], <<>>,
              IF becomes = "LOT" /\ s \notin Lots THEN Uoe(space) ELSE 0, becomes = "LOT" /\ s \in Lots)

-----------------------------------------------------------------------------
ReadSpaces(c) ==
  /\ job[c] = Idle
  /\ BulkSetLots(c) \/ ClassifySpaces(c) \/ CreateSpace(c) \/ UpdateSpace(c)
  /\ UNCHANGED <<property, spaces, ceiling>>

\* assertNewAllocationFits: new lots of an active scheme must find room, in
\* the total that the plan declares and then in what the lots leave of it.
LookUpTotal(c) ==
  /\ job[c].op = "ASK"
  /\ Become(c, IF ActiveScheme /\ property.declared # Nil
               THEN [job[c] EXCEPT !.op = "LOOKED", !.total = property.declared]
               ELSE [job[c] EXCEPT !.op = "FITS"])
  /\ UNCHANGED <<property, spaces, ceiling>>

Fits(c) ==
  /\ job[c].op = "LOOKED"
  /\ Become(c, IF job[c].new <= Remaining(spaces, job[c].total) THEN [job[c] EXCEPT !.op = "FITS", !.total = Nil] ELSE Idle)
  /\ UNCHANGED <<property, spaces, ceiling>>

\* What edits a lot may raise the ceiling, and so may a request that finds a
\* row changed since it read it and so allocates more than it asked for.
WriteSpaces(c) ==
  /\ job[c].op = "FITS" /\ Len(spaces) + Len(job[c].add) <= MaxSpaces
  /\ spaces' = After(job[c].put, job[c].add)
  /\ ceiling' = IF job[c].edit \/ (~job[c].fresh /\ TotalOf(spaces') > TotalOf(spaces) + job[c].new)
                THEN Allowed(property, spaces') ELSE ceiling
  /\ Done(c) /\ UNCHANGED property

-----------------------------------------------------------------------------
\* A property created by hand or from a plan.
Init ==
  /\ property \in [status : {"NOT_ENABLED", "SETUP_IN_PROGRESS"}, managed : BOOLEAN, plan : BOOLEAN, declared : {Nil}]
  /\ property.managed <=> Enabled
  /\ spaces = <<>> /\ job = [c \in Clients |-> Idle] /\ ceiling = 0

Next ==
  \E c \in Clients :
    \/ ReadPlan(c) \/ WritePlan(c) \/ ReadSetup(c) \/ CompareSummary(c) \/ CompleteSetup(c)
    \/ ReadSpaces(c) \/ LookUpTotal(c) \/ Fits(c) \/ WriteSpaces(c) \/ Fail(c)

Spec == Init /\ [][Next]_vars

-----------------------------------------------------------------------------
(***************************************************************************)
(* Properties                                                              *)
(***************************************************************************)

\* The lots of an active scheme, which levies are shared by, add up to more
\* than the plan declares only if a lot or the plan was edited, a summary was
\* overtaken before it activated the scheme, or requests overlapped: and then
\* by no more than what all requests but one may allocate at a time.  With one
\* request at a time new lots never do it, by whichever of the ways they come.
ActiveSchemeHolds ==
  ActiveScheme /\ property.declared # Nil =>
    TotalOf(spaces) <= ceiling + MaxNew * (Cardinality(Clients) - 1)
=============================================================================
