---------------------------- MODULE MCOnboarding ----------------------------
(***************************************************************************)
(* How a scheme and its people get into the system.  The parts share       *)
(* nothing, so every behaviour takes the steps of one of them and leaves   *)
(* the others as they are:                                                 *)
(*   READING   what two readings of a strata plan make of it;              *)
(*   ANALYSIS  an uploaded plan, until it has become a property;           *)
(*   REGISTER  the lots of a property and the plan they must agree with;   *)
(*   ACCOUNTS  contacts, their memberships, invitations and accounts.      *)
(***************************************************************************)
EXTENDS ResidentAccounts, TLC

CONSTANTS
  Nil, Blank, Trimmed, CodeOf, Slots, Readings, Corrections, NewCodes, MaxAttempts, MaxRows, MaxProperties,
  RawReadings, Sightings, Fillings, Units, PlanEdits, MaxSpaces, MaxEntries, MaxNew

VARIABLES
  part,
  raw, seen, extraction, draft,
  document, attempts, runs, task, healer, properties, answered,
  property, spaces, errand, ceiling

readingVars == <<raw, seen, extraction, draft>>
analysisVars == <<document, attempts, runs, task, healer, properties, answered>>
registerVars == <<property, spaces, errand, ceiling>>

Reading == INSTANCE PlanReading

Analysis == INSTANCE PlanAnalysis WITH Edits <- Corrections, job <- task

Strata == INSTANCE StrataRegister WITH job <- errand

ASSUME StrataAssumption ==
  /\ IsFiniteSet(Clients) /\ Clients # {} /\ MaxNew \in Nat
  /\ Units \subseteq Nat /\ Nil \notin Int
  /\ \A edit \in PlanEdits : /\ DOMAIN edit \subseteq {"plan", "declared"}
                             /\ "declared" \in DOMAIN edit => edit.declared \in Nat \cup {Nil}

\* Rows are in a list; a page's confidence is a number; a filling leaves the
\* lots alone; and an extraction is something.
ASSUME ReadingAssumption ==
  /\ \A reading \in RawReadings \cup (Sightings \ {Nil}) :
       Len(reading.lots) \in Nat /\ DOMAIN reading.lots = 1 .. Len(reading.lots)
  /\ \A r \in RawReadings : \A i \in DOMAIN r.lots : r.lots[i].page \in Int
  /\ \A f \in Fillings : "lots" \notin DOMAIN f
  /\ \A r \in RawReadings, s \in Sightings \cup {Nil} : Reading!Extract(r, s) # Nil

\* A property that nobody touches.
NoRegister ==
  /\ property = [status |-> "NOT_ENABLED", managed |-> FALSE, plan |-> FALSE, declared |-> Nil]
  /\ spaces = <<>> /\ errand = [c \in Clients |-> Strata!Idle] /\ ceiling = 0

MCInit ==
  /\ Init /\ Analysis!Init
  /\ \/ part = "READING" /\ Reading!Init /\ NoRegister
     \/ part = "REGISTER" /\ raw = Nil /\ Reading!Unread /\ Strata!Init
     \/ part \in {"ANALYSIS", "ACCOUNTS"} /\ raw = Nil /\ Reading!Unread /\ NoRegister

MCNext ==
  \/ part = "READING" /\ Reading!Next /\ UNCHANGED <<part, analysisVars, registerVars, vars>>
  \/ part = "ANALYSIS" /\ Analysis!Next /\ UNCHANGED <<part, readingVars, registerVars, vars>>
  \/ part = "REGISTER" /\ Strata!Next /\ UNCHANGED <<part, readingVars, analysisVars, vars>>
  \/ part = "ACCOUNTS" /\ Next /\ UNCHANGED <<part, readingVars, analysisVars, registerVars>>

MCSpec == MCInit /\ [][MCNext]_<<part, readingVars, analysisVars, registerVars, vars>>

\* An entitlement is shown as certain only if the text reads so, and its page
\* was read well or vision reads so too.
HighIsCorroborated == Reading!HighIsCorroborated

\* No row that either reading found is lost on the way to the draft, and no
\* draft with an unnumbered or a doubled lot can be confirmed.
NothingReadIsLost == Reading!NothingReadIsLost

\* Whoever confirms a plan is handed a property made from that plan.
ConfirmAnswersOwn == Analysis!ConfirmAnswersOwn

\* The lots of an active scheme add up to no more than they may, but for what
\* requests that overlap allocate.
ActiveSchemeHolds == Strata!ActiveSchemeHolds

-----------------------------------------------------------------------------
\* The parts never meet: slots and organisations are given the same model
\* values, and share their symmetry.
MCSymmetry == Permutations(Clients) \cup Permutations(Slots)

MCCodeOf == [p \in {"SP 1"} |-> "SP1"]

NoPage == -1
Lot(l, u, p) == [lot |-> l, uoe |-> u, page |-> p]
Look(l, u) == [lot |-> l, uoe |-> u]
On(v, p) == [value |-> v, page |-> p]
Plan == On("SP 1", 75)

MCTrimmed == (Blank :> Blank) @@ ("1" :> "1") @@ ("1 " :> "1") @@ ("2" :> "2") @@ ("3" :> "3")

\* A page read badly, on which one lot appears twice, and what vision sees.
MCReadings ==
  {[raw |-> [lots |-> <<Lot("1", 1, 55), Lot("2", 2, 40), Lot("2", 2, NoPage)>>, declared |-> On(2, 60),
             plan |-> Plan, address |-> On(Nil, NoPage)],
    seen |-> [lots |-> <<Look("1", 1), Look("2", 1)>>, declared |-> 2, plan |-> Nil, address |-> "A"]]}

MCCorrections == {[name |-> "N", declared |-> Nil, lots |-> <<Look("1", 1)>>]}

MCPlanEdits == {[plan |-> TRUE, declared |-> 1], [declared |-> Nil]}

\* Up to two lots, repeated, spelt otherwise, unnumbered or off the plan;
\* pages read badly, not quite well and well; totals that add up or do not.
Rows == [lot : {"1", "2"}, uoe : {1, 2}, page : {40, 75, 90}]
OddRows == {Lot(Blank, 1, 75), Lot("1 ", 1, 75)}
UpToTwo(S, T) == {<<>>} \cup {<<r>> : r \in S} \cup {<<r, q>> : r \in S, q \in T}

MCRawReadings ==
  [lots : UpToTwo(Rows, Rows \cup OddRows), declared : {On(Nil, NoPage), On(2, 55), On(3, 40)},
   plan : {Plan}, address : {On(Nil, NoPage)}]

Looks == [lot : {"1", "2", "3"}, uoe : {1, 2}]
MCSightings == [lots : UpToTwo(Looks, Looks), declared : {Nil, 2, 3}, plan : {Nil}, address : {"A"}]

\* The property's name, and a total that is taken out.
MCFillings == {[name |-> "N"], [declared |-> Nil]}
=============================================================================
