----------------------------- MODULE PlanReading ----------------------------
(***************************************************************************)
(* One reading of a strata plan: the text interpretation arrives, vision   *)
(* reads the page again if the text leaves gaps, a draft is seeded, and a  *)
(* person who leaves the lots alone fills in what the plan does not tell.  *)
(***************************************************************************)
EXTENDS PlanExtraction

CONSTANTS
  RawReadings,   \* what the text interpretation may return
  Sightings,     \* what vision may return; Nil if it is off or fails
  Fillings       \* updates of the draft that a person may send, without lots

VARIABLES
  raw,           \* the text interpretation
  seen,          \* what vision saw
  extraction,    \* Nil until the text is interpreted
  draft          \* Nil until it is seeded

vars == <<raw, seen, extraction, draft>>

Unread == seen = Nil /\ extraction = Nil /\ draft = Nil

Init == raw \in RawReadings /\ Unread

Interpret ==
  /\ extraction = Nil /\ extraction' = Assemble(raw)
  /\ UNCHANGED <<raw, seen, draft>>

LookAgain ==
  /\ extraction # Nil /\ draft = Nil /\ seen = Nil /\ HasGaps(extraction)
  /\ seen' \in Sightings \ {Nil}
  /\ extraction' = Merge(extraction, seen')
  /\ UNCHANGED <<raw, draft>>

SeedDraft ==
  /\ extraction # Nil /\ draft = Nil /\ draft' = Seed(extraction)
  /\ UNCHANGED <<raw, seen, extraction>>

FillIn ==
  /\ draft # Nil /\ \E f \in Fillings : draft' = Edited(draft, f)
  /\ UNCHANGED <<raw, seen, extraction>>

Next == Interpret \/ LookAgain \/ SeedDraft \/ FillIn

Spec == Init /\ [][Next]_vars

-----------------------------------------------------------------------------
(***************************************************************************)
(* Properties                                                              *)
(***************************************************************************)

\* A unit entitlement is shown as certain only if the text itself reads so
\* for that lot, and either its page was read well or vision read the same.
\* What vision alone has read, or a total that happens to add up, is not
\* enough (vision-fallback.ts: "capped at REVIEW, never HIGH").
HighIsCorroborated ==
  extraction # Nil =>
    \A row \in ToSet(extraction.lots) : Level(row.uoe) = "HIGH" =>
      LET Reads(lots) == {i \in DOMAIN lots : lots[i].lot = row.lot.value /\ lots[i].uoe = row.uoe.value}
      IN \E i \in Reads(raw.lots) :
           raw.lots[i].page >= HighThreshold - ReconcileBoost \/ (seen # Nil /\ Reads(seen.lots) # {})

\* No row that either reading found is lost on the way to the draft, and as
\* long as the rows are left alone the draft can be confirmed only if all of
\* them have a lot number, no number is spelt in two ways, and the reading
\* that came last (vision, where it looked) lists no lot twice.
NothingReadIsLost ==
  draft # Nil =>
    LET Lots(list) == {list[i].lot : i \in DOMAIN list}
        read == IF seen = Nil THEN Lots(raw.lots) ELSE Lots(raw.lots) \cup Lots(seen.lots)
        last == IF seen = Nil THEN raw.lots ELSE seen.lots
    IN /\ Lots(draft.lots) = read
       /\ CanConfirm(draft) =>
            /\ \A lot \in read : Trimmed[lot] # Blank
            /\ \A lot, other \in read : Trimmed[lot] = Trimmed[other] => lot = other
            /\ \A i, j \in DOMAIN last : last[i].lot = last[j].lot => i = j
=============================================================================
