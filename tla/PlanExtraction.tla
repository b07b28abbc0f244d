--------------------------- MODULE PlanExtraction ---------------------------
(***************************************************************************)
(* What the analysis of a NSW strata plan computes: the fields read from   *)
(* the OCR text with the confidence each deserves, the second reading by a *)
(* vision model merged into them, the deterministic validation of the      *)
(* schedule of unit entitlements, and the draft a person reviews.          *)
(* Confidences are in hundredths; a field's level follows from its score.  *)
(* Field names, wording, evidence and page numbers are left out.           *)
(***************************************************************************)
EXTENDS SequencesExt, FiniteSetsExt, Collections

CONSTANTS
  Nil,      \* null
  Blank,    \* the empty string
  Trimmed,  \* String.trim: the spellings of a lot number, each without the white space at its ends
  CodeOf    \* suggestCode: upper case, no white space

\* Neither null nor the empty string is something read.
Absent(value) == value \in {Nil, Blank}

\* The OCR engine's confidence of a page that is not known.
NoPage == -1

HighThreshold == 85
ReviewThreshold == 50
ReconcileBoost == 15
AgreementBoost == 35
VisionBase == 60

-----------------------------------------------------------------------------
(***************************************************************************)
(* Confidence                                                              *)
(***************************************************************************)

\* deriveFieldConfidence; a field that is absent scores nothing.
Score(value, page, boost) ==
  IF Absent(value) THEN 0
  ELSE Min({100, (IF page = NoPage THEN VisionBase ELSE page) + boost})

Level(field) ==
  IF field.score >= HighThreshold THEN "HIGH"
  ELSE IF field.score >= ReviewThreshold THEN "REVIEW" ELSE "LOW"

Field(value, page, boost, by) == [value |-> value, score |-> Score(value, page, boost), by |-> by]

\* wrap, and wrapVisionField.
Wrap(read, boost) ==
  Field(read.value, read.page, boost, IF read.page = NoPage THEN "AI" ELSE "OCR")
ByVision(value, page, boost) == Field(value, page, boost, "VISION")

-----------------------------------------------------------------------------
(***************************************************************************)
(* The schedule of unit entitlements                                       *)
(***************************************************************************)

Positive(lots) == SelectSeq(lots, LAMBDA l : l.uoe > 0)
TotalUoe(lots) == FoldLeft(LAMBDA sum, l : sum + l.uoe, 0, lots)

\* A lot number of nothing but white space is no number.
Unnumbered(lots) == {i \in DOMAIN lots : Trimmed[lots[i].lot] = Blank}

ReconciliationStatus(lots, declared) ==
  CASE declared = Nil -> "DECLARED_TOTAL_MISSING"
    [] declared # Nil /\ (lots = <<>> \/ Unnumbered(lots) # {}) -> "INCOMPLETE"
    [] OTHER -> IF TotalUoe(Positive(lots)) = declared THEN "RECONCILED" ELSE "MISMATCH"

\* validateLotsAndEntitlements
ScheduleIssues(lots, declared) ==
  LET named == DOMAIN lots \ Unnumbered(lots)
      found ==
        [NO_LOTS |-> lots = <<>>,
         MISSING_LOT_NUMBER |-> Unnumbered(lots) # {},
         DUPLICATE_LOT_NUMBER |-> \E i, j \in named : i # j /\ Trimmed[lots[i].lot] = Trimmed[lots[j].lot],
         NON_POSITIVE_UOE |-> \E i \in named : lots[i].uoe <= 0,
         DECLARED_TOTAL_MISSING |-> declared = Nil,
         UOE_MISMATCH |-> ReconciliationStatus(lots, declared) = "MISMATCH"]
  IN {code \in DOMAIN found : found[code]}

Blocking ==
  {"NO_LOTS", "MISSING_LOT_NUMBER", "DUPLICATE_LOT_NUMBER", "NON_POSITIVE_UOE", "UOE_MISMATCH",
   "PROPERTY_NAME_REQUIRED", "PROPERTY_CODE_REQUIRED", "STRATA_PLAN_NUMBER_REQUIRED"}

\* The values of a schedule's fields.
Values(lots) == [i \in DOMAIN lots |-> [lot |-> lots[i].lot.value, uoe |-> lots[i].uoe.value]]

-----------------------------------------------------------------------------
(***************************************************************************)
(* The first reading                                                       *)
(***************************************************************************)

\* assembleStrataPlanExtraction; a schedule that adds up earns a boost.
Assemble(raw) ==
  LET lots == [i \in DOMAIN raw.lots |-> [lot |-> raw.lots[i].lot, uoe |-> raw.lots[i].uoe]]
      declared == raw.declared.value
      status == ReconciliationStatus(lots, declared)
      boost == IF status = "RECONCILED" THEN ReconcileBoost ELSE 0
      Of(value, page) == Wrap([value |-> value, page |-> page], boost)
  IN [plan |-> Wrap(raw.plan, 0), address |-> Wrap(raw.address, 0),
      lots |-> [i \in DOMAIN raw.lots |->
                  [lot |-> Of(raw.lots[i].lot, raw.lots[i].page), uoe |-> Of(raw.lots[i].uoe, raw.lots[i].page)]],
      declared |-> Wrap(raw.declared, boost),
      status |-> status,
      issues |-> ScheduleIssues(lots, declared)
                   \cup {code \in {"ADDRESS_NOT_FOUND"} : Absent(raw.address.value)}]

\* detectCriticalGaps
HasGaps(x) ==
  \/ x.lots = <<>> \/ x.status # "RECONCILED"
  \/ "LOW" \in {Level(x.declared), Level(x.plan), Level(x.address)}

-----------------------------------------------------------------------------
(***************************************************************************)
(* The second reading, by vision                                           *)
(***************************************************************************)

Disagrees(field, seen) == seen # Nil /\ ~Absent(field.value) /\ field.value # seen

\* mergeScalarField, and the same three outcomes for the declared total.
MergeScalar(field, seen) ==
  CASE seen = Nil -> field
    [] seen # Nil /\ field.value = seen -> ByVision(seen, field.score, AgreementBoost)
    [] Disagrees(field, seen) /\ Level(field) # "LOW" -> field
    [] OTHER -> ByVision(seen, VisionBase, 0)

\* The OCR rows by their lot number as it is spelt, an empty one included:
\* the place of a number's first row, the content of its last.
RowsOf(lots, lot) == {i \in DOMAIN lots : lots[i].lot.value = lot}
RowOf(lots, lot) == lots[Max(RowsOf(lots, lot))]
FirstRows(lots) == {i \in DOMAIN lots : i = Min(RowsOf(lots, lots[i].lot.value))}

MergeLot(lots, seen) ==
  IF RowsOf(lots, seen.lot) = {}
  THEN [lot |-> ByVision(seen.lot, VisionBase, 0), uoe |-> ByVision(seen.uoe, VisionBase, 0)]
  ELSE LET row == RowOf(lots, seen.lot) IN
       IF row.uoe.value = seen.uoe
       THEN [lot |-> ByVision(seen.lot, row.lot.score, AgreementBoost),
             uoe |-> ByVision(seen.uoe, row.uoe.score, AgreementBoost)]
       ELSE [lot |-> ByVision(seen.lot, VisionBase, 0), uoe |-> ByVision(seen.uoe, VisionBase, 0)]

LotDisagrees(lots, seen) == RowsOf(lots, seen.lot) # {} /\ RowOf(lots, seen.lot).uoe.value # seen.uoe

\* The OCR rows that vision did not see.
Unseen(lots, seen) ==
  LET order == Ascending({i \in FirstRows(lots) : \A j \in DOMAIN seen : seen[j].lot # lots[i].lot.value})
  IN [k \in DOMAIN order |-> RowOf(lots, lots[order[k]].lot.value)]

\* Faulty variant: what vision saw is keyed by lot number too.
MergeLotsKeyed(lots, seen) ==
  LET last == {j \in DOMAIN seen : \A k \in DOMAIN seen : seen[k].lot = seen[j].lot => k <= j}
  IN Picked([j \in DOMAIN seen |-> MergeLot(lots, seen[j])], last) \o Unseen(lots, seen)

\* All that vision saw, then the rows that it did not see.
MergeLots(lots, seen) == [j \in DOMAIN seen |-> MergeLot(lots, seen[j])] \o Unseen(lots, seen)

\* Faulty variant: the boost is that of an agreement.
CorroborateAsAgreed(row) ==
  IF row.uoe.by = "VISION" /\ Level(row.uoe) # "HIGH"
  THEN [lot |-> ByVision(row.lot.value, VisionBase, AgreementBoost),
        uoe |-> ByVision(row.uoe.value, VisionBase, AgreementBoost)]
  ELSE row

\* A schedule that now adds up raises a lot only vision has read.
Corroborate(row) ==
  IF row.uoe.by = "VISION" /\ Level(row.uoe) # "HIGH"
  THEN [lot |-> ByVision(row.lot.value, VisionBase, ReconcileBoost),
        uoe |-> ByVision(row.uoe.value, VisionBase, ReconcileBoost)]
  ELSE row

\* mergeVisionIntoExtraction
Merge(x, seen) ==
  LET merged == MergeLots(x.lots, seen.lots)
      declared == MergeScalar(x.declared, seen.declared)
      address == MergeScalar(x.address, seen.address)
      status == ReconciliationStatus(Values(merged), declared.value)
      old == IF Absent(address.value) THEN x.issues \cap {"ADDRESS_NOT_FOUND"} ELSE {}
      disagree == \/ Disagrees(x.plan, seen.plan) \/ Disagrees(x.address, seen.address)
                  \/ Disagrees(x.declared, seen.declared)
                  \/ \E j \in DOMAIN seen.lots : LotDisagrees(x.lots, seen.lots[j])
  IN [plan |-> MergeScalar(x.plan, seen.plan), address |-> address,
      lots |-> IF status = "RECONCILED" THEN [i \in DOMAIN merged |-> Corroborate(merged[i])] ELSE merged,
      declared |-> declared, status |-> status,
      issues |-> old \cup ScheduleIssues(Values(merged), declared.value)
                   \cup {code \in {"OCR_VISION_DISAGREEMENT"} : disagree}]

\* runVisionFallbackIfNeeded; vision that is off, or fails, saw Nil.
Extract(raw, seen) ==
  LET x == Assemble(raw) IN IF seen = Nil \/ ~HasGaps(x) THEN x ELSE Merge(x, seen)

-----------------------------------------------------------------------------
(***************************************************************************)
(* The draft                                                               *)
(***************************************************************************)

\* seedDraftFromExtraction: the property's name is never made up, and every
\* row is kept, since none has a number or an entitlement that is null.
Seed(x) ==
  [name |-> Nil, code |-> IF Absent(x.plan.value) THEN Nil ELSE CodeOf[x.plan.value],
   plan |-> x.plan.value, declared |-> x.declared.value, lots |-> Values(x.lots)]

\* applyDraftUpdate: the fields an edit has replace the draft's.
Edited(draft, edit) ==
  [f \in DOMAIN draft |-> IF f \in DOMAIN edit THEN edit[f] ELSE draft[f]]

\* validateDraft
DraftIssues(draft) ==
  ScheduleIssues(draft.lots, draft.declared)
    \cup {code \in {"PROPERTY_NAME_REQUIRED"} : Absent(draft.name)}
    \cup {code \in {"PROPERTY_CODE_REQUIRED"} : Absent(draft.code)}
    \cup {code \in {"STRATA_PLAN_NUMBER_REQUIRED"} : Absent(draft.plan)}

CanConfirm(draft) == DraftIssues(draft) \cap Blocking = {}
=============================================================================
