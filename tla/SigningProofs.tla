---------------------------- MODULE SigningProofs ---------------------------
(***************************************************************************)
(* Proofs about Signing for any number of requests and callbacks, items    *)
(* and agreements, and any policies; and about Assistant for any           *)
(* properties, permissions, claims of the model and budgets.               *)
(***************************************************************************)
EXTENDS MCSigning, FiniteSetTheorems, WellFoundedInduction, TLAPS

Statuses == {"REQUESTED", "SUBMITTED", "DECLINED", "WITHDRAWN", "UNDER_REVIEW",
             "PENDING_APPROVAL", "APPROVED", "REJECTED", "CANCELLED"}
OrderStatuses == {"DRAFT", "READY", "SCHEDULED", "IN_PROGRESS", "COMPLETED", "CANCELLED"}
Gates == {Unset, "PENDING", "APPROVED", "REJECTED"}
Signatures == {Unset, "PENDING", "PARTIALLY_SIGNED", "SIGNED", "DECLINED", "EXPIRED", "CANCELLED"}

Rows == [kind : {"QUOTE", "VARIATION"}, status : Statuses, required : Modes \cup {Unset},
         mode : Modes \cup {Unset}, approval : Gates, signature : Signatures, agreement : Nat]
Agreements == [item : Nat, emitted : SUBSET Events]

\* The fields that a request may write of an item.
IsSet(set) ==
  /\ DOMAIN set \subseteq {"status", "mode", "approval", "signature", "agreement"}
  /\ "status" \in DOMAIN set => set.status \in Statuses
  /\ "mode" \in DOMAIN set => set.mode \in Modes
  /\ "approval" \in DOMAIN set => set.approval \in Gates
  /\ "signature" \in DOMAIN set => set.signature \in Signatures
  /\ "agreement" \in DOMAIN set => set.agreement \in Nat

\* What a request has still to do.
IsJob(j) ==
  /\ j.op \in {"IDLE", "RELEASE", "WRITE", "CALL", "MOVE"}
  /\ j.op = "WRITE" => j.item \in Items /\ IsSet(j.set) /\ j.next \in {"END", "RELEASE", "CALL"} \cup Modes
  /\ j.op = "CALL" => j.item \in Items /\ j.mode \in Modes
  /\ j.op = "MOVE" => j.to \in OrderStatuses /\ j.by \in Nat

\* Every variable has its type.
TypeOK ==
  /\ order \in OrderStatuses
  /\ items \in Seq(Rows)
  /\ agreements \in Seq(Agreements)
  /\ job = [c \in Requests |-> job[c]] /\ \A c \in Requests : \A j \in {job[c]} : IsJob(j)
  /\ approved \in SUBSET Nat
  /\ governed \in Nat

-----------------------------------------------------------------------------
(***************************************************************************)
(* The inductive invariant: a mode is never weaker than the one required,  *)
(* a gate that counts as passed was passed, and what a request is about to *)
(* write is already true of what it writes it to.                          *)
(***************************************************************************)

Fit(i, mode) ==
  /\ MeetsOrExceeds(mode, items[i].required)
  /\ IsQuote(i) /\ mode = "NONE" => items[i].required = "NONE"

\* The gates of a quote that releases an order.
Released(i) ==
  /\ Sanctioned(i)
  /\ items[i].required = Unset => i \in approved \/ SignedBy(i)

RowSound(i) ==
  /\ items[i].mode = Unset => items[i].required = Unset
  /\ Fit(i, items[i].mode)
  /\ items[i].approval = "APPROVED" => i \in approved
  /\ items[i].signature = "SIGNED" => SignedBy(i)
  /\ ~IsQuote(i) /\ items[i].status = "APPROVED" => Sanctioned(i)

RowsSound == \A i \in Items : RowSound(i)

SetSound(i, set) ==
  /\ "mode" \in DOMAIN set => Fit(i, set.mode)
  /\ "signature" \in DOMAIN set /\ set.signature = "SIGNED" => SignedBy(i)
  /\ "status" \in DOMAIN set /\ set.status = "APPROVED" /\ ~IsQuote(i) => Sanctioned(i)

\* A variation's approval gate goes on with the mode that had the gate.
NextSound(i, set, next) ==
  next \in Modes =>
    /\ NeedsApproval(next) /\ Fit(i, next)
    /\ set = [approval |-> "APPROVED"]

JobSound(j) ==
  /\ j.op = "WRITE" => SetSound(j.item, j.set) /\ NextSound(j.item, j.set, j.next)
  /\ j.op = "CALL" => Fit(j.item, j.mode)
  /\ j.op = "MOVE" /\ j.to = "READY" /\ j.by # 0 => j.by \in Items /\ Released(j.by)

JobsSound == \A c \in Requests : \A j \in {job[c]} : JobSound(j)

\* Agreements are of items there are, and complete when they are signed.
AgreementsSound ==
  \A a \in DOMAIN agreements :
    /\ agreements[a].item \in Items
    /\ "WORKFLOW_COMPLETED" \in agreements[a].emitted => "SIGNED" \in agreements[a].emitted

OrderSound == \A q \in {governed} : q # 0 => q \in Items /\ Released(q)

Inductive == TypeOK /\ RowsSound /\ JobsSound /\ AgreementsSound /\ OrderSound

-----------------------------------------------------------------------------
(***************************************************************************)
(* The least and the greatest of some rows                                 *)
(***************************************************************************)

\* Of finitely many finite sets one holds none of the others.
LEMMA SmallestSegment ==
  ASSUME NEW U, IsFiniteSet(U), NEW Segments, Segments \subseteq SUBSET U, Segments # {}
  PROVE  \E x \in Segments : \A y \in Segments : ~ (<<y, x>> \in StrictSubsetOrdering(U))
<1>1. IsWellFoundedOn(StrictSubsetOrdering(U), SUBSET U)
  BY FS_FiniteSubsetsOfFinite, FS_StrictSubsetOrderingWellFounded
<1> QED
  BY <1>1, WFMin

LEMMA GreatestIsOne ==
  ASSUME NEW n \in Nat, NEW S \in SUBSET (1 .. n), S # {}
  PROVE  Max(S) \in S
<1> DEFINE Above(i) == i + 1 .. n
           Segments == {Above(i) : i \in S}
<1>1. Segments \subseteq SUBSET (1 .. n) /\ Segments # {}
  <2>1. \A i \in S : Above(i) \subseteq 1 .. n
    OBVIOUS
  <2>2. PICK i \in S : TRUE
    OBVIOUS
  <2>3. Above(i) \in Segments
    OBVIOUS
  <2> HIDE DEF Above
  <2> QED
    BY <2>1, <2>3
<1>2. PICK x \in Segments : \A y \in Segments : ~ (<<y, x>> \in StrictSubsetOrdering(1 .. n))
  <2>1. IsFiniteSet(1 .. n)
    BY FS_Interval
  <2> HIDE DEF Segments
  <2> QED
    BY <1>1, <2>1, SmallestSegment
<1>3. PICK most \in S : x = Above(most)
  BY <1>2
<1>4. \A i \in S : most >= i
  <2> SUFFICES ASSUME NEW i \in S, i > most PROVE FALSE
    OBVIOUS
  <2>1. Above(i) \subseteq Above(most) /\ i \in Above(most) /\ i \notin Above(i)
    OBVIOUS
  <2>2. <<Above(i), Above(most)>> \in StrictSubsetOrdering(1 .. n)
    BY <1>1, <2>1 DEF StrictSubsetOrdering
  <2> QED
    BY <1>2, <1>3, <2>2
<1> QED
  BY <1>4 DEF Max

LEMMA LeastIsOne ==
  ASSUME NEW n \in Nat, NEW S \in SUBSET (1 .. n), S # {}
  PROVE  Min(S) \in S
<1> DEFINE Upto(i) == 1 .. i
           Segments == {Upto(i) : i \in S}
<1>1. Segments \subseteq SUBSET (1 .. n) /\ Segments # {}
  <2>1. \A i \in S : Upto(i) \subseteq 1 .. n
    OBVIOUS
  <2>2. PICK i \in S : TRUE
    OBVIOUS
  <2>3. Upto(i) \in Segments
    OBVIOUS
  <2> HIDE DEF Upto
  <2> QED
    BY <2>1, <2>3
<1>2. PICK x \in Segments : \A y \in Segments : ~ (<<y, x>> \in StrictSubsetOrdering(1 .. n))
  <2>1. IsFiniteSet(1 .. n)
    BY FS_Interval
  <2> HIDE DEF Segments
  <2> QED
    BY <1>1, <2>1, SmallestSegment
<1>3. PICK least \in S : x = Upto(least)
  BY <1>2
<1>4. \A i \in S : least <= i
  <2> SUFFICES ASSUME NEW i \in S, i < least PROVE FALSE
    OBVIOUS
  <2>1. Upto(i) \subseteq Upto(least) /\ least \in Upto(least) /\ least \notin Upto(i)
    OBVIOUS
  <2>2. <<Upto(i), Upto(least)>> \in StrictSubsetOrdering(1 .. n)
    BY <1>1, <2>1 DEF StrictSubsetOrdering
  <2> QED
    BY <1>2, <1>3, <2>2
<1> QED
  BY <1>4 DEF Min

\* The band of a policy that an amount falls in.
LEMMA BandType ==
  ASSUME NEW rules \in Seq([max : Int, mode : Modes]), NEW S \in SUBSET (DOMAIN rules), S # {}
  PROVE  rules[Min(S)].mode \in Modes
<1>1. Len(rules) \in Nat /\ S \in SUBSET (1 .. Len(rules))
  OBVIOUS
<1>2. Min(S) \in S
  <2> DEFINE last == Len(rules)
  <2>1. last \in Nat /\ S \in SUBSET (1 .. last)
    BY <1>1
  <2> HIDE DEF last
  <2> QED
    BY <2>1, LeastIsOne
<1>3. \A k \in 1 .. Len(rules) : rules[k] \in [max : Int, mode : Modes]
  <2> DEFINE Bands == [max : Int, mode : Modes]
  <2>1. rules \in Seq(Bands)
    OBVIOUS
  <2> HIDE DEF Bands
  <2>2. \A k \in 1 .. Len(rules) : rules[k] \in Bands
    BY <2>1
  <2> QED
    BY <2>2 DEF Bands
<1>4. \A k \in S : rules[k].mode \in Modes
  <2>1. \A r \in [max : Int, mode : Modes] : r.mode \in Modes
    OBVIOUS
  <2> QED
    BY <1>1, <1>3, <2>1
<1> QED
  BY <1>2, <1>4

\* A policy requires a mode, or nothing at all.
LEMMA ResolveType ==
  ASSUME NEW n \in DOMAIN Pricings, NEW p \in Pricings[n]
  PROVE  Resolve(p.policy, p.cents, p.currency) \in Modes \cup {Unset}
<1> DEFINE bands == Matching(p.policy.rules, p.cents)
<1>1. bands \in SUBSET (DOMAIN p.policy.rules) /\ p.policy.rules \in Seq([max : Int, mode : Modes])
  BY PricingsAssumption DEF Matching
<1>2. bands # {} => p.policy.rules[Min(bands)].mode \in Modes
  <2> HIDE DEF bands
  <2> QED
    BY <1>1, BandType
<1> QED
  BY <1>2 DEF Resolve

-----------------------------------------------------------------------------
(***************************************************************************)
(* Nothing that counts as passed is ever taken back                        *)
(***************************************************************************)

\* Items keep their kind and what was required of them; approvals,
\* agreements and the events of an agreement only come to be more.
Kept ==
  /\ Items \subseteq Items'
  /\ \A i \in Items : items'[i].kind = items[i].kind /\ items'[i].required = items[i].required
  /\ approved \subseteq approved'
  /\ \A a \in DOMAIN agreements :
       /\ a \in DOMAIN agreements'
       /\ agreements'[a].item = agreements[a].item
       /\ agreements[a].emitted \subseteq agreements'[a].emitted

LEMMA SignedStays ==
  ASSUME Kept, NEW i \in Items
  PROVE  SignedBy(i) => SignedBy(i)'
BY DEF Kept, SignedBy

LEMMA SanctionedStays ==
  ASSUME Kept, NEW i \in Items
  PROVE  /\ Sanctioned(i) => Sanctioned(i)'
         /\ Released(i) => Released(i)'
<1>1. items'[i].required = items[i].required /\ (i \in approved => i \in approved')
  BY DEF Kept
<1> QED
  BY <1>1, SignedStays DEF Sanctioned, Released

LEMMA FitStays ==
  ASSUME Kept, NEW i \in Items, NEW mode
  PROVE  Fit(i, mode) => Fit(i, mode)'
BY DEF Kept, Fit, IsQuote

LEMMA JobStays ==
  ASSUME Kept, NEW j, IsJob(j), JobSound(j)
  PROVE  IsJob(j)' /\ JobSound(j)'
<1>1. Items \subseteq Items'
  BY DEF Kept
<1>2. IsJob(j)'
  BY <1>1 DEF IsJob
<1>3. ASSUME j.op = "WRITE"
      PROVE  SetSound(j.item, j.set)' /\ NextSound(j.item, j.set, j.next)'
  <2>1. PICK i \in Items : i = j.item
    BY <1>3 DEF IsJob
  <2>2. PICK set : set = j.set
    OBVIOUS
  <2>3. PICK next : next = j.next
    OBVIOUS
  <2>4. SetSound(i, set) /\ NextSound(i, set, next)
    BY <1>3, <2>1, <2>2, <2>3 DEF JobSound
  <2>5. SetSound(i, set)'
    <3>1. IsQuote(i)' <=> IsQuote(i)
      BY DEF Kept, IsQuote
    <3> QED
      BY <2>4, <3>1, SignedStays, SanctionedStays, FitStays DEF SetSound
  <2>6. NextSound(i, set, next)'
    BY <2>4, FitStays DEF NextSound
  <2> QED
    BY <2>1, <2>2, <2>3, <2>5, <2>6
<1>4. ASSUME j.op = "CALL"
      PROVE  Fit(j.item, j.mode)'
  <2>1. j.item \in Items
    BY <1>4 DEF IsJob
  <2> QED
    BY <1>4, <2>1, FitStays DEF JobSound
<1>5. ASSUME j.op = "MOVE", j.to = "READY", j.by # 0
      PROVE  j.by \in Items' /\ Released(j.by)'
  <2>1. j.by \in Items /\ Released(j.by)
    BY <1>5 DEF JobSound
  <2> QED
    BY <1>1, <2>1, SanctionedStays
<1> QED
  BY <1>2, <1>3, <1>4, <1>5 DEF JobSound

\* A row that is not written stays sound.
LEMMA RowStays ==
  ASSUME Kept, NEW i \in Items, items'[i] = items[i], RowSound(i)
  PROVE  RowSound(i)'
<1>1. IsQuote(i)' <=> IsQuote(i)
  BY DEF IsQuote
<1>2. i \in approved => i \in approved'
  BY DEF Kept
<1>3. Fit(i, items[i].mode)'
  <2>1. PICK mode : mode = items[i].mode
    OBVIOUS
  <2> QED
    BY <2>1, FitStays DEF RowSound
<1> QED
  BY <1>1, <1>2, <1>3, SignedStays, SanctionedStays DEF RowSound

\* A step that leaves one request with a sound job, and the others alone.
LEMMA JobsStay ==
  ASSUME Inductive, Kept, NEW c \in Requests, NEW j, IsJob(j)', JobSound(j)', Become(c, j)
  PROVE  /\ (job = [d \in Requests |-> job[d]])'
         /\ \A d \in Requests : \A k \in {job'[d]} : IsJob(k)' /\ JobSound(k)'
<1>1. job = [d \in Requests |-> job[d]]
  BY DEF Inductive, TypeOK
<1>2. job' = [job EXCEPT ![c] = j]
  BY DEF Become
<1>3. (job = [d \in Requests |-> job[d]])'
  BY <1>1, <1>2
<1>4. ASSUME NEW d \in Requests, NEW k, k = job'[d]
      PROVE  IsJob(k)' /\ JobSound(k)'
  <2>1. CASE d = c
    <3>1. k = j
      BY <1>1, <1>2, <1>4, <2>1
    <3> QED
      BY <3>1
  <2>2. CASE d # c
    <3>1. k = job[d]
      BY <1>1, <1>2, <1>4, <2>2
    <3>2. IsJob(k) /\ JobSound(k)
      BY <3>1 DEF Inductive, TypeOK, JobsSound
    <3> QED
      BY <3>2, JobStays
  <2> QED
    BY <2>1, <2>2
<1> QED
  BY <1>3, <1>4

LEMMA JobsStill ==
  ASSUME Inductive, Kept, UNCHANGED job
  PROVE  /\ (job = [d \in Requests |-> job[d]])'
         /\ \A d \in Requests : \A k \in {job'[d]} : IsJob(k)' /\ JobSound(k)'
<1>1. ASSUME NEW d \in Requests, NEW k, k = job[d]
      PROVE  IsJob(k) /\ JobSound(k)
  BY <1>1 DEF Inductive, TypeOK, JobsSound
<1>2. ASSUME NEW d \in Requests, NEW k, k = job'[d]
      PROVE  IsJob(k)' /\ JobSound(k)'
  BY <1>1, <1>2, JobStays
<1> QED
  BY <1>2 DEF Inductive, TypeOK

LEMMA OrderStays ==
  ASSUME Inductive, Kept, UNCHANGED governed
  PROVE  OrderSound'
<1>1. ASSUME NEW q, q = governed, q # 0
      PROVE  q \in Items' /\ Released(q)'
  <2>1. q \in Items /\ Released(q)
    BY <1>1 DEF Inductive, OrderSound
  <2>2. q \in Items'
    BY <2>1 DEF Kept
  <2> QED
    BY <2>1, <2>2, SanctionedStays
<1> QED
  BY <1>1 DEF OrderSound

\* A step that only gives a request something sound to do.
LEMMA OnlyJob ==
  ASSUME Inductive, UNCHANGED <<items, agreements, approved, governed>>, order' \in OrderStatuses,
         NEW c \in Requests, NEW j, IsJob(j), JobSound(j), Become(c, j)
  PROVE  Inductive'
<1>1. Kept
  BY DEF Kept, Items
<1>2. IsJob(j)' /\ JobSound(j)'
  BY <1>1, JobStays
<1>3. /\ (job = [d \in Requests |-> job[d]])'
      /\ \A d \in Requests : \A k \in {job'[d]} : IsJob(k)' /\ JobSound(k)'
  BY <1>1, <1>2, JobsStay
<1>4. RowsSound'
  <2>1. Items' = Items
    BY DEF Items
  <2>2. \A i \in Items : RowSound(i)'
    BY <1>1, RowStays DEF Inductive, RowsSound
  <2> QED
    BY <2>1, <2>2 DEF RowsSound
<1>5. AgreementsSound'
  BY DEF Inductive, AgreementsSound, Items
<1>6. OrderSound'
  BY <1>1, OrderStays
<1> QED
  BY <1>3, <1>4, <1>5, <1>6 DEF Inductive, TypeOK, JobsSound

-----------------------------------------------------------------------------
(***************************************************************************)
(* What a passed workflow means                                            *)
(***************************************************************************)

LEMMA OnlySignedCompletes ==
  ASSUME NEW signature, CanRelease(SignatureResult(signature))
  PROVE  signature = "SIGNED"
<1> SUFFICES ASSUME signature # "SIGNED" PROVE FALSE
  OBVIOUS
<1>1. CASE signature \in {"DECLINED", "EXPIRED"}
  <2>1. SignatureResult(signature) = "FAILED"
    BY <1>1 DEF SignatureResult
  <2> QED
    BY <2>1 DEF CanRelease
<1>2. CASE signature = "CANCELLED"
  <2>1. SignatureResult(signature) = "CANCELLED"
    BY <1>2 DEF SignatureResult
  <2> QED
    BY <2>1 DEF CanRelease
<1>3. CASE signature \notin {"DECLINED", "EXPIRED", "CANCELLED"}
  <2>1. SignatureResult(signature) = "PENDING"
    BY <1>3 DEF SignatureResult
  <2> QED
    BY <2>1 DEF CanRelease
<1> QED
  BY <1>1, <1>2, <1>3

LEMMA GatesPassed ==
  ASSUME NEW mode, NEW approval, NEW signature, CanRelease(Derive(mode, approval, signature))
  PROVE  /\ NeedsApproval(mode) => approval = "APPROVED"
         /\ NeedsSignature(mode) => signature = "SIGNED"
<1>1. NeedsApproval(mode) => approval = "APPROVED"
  BY DEF Derive, CanRelease
<1>2. ASSUME NeedsSignature(mode) PROVE signature = "SIGNED"
  <2>1. Derive(mode, approval, signature) = SignatureResult(signature)
    BY <1>1, <1>2 DEF Derive
  <2> QED
    BY <2>1, OnlySignedCompletes
<1> QED
  BY <1>1, <1>2

LEMMA PassedIsSanctioned ==
  ASSUME NEW i \in Items, NEW mode, Fit(i, mode),
         NeedsApproval(mode) => i \in approved, NeedsSignature(mode) => SignedBy(i)
  PROVE  Sanctioned(i)
BY DEF Fit, MeetsOrExceeds, Sanctioned

-----------------------------------------------------------------------------
(***************************************************************************)
(* Requests of staff                                                       *)
(***************************************************************************)

\* What a sound write consists of.
LEMMA WriteSound ==
  ASSUME NEW i \in Items, NEW set, IsSet(set), SetSound(i, set), NEW next \in {"END", "RELEASE", "CALL"}
  PROVE  LET j == WriteOf(i, set, next) IN IsJob(j) /\ JobSound(j)
<1> DEFINE j == WriteOf(i, set, next)
<1>1. j.op = "WRITE" /\ j.item = i /\ j.set = set /\ j.next = next
  BY DEF WriteOf
<1>2. next \notin Modes
  BY DEF Modes
<1> HIDE DEF j
<1>3. IsJob(j)
  BY <1>1 DEF IsJob
<1>4. NextSound(i, set, next)
  BY <1>2 DEF NextSound
<1>5. JobSound(j)
  BY <1>1, <1>4 DEF JobSound
<1> QED
  BY <1>3, <1>5 DEF j

\* A write of the status alone, to one that says nothing of a gate.
LEMMA StatusSound ==
  ASSUME NEW i \in Items, NEW to \in Statuses, to = "APPROVED" /\ ~IsQuote(i) => Sanctioned(i)
  PROVE  LET set == [status |-> to] IN IsSet(set) /\ SetSound(i, set)
BY DEF IsSet, SetSound

LEMMA RowType ==
  ASSUME TypeOK, NEW i \in Items
  PROVE  items[i] \in Rows
BY DEF TypeOK, Items

LEMMA MoveQuoteSound ==
  ASSUME Inductive, NEW c \in Requests, MoveQuote(c)
  PROVE  \E j : IsJob(j) /\ JobSound(j) /\ Become(c, j)
<1>1. PICK i \in Quotes, to \in Replies :
        <<items[i].status, to>> \in QuoteMoves /\ Become(c, WriteOf(i, [status |-> to], "END"))
  BY DEF MoveQuote
<1>2. to \in Statuses /\ to # "APPROVED"
  BY <1>1 DEF QuoteMoves, Statuses
<1>3. i \in Items
  BY DEF Quotes
<1>4. PICK set : set = [status |-> to]
  OBVIOUS
<1>5. IsSet(set) /\ SetSound(i, set)
  BY <1>2, <1>3, <1>4, StatusSound
<1> QED
  BY <1>1, <1>3, <1>4, <1>5, WriteSound

LEMMA CancelVariationSound ==
  ASSUME Inductive, NEW c \in Requests, CancelVariation(c)
  PROVE  \E j : IsJob(j) /\ JobSound(j) /\ Become(c, j)
<1>1. PICK i \in Variations : Become(c, WriteOf(i, [status |-> "CANCELLED"], "END"))
  BY DEF CancelVariation
<1>2. i \in Items
  BY DEF Variations
<1>3. PICK set : set = [status |-> "CANCELLED"]
  OBVIOUS
<1>4. IsSet(set) /\ SetSound(i, set)
  BY <1>2, <1>3, StatusSound DEF Statuses
<1> QED
  BY <1>1, <1>2, <1>3, <1>4, WriteSound

LEMMA RejectSound ==
  ASSUME Inductive, NEW c \in Requests, Reject(c)
  PROVE  \E j : IsJob(j) /\ JobSound(j) /\ Become(c, j)
<1>1. PICK i \in Items :
        \/ Become(c, WriteOf(i, [approval |-> "REJECTED", status |-> "REJECTED"], "END"))
        \/ Become(c, WriteOf(i, [status |-> "REJECTED"], "END"))
  BY DEF Reject
<1>2. PICK set : /\ set \in {[approval |-> "REJECTED", status |-> "REJECTED"], [status |-> "REJECTED"]}
                 /\ Become(c, WriteOf(i, set, "END"))
  BY <1>1
<1>3. IsSet(set) /\ SetSound(i, set)
  BY <1>2 DEF IsSet, SetSound, Statuses, Gates
<1> QED
  BY <1>2, <1>3, WriteSound

\* A mode that is allowed fits what is required.
LEMMA AllowedFits ==
  ASSUME Inductive, NEW i \in Items, NEW mode \in Modes, ModeAllowed(i, mode)
  PROVE  Fit(i, mode)
<1>1. items[i].required \in Modes \cup {Unset}
  BY RowType DEF Inductive, Rows
<1>2. MeetsOrExceeds(mode, Unset)
  BY DEF MeetsOrExceeds, NeedsApproval, NeedsSignature, Unset
<1> QED
  BY <1>1, <1>2 DEF ModeAllowed, Fit

LEMMA SetWorkflowModeSound ==
  ASSUME Inductive, NEW c \in Requests, SetWorkflowMode(c)
  PROVE  \E j : IsJob(j) /\ JobSound(j) /\ Become(c, j)
<1>1. PICK i \in Items, mode \in Modes :
        /\ ModeAllowed(i, mode)
        /\ \/ mode = "SIGNATURE_ONLY" /\ Become(c, [op |-> "CALL", item |-> i, mode |-> mode])
           \/ \E set \in {[mode |-> mode], [mode |-> mode, approval |-> "PENDING"],
                          [mode |-> mode, approval |-> "PENDING", status |-> "UNDER_REVIEW"]} :
                Become(c, WriteOf(i, set, "END"))
  BY DEF SetWorkflowMode, QuoteMode, VariationMode, Modes
<1>2. Fit(i, mode)
  BY <1>1, AllowedFits
<1>3. CASE Become(c, [op |-> "CALL", item |-> i, mode |-> mode])
  <2>1. PICK j : j = [op |-> "CALL", item |-> i, mode |-> mode]
    OBVIOUS
  <2>2. IsJob(j) /\ JobSound(j)
    BY <1>2, <2>1 DEF IsJob, JobSound
  <2> QED
    BY <1>3, <2>1, <2>2
<1>4. ASSUME NEW set \in {[mode |-> mode], [mode |-> mode, approval |-> "PENDING"],
                          [mode |-> mode, approval |-> "PENDING", status |-> "UNDER_REVIEW"]},
             Become(c, WriteOf(i, set, "END"))
      PROVE  \E j : IsJob(j) /\ JobSound(j) /\ Become(c, j)
  <2>1. IsSet(set)
    BY DEF IsSet, Gates, Statuses
  <2>2. SetSound(i, set)
    BY <1>2 DEF SetSound
  <2> QED
    BY <1>4, <2>1, <2>2, WriteSound
<1> QED
  BY <1>1, <1>3, <1>4

LEMMA ApproveSound ==
  ASSUME Inductive, NEW c \in Requests, Approve(c)
  PROVE  \E j : IsJob(j) /\ JobSound(j) /\ Become(c, j)
<1>1. PICK i, mode :
        /\ i \in Items /\ mode = EffectiveMode(i)
        /\ \/ /\ mode = "NONE"
              /\ \E next \in {"END", "RELEASE"} : Become(c, WriteOf(i, [mode |-> "NONE", status |-> "APPROVED"], next))
           \/ /\ IsQuote(i)
              /\ \E to \in {"APPROVED", "UNDER_REVIEW"}, next \in {"RELEASE", "CALL"} :
                   Become(c, WriteOf(i, [approval |-> "APPROVED", status |-> to], next))
           \/ NeedsApproval(mode) /\ Become(c, WriteOf(i, [approval |-> "APPROVED"], mode))
  BY DEF Approve
<1> i \in Items
  BY <1>1
<1>2. RowSound(i)
  BY DEF Inductive, RowsSound
<1>3. Fit(i, mode)
  <2>1. CASE items[i].mode = Unset /\ items[i].required = "NONE"
    <3>1. mode = "NONE"
      BY <1>1, <2>1 DEF EffectiveMode
    <3> QED
      BY <2>1, <3>1 DEF Fit, MeetsOrExceeds
  <2>2. CASE ~(items[i].mode = Unset /\ items[i].required = "NONE")
    <3>1. mode = items[i].mode
      BY <1>1, <2>2 DEF EffectiveMode
    <3> QED
      BY <1>2, <3>1 DEF RowSound
  <2> QED
    BY <2>1, <2>2
<1>4. ASSUME mode = "NONE", NEW next \in {"END", "RELEASE"},
             Become(c, WriteOf(i, [mode |-> "NONE", status |-> "APPROVED"], next))
      PROVE  \E j : IsJob(j) /\ JobSound(j) /\ Become(c, j)
  <2>1. Sanctioned(i)
    <3>1. ~NeedsApproval(mode) /\ ~NeedsSignature(mode)
      BY <1>4 DEF NeedsApproval, NeedsSignature
    <3> QED
      BY <1>3, <3>1, PassedIsSanctioned
  <2>2. PICK set : set = [mode |-> "NONE", status |-> "APPROVED"]
    OBVIOUS
  <2>3. IsSet(set)
    BY <2>2 DEF IsSet, Modes, Statuses
  <2>4. SetSound(i, set)
    BY <1>3, <1>4, <2>1, <2>2 DEF SetSound
  <2> QED
    BY <1>4, <2>2, <2>3, <2>4, WriteSound
<1>5. ASSUME IsQuote(i), NEW to \in {"APPROVED", "UNDER_REVIEW"}, NEW next \in {"RELEASE", "CALL"},
             Become(c, WriteOf(i, [approval |-> "APPROVED", status |-> to], next))
      PROVE  \E j : IsJob(j) /\ JobSound(j) /\ Become(c, j)
  <2>1. PICK set : set = [approval |-> "APPROVED", status |-> to]
    OBVIOUS
  <2>2. IsSet(set)
    BY <2>1 DEF IsSet, Gates, Statuses
  <2>3. SetSound(i, set)
    BY <1>5, <2>1 DEF SetSound
  <2> QED
    BY <1>5, <2>1, <2>2, <2>3, WriteSound
<1>6. ASSUME NeedsApproval(mode), Become(c, WriteOf(i, [approval |-> "APPROVED"], mode))
      PROVE  \E j : IsJob(j) /\ JobSound(j) /\ Become(c, j)
  <2>1. PICK j : j = WriteOf(i, [approval |-> "APPROVED"], mode)
    OBVIOUS
  <2>2. j.op = "WRITE" /\ j.item = i /\ j.set = [approval |-> "APPROVED"] /\ j.next = mode
    BY <2>1 DEF WriteOf
  <2>3. PICK set : set = [approval |-> "APPROVED"]
    OBVIOUS
  <2>4. IsSet(set) /\ SetSound(i, set)
    BY <2>3 DEF IsSet, SetSound, Gates
  <2>5. NextSound(i, set, mode)
    BY <1>3, <1>6, <2>3 DEF NextSound
  <2>6. mode \in Modes
    BY <1>6 DEF NeedsApproval, Modes
  <2>7. IsJob(j) /\ JobSound(j)
    BY <2>2, <2>3, <2>4, <2>5, <2>6 DEF IsJob, JobSound
  <2> QED
    BY <1>6, <2>1, <2>7
<1> QED
  BY <1>1, <1>4, <1>5, <1>6

-----------------------------------------------------------------------------
(***************************************************************************)
(* The release of the order                                                *)
(***************************************************************************)

LEMMA GoverningType ==
  ASSUME TypeOK
  PROVE  GoverningQuote \in Quotes \cup {0}
<1> DEFINE live == {i \in Quotes : items[i].status # "REJECTED"}
<1>1. Len(items) \in Nat /\ live \in SUBSET (1 .. Len(items))
  BY DEF TypeOK, Quotes, Items
<1>2. live # {} => Max(live) \in live
  <2> DEFINE last == Len(items)
  <2>1. last \in Nat /\ live \in SUBSET (1 .. last)
    BY <1>1
  <2> HIDE DEF live, last
  <2> QED
    BY <2>1, GreatestIsOne
<1> QED
  BY <1>2 DEF GoverningQuote

LEMMA GoverningReleased ==
  ASSUME Inductive, ReleaseAllowed, NEW q, q = GoverningQuote, q # 0
  PROVE  q \in Items /\ Released(q)
<1>1. q \in Quotes
  BY GoverningType DEF Inductive
<1>2. q \in Items /\ IsQuote(q)
  BY <1>1 DEF Quotes, IsQuote
<1>3. RowSound(q) /\ items[q] \in Rows
  BY <1>2, RowType DEF Inductive, RowsSound
<1>4. items[q].mode # Unset /\ CanRelease(Derive(items[q].mode, items[q].approval, items[q].signature))
  BY DEF ReleaseAllowed
<1>5. /\ NeedsApproval(items[q].mode) => q \in approved
      /\ NeedsSignature(items[q].mode) => SignedBy(q)
  BY <1>3, <1>4, GatesPassed DEF RowSound
<1>6. Sanctioned(q)
  BY <1>2, <1>3, <1>5, PassedIsSanctioned DEF RowSound
<1>7. ASSUME items[q].required = Unset
      PROVE  q \in approved \/ SignedBy(q)
  <2>1. items[q].mode # "NONE"
    BY <1>2, <1>3, <1>7 DEF RowSound, Fit, Unset
  <2>2. NeedsApproval(items[q].mode) \/ NeedsSignature(items[q].mode)
    BY <1>3, <1>4, <2>1 DEF Rows, Modes, NeedsApproval, NeedsSignature
  <2> QED
    BY <1>5, <2>2
<1> QED
  BY <1>2, <1>6, <1>7 DEF Released

LEMMA MoveSound ==
  ASSUME Inductive, NEW c \in Requests, NEW to, Move(to),
         Become(c, [op |-> "MOVE", to |-> to, by |-> GoverningQuote])
  PROVE  \E j : IsJob(j) /\ JobSound(j) /\ Become(c, j)
<1>1. PICK q : q = GoverningQuote
  OBVIOUS
<1>2. PICK j : j = [op |-> "MOVE", to |-> to, by |-> q]
  OBVIOUS
<1>3. to \in OrderStatuses
  BY DEF Move, Transitions, OrderStatuses
<1>4. q \in Nat
  BY <1>1, GoverningType DEF Inductive, Quotes, Items
<1>5. to = "READY" /\ q # 0 => q \in Items /\ Released(q)
  BY <1>1, GoverningReleased DEF Move
<1>6. IsJob(j) /\ JobSound(j)
  BY <1>2, <1>3, <1>4, <1>5 DEF IsJob, JobSound
<1> QED
  BY <1>1, <1>2, <1>6

LEMMA RequestSound ==
  ASSUME Inductive, NEW c \in Requests, Request(c)
  PROVE  Inductive'
<1>1. \E j : IsJob(j) /\ JobSound(j) /\ Become(c, j)
  <2>1. CASE UpdateStatus(c)
    BY <2>1, MoveSound DEF UpdateStatus
  <2> QED
    BY <2>1, MoveQuoteSound, SetWorkflowModeSound, ApproveSound, RejectSound, CancelVariationSound DEF Request
<1> QED
  BY <1>1, OnlyJob DEF Request, Inductive, TypeOK

LEMMA IdleSound == IsJob(Idle) /\ JobSound(Idle)
BY DEF Idle, IsJob, JobSound

LEMMA ReleaseSound ==
  ASSUME Inductive, NEW c \in Requests, Release(c)
  PROVE  Inductive'
<1>1. \E j : IsJob(j) /\ JobSound(j) /\ Become(c, j)
  BY IdleSound, MoveSound DEF Release
<1> QED
  BY <1>1, OnlyJob DEF Release, Inductive, TypeOK

LEMMA AbandonSound ==
  ASSUME Inductive, NEW c \in Requests, CallFails(c) \/ Abandon(c)
  PROVE  Inductive'
BY IdleSound, OnlyJob DEF CallFails, Abandon, Inductive, TypeOK

LEMMA MoveOrderSound ==
  ASSUME Inductive, NEW c \in Requests, MoveOrder(c)
  PROVE  Inductive'
<1>1. PICK j : j = job[c]
  OBVIOUS
<1>2. IsJob(j) /\ JobSound(j)
  BY <1>1 DEF Inductive, TypeOK, JobsSound
<1>3. /\ j.op = "MOVE" /\ order' = j.to /\ governed' = IF j.to = "READY" THEN j.by ELSE governed
      /\ Become(c, Idle) /\ UNCHANGED <<items, agreements, approved>>
  BY <1>1 DEF MoveOrder
<1>4. Kept
  BY <1>3 DEF Kept, Items
<1>5. IsJob(Idle)' /\ JobSound(Idle)'
  BY <1>4, IdleSound, JobStays
<1>6. /\ (job = [d \in Requests |-> job[d]])'
      /\ \A d \in Requests : \A k \in {job'[d]} : IsJob(k)' /\ JobSound(k)'
  BY <1>3, <1>4, <1>5, JobsStay
<1>7. RowsSound'
  BY <1>3, <1>4, RowStays DEF Inductive, RowsSound, Items
<1>8. AgreementsSound'
  BY <1>3 DEF Inductive, AgreementsSound, Items
<1>9. OrderSound'
  <2>1. CASE j.to = "READY"
    <3>1. governed' = j.by
      BY <1>3, <2>1
    <3>2. JobSound(j)'
      BY <1>2, <1>4, JobStays
    <3>3. j.by # 0 => j.by \in Items' /\ Released(j.by)'
      BY <1>3, <2>1, <3>2 DEF JobSound
    <3>4. PICK q : q = j.by
      OBVIOUS
    <3> QED
      BY <3>1, <3>3, <3>4 DEF OrderSound
  <2>2. CASE j.to # "READY"
    BY <1>3, <1>4, <2>2, OrderStays
  <2> QED
    BY <2>1, <2>2
<1>10. order' \in OrderStatuses /\ governed' \in Nat
  BY <1>2, <1>3 DEF IsJob, Inductive, TypeOK
<1> QED
  BY <1>3, <1>6, <1>7, <1>8, <1>9, <1>10 DEF Inductive, TypeOK, JobsSound

-----------------------------------------------------------------------------
(***************************************************************************)
(* WaslSign                                                                *)
(***************************************************************************)

LEMMA SignatureType == \A e : SignatureOf(e) \in Signatures
BY DEF SignatureOf, Signatures, Unset

LEMMA OnlySigningSigns ==
  ASSUME NEW e, SignatureOf(e) = "SIGNED"
  PROVE  e \in {"SIGNED", "WORKFLOW_COMPLETED"}
BY DEF SignatureOf, Unset

LEMMA CallbackSound ==
  ASSUME Inductive, NEW c \in Requests, Callback(c)
  PROVE  Inductive'
<1>1. PICK a \in DOMAIN agreements : \E e \in agreements[a].emitted :
        LET i == agreements[a].item
            signature == SignatureOf(e) IN
        Become(c, IF ~Heeded(i, a, signature) THEN Idle
                  ELSE IF IsQuote(i) THEN QuoteCallback(i, signature)
                  ELSE VariationCallback(i, signature))
  BY DEF Callback
<1>2. PICK e \in agreements[a].emitted :
        LET i == agreements[a].item
            signature == SignatureOf(e) IN
        Become(c, IF ~Heeded(i, a, signature) THEN Idle
                  ELSE IF IsQuote(i) THEN QuoteCallback(i, signature)
                  ELSE VariationCallback(i, signature))
  BY <1>1
<1>3. PICK i, signature : i = agreements[a].item /\ signature = SignatureOf(e)
  OBVIOUS
<1>4. i \in Items /\ signature \in Signatures
  BY <1>3, SignatureType DEF Inductive, AgreementsSound
<1>5. RowSound(i) /\ items[i] \in Rows
  BY <1>4, RowType DEF Inductive, RowsSound
<1>6. signature = "SIGNED" => SignedBy(i)
  <2>1. signature = "SIGNED" => "SIGNED" \in agreements[a].emitted
    <3>1. "WORKFLOW_COMPLETED" \in agreements[a].emitted => "SIGNED" \in agreements[a].emitted
      BY DEF Inductive, AgreementsSound
    <3>2. signature = "SIGNED" => e \in {"SIGNED", "WORKFLOW_COMPLETED"}
      BY <1>3, OnlySigningSigns
    <3> QED
      BY <1>2, <3>1, <3>2
  <2> QED
    BY <1>3, <2>1 DEF SignedBy
<1>7. CASE Become(c, Idle)
  BY <1>7, IdleSound, OnlyJob DEF Callback, Inductive, TypeOK
<1>8. ASSUME IsQuote(i), Become(c, QuoteCallback(i, signature))
      PROVE  \E j : IsJob(j) /\ JobSound(j) /\ Become(c, j)
  <2>1. PICK set \in {[signature |-> signature, status |-> "APPROVED"],
                      [signature |-> signature, status |-> items[i].status]},
             next \in {"END", "RELEASE"} :
               Become(c, WriteOf(i, set, next))
    BY <1>8 DEF QuoteCallback
  <2>2. IsSet(set)
    <3>1. items[i].status \in Statuses
      BY <1>5 DEF Rows
    <3>2. "APPROVED" \in Statuses
      BY DEF Statuses
    <3> QED
      BY <1>4, <2>1, <3>1, <3>2 DEF IsSet
  <2>3. SetSound(i, set)
    BY <1>6, <1>8, <2>1 DEF SetSound
  <2> QED
    BY <1>4, <2>1, <2>2, <2>3, WriteSound
<1>9. ASSUME ~IsQuote(i), Heeded(i, a, signature), Become(c, VariationCallback(i, signature))
      PROVE  \E j : IsJob(j) /\ JobSound(j) /\ Become(c, j)
  <2>1. PICK to : /\ to = IF signature = "SIGNED" /\ CanRelease(Derive(items[i].mode, items[i].approval, signature))
                          THEN "APPROVED" ELSE items[i].status
                  /\ Become(c, WriteOf(i, [signature |-> signature, status |-> to], "END"))
    BY <1>9 DEF VariationCallback
  <2>2. PICK set : set = [signature |-> signature, status |-> to]
    OBVIOUS
  <2>3. IsSet(set)
    BY <1>4, <1>5, <2>1, <2>2 DEF IsSet, Rows, Statuses
  <2>4. to = "APPROVED" => Sanctioned(i)
    <3> SUFFICES ASSUME to = "APPROVED" PROVE Sanctioned(i)
      OBVIOUS
    <3>1. items[i].status = "PENDING_APPROVAL"
      BY <1>9 DEF Heeded
    <3>2. signature = "SIGNED" /\ CanRelease(Derive(items[i].mode, items[i].approval, signature))
      BY <2>1, <3>1
    <3>3. NeedsApproval(items[i].mode) => i \in approved
      BY <1>5, <3>2, GatesPassed DEF RowSound
    <3> QED
      BY <1>4, <1>5, <1>6, <3>2, <3>3, PassedIsSanctioned DEF RowSound
  <2>5. SetSound(i, set)
    BY <1>6, <2>2, <2>4 DEF SetSound
  <2> QED
    BY <1>4, <2>1, <2>2, <2>3, <2>5, WriteSound
<1> QED
  BY <1>2, <1>3, <1>7, <1>8, <1>9, OnlyJob DEF Callback, Inductive, TypeOK

LEMMA EmitSound ==
  ASSUME Inductive, Emit
  PROVE  Inductive'
<1>1. PICK a \in DOMAIN agreements, e \in Events :
        /\ e = "WORKFLOW_COMPLETED" => "SIGNED" \in agreements[a].emitted
        /\ agreements' = [agreements EXCEPT ![a].emitted = @ \cup {e}]
  BY DEF Emit
<1>2. agreements \in Seq(Agreements) /\ a \in 1 .. Len(agreements) /\ Len(agreements) \in Nat
  BY DEF Inductive, TypeOK
<1>3. agreements[a] \in Agreements
  BY <1>2
<1>4. PICK new : new = [agreements[a] EXCEPT !.emitted = @ \cup {e}]
  OBVIOUS
<1>5. new \in Agreements /\ new.item = agreements[a].item /\ new.emitted = agreements[a].emitted \cup {e}
  BY <1>3, <1>4 DEF Agreements
<1>6. agreements' = [agreements EXCEPT ![a] = new]
  BY <1>1, <1>4
<1>7. /\ agreements' \in Seq(Agreements) /\ DOMAIN agreements' = DOMAIN agreements
      /\ agreements'[a] = new /\ \A b \in DOMAIN agreements : b # a => agreements'[b] = agreements[b]
  <2> HIDE DEF Agreements
  <2> QED
    BY <1>2, <1>5, <1>6
<1>8. Items' = Items
  BY DEF Emit, Items
<1>9. Kept
  BY <1>5, <1>7, <1>8 DEF Kept, Emit
<1>10. /\ (job = [d \in Requests |-> job[d]])'
       /\ \A d \in Requests : \A k \in {job'[d]} : IsJob(k)' /\ JobSound(k)'
  BY <1>9, JobsStill DEF Emit
<1>11. RowsSound'
  BY <1>8, <1>9, RowStays DEF Inductive, RowsSound, Emit
<1>12. AgreementsSound'
  <2>1. ASSUME NEW b \in DOMAIN agreements
        PROVE  /\ agreements'[b].item \in Items
               /\ "WORKFLOW_COMPLETED" \in agreements'[b].emitted => "SIGNED" \in agreements'[b].emitted
    BY <1>1, <1>5, <1>7 DEF Inductive, AgreementsSound
  <2> QED
    BY <1>7, <1>8, <2>1 DEF AgreementsSound
<1>13. OrderSound'
  BY <1>9, OrderStays DEF Emit
<1> QED
  BY <1>7, <1>10, <1>11, <1>12, <1>13 DEF Inductive, TypeOK, JobsSound, Emit

LEMMA CallSound ==
  ASSUME Inductive, NEW c \in Requests, Call(c)
  PROVE  Inductive'
<1>1. PICK j : j = job[c]
  OBVIOUS
<1>2. IsJob(j) /\ JobSound(j) /\ j.op = "CALL"
  BY <1>1 DEF Inductive, TypeOK, JobsSound, Call
<1>3. PICK i \in Items, mode \in Modes : i = j.item /\ mode = j.mode /\ Fit(i, mode)
  BY <1>2 DEF IsJob, JobSound
<1>4. PICK n, set :
        /\ n = Len(agreements)
        /\ set = IF IsQuote(i)
                 THEN [mode |-> mode, signature |-> "PENDING", agreement |-> n + 1, status |-> "UNDER_REVIEW"]
                 ELSE [mode |-> mode, signature |-> "PENDING", agreement |-> n + 1]
  OBVIOUS
<1>5. /\ Become(c, WriteOf(i, set, "END"))
      /\ agreements' = Append(agreements, [item |-> i, emitted |-> {}])
      /\ UNCHANGED <<order, items, approved, governed>>
  BY <1>1, <1>3, <1>4 DEF Call
<1>6. n \in Nat /\ agreements \in Seq(Agreements)
  BY <1>4 DEF Inductive, TypeOK
<1>7. /\ DOMAIN set \subseteq {"status", "mode", "signature", "agreement"}
      /\ "status" \in DOMAIN set => set.status = "UNDER_REVIEW"
      /\ set.mode = mode /\ set.signature = "PENDING" /\ set.agreement = n + 1
  BY <1>4
<1>8. IsSet(set)
  BY <1>6, <1>7 DEF IsSet, Statuses, Signatures
<1>9. SetSound(i, set)
  BY <1>3, <1>7 DEF SetSound
<1>10. Items' = Items
  BY <1>5 DEF Items
<1>11. PICK new : new = [item |-> i, emitted |-> {}]
  OBVIOUS
<1>12. new \in Agreements /\ new.item = i /\ new.emitted = {}
  BY <1>11 DEF Agreements, Items
<1>13. /\ agreements' \in Seq(Agreements) /\ DOMAIN agreements \subseteq DOMAIN agreements'
       /\ \A b \in DOMAIN agreements : agreements'[b] = agreements[b]
       /\ \A b \in DOMAIN agreements' : b \in DOMAIN agreements \/ agreements'[b] = new
  <2>1. agreements' = Append(agreements, new)
    BY <1>5, <1>11
  <2> HIDE DEF Agreements
  <2> QED
    BY <1>6, <1>12, <2>1
<1>14. Kept
  BY <1>5, <1>10, <1>13 DEF Kept
<1>15. PICK k : k = WriteOf(i, set, "END")
  OBVIOUS
<1>16. IsJob(k)' /\ JobSound(k)'
  BY <1>8, <1>9, <1>14, <1>15, WriteSound, JobStays
<1>17. /\ (job = [d \in Requests |-> job[d]])'
       /\ \A d \in Requests : \A l \in {job'[d]} : IsJob(l)' /\ JobSound(l)'
  BY <1>5, <1>14, <1>15, <1>16, JobsStay
<1>18. RowsSound'
  BY <1>5, <1>10, <1>14, RowStays DEF Inductive, RowsSound
<1>19. AgreementsSound'
  BY <1>10, <1>12, <1>13 DEF Inductive, AgreementsSound
<1>20. OrderSound'
  BY <1>5, <1>14, OrderStays
<1> QED
  BY <1>5, <1>13, <1>17, <1>18, <1>19, <1>20 DEF Inductive, TypeOK, JobsSound

-----------------------------------------------------------------------------
(***************************************************************************)
(* Rows: made, and written                                                 *)
(***************************************************************************)

LEMMA CreateItemSound ==
  ASSUME Inductive, CreateItem
  PROVE  Inductive'
<1>1. PICK p \in Pricings[Len(items) + 1], kind \in {"QUOTE", "VARIATION"}, status \in {"REQUESTED", "PENDING_APPROVAL"} :
        items' = Append(items, NewItem(kind, status, Resolve(p.policy, p.cents, p.currency)))
  BY DEF CreateItem
<1>2. PICK required : required = Resolve(p.policy, p.cents, p.currency)
  OBVIOUS
<1>3. required \in Modes \cup {Unset}
  BY <1>2, ResolveType DEF CreateItem
<1>4. PICK row : row = NewItem(kind, status, required)
  OBVIOUS
<1>5. row \in Rows
  BY <1>3, <1>4 DEF NewItem, Rows, Statuses, Gates, Signatures
<1>6. items \in Seq(Rows) /\ items' = Append(items, row)
  BY <1>1, <1>2, <1>4 DEF Inductive, TypeOK
<1>7. /\ items' \in Seq(Rows) /\ Items \subseteq Items'
      /\ \A i \in Items : items'[i] = items[i]
      /\ \A i \in Items' : i \in Items \/ items'[i] = row
  <2> HIDE DEF Rows
  <2> QED
    BY <1>5, <1>6 DEF Items
<1>8. UNCHANGED <<order, agreements, seen, job, approved, governed>>
  BY DEF CreateItem
<1>9. Kept
  BY <1>7, <1>8 DEF Kept
<1>10. /\ (job = [d \in Requests |-> job[d]])'
       /\ \A d \in Requests : \A k \in {job'[d]} : IsJob(k)' /\ JobSound(k)'
  BY <1>8, <1>9, JobsStill
<1>11. RowsSound'
  <2>1. ASSUME NEW i \in Items', i \in Items
        PROVE  RowSound(i)'
    BY <1>7, <1>9, <2>1, RowStays DEF Inductive, RowsSound
  <2>2. ASSUME NEW i \in Items', items'[i] = row
        PROVE  RowSound(i)'
    <3>1. /\ items'[i].required = required /\ items'[i].mode = required
          /\ items'[i].approval = Unset /\ items'[i].signature = Unset /\ items'[i].status = status
      BY <1>4, <2>2 DEF NewItem
    <3> QED
      BY <3>1 DEF RowSound, Fit, MeetsOrExceeds, Unset
  <2> QED
    BY <1>7, <2>1, <2>2 DEF RowsSound
<1>12. AgreementsSound'
  BY <1>7, <1>8 DEF Inductive, AgreementsSound
<1>13. OrderSound'
  BY <1>8, <1>9, OrderStays
<1> QED
  BY <1>7, <1>8, <1>10, <1>11, <1>12, <1>13 DEF Inductive, TypeOK, JobsSound

LEMMA UpdatedType ==
  ASSUME NEW row \in Rows, NEW set, IsSet(set)
  PROVE  /\ Updated(row, set) \in Rows
         /\ \A f \in {"kind", "required"} : Updated(row, set)[f] = row[f]
         /\ \A f \in {"status", "mode", "approval", "signature", "agreement"} :
              Updated(row, set)[f] = IF f \in DOMAIN set THEN set[f] ELSE row[f]
<1>1. DOMAIN row = {"kind", "status", "required", "mode", "approval", "signature", "agreement"}
  BY DEF Rows
<1>2. PICK new : new = Updated(row, set)
  OBVIOUS
<1>3. /\ DOMAIN new = DOMAIN row
      /\ \A f \in DOMAIN row : new[f] = IF f \in DOMAIN set THEN set[f] ELSE row[f]
  BY <1>2 DEF Updated
<1>4. \A f \in {"kind", "required"} : new[f] = row[f]
  BY <1>1, <1>3 DEF IsSet
<1>5. new \in Rows
  <2>1. new = [kind |-> new.kind, status |-> new.status, required |-> new.required, mode |-> new.mode,
               approval |-> new.approval, signature |-> new.signature, agreement |-> new.agreement]
    BY <1>1, <1>2, <1>3 DEF Updated
  <2>2. /\ new.kind \in {"QUOTE", "VARIATION"} /\ new.status \in Statuses /\ new.required \in Modes \cup {Unset}
        /\ new.mode \in Modes \cup {Unset} /\ new.approval \in Gates /\ new.signature \in Signatures
        /\ new.agreement \in Nat
    BY <1>1, <1>3, <1>4 DEF Rows, IsSet
  <2> QED
    BY <2>1, <2>2 DEF Rows
<1> QED
  BY <1>1, <1>2, <1>3, <1>4, <1>5

\* The row that a sound write leaves is sound.
LEMMA WrittenSound ==
  ASSUME Kept, NEW i \in Items, RowSound(i), items[i] \in Rows, NEW set, IsSet(set), SetSound(i, set),
         "approval" \in DOMAIN set /\ set.approval = "APPROVED" => i \in approved',
         items'[i] = Updated(items[i], set)
  PROVE  RowSound(i)'
<1>1. PICK old, row : old = items[i] /\ row = Updated(old, set)
  OBVIOUS
<1>2. /\ row.kind = old.kind /\ row.required = old.required
      /\ row.mode = IF "mode" \in DOMAIN set THEN set.mode ELSE old.mode
      /\ row.approval = IF "approval" \in DOMAIN set THEN set.approval ELSE old.approval
      /\ row.signature = IF "signature" \in DOMAIN set THEN set.signature ELSE old.signature
      /\ row.status = IF "status" \in DOMAIN set THEN set.status ELSE old.status
  BY <1>1, UpdatedType
<1>3. items'[i] = row
  BY <1>1
<1>4. row.mode = Unset => row.required = Unset
  BY <1>1, <1>2 DEF IsSet, Modes, Unset, RowSound
<1>5. Fit(i, row.mode)'
  <2>1. Fit(i, row.mode)
    BY <1>1, <1>2 DEF SetSound, RowSound
  <2> QED
    BY <2>1, FitStays
<1>6. row.approval = "APPROVED" => i \in approved'
  BY <1>1, <1>2 DEF RowSound, Kept
<1>7. row.signature = "SIGNED" => SignedBy(i)'
  BY <1>1, <1>2, SignedStays DEF SetSound, RowSound
<1>8. ~IsQuote(i)' /\ row.status = "APPROVED" => Sanctioned(i)'
  <2>1. IsQuote(i)' <=> IsQuote(i)
    BY DEF Kept, IsQuote
  <2> QED
    BY <1>1, <1>2, <2>1, SanctionedStays DEF SetSound, RowSound
<1> QED
  BY <1>3, <1>4, <1>5, <1>6, <1>7, <1>8 DEF RowSound

\* What a request goes on to do once it has written.
LEMMA AfterWriteSound ==
  ASSUME Kept, NEW i \in Items, NEW row, NEW set, NEW next \in {"END", "RELEASE", "CALL"} \cup Modes,
         NextSound(i, set, next), next \in Modes => i \in approved',
         row.signature = "SIGNED" => SignedBy(i)',
         NEW j, j = AfterWrite(i, row, next)
  PROVE  IsJob(j)' /\ JobSound(j)'
<1>1. CASE j \in {Idle, [op |-> "RELEASE"], [op |-> "CALL", item |-> i, mode |-> "APPROVAL_THEN_SIGNATURE"]}
  <2>1. Fit(i, "APPROVAL_THEN_SIGNATURE")
    BY DEF Fit, MeetsOrExceeds, NeedsApproval, NeedsSignature
  <2>2. IsJob(j) /\ JobSound(j)
    BY <1>1, <2>1 DEF IsJob, JobSound, Modes, Idle
  <2> QED
    BY <2>2, JobStays
<1>2. ASSUME next \in Modes, CanRelease(Derive(next, "APPROVED", row.signature)),
             j = WriteOf(i, [status |-> "APPROVED"], "END")
      PROVE  IsJob(j)' /\ JobSound(j)'
  <2>1. Fit(i, next)'
    BY <1>2, FitStays DEF NextSound
  <2>2. NeedsSignature(next) => SignedBy(i)'
    BY <1>2, GatesPassed
  <2>3. Sanctioned(i)'
    BY <1>2, <2>1, <2>2 DEF Fit, MeetsOrExceeds, Sanctioned
  <2>4. PICK put : put = [status |-> "APPROVED"]
    OBVIOUS
  <2>5. j.op = "WRITE" /\ j.item = i /\ j.set = put /\ j.next = "END"
    BY <1>2, <2>4 DEF WriteOf
  <2>6. IsSet(put) /\ SetSound(i, put)'
    BY <2>3, <2>4 DEF IsSet, SetSound, Statuses
  <2>7. NextSound(i, put, "END")'
    BY DEF NextSound, Modes
  <2>8. i \in Items'
    BY DEF Kept
  <2> QED
    BY <2>5, <2>6, <2>7, <2>8 DEF IsJob, JobSound
<1>3. CASE next \in {"END", "RELEASE", "CALL"}
  BY <1>1, <1>3 DEF AfterWrite
<1>4. CASE next \in Modes
  <2>1. next \notin {"END", "RELEASE", "CALL"}
    BY <1>4 DEF Modes
  <2> QED
    BY <1>1, <1>2, <1>4, <2>1 DEF AfterWrite
<1> QED
  BY <1>3, <1>4

LEMMA WriteStepSound ==
  ASSUME Inductive, NEW c \in Requests, Write(c)
  PROVE  Inductive'
<1>1. PICK j : j = job[c]
  OBVIOUS
<1>2. IsJob(j) /\ JobSound(j) /\ j.op = "WRITE"
  BY <1>1 DEF Inductive, TypeOK, JobsSound, Write
<1>3. PICK i, set, next : i = j.item /\ set = j.set /\ next = j.next
  OBVIOUS
<1>4. /\ i \in Items /\ IsSet(set) /\ SetSound(i, set)
      /\ next \in {"END", "RELEASE", "CALL"} \cup Modes /\ NextSound(i, set, next)
  BY <1>2, <1>3 DEF IsJob, JobSound
<1>5. PICK row : row = Updated(items[i], set)
  OBVIOUS
<1>6. /\ items' = [items EXCEPT ![i] = row]
      /\ Become(c, AfterWrite(i, row, next))
      /\ approved' = IF "approval" \in DOMAIN set /\ set.approval = "APPROVED" THEN approved \cup {i} ELSE approved
      /\ UNCHANGED <<order, agreements, governed>>
  BY <1>1, <1>3, <1>5 DEF Write
<1>7. items \in Seq(Rows) /\ items[i] \in Rows /\ RowSound(i)
  BY <1>4, RowType DEF Inductive, TypeOK, RowsSound
<1>8. row \in Rows /\ row.kind = items[i].kind /\ row.required = items[i].required
  BY <1>4, <1>5, <1>7, UpdatedType
<1>9. /\ items' \in Seq(Rows) /\ Items' = Items
      /\ items'[i] = row /\ \A k \in Items : k # i => items'[k] = items[k]
  <2> HIDE DEF Rows
  <2> QED
    BY <1>4, <1>6, <1>7, <1>8 DEF Items
<1>10. Kept
  BY <1>6, <1>8, <1>9 DEF Kept
<1>11. RowSound(i)'
  BY <1>4, <1>5, <1>6, <1>7, <1>9, <1>10, WrittenSound
<1>12. RowsSound'
  <2>1. \A k \in Items : k # i => RowSound(k)'
    BY <1>9, <1>10, RowStays DEF Inductive, RowsSound
  <2> QED
    BY <1>9, <1>11, <2>1 DEF RowsSound
<1>13. PICK k : k = AfterWrite(i, row, next)
  OBVIOUS
<1>14. IsJob(k)' /\ JobSound(k)'
  <2>1. row.signature = "SIGNED" => SignedBy(i)'
    BY <1>9, <1>11 DEF RowSound
  <2>2. next \in Modes => i \in approved'
    BY <1>4, <1>6 DEF NextSound
  <2> QED
    BY <1>4, <1>10, <1>13, <2>1, <2>2, AfterWriteSound
<1>15. /\ (job = [d \in Requests |-> job[d]])'
       /\ \A d \in Requests : \A l \in {job'[d]} : IsJob(l)' /\ JobSound(l)'
  BY <1>6, <1>10, <1>13, <1>14, JobsStay
<1>16. AgreementsSound'
  BY <1>6, <1>9 DEF Inductive, AgreementsSound
<1>17. OrderSound'
  BY <1>6, <1>10, OrderStays
<1>18. approved' \in SUBSET Nat
  BY <1>4, <1>6 DEF Inductive, TypeOK, Items
<1> QED
  BY <1>6, <1>9, <1>12, <1>15, <1>16, <1>17, <1>18 DEF Inductive, TypeOK, JobsSound

-----------------------------------------------------------------------------
(***************************************************************************)
(* The invariant holds                                                     *)
(***************************************************************************)

LEMMA InitSound == Init => Inductive
<1> SUFFICES ASSUME Init PROVE Inductive
  OBVIOUS
<1>1. Items = {} /\ DOMAIN agreements = {}
  BY DEF Init, Items
<1>2. TypeOK
  BY IdleSound DEF Init, TypeOK, OrderStatuses
<1>3. JobsSound
  BY IdleSound DEF Init, JobsSound
<1>4. OrderSound
  BY DEF Init, OrderSound
<1> QED
  BY <1>1, <1>2, <1>3, <1>4 DEF Inductive, RowsSound, AgreementsSound

LEMMA NextSoundly == Inductive /\ [Next]_vars => Inductive'
<1> SUFFICES ASSUME Inductive, [Next]_vars PROVE Inductive'
  OBVIOUS
<1>1. CASE UNCHANGED vars
  <2>1. UNCHANGED <<order, items, agreements, job, approved, governed>>
    BY <1>1 DEF vars
  <2>2. Kept
    BY <2>1 DEF Kept, Items
  <2>3. /\ (job = [d \in Requests |-> job[d]])'
        /\ \A d \in Requests : \A k \in {job'[d]} : IsJob(k)' /\ JobSound(k)'
    BY <2>1, <2>2, JobsStill
  <2>4. RowsSound'
    BY <2>1, <2>2, RowStays DEF Inductive, RowsSound, Items
  <2>5. AgreementsSound' /\ OrderSound'
    BY <2>1, <2>2, OrderStays DEF Inductive, AgreementsSound, Items
  <2> QED
    BY <2>1, <2>3, <2>4, <2>5 DEF Inductive, TypeOK, JobsSound
<1>2. CASE CreateItem
  BY <1>2, CreateItemSound
<1>3. CASE Emit
  BY <1>3, EmitSound
<1>4. ASSUME NEW c \in Requests, Request(c) \/ Callback(c)
      PROVE  Inductive'
  BY <1>4, RequestSound, CallbackSound
<1>5. ASSUME NEW c \in Requests, Write(c) \/ Call(c) \/ Release(c) \/ MoveOrder(c) \/ CallFails(c) \/ Abandon(c)
      PROVE  Inductive'
  BY <1>5, WriteStepSound, CallSound, ReleaseSound, MoveOrderSound, AbandonSound
<1> QED
  BY <1>1, <1>2, <1>3, <1>4, <1>5 DEF Next, Requests

LEMMA InductiveHolds == Spec => []Inductive
BY InitSound, NextSoundly, PTL DEF Spec

\* Orders, items, agreements and the work of every request keep their types,
\* for any numbers of requests and callbacks and any policies.
THEOREM TypeCorrect == Spec => []TypeOK
<1>1. Inductive => TypeOK
  BY DEF Inductive
<1> QED
  BY <1>1, InductiveHolds, PTL

\* However requests and callbacks of WaslSign interleave, come late, come
\* twice or get lost, an order is released, and a variation counts towards
\* the authorised total, only after every gate the policy required was passed.
THEOREM NothingIsUnsanctioned == Spec => []NothingUnsanctioned
<1>1. Inductive => NothingUnsanctioned
  <2> SUFFICES ASSUME Inductive PROVE NothingUnsanctioned
    OBVIOUS
  <2>1. governed # 0 => Released(governed)
    BY DEF Inductive, OrderSound
  <2>2. \A i \in Variations : items[i].status = "APPROVED" => Sanctioned(i)
    BY DEF Inductive, RowsSound, RowSound, Variations, IsQuote
  <2> QED
    BY <2>1, <2>2 DEF NothingUnsanctioned, Released
<1> QED
  BY <1>1, InductiveHolds, PTL
-----------------------------------------------------------------------------
(***************************************************************************)
(* The assistant: any properties, rosters, edits of permissions, claims    *)
(* and budgets.                                                            *)
(***************************************************************************)

Portfolio == "get_portfolio_exception_candidates"
TurnFields == {"step", "turns", "calls", "tool", "at", "read", "used", "collected"}
Running == {"CHECK", "SCOPE", "RUN"}
CapabilityOf ==
  [get_maintenance_request_context    |-> "maintenance.view",
   get_maintenance_timeline           |-> "maintenance.view",
   get_quote_comparison_facts         |-> "quotes.view",
   get_contractor_eligibility_context |-> "contractors.view",
   get_approval_context               |-> "quotes.view",
   get_variation_context              |-> "work_orders.view",
   get_communication_timeline         |-> "communications.view",
   get_property_operational_summary   |-> "property.view",
   get_related_maintenance_history    |-> "maintenance.view",
   get_strata_context                 |-> "strata.view",
   get_portfolio_exception_candidates |-> "maintenance.view",
   get_work_order_context             |-> "work_orders.view"]
ToolSet == DOMAIN CapabilityOf

\* A role held since the question was asked has had the capability since.
HeldFor(c, p) ==
  \/ Assistant!CanEverywhere(c)
  \/ \E m \in held : (p \in Properties => m.property = p) /\ <<m.role, c>> \in granted

InReach(r) ==
  \E c \in Assistant!ShownBy[r[1]] :
    \/ Assistant!CanEverywhere(c)
    \/ \E m \in held : (r[2] = m.property \/ r[1] = "CONTRACTOR") /\ <<m.role, c>> \in granted

RolesKnown == \A m \in memberships \cup held : m.role \in Assistant!PropertyRoles

\* The history has seen what a turn in progress may still read.
HistoryKept == turn.step # "IDLE" => memberships \subseteq held /\ Assistant!Grants \subseteq granted

TurnShape ==
  /\ turn = [f \in TurnFields |-> turn[f]]
  /\ turn.step = "IDLE" => turn = Assistant!Idle
  /\ turn.step \in Running => turn.tool \in ToolSet
  /\ turn.at \in Properties \cup {Elsewhere}

TurnSound ==
  /\ turn.read \subseteq held
  /\ turn.step = "SCOPE" => turn.tool = Portfolio
  /\ turn.step = "RUN" /\ turn.tool # Portfolio => HeldFor(CapabilityOf[turn.tool], turn.at)

RowsInReach == \A r \in turn.collected \cup cited : InReach(r)

\* What the tools return is in reach because each asks, for a property it
\* looks at, for a capability that shows what it returns.
AssistantInductive == RolesKnown /\ HistoryKept /\ TurnShape /\ TurnSound /\ RowsInReach

LEMMA ToolsAre == Assistant!ToolNames = ToolSet
BY DEF Assistant!ToolNames, Assistant!Tools, ToolSet, CapabilityOf

\* The capability asked for depends on the tool alone, and is one of those a
\* role may be granted.
LEMMA ToolAsks ==
  ASSUME NEW tool \in ToolSet, NEW p, NEW read
  PROVE  /\ Assistant!Tools(p, read)[tool].capability = CapabilityOf[tool]
         /\ CapabilityOf[tool] \in Assistant!DefaultCapabilities.PROPERTY_MANAGER
BY DEF ToolSet, CapabilityOf, Assistant!Tools, Assistant!DefaultCapabilities,
  Assistant!MaintenanceRequestContext, Assistant!MaintenanceTimeline, Assistant!QuoteComparisonFacts,
  Assistant!ContractorEligibilityContext, Assistant!ApprovalContext, Assistant!VariationContext,
  Assistant!CommunicationTimeline, Assistant!PropertyOperationalSummary, Assistant!RelatedMaintenanceHistory,
  Assistant!StrataContext, Assistant!PortfolioExceptionCandidates, Assistant!WorkOrderContext

\* A row returned is of a kind the tool's capability shows, and on the
\* property looked at unless it is a contractor.
Shows(tool, p, r) ==
  /\ CapabilityOf[tool] \in Assistant!ShownBy[r[1]]
  /\ \/ r[1] = "CONTRACTOR"
     \/ r[2] = p /\ (p = Elsewhere => tool \notin Assistant!PortfolioWide \cup Assistant!AnswersForAnything)

LEMMA ToolShows ==
  ASSUME NEW tool \in ToolSet, tool # Portfolio, NEW p, NEW read,
         NEW found \in Assistant!Tools(p, read)[tool].outcomes, NEW r \in found
  PROVE  Shows(tool, p, r)
<1> USE DEF Shows, CapabilityOf, Assistant!Tools, Assistant!ShownBy, Assistant!Some, Assistant!With, Assistant!PortfolioWide,
            Assistant!AnswersForAnything
<1>1. CASE tool = "get_maintenance_request_context"
  BY <1>1 DEF Assistant!MaintenanceRequestContext
<1>2. CASE tool = "get_maintenance_timeline"
  BY <1>2 DEF Assistant!MaintenanceTimeline
<1>3. CASE tool = "get_quote_comparison_facts"
  BY <1>3 DEF Assistant!QuoteComparisonFacts
<1>4. CASE tool = "get_contractor_eligibility_context"
  BY <1>4 DEF Assistant!ContractorEligibilityContext
<1>5. CASE tool = "get_approval_context"
  BY <1>5 DEF Assistant!ApprovalContext
<1>6. CASE tool = "get_variation_context"
  BY <1>6 DEF Assistant!VariationContext
<1>7. CASE tool = "get_communication_timeline"
  BY <1>7 DEF Assistant!CommunicationTimeline
<1>8. CASE tool = "get_property_operational_summary"
  BY <1>8 DEF Assistant!PropertyOperationalSummary
<1>9. CASE tool = "get_related_maintenance_history"
  BY <1>9 DEF Assistant!RelatedMaintenanceHistory
<1>10. CASE tool = "get_strata_context"
  BY <1>10 DEF Assistant!StrataContext
<1>11. CASE tool = "get_work_order_context"
  BY <1>11 DEF Assistant!WorkOrderContext
<1> QED
  BY <1>1, <1>2, <1>3, <1>4, <1>5, <1>6, <1>7, <1>8, <1>9, <1>10, <1>11 DEF ToolSet, Portfolio

\* Who may now has been seen to, by the history of a turn in progress.
LEMMA MayIsHeld ==
  ASSUME RolesKnown, HistoryKept, turn.step # "IDLE", NEW read \in SUBSET held, NEW p,
         NEW c \in Assistant!DefaultCapabilities.PROPERTY_MANAGER, Assistant!Can(read, c, p)
  PROVE  HeldFor(c, p)
<1>1. ASSUME NEW q \in Properties, c \in Assistant!CapabilitiesOn(read, q)
      PROVE  \E m \in held : m.property = q /\ <<m.role, c>> \in granted
  <2>1. PICK m \in read : m.property = q /\ c \in Assistant!EffectiveCapabilities(m.role)
    BY <1>1 DEF Assistant!CapabilitiesOn
  <2>2. <<m.role, c>> \in Assistant!Grants
    BY <2>1 DEF RolesKnown, Assistant!Grants
  <2> QED
    BY <2>1, <2>2 DEF HistoryKept
<1> QED
  BY <1>1 DEF Assistant!Can, HeldFor

LEMMA AssistantStarts == Assistant!Init => AssistantInductive
<1> SUFFICES ASSUME Assistant!Init PROVE AssistantInductive
  OBVIOUS
<1>1. memberships \in Rosters /\ turn = Assistant!Idle /\ cited = {} /\ held = {}
  BY DEF Assistant!Init, Assistant!AuthorizationInit
<1>2. RolesKnown
  BY <1>1, AssistantAssumption DEF RolesKnown
<1>3. HistoryKept /\ TurnShape /\ TurnSound /\ turn.collected = {}
  BY <1>1 DEF HistoryKept, TurnShape, TurnSound, Assistant!Idle, TurnFields, Running
<1> QED
  BY <1>1, <1>2, <1>3 DEF AssistantInductive, RowsInReach

\* A step of the turn that neither ends it nor finds anything.
LEMMA TurnGoesOn ==
  ASSUME AssistantInductive, turn.step # "IDLE", NEW t, Assistant!Proceed(t),
         t = [f \in TurnFields |-> t[f]], t.step # "IDLE", t.step \in Running => t.tool \in ToolSet,
         t.at \in Properties \cup {Elsewhere}, t.read \subseteq held, t.step = "SCOPE" => t.tool = Portfolio,
         t.step = "RUN" /\ t.tool # Portfolio => HeldFor(CapabilityOf[t.tool], t.at),
         \A r \in t.collected : InReach(r)
  PROVE  AssistantInductive'
<1>1. turn' = t /\ UNCHANGED <<orgRole, memberships, overrides, held, granted, cited>>
  BY DEF Assistant!Proceed, Assistant!authorizationVars
<1>2. RolesKnown' /\ HistoryKept'
  BY <1>1 DEF AssistantInductive, RolesKnown, HistoryKept, Assistant!Grants, Assistant!EffectiveCapabilities
<1>4. ASSUME NEW r PROVE InReach(r)' <=> InReach(r)
  BY <1>1 DEF InReach, Assistant!CanEverywhere
<1>5. TurnShape'
  BY <1>1 DEF TurnShape
<1>6. TurnSound'
  <2>1. HeldFor(CapabilityOf[turn.tool], turn.at)' <=> HeldFor(CapabilityOf[t.tool], t.at)
    BY <1>1 DEF HeldFor, Assistant!CanEverywhere
  <2> QED
    BY <1>1, <2>1 DEF TurnSound
<1>7. RowsInReach'
  <2>1. turn'.collected = t.collected /\ cited' = cited
    BY <1>1
  <2> QED
    BY <1>4, <2>1 DEF RowsInReach, AssistantInductive
<1> QED
  BY <1>2, <1>5, <1>6, <1>7 DEF AssistantInductive

\* An answer, which refers to what was found.
LEMMA TurnEnds ==
  ASSUME AssistantInductive, NEW resources \in SUBSET turn.collected, Assistant!Respond(resources)
  PROVE  AssistantInductive'
<1>1. turn' = Assistant!Idle /\ cited' = resources /\ UNCHANGED <<orgRole, memberships, overrides, held, granted>>
  BY DEF Assistant!Respond, Assistant!authorizationVars
<1>2. RolesKnown'
  BY <1>1 DEF AssistantInductive, RolesKnown
<1>3. HistoryKept' /\ TurnShape' /\ TurnSound' /\ turn'.collected = {}
  BY <1>1 DEF HistoryKept, TurnShape, TurnSound, Assistant!Idle, TurnFields, Running
<1>4. ASSUME NEW r PROVE InReach(r)' <=> InReach(r)
  BY <1>1 DEF InReach, Assistant!CanEverywhere
<1>5. RowsInReach'
  BY <1>1, <1>3, <1>4 DEF RowsInReach, AssistantInductive
<1> QED
  BY <1>2, <1>3, <1>5 DEF AssistantInductive

\* The fields a step of the turn sets leave the others as they were.
LEMMA Advances ==
  ASSUME AssistantInductive, turn.step # "IDLE", NEW t, t = [f \in TurnFields |-> t[f]],
         \A r \in t.collected : InReach(r), Assistant!Proceed(Assistant!Advanced(t))
  PROVE  AssistantInductive'
<1> DEFINE a == Assistant!Advanced(t)
<1>1. /\ a = [f \in TurnFields |-> a[f]] /\ a.step \in {"CHAT", "CALL"} /\ a.at = Elsewhere
      /\ a.read = {} /\ a.collected = t.collected
  BY DEF Assistant!Advanced, TurnFields
<1>2. \A r \in a.collected : InReach(r)
  BY <1>1
<1>3. Assistant!Proceed(a)
  OBVIOUS
<1> HIDE DEF a
<1> QED
  BY <1>1, <1>2, <1>3, TurnGoesOn DEF Running

LEMMA AsksSoundly == ASSUME AssistantInductive, Assistant!Ask PROVE AssistantInductive'
<1>1. /\ turn' = [Assistant!Idle EXCEPT !.step = "CHAT"] /\ cited' = {}
      /\ held' = memberships /\ granted' = Assistant!Grants /\ UNCHANGED <<orgRole, memberships, overrides>>
  BY DEF Assistant!Ask, Assistant!authorizationVars
<1>2. RolesKnown'
  BY <1>1 DEF AssistantInductive, RolesKnown
<1>3. HistoryKept'
  BY <1>1 DEF HistoryKept, Assistant!Grants, Assistant!EffectiveCapabilities
<1>4. TurnShape' /\ TurnSound' /\ turn'.collected = {}
  BY <1>1 DEF TurnShape, TurnSound, Assistant!Idle, TurnFields, Running
<1>5. RowsInReach'
  BY <1>1, <1>4 DEF RowsInReach
<1> QED
  BY <1>2, <1>3, <1>4, <1>5 DEF AssistantInductive

LEMMA ChatsSoundly == ASSUME AssistantInductive, Assistant!Chat PROVE AssistantInductive'
<1>1. turn.step = "CHAT"
  BY DEF Assistant!Chat
<1>2. CASE Assistant!AbortTurn
  BY <1>2, TurnEnds DEF Assistant!AbortTurn
<1>3. ASSUME NEW claims \in Claims, Assistant!Respond(Assistant!Reconciled(claims)) PROVE AssistantInductive'
  <2>1. Assistant!Reconciled(claims) \subseteq turn.collected
    BY DEF Assistant!Reconciled
  <2> QED
    BY <1>3, <2>1, TurnEnds
<1>4. ASSUME NEW n \in 1 .. MaxCallsPerMessage,
             Assistant!Proceed([turn EXCEPT !.step = "CALL", !.turns = @ + 1, !.calls = n])
      PROVE  AssistantInductive'
  <2> DEFINE t == [turn EXCEPT !.step = "CALL", !.turns = @ + 1, !.calls = n]
  <2>1. /\ t = [f \in TurnFields |-> t[f]] /\ t.step = "CALL" /\ t.at = turn.at
        /\ t.read = turn.read /\ t.collected = turn.collected
    BY DEF AssistantInductive, TurnShape, TurnFields
  <2>2. t.at \in Properties \cup {Elsewhere} /\ t.read \subseteq held /\ \A r \in t.collected : InReach(r)
    BY <2>1 DEF AssistantInductive, TurnShape, TurnSound, RowsInReach
  <2>3. Assistant!Proceed(t)
    BY <1>4
  <2> HIDE DEF t
  <2> QED
    BY <1>1, <2>1, <2>2, <2>3, TurnGoesOn DEF Running
<1> QED
  BY <1>2, <1>3, <1>4 DEF Assistant!Chat

LEMMA CallsSoundly == ASSUME AssistantInductive, Assistant!CallTool PROVE AssistantInductive'
<1>1. turn.step = "CALL" /\ turn = [f \in TurnFields |-> turn[f]]
  BY DEF Assistant!CallTool, AssistantInductive, TurnShape
<1>2. CASE Assistant!AbortTurn
  BY <1>2, TurnEnds DEF Assistant!AbortTurn
<1>3. CASE Assistant!Proceed(Assistant!Advanced(turn))
  BY <1>1, <1>3, Advances DEF AssistantInductive, RowsInReach
<1>4. ASSUME NEW tool \in Assistant!ToolNames, NEW p \in Properties \cup {Elsewhere}, NEW at \in {p, Elsewhere},
             Assistant!Proceed([turn EXCEPT !.step = "CHECK", !.tool = tool, !.read = memberships, !.at = at])
      PROVE  AssistantInductive'
  <2> DEFINE t == [turn EXCEPT !.step = "CHECK", !.tool = tool, !.read = memberships, !.at = at]
  <2>1. /\ t = [f \in TurnFields |-> t[f]] /\ t.step = "CHECK" /\ t.at = at /\ t.tool = tool
        /\ t.read = memberships /\ t.collected = turn.collected
    BY <1>1 DEF TurnFields
  <2>2. t.at \in Properties \cup {Elsewhere} /\ t.read \subseteq held /\ \A r \in t.collected : InReach(r)
    BY <1>1, <2>1 DEF AssistantInductive, HistoryKept, RowsInReach
  <2>3. Assistant!Proceed(t)
    BY <1>4
  <2>4. t.tool \in ToolSet
    BY <2>1, ToolsAre
  <2> HIDE DEF t
  <2> QED
    BY <1>1, <2>1, <2>2, <2>3, <2>4, TurnGoesOn
<1> QED
  BY <1>2, <1>3, <1>4 DEF Assistant!CallTool

LEMMA ChecksSoundly == ASSUME AssistantInductive, Assistant!CheckCapability PROVE AssistantInductive'
<1>1. turn.step = "CHECK" /\ turn = [f \in TurnFields |-> turn[f]] /\ turn.tool \in ToolSet
  BY DEF Assistant!CheckCapability, AssistantInductive, TurnShape, Running
<1> DEFINE c == Assistant!Tools(turn.at, {})[turn.tool].capability
           next == IF turn.tool = Portfolio THEN "SCOPE" ELSE "RUN"
           t == [turn EXCEPT !.read = {}, !.step = next]
<1>2. c = CapabilityOf[turn.tool] /\ c \in Assistant!DefaultCapabilities.PROPERTY_MANAGER
  BY <1>1, ToolAsks
<1>3. CASE Assistant!Proceed(Assistant!Advanced(turn))
  BY <1>1, <1>3, Advances DEF AssistantInductive, RowsInReach
<1>4. CASE Assistant!Can(turn.read, c, turn.at) /\ Assistant!Proceed(t)
  <2>1. HeldFor(c, turn.at)
    <3> HIDE DEF c
    <3> QED
      BY <1>1, <1>2, <1>4, MayIsHeld DEF AssistantInductive, TurnSound
  <2>2. /\ t = [f \in TurnFields |-> t[f]] /\ t.step = next /\ t.at = turn.at /\ t.tool = turn.tool
        /\ t.read = {} /\ t.collected = turn.collected
    BY <1>1 DEF TurnFields
  <2>3. t.at \in Properties \cup {Elsewhere} /\ \A r \in t.collected : InReach(r)
    BY <2>2 DEF AssistantInductive, TurnShape, RowsInReach
  <2>4. t.step = "RUN" /\ t.tool # Portfolio => HeldFor(CapabilityOf[t.tool], t.at)
    BY <1>2, <2>1, <2>2
  <2>5. Assistant!Proceed(t)
    BY <1>4
  <2> HIDE DEF t, c
  <2> QED
    BY <1>1, <2>2, <2>3, <2>4, <2>5, TurnGoesOn
<1> QED
  BY <1>3, <1>4 DEF Assistant!CheckCapability, Portfolio

LEMMA ScopesSoundly == ASSUME AssistantInductive, Assistant!ScopePortfolio PROVE AssistantInductive'
<1>1. /\ turn.step = "SCOPE" /\ turn = [f \in TurnFields |-> turn[f]] /\ turn.tool \in ToolSet
      /\ turn.tool = Portfolio
  BY DEF Assistant!ScopePortfolio, AssistantInductive, TurnShape, TurnSound, Running
<1> DEFINE t == [turn EXCEPT !.step = "RUN", !.read = memberships]
<1>2. /\ t = [f \in TurnFields |-> t[f]] /\ t.step = "RUN" /\ t.at = turn.at /\ t.tool = turn.tool
      /\ t.read = memberships /\ t.collected = turn.collected
  BY <1>1 DEF TurnFields
<1>3. t.at \in Properties \cup {Elsewhere} /\ t.read \subseteq held /\ \A r \in t.collected : InReach(r)
  BY <1>1, <1>2 DEF AssistantInductive, TurnShape, HistoryKept, RowsInReach
<1>4. Assistant!Proceed(t)
  BY DEF Assistant!ScopePortfolio
<1> HIDE DEF t
<1> QED
  BY <1>1, <1>2, <1>3, <1>4, TurnGoesOn

\* What a tool finds on the property that was checked.
LEMMA FindsInReach ==
  ASSUME AssistantInductive, turn.step = "RUN",
         ~(turn.at = Elsewhere /\ turn.tool \notin Assistant!PortfolioWide \cup Assistant!AnswersForAnything),
         NEW found \in Assistant!Tools(turn.at, turn.read)[turn.tool].outcomes, NEW r \in found
  PROVE  InReach(r)
<1>1. turn.tool \in ToolSet /\ turn.at \in Properties \cup {Elsewhere} /\ turn.read \subseteq held
  BY DEF AssistantInductive, TurnShape, TurnSound, Running
<1>2. CASE turn.tool # Portfolio
  <2> DEFINE c == CapabilityOf[turn.tool]
  <2>1. HeldFor(c, turn.at)
    BY <1>2 DEF AssistantInductive, TurnSound
  <2>2. Shows(turn.tool, turn.at, r)
    BY <1>1, <1>2, ToolShows
  <2>3. c \in Assistant!ShownBy[r[1]]
    BY <2>2 DEF Shows
  <2>4. r[1] = "CONTRACTOR" \/ (r[2] = turn.at /\ turn.at \in Properties)
    BY <1>1, <2>2 DEF Shows
  <2> HIDE DEF c
  <2> QED
    BY <2>1, <2>3, <2>4 DEF HeldFor, InReach
<1>3. CASE turn.tool = Portfolio
  <2> DEFINE c == "maintenance.view"
  <2>1. found \in Assistant!Some({"MAINTENANCE_REQUEST", "WORK_ORDER", "QUOTE_ROUND", "WORK_ORDER_VARIATION"}
                                   \X Assistant!AccessibleProperties(turn.read, c))
    BY <1>3 DEF Assistant!Tools, Assistant!PortfolioExceptionCandidates, Portfolio
  <2>2. /\ r[1] \in {"MAINTENANCE_REQUEST", "WORK_ORDER", "QUOTE_ROUND", "WORK_ORDER_VARIATION"}
        /\ r[2] \in Assistant!AccessibleProperties(turn.read, c)
    BY <2>1 DEF Assistant!Some
  <2>3. c \in Assistant!ShownBy[r[1]]
    BY <2>2 DEF Assistant!ShownBy
  <2>4. r[2] \in Properties /\ Assistant!Can(turn.read, c, r[2])
    BY <2>2 DEF Assistant!AccessibleProperties, Assistant!Can
  <2>5. c \in Assistant!DefaultCapabilities.PROPERTY_MANAGER
    BY DEF Assistant!DefaultCapabilities
  <2> HIDE DEF c
  <2>6. HeldFor(c, r[2])
    BY <1>1, <2>4, <2>5, MayIsHeld DEF AssistantInductive
  <2> QED
    BY <2>3, <2>4, <2>6 DEF HeldFor, InReach
<1> QED
  BY <1>2, <1>3

LEMMA RunsSoundly == ASSUME AssistantInductive, Assistant!RunTool PROVE AssistantInductive'
<1>1. turn.step = "RUN" /\ turn = [f \in TurnFields |-> turn[f]]
  BY DEF Assistant!RunTool, AssistantInductive, TurnShape
<1>2. CASE Assistant!AbortTurn
  BY <1>2, TurnEnds DEF Assistant!AbortTurn
<1>3. CASE Assistant!Proceed(Assistant!Advanced(turn))
  BY <1>1, <1>3, Advances DEF AssistantInductive, RowsInReach
<1>4. ASSUME ~(turn.at = Elsewhere /\ turn.tool \notin Assistant!PortfolioWide \cup Assistant!AnswersForAnything),
             NEW found \in Assistant!Tools(turn.at, turn.read)[turn.tool].outcomes,
             Assistant!Proceed(Assistant!Advanced(
               [turn EXCEPT !.collected = @ \cup found, !.used = Append(@, turn.tool)]))
      PROVE  AssistantInductive'
  <2> DEFINE t == [turn EXCEPT !.collected = @ \cup found, !.used = Append(@, turn.tool)]
  <2>1. t = [f \in TurnFields |-> t[f]] /\ t.collected = turn.collected \cup found
    BY <1>1 DEF TurnFields
  <2>2. \A r \in t.collected : InReach(r)
    BY <1>1, <1>4, <2>1, FindsInReach DEF AssistantInductive, RowsInReach
  <2>3. Assistant!Proceed(Assistant!Advanced(t))
    BY <1>4
  <2> HIDE DEF t
  <2> QED
    BY <1>1, <2>1, <2>2, <2>3, Advances
<1> QED
  BY <1>2, <1>3, <1>4 DEF Assistant!RunTool

LEMMA RestartsSoundly == ASSUME AssistantInductive, Assistant!Restart PROVE AssistantInductive'
<1>1. turn' = Assistant!Idle /\ cited' = {} /\ held' = {} /\ UNCHANGED memberships
  BY DEF Assistant!Restart, Assistant!authorizationVars
<1>2. RolesKnown'
  BY <1>1 DEF AssistantInductive, RolesKnown
<1>3. HistoryKept' /\ TurnShape' /\ TurnSound' /\ turn'.collected = {}
  BY <1>1 DEF HistoryKept, TurnShape, TurnSound, Assistant!Idle, TurnFields, Running
<1>4. RowsInReach'
  BY <1>1, <1>3 DEF RowsInReach
<1> QED
  BY <1>2, <1>3, <1>4 DEF AssistantInductive

\* Memberships begin and end and permissions are edited during a turn.
LEMMA PermissionsChange == ASSUME AssistantInductive, Assistant!ChangePermissions PROVE AssistantInductive'
<1>1. turn' = turn /\ Assistant!AuthorizationNext /\ Assistant!Remember
  BY DEF Assistant!ChangePermissions
<1>2. orgRole' = orgRole /\ \A m \in memberships' : m.role \in Assistant!PropertyRoles
  <2>0. \A m \in memberships : m.role \in Assistant!PropertyRoles
    BY DEF AssistantInductive, RolesKnown
  <2>1. ASSUME NEW q \in Properties, NEW role \in MemberRoles, Assistant!BeginMembership(q, role)
        PROVE  orgRole' = orgRole /\ \A m \in memberships' : m.role \in Assistant!PropertyRoles
    BY <2>0, <2>1, AssistantAssumption DEF Assistant!BeginMembership
  <2>2. ASSUME NEW m \in memberships, Assistant!EndMembership(m)
        PROVE  orgRole' = orgRole /\ \A x \in memberships' : x.role \in Assistant!PropertyRoles
    BY <2>0, <2>2 DEF Assistant!EndMembership
  <2>3. ASSUME NEW edit \in Edits, Assistant!UpdateRole(edit.role, edit.wanted)
        PROVE  orgRole' = orgRole /\ memberships' = memberships
    BY <2>3 DEF Assistant!UpdateRole
  <2>4. ASSUME NEW role \in MemberRoles, Assistant!ResetRole(role)
        PROVE  orgRole' = orgRole /\ memberships' = memberships
    BY <2>4 DEF Assistant!ResetRole
  <2> QED
    BY <1>1, <2>0, <2>1, <2>2, <2>3, <2>4 DEF Assistant!AuthorizationNext
<1>3. CASE turn.step = "IDLE"
  <2>1. held' = {} /\ cited' = {} /\ turn = Assistant!Idle
    BY <1>1, <1>3 DEF Assistant!Remember, Assistant!ChangePermissions, AssistantInductive, TurnShape
  <2>2. RolesKnown'
    BY <1>2, <2>1 DEF RolesKnown
  <2>3. HistoryKept' /\ TurnShape' /\ TurnSound' /\ turn'.collected = {}
    BY <1>1, <2>1 DEF HistoryKept, TurnShape, TurnSound, Assistant!Idle, TurnFields, Running
  <2>4. RowsInReach'
    BY <2>1, <2>3 DEF RowsInReach
  <2> QED
    BY <2>2, <2>3, <2>4 DEF AssistantInductive
<1>4. CASE turn.step # "IDLE"
  <2>1. held' = held \cup memberships' /\ granted' = granted \cup Assistant!Grants' /\ cited' = cited
    BY <1>1, <1>4 DEF Assistant!Remember, Assistant!ChangePermissions
  <2>2. RolesKnown'
    BY <1>2, <2>1 DEF RolesKnown, AssistantInductive
  <2>3. HistoryKept'
    BY <2>1 DEF HistoryKept
  <2>4. TurnShape'
    BY <1>1 DEF AssistantInductive, TurnShape
  <2>5. HeldFor(CapabilityOf[turn.tool], turn.at) => HeldFor(CapabilityOf[turn.tool], turn.at)'
    BY <1>1, <1>2, <2>1 DEF HeldFor, Assistant!CanEverywhere
  <2>6. TurnSound'
    BY <1>1, <2>1, <2>5 DEF AssistantInductive, TurnSound
  <2>7. ASSUME NEW r, InReach(r) PROVE InReach(r)'
    BY <1>2, <2>1, <2>7 DEF InReach, Assistant!CanEverywhere
  <2>8. RowsInReach'
    BY <1>1, <2>1, <2>7 DEF AssistantInductive, RowsInReach
  <2> QED
    BY <2>2, <2>3, <2>4, <2>6, <2>8 DEF AssistantInductive
<1> QED
  BY <1>3, <1>4

LEMMA NothingOfTheTurn ==
  ASSUME AssistantInductive, UNCHANGED <<orgRole, memberships, overrides, turn, cited, held, granted>>
  PROVE  AssistantInductive'
<1>1. RolesKnown' /\ HistoryKept' /\ TurnShape'
  BY DEF AssistantInductive, RolesKnown, HistoryKept, TurnShape, Assistant!Grants, Assistant!EffectiveCapabilities
<1>2. TurnSound'
  BY DEF AssistantInductive, TurnSound, HeldFor, Assistant!CanEverywhere
<1>3. RowsInReach'
  BY DEF AssistantInductive, RowsInReach, InReach, Assistant!CanEverywhere
<1> QED
  BY <1>1, <1>2, <1>3 DEF AssistantInductive

LEMMA AssistantSteps == AssistantInductive /\ [Assistant!Next]_(Assistant!vars) => AssistantInductive'
<1>1. ASSUME AssistantInductive, Assistant!HourPasses \/ Assistant!SwitchAssistant \/ UNCHANGED Assistant!vars
      PROVE  AssistantInductive'
  BY <1>1, NothingOfTheTurn
     DEF Assistant!HourPasses, Assistant!SwitchAssistant, Assistant!vars, Assistant!authorizationVars
<1> QED
  BY <1>1, AsksSoundly, ChatsSoundly, CallsSoundly, ChecksSoundly, ScopesSoundly, RunsSoundly, RestartsSoundly,
     PermissionsChange DEF Assistant!Next

\* Whatever the model asks for and claims, and however memberships and
\* permissions change between the gateway's reads of them, an answer refers
\* only to rows its reader might see since the question was asked
\* (AiOrchestratorService, AiToolGateway).
THEOREM AnswersStayInReachHolds == Assistant!Spec => []AnswersStayInReach
<1>1. AssistantInductive => AnswersStayInReach
  BY DEF AssistantInductive, RowsInReach, InReach, AnswersStayInReach, Assistant!AnswersStayInReach
<1> QED
  BY <1>1, AssistantStarts, AssistantSteps, PTL DEF Assistant!Spec
=============================================================================
