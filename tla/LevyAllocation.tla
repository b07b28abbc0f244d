--------------------------- MODULE LevyAllocation ---------------------------
(***************************************************************************)
(* allocateByEntitlement: one instalment of a levy is split over the lots  *)
(* of a scheme in proportion to their units of entitlement, by largest     *)
(* remainder.  Quotients are decimals of limited precision, rounded half   *)
(* up, as the Decimal library computes them.                               *)
(***************************************************************************)
EXTENDS Integers, Sequences, FiniteSets, SequencesExt, Collections

CONSTANTS
  Lots,          \* keys of the lots, natural numbers ordered as their ids are
  Entitlements,  \* units of entitlement a lot may have, whole numbers
  Amounts,       \* amounts of an instalment, in tenths of a cent
  Precision      \* significant digits of a quotient

VARIABLES
  amount,       \* amount of the instalment
  entitlement,  \* per lot: its units of entitlement
  listing,      \* the lots the caller lists, in the caller's order
  outcome,      \* of the call: it is asked for, refused or answered
  shares        \* answered, per listed lot: cents

vars == <<amount, entitlement, listing, outcome, shares>>

Listed == ToSet(listing)

TypeOK ==
  /\ amount \in Amounts
  /\ entitlement \in [Lots -> Entitlements]
  /\ listing \in Seq(Lots) /\ IsInjective(listing)
  /\ outcome \in {"ASKED", "REFUSED", "ANSWERED"}
  /\ shares \in [IF outcome = "ANSWERED" THEN Listed ELSE {} -> Nat]

Init ==
  /\ amount \in Amounts
  /\ entitlement \in [Lots -> Entitlements]
  /\ \E S \in SUBSET Lots : listing \in SetToSeqs(S)
  /\ outcome = "ASKED"
  /\ shares = <<>>

-----------------------------------------------------------------------------
(***************************************************************************)
(* Decimals, as whole numbers of Ulps.                                     *)
(***************************************************************************)

Digits == Precision + 2      \* fractional digits kept
Ulp == TenTo[Digits]        \* one, in these units

\* The place of the first significant digit.
Place(x) == CHOOSE k \in 0 .. 2 * Digits :
  x < TenTo[k] /\ \A j \in 0 .. k - 1 : x >= TenTo[j]

\* Rounded half up to Precision significant digits.
ToPrecision(x) ==
  IF Place(x) <= Precision THEN x
  ELSE LET step == TenTo[Place(x) - Precision]
       IN  ((x + step \div 2) \div step) * step

Quotient(a, b) == ToPrecision((a * Ulp) \div b)
Fraction(x) == x % Ulp

Floor(x) == x \div Ulp

-----------------------------------------------------------------------------
(***************************************************************************)
(* The allocation.                                                         *)
(***************************************************************************)

TotalCents == amount \div 10
SumEntitlement == SumOver(entitlement, Listed)

Rejected ==
  \/ listing = <<>>
  \/ SumEntitlement <= 0
  \/ \E l \in Listed : entitlement[l] < 0
  \/ amount % 10 # 0

RawCents(l) == Quotient(TotalCents * entitlement[l], SumEntitlement)
Remainder(l) == Fraction(RawCents(l))
LeftoverCents == TotalCents - SumOver([l \in Listed |-> Floor(RawCents(l))], Listed)

\* The comparison the lots are sorted by; the list they came in plays no part.
Before(k, l, list) ==
  Remainder(k) > Remainder(l) \/ (Remainder(k) = Remainder(l) /\ k < l)

\* Faulty variant: the first lot, as sorted, absorbs the rounding.
ShareFirstAbsorbs(l, list) ==
  LET index == Cardinality({k \in ToSet(list) : Before(k, l, list)})
  IN  Floor(RawCents(l)) + IF index = 0 THEN LeftoverCents ELSE 0

\* The first LeftoverCents lots, as sorted, pay one cent more.
Share(l, list) ==
  LET index == Cardinality({k \in ToSet(list) : Before(k, l, list)})
  IN  Floor(RawCents(l)) + IF index < LeftoverCents THEN 1 ELSE 0

Allocate ==
  /\ outcome = "ASKED"
  /\ \/ Rejected /\ outcome' = "REFUSED" /\ UNCHANGED shares
     \/ ~Rejected /\ outcome' = "ANSWERED" /\ shares' = [l \in Listed |-> Share(l, listing)]
  /\ UNCHANGED <<amount, entitlement, listing>>

Next == Allocate
Spec == Init /\ [][Next]_vars

-----------------------------------------------------------------------------
(***************************************************************************)
(* Properties.  An exact share is a fraction of SumEntitlement.            *)
(***************************************************************************)

Allocated == outcome = "ANSWERED"
ExactShare(l) == TotalCents * entitlement[l]
ExactCents(l) == ExactShare(l) \div SumEntitlement
ExactRemainder(l) == ExactShare(l) % SumEntitlement
PaysExtra(l) == shares[l] > ExactCents(l)

\* The shares add up to the instalment, and each is the exact one rounded down
\* or up, and up before those of smaller exact remainder: nobody absorbs the
\* rounding of others, a lot without entitlement pays nothing, and the
\* quotients' limited precision never sends a leftover cent to the wrong lot.
\* Two calls that list the same lots differently get the same shares, so the
\* preview of a schedule and its issue agree.
SharedByEntitlement ==
  Allocated =>
    /\ SumOver(shares, Listed) = TotalCents
    /\ \A l \in Listed :
         shares[l] = ExactCents(l) \/ (shares[l] = ExactCents(l) + 1 /\ ExactRemainder(l) > 0)
    /\ \A k, l \in Listed :
         ExactRemainder(k) > ExactRemainder(l) /\ PaysExtra(l) => PaysExtra(k)
    /\ \A list \in SetToSeqs(Listed) : \A l \in Listed : Share(l, list) = shares[l]
=============================================================================
