-------------------------- MODULE ReceivablesProofs -------------------------
(***************************************************************************)
(* Proofs about Receivables, for any finite number of lots and of          *)
(* instalments, any shares, funds and amounts and any number of journals;  *)
(* and about LotAccount, for any days, charges, amounts and transactions.  *)
(***************************************************************************)
EXTENDS MCReceivables, CollectionTheorems

-----------------------------------------------------------------------------
(***************************************************************************)
(* Journals and the rows that own them.  The journals of a type and the    *)
(* rows T[x], x \in I, of its table correspond one to one; the rows in R   *)
(* are the reversed ones.                                                  *)
(***************************************************************************)

Reversed(d, k) == \E j \in DOMAIN d.journals : d.journals[j].of = k

JournalsSound(d) ==
  /\ d.journals \in Seq(Journal)
  /\ \A k \in DOMAIN d.journals :
       /\ d.journals[k].of < k
       /\ d.journals[k].of # 0 <=> d.journals[k].type = "REVERSAL"

Follows(d, T, I, R, type) ==
  /\ \A x \in I :
       /\ T[x].journal \in DOMAIN d.journals /\ d.journals[T[x].journal].type = type
       /\ x \in R <=> Reversed(d, T[x].journal)
  /\ \A x, y \in I : T[x].journal = T[y].journal => x = y
  /\ \A k \in DOMAIN d.journals : d.journals[k].type = type => \E x \in I : T[x].journal = k

\* e has one more journal than d.
Appends(d, e, j) ==
  /\ j \in Journal /\ e.journals = Append(d.journals, j)
  /\ j.of <= Len(d.journals) /\ (j.of # 0 <=> j.type = "REVERSAL")

Grown(d, e, j) ==
  /\ Len(d.journals) \in Nat
  /\ DOMAIN d.journals = 1..Len(d.journals)
  /\ DOMAIN e.journals = DOMAIN d.journals \cup {Len(d.journals) + 1}
  /\ Len(d.journals) + 1 \notin DOMAIN d.journals
  /\ \A k \in DOMAIN d.journals : k # 0 /\ e.journals[k] = d.journals[k]
  /\ e.journals[Len(d.journals) + 1] = j
  /\ \A k \in DOMAIN d.journals : Reversed(e, k) <=> Reversed(d, k) \/ j.of = k
  /\ ~Reversed(e, Len(d.journals) + 1)

LEMMA Appended ==
  ASSUME NEW d, NEW e, NEW j, JournalsSound(d), Appends(d, e, j)
  PROVE  Grown(d, e, j)
<1>1. /\ Len(d.journals) \in Nat
      /\ DOMAIN d.journals = 1..Len(d.journals)
      /\ DOMAIN e.journals = DOMAIN d.journals \cup {Len(d.journals) + 1}
      /\ Len(d.journals) + 1 \notin DOMAIN d.journals
      /\ \A k \in DOMAIN d.journals : e.journals[k] = d.journals[k]
      /\ e.journals[Len(d.journals) + 1] = j
  BY DEF JournalsSound, Appends
<1>2. \A k : Reversed(e, k) <=> Reversed(d, k) \/ j.of = k
  BY <1>1, Zenon DEF Reversed
<1>3. ~Reversed(d, Len(d.journals) + 1)
  <2>0. \A k \in DOMAIN d.journals : d.journals[k] \in Journal /\ d.journals[k].of < k /\ k <= Len(d.journals)
    BY <1>1 DEF JournalsSound
  <2>1. \A k \in DOMAIN d.journals : d.journals[k].of \in Nat /\ d.journals[k].of < k /\ k <= Len(d.journals)
    BY <2>0 DEF Journal
  <2>2. \A k \in DOMAIN d.journals : d.journals[k].of # Len(d.journals) + 1
    BY <2>1, <1>1
  <2> QED
    BY <2>2 DEF Reversed
<1>4. j.of # Len(d.journals) + 1
  BY <1>1 DEF Appends, Journal
<1>5. \A k \in DOMAIN d.journals : k # 0
  BY <1>1
<1> QED
  BY <1>1, <1>2, <1>3, <1>4, <1>5, Zenon DEF Grown

LEMMA JournalsStaySound ==
  ASSUME NEW d, NEW e, NEW j, JournalsSound(d), Appends(d, e, j)
  PROVE  JournalsSound(e)
<1>g. Grown(d, e, j)
  BY Appended
<1>1. e.journals \in Seq(Journal)
  BY DEF JournalsSound, Appends
<1>2. \A k \in DOMAIN e.journals :
        /\ e.journals[k].of < k
        /\ e.journals[k].of # 0 <=> e.journals[k].type = "REVERSAL"
  <2>1. j.of \in Nat /\ j.of < Len(d.journals) + 1 /\ (j.of # 0 <=> j.type = "REVERSAL")
    BY <1>g DEF Grown, Appends, Journal
  <2> QED
    BY <2>1, <1>g DEF Grown, JournalsSound
<1> QED
  BY <1>1, <1>2 DEF JournalsSound

\* A journal of another type, or the reversal of one, is none of the table's business.
LEMMA FollowsOther ==
  ASSUME NEW d, NEW e, NEW j, JournalsSound(d), Appends(d, e, j),
         NEW T, NEW I, NEW R, NEW type, Follows(d, T, I, R, type),
         j.type # type, j.of # 0 => d.journals[j.of].type # type
  PROVE  Follows(e, T, I, R, type)
<1>g. Grown(d, e, j)
  BY Appended
<1>1. \A k \in DOMAIN d.journals : d.journals[k].type = type => (Reversed(e, k) <=> Reversed(d, k))
  BY <1>g DEF Grown
<1>2. \A x \in I :
        /\ T[x].journal \in DOMAIN e.journals /\ e.journals[T[x].journal].type = type
        /\ x \in R <=> Reversed(e, T[x].journal)
  BY <1>1, <1>g, Zenon DEF Follows, Grown
<1>3. \A k \in DOMAIN e.journals : e.journals[k].type = type => \E x \in I : T[x].journal = k
  BY <1>g, Zenon DEF Follows, Grown
<1> QED
  BY <1>2, <1>3 DEF Follows

\* A new row has the new journal, of the table's type.
LEMMA FollowsNew ==
  ASSUME NEW d, NEW e, NEW j, JournalsSound(d), Appends(d, e, j),
         NEW T, NEW I, NEW R, NEW type, Follows(d, T, I, R, type),
         j.type = type, j.of = 0, NEW x, x \notin I, x \notin R,
         NEW U, \A y \in I : U[y].journal = T[y].journal, U[x].journal = Len(d.journals) + 1
  PROVE  Follows(e, U, I \cup {x}, R, type)
<1>g. Grown(d, e, j)
  BY Appended
<1>1. \A k \in DOMAIN d.journals : Reversed(e, k) <=> Reversed(d, k)
  BY <1>g DEF Grown
<1>2. \A y \in I \cup {x} :
        /\ U[y].journal \in DOMAIN e.journals /\ e.journals[U[y].journal].type = type
        /\ y \in R <=> Reversed(e, U[y].journal)
  <2>1. ASSUME NEW y \in I
        PROVE  /\ U[y].journal \in DOMAIN e.journals /\ e.journals[U[y].journal].type = type
               /\ y \in R <=> Reversed(e, U[y].journal)
    <3>1. /\ U[y].journal = T[y].journal /\ T[y].journal \in DOMAIN d.journals
          /\ d.journals[T[y].journal].type = type /\ (y \in R <=> Reversed(d, T[y].journal))
      BY DEF Follows
    <3>2. U[y].journal \in DOMAIN e.journals /\ e.journals[U[y].journal].type = type
      BY <3>1, <1>g DEF Grown
    <3> QED
      BY <3>1, <3>2, <1>1, Zenon
  <2>2. /\ U[x].journal \in DOMAIN e.journals /\ e.journals[U[x].journal].type = type
        /\ x \in R <=> Reversed(e, U[x].journal)
    BY <1>g, Zenon DEF Grown
  <2> QED
    BY <2>1, <2>2
<1>3. \A y, z \in I \cup {x} : U[y].journal = U[z].journal => y = z
  <2>1. \A y \in I : U[y].journal \in DOMAIN d.journals /\ U[y].journal # U[x].journal
    BY <1>g DEF Follows, Grown
  <2> QED
    BY <2>1 DEF Follows
<1>4. \A k \in DOMAIN e.journals : e.journals[k].type = type => \E y \in I \cup {x} : U[y].journal = k
  <2>1. ASSUME NEW k \in DOMAIN d.journals, e.journals[k].type = type PROVE \E y \in I : U[y].journal = k
    <3>1. d.journals[k].type = type
      BY <2>1, <1>g DEF Grown
    <3>2. PICK y \in I : T[y].journal = k
      BY <3>1 DEF Follows
    <3> QED
      BY <3>2
  <2> QED
    BY <2>1, <1>g DEF Grown
<1> QED
  BY <1>2, <1>3, <1>4 DEF Follows

\* The journal of a row is reversed and the row is marked.
LEMMA FollowsReversal ==
  ASSUME NEW d, NEW e, NEW j, JournalsSound(d), Appends(d, e, j),
         NEW T, NEW I, NEW R, NEW type, Follows(d, T, I, R, type), type # "REVERSAL",
         NEW x \in I, j.type = "REVERSAL", j.of = T[x].journal,
         NEW U, \A y \in I : U[y].journal = T[y].journal
  PROVE  Follows(e, U, I, R \cup {x}, type)
<1>g. Grown(d, e, j)
  BY Appended
<1>1. \A y \in I :
        /\ U[y].journal \in DOMAIN e.journals /\ e.journals[U[y].journal].type = type
        /\ y \in R \cup {x} <=> Reversed(e, U[y].journal)
  <2> SUFFICES ASSUME NEW y \in I
               PROVE  /\ U[y].journal \in DOMAIN e.journals /\ e.journals[U[y].journal].type = type
                      /\ y \in R \cup {x} <=> Reversed(e, U[y].journal)
    OBVIOUS
  <2>1. /\ U[y].journal = T[y].journal /\ T[y].journal \in DOMAIN d.journals
        /\ d.journals[T[y].journal].type = type /\ (y \in R <=> Reversed(d, T[y].journal))
        /\ T[y].journal = T[x].journal => y = x
    BY DEF Follows
  <2>2. Reversed(e, T[y].journal) <=> Reversed(d, T[y].journal) \/ T[x].journal = T[y].journal
    BY <2>1, <1>g DEF Grown
  <2>3. U[y].journal \in DOMAIN e.journals /\ e.journals[U[y].journal].type = type
    BY <2>1, <1>g DEF Grown
  <2> QED
    BY <2>1, <2>2, <2>3, Zenon
<1>2. \A k \in DOMAIN e.journals : e.journals[k].type = type => \E y \in I : U[y].journal = k
  <2>1. ASSUME NEW k \in DOMAIN d.journals, e.journals[k].type = type PROVE \E y \in I : U[y].journal = k
    <3>1. d.journals[k].type = type
      BY <2>1, <1>g DEF Grown
    <3>2. PICK y \in I : T[y].journal = k
      BY <3>1 DEF Follows
    <3> QED
      BY <3>2
  <2> QED
    BY <2>1, <1>g DEF Grown
<1>3. \A y, z \in I : U[y].journal = U[z].journal => y = z
  BY DEF Follows
<1> QED
  BY <1>1, <1>2, <1>3 DEF Follows

-----------------------------------------------------------------------------
(***************************************************************************)
(* Tables that hold together.                                              *)
(***************************************************************************)

IssuedOnce(d) == {i \in Instalments : d.instalments[i].status # "PENDING"}
ReversedIn(T, I) == {x \in I : T[x].status = "REVERSED"}

\* Rows and journals correspond, table by table.
RowsSound(d) ==
  /\ Follows(d, d.instalments, IssuedOnce(d), ReversedIn(d.instalments, Instalments), "LEVY")
  /\ Follows(d, d.receipts, DOMAIN d.receipts, ReversedIn(d.receipts, DOMAIN d.receipts), "RECEIPT")
  /\ Follows(d, d.allocations, DOMAIN d.allocations, ReversedIn(d.allocations, DOMAIN d.allocations),
             "PAYMENT_ALLOCATION")
  /\ Follows(d, d.adjustments, DOMAIN d.adjustments, {}, "LEVY_ADJUSTMENT")

Line(d, k, dr, cr, fund, amount) ==
  /\ k \in DOMAIN d.journals
  /\ d.journals[k].dr = dr /\ d.journals[k].cr = cr
  /\ d.journals[k].fund = fund /\ d.journals[k].amount = amount

\* The journal of a row that can be reversed posted what the row says.
LinesSound(d) ==
  /\ \A i \in IssuedOnce(d) :
       Line(d, d.instalments[i].journal, "LOT_LEVY_RECEIVABLE", "LEVY_INCOME", FundOf[i], InstalmentTotal(i))
  /\ \A r \in DOMAIN d.receipts :
       Line(d, d.receipts[r].journal, "FUND_CASH", "UNAPPLIED_CASH", d.receipts[r].fund, d.receipts[r].amount)
  /\ \A a \in DOMAIN d.allocations :
       Line(d, d.allocations[a].journal, "UNAPPLIED_CASH", "LOT_LEVY_RECEIVABLE",
            FundOf[d.allocations[a].charge[1]], d.allocations[a].amount)

\* A charge's status goes with its instalment's, and what an allocation or an
\* adjustment refers to exists.
LinksSound(d) ==
  /\ \A c \in Charges :
       /\ d.charges[c] = "NONE" <=> d.instalments[c[1]].status = "PENDING" \/ ShareOf[c] = 0
       /\ d.charges[c] = "CANCELLED" <=> d.instalments[c[1]].status = "REVERSED" /\ ShareOf[c] > 0
  /\ \A a \in DOMAIN d.allocations :
       /\ d.allocations[a].amount > 0
       /\ d.allocations[a].receipt \in DOMAIN d.receipts
       /\ d.receipts[d.allocations[a].receipt].fund = FundOf[d.allocations[a].charge[1]]
       /\ d.charges[d.allocations[a].charge] # "NONE"
  /\ \A a \in DOMAIN d.adjustments : d.charges[d.adjustments[a].charge] # "NONE"

\* A receipt covers what is applied of it, which is nothing once it is reversed.
CoverSound(d) ==
  /\ \A r \in DOMAIN d.receipts : AppliedFrom(d, r) <= d.receipts[r].amount
  /\ \A a \in DOMAIN d.allocations :
       d.allocations[a].status = "APPLIED" => d.receipts[d.allocations[a].receipt].status # "REVERSED"

HeldFor(d, f) ==
  SumOver([r \in DOMAIN d.receipts |-> Unapplied(d, r)], ReceiptsOf(d, "RECORDED", f))
OwedBy(d, f) == SumOver([l \in Lots |-> LotBalance(d, l, f)], Lots)

TieSound(d) ==
  \A f \in Funds :
    /\ -OwnBalance(d, "UNAPPLIED_CASH", f) = HeldFor(d, f)
    /\ OwedBy(d, f) = OwnBalance(d, "LOT_LEVY_RECEIVABLE", f) + OwnBalance(d, "UNAPPLIED_CASH", f)

Sound(d) ==
  /\ d \in Tables /\ JournalsSound(d) /\ RowsSound(d) /\ LinesSound(d)
  /\ LinksSound(d) /\ CoverSound(d) /\ TieSound(d)

LEMMA FieldsOf ==
  ASSUME NEW d \in Tables
  PROVE  /\ d.journals \in Seq(Journal)
         /\ d.instalments \in [Instalments -> [status : {"PENDING", "ISSUED", "REVERSED"}, journal : Nat]]
         /\ d.charges \in [Charges -> {"NONE", "ISSUED", "PART_PAID", "PAID", "CANCELLED"}]
         /\ d.adjustments \in Seq([charge : Charges, amount : Int, journal : Nat])
         /\ d.receipts \in Seq([lot : Lots, fund : Funds, amount : Int,
                                status : {"RECORDED", "REVERSED"}, journal : Nat])
         /\ d.allocations \in Seq([receipt : Nat, charge : Charges, amount : Int,
                                   status : {"APPLIED", "REVERSED"}, journal : Nat])
  BY DEF Tables

LEMMA Element == ASSUME NEW X, NEW s \in Seq(X), NEW k \in DOMAIN s PROVE s[k] \in X
  OBVIOUS

\* What a row of each table holds.
LEMMA RowsOf ==
  ASSUME NEW d \in Tables
  PROVE  /\ \A k \in DOMAIN d.journals :
              /\ d.journals[k] \in Journal
              /\ d.journals[k].amount \in Int /\ d.journals[k].of \in Nat
              /\ d.journals[k].fund \in Funds
              /\ d.journals[k].dr \in Accounts /\ d.journals[k].cr \in Accounts
         /\ \A i \in Instalments : d.instalments[i].journal \in Nat
         /\ \A a \in DOMAIN d.adjustments :
              d.adjustments[a].charge \in Charges /\ d.adjustments[a].amount \in Int
         /\ \A r \in DOMAIN d.receipts :
              /\ d.receipts[r].lot \in Lots /\ d.receipts[r].fund \in Funds
              /\ d.receipts[r].amount \in Int /\ d.receipts[r].status \in {"RECORDED", "REVERSED"}
         /\ \A a \in DOMAIN d.allocations :
              /\ d.allocations[a].receipt \in Nat /\ d.allocations[a].charge \in Charges
              /\ d.allocations[a].amount \in Int /\ d.allocations[a].status \in {"APPLIED", "REVERSED"}
<1> DEFINE A == [charge : Charges, amount : Int, journal : Nat]
           R == [lot : Lots, fund : Funds, amount : Int, status : {"RECORDED", "REVERSED"}, journal : Nat]
           P == [receipt : Nat, charge : Charges, amount : Int, status : {"APPLIED", "REVERSED"}, journal : Nat]
<1>1. /\ d.journals \in Seq(Journal) /\ d.adjustments \in Seq(A)
      /\ d.receipts \in Seq(R) /\ d.allocations \in Seq(P)
  BY FieldsOf
<1>2. \A i \in Instalments : d.instalments[i].journal \in Nat
  <2>1. d.instalments \in [Instalments -> [status : {"PENDING", "ISSUED", "REVERSED"}, journal : Nat]]
    BY FieldsOf
  <2> QED
    BY <2>1
<1> HIDE DEF A, R, P
<1>3. /\ \A k \in DOMAIN d.journals : d.journals[k] \in Journal
      /\ \A a \in DOMAIN d.adjustments : d.adjustments[a] \in A
      /\ \A r \in DOMAIN d.receipts : d.receipts[r] \in R
      /\ \A a \in DOMAIN d.allocations : d.allocations[a] \in P
  BY <1>1, Element
<1>4. \A k \in DOMAIN d.journals :
        /\ d.journals[k].amount \in Int /\ d.journals[k].of \in Nat /\ d.journals[k].fund \in Funds
        /\ d.journals[k].dr \in Accounts /\ d.journals[k].cr \in Accounts
  BY <1>3 DEF Journal
<1>5. \A a \in DOMAIN d.adjustments :
        d.adjustments[a].charge \in Charges /\ d.adjustments[a].amount \in Int
  BY <1>3 DEF A
<1>6. \A r \in DOMAIN d.receipts :
        /\ d.receipts[r].lot \in Lots /\ d.receipts[r].fund \in Funds
        /\ d.receipts[r].amount \in Int /\ d.receipts[r].status \in {"RECORDED", "REVERSED"}
  BY <1>3 DEF R
<1>7. \A a \in DOMAIN d.allocations :
        /\ d.allocations[a].receipt \in Nat /\ d.allocations[a].charge \in Charges
        /\ d.allocations[a].amount \in Int /\ d.allocations[a].status \in {"APPLIED", "REVERSED"}
  BY <1>3 DEF P
<1> QED
  BY <1>2, <1>3, <1>4, <1>5, <1>6, <1>7

LEMMA FiniteTables ==
  ASSUME NEW d \in Tables
  PROVE  /\ IsFiniteSet(DOMAIN d.journals) /\ IsFiniteSet(DOMAIN d.adjustments)
         /\ IsFiniteSet(DOMAIN d.receipts) /\ IsFiniteSet(DOMAIN d.allocations)
         /\ IsFiniteSet(Charges) /\ IsFiniteSet(Lots)
<1>1. IsFiniteSet(Charges)
  BY FiniteAssumption, FS_Product DEF Charges
<1>2. \A n \in Nat : IsFiniteSet(1..n)
  BY FS_Interval
<1>3. /\ DOMAIN d.journals = 1..Len(d.journals) /\ Len(d.journals) \in Nat
      /\ DOMAIN d.adjustments = 1..Len(d.adjustments) /\ Len(d.adjustments) \in Nat
      /\ DOMAIN d.receipts = 1..Len(d.receipts) /\ Len(d.receipts) \in Nat
      /\ DOMAIN d.allocations = 1..Len(d.allocations) /\ Len(d.allocations) \in Nat
  BY FieldsOf
<1> QED
  BY <1>1, <1>2, <1>3, FiniteAssumption

\* What an allocation of the receipt is worth.
WorthOf(d) == [a \in DOMAIN d.allocations |-> d.allocations[a].amount]
TakenFrom(d, r) ==
  {a \in DOMAIN d.allocations : d.allocations[a].receipt = r /\ d.allocations[a].status = "APPLIED"}

LEMMA AppliedSum ==
  ASSUME NEW d \in Tables, NEW S \in SUBSET DOMAIN d.allocations
  PROVE  /\ Applied(d, S) = SumOver(WorthOf(d), {a \in S : d.allocations[a].status = "APPLIED"})
         /\ Applied(d, S) \in Int
<1> DEFINE A == {a \in S : d.allocations[a].status = "APPLIED"}
           g == [a \in S |-> d.allocations[a].amount]
<1>1. IsFiniteSet(A)
  BY FiniteTables, FS_Subset
<1>2. \A a \in A : WorthOf(d)[a] \in Int /\ g[a] = WorthOf(d)[a]
  <2>1. \A a \in DOMAIN d.allocations : d.allocations[a].amount \in Int
    BY RowsOf
  <2> QED
    BY <2>1 DEF WorthOf
<1>3. Applied(d, S) = SumOver(g, A)
  BY DEF Applied
<1> HIDE DEF A, g
<1>4. SumOver(g, A) = SumOver(WorthOf(d), A) /\ SumOver(WorthOf(d), A) \in Int
  BY <1>1, <1>2, SumCongruent, SumType
<1> QED
  BY <1>3, <1>4 DEF A

LEMMA AppliedFromSum ==
  ASSUME NEW d \in Tables, NEW r
  PROVE  AppliedFrom(d, r) = SumOver(WorthOf(d), TakenFrom(d, r)) /\ AppliedFrom(d, r) \in Int
<1> DEFINE S == {a \in DOMAIN d.allocations : d.allocations[a].receipt = r}
<1>1. {a \in S : d.allocations[a].status = "APPLIED"} = TakenFrom(d, r)
  BY DEF TakenFrom
<1>2. AppliedFrom(d, r) = Applied(d, S)
  BY DEF AppliedFrom
<1>3. Applied(d, S) = SumOver(WorthOf(d), {a \in S : d.allocations[a].status = "APPLIED"}) /\ Applied(d, S) \in Int
  BY AppliedSum
<1> QED
  BY <1>1, <1>2, <1>3, Zenon

\* What a posting adds to an account of a fund.
Moves(j, account, fund) ==
  IF j.fund # fund THEN 0
  ELSE (IF j.dr = account THEN j.amount ELSE 0) - (IF j.cr = account THEN j.amount ELSE 0)

AmountsIn(d) == [k \in DOMAIN d.journals |-> d.journals[k].amount]
DebitsOf(d, account, fund) ==
  {k \in Own(d) : d.journals[k].fund = fund /\ d.journals[k].dr = account}
CreditsOf(d, account, fund) ==
  {k \in Own(d) : d.journals[k].fund = fund /\ d.journals[k].cr = account}

LEMMA BalanceSums ==
  ASSUME NEW d \in Tables, NEW account, NEW fund
  PROVE  /\ OwnBalance(d, account, fund) =
              SumOver(AmountsIn(d), DebitsOf(d, account, fund))
                - SumOver(AmountsIn(d), CreditsOf(d, account, fund))
         /\ SumOver(AmountsIn(d), DebitsOf(d, account, fund)) \in Int
         /\ SumOver(AmountsIn(d), CreditsOf(d, account, fund)) \in Int
<1> DEFINE g == [k \in Own(d) |-> d.journals[k].amount]
           D == DebitsOf(d, account, fund)
           C == CreditsOf(d, account, fund)
<1>1. IsFiniteSet(D) /\ IsFiniteSet(C)
  <2>1. D \in SUBSET DOMAIN d.journals /\ C \in SUBSET DOMAIN d.journals
    BY DEF DebitsOf, CreditsOf, Own
  <2> QED
    BY <2>1, FiniteTables, FS_Subset
<1>2. \A k \in Own(d) : AmountsIn(d)[k] \in Int /\ g[k] = AmountsIn(d)[k]
  <2>1. \A k \in DOMAIN d.journals : d.journals[k].amount \in Int
    BY RowsOf
  <2> QED
    BY <2>1 DEF AmountsIn, Own
<1>3. OwnBalance(d, account, fund) = SumOver(g, D) - SumOver(g, C)
  BY DEF OwnBalance, BalanceOver, DebitsOf, CreditsOf
<1>4. \A k \in D : AmountsIn(d)[k] \in Int /\ g[k] = AmountsIn(d)[k]
  BY <1>2, Zenon DEF DebitsOf
<1>5. \A k \in C : AmountsIn(d)[k] \in Int /\ g[k] = AmountsIn(d)[k]
  BY <1>2, Zenon DEF CreditsOf
<1> HIDE DEF g, D, C
<1>6. SumOver(g, D) = SumOver(AmountsIn(d), D) /\ SumOver(AmountsIn(d), D) \in Int
  BY <1>1, <1>4, SumCongruent, SumType
<1>7. SumOver(g, C) = SumOver(AmountsIn(d), C) /\ SumOver(AmountsIn(d), C) \in Int
  BY <1>1, <1>5, SumCongruent, SumType
<1> QED
  BY <1>3, <1>6, <1>7 DEF D, C

\* A new journal moves a balance by its lines; the reversal of a reversal is
\* not counted.
LEMMA BalanceMoves ==
  ASSUME NEW d \in Tables, NEW e \in Tables, NEW j, JournalsSound(d), Appends(d, e, j),
         NEW account, NEW fund
  PROVE  OwnBalance(e, account, fund) = OwnBalance(d, account, fund)
           + (IF j.of # 0 /\ d.journals[j.of].type = "REVERSAL" THEN 0 ELSE Moves(j, account, fund))
<1> DEFINE n == Len(d.journals) + 1
           counts == ~(j.of # 0 /\ d.journals[j.of].type = "REVERSAL")
           D == DebitsOf(d, account, fund)
           C == CreditsOf(d, account, fund)
<1>g. Grown(d, e, j)
  BY Appended
<1>1. Own(e) = IF counts THEN Own(d) \cup {n} ELSE Own(d)
  <2>1. \A k \in DOMAIN d.journals :
          d.journals[k].of # 0 => d.journals[k].of \in DOMAIN d.journals
    <3>1. \A k \in DOMAIN d.journals : d.journals[k].of \in Nat /\ d.journals[k].of < k
      BY RowsOf DEF JournalsSound
    <3> QED
      BY <3>1, <1>g DEF Grown
  <2>2. \A k \in DOMAIN d.journals : k \in Own(e) <=> k \in Own(d)
    BY <2>1, <1>g DEF Own, Grown, NoJournal
  <2>3. j.of # 0 => j.of \in DOMAIN d.journals
    BY <1>g DEF Appends, Journal, Grown
  <2>4. n \in Own(e) <=> counts
    BY <2>3, <1>g DEF Own, Grown, NoJournal
  <2>5. \A k \in Own(e) : k \in DOMAIN d.journals \/ k = n
    BY <1>g DEF Own, Grown
  <2>6. \A k \in Own(d) : k \in DOMAIN d.journals
    BY DEF Own
  <2> HIDE DEF n, counts
  <2>7. CASE counts
    <3>1. \A k : k \in Own(e) <=> k \in Own(d) \/ k = n
      BY <2>2, <2>4, <2>5, <2>6, <2>7, Zenon
    <3> QED
      BY <3>1, <2>7
  <2>8. CASE ~counts
    <3>1. \A k : k \in Own(e) <=> k \in Own(d)
      BY <2>2, <2>4, <2>5, <2>6, <2>8, Zenon
    <3> QED
      BY <3>1, <2>8
  <2> QED
    BY <2>7, <2>8
<1>2. \A k \in DOMAIN d.journals : AmountsIn(e)[k] = AmountsIn(d)[k] /\ AmountsIn(d)[k] \in Int
  <2>1. \A k \in DOMAIN d.journals : d.journals[k].amount \in Int
    BY RowsOf
  <2> QED
    BY <2>1, <1>g DEF AmountsIn, Grown
<1>3. AmountsIn(e)[n] = j.amount /\ j.amount \in Int /\ n \notin DOMAIN d.journals
  BY <1>g DEF AmountsIn, Grown, Appends, Journal
<1>4. D \in SUBSET DOMAIN d.journals /\ C \in SUBSET DOMAIN d.journals
  BY DEF DebitsOf, CreditsOf, Own
<1>5. IsFiniteSet(D) /\ IsFiniteSet(C)
  BY <1>4, FiniteTables, FS_Subset
<1>6. DebitsOf(e, account, fund) =
        IF counts /\ j.fund = fund /\ j.dr = account THEN D \cup {n} ELSE D
  <2>1. e.journals[n] = j /\ \A k \in Own(d) : e.journals[k] = d.journals[k]
    BY <1>g DEF Own, Grown
  <2>2. CASE counts
    <3> HIDE DEF n, counts
    <3>1. Own(e) = Own(d) \cup {n}
      BY <1>1, <2>2
    <3> QED
      BY <3>1, <2>1, <2>2 DEF DebitsOf
  <2>3. CASE ~counts
    <3> HIDE DEF n, counts
    <3>1. Own(e) = Own(d)
      BY <1>1, <2>3
    <3> QED
      BY <3>1, <2>1, <2>3 DEF DebitsOf
  <2> QED
    BY <2>2, <2>3
<1>7. CreditsOf(e, account, fund) =
        IF counts /\ j.fund = fund /\ j.cr = account THEN C \cup {n} ELSE C
  <2>1. e.journals[n] = j /\ \A k \in Own(d) : e.journals[k] = d.journals[k]
    BY <1>g DEF Own, Grown
  <2>2. CASE counts
    <3> HIDE DEF n, counts
    <3>1. Own(e) = Own(d) \cup {n}
      BY <1>1, <2>2
    <3> QED
      BY <3>1, <2>1, <2>2 DEF CreditsOf
  <2>3. CASE ~counts
    <3> HIDE DEF n, counts
    <3>1. Own(e) = Own(d)
      BY <1>1, <2>3
    <3> QED
      BY <3>1, <2>1, <2>3 DEF CreditsOf
  <2> QED
    BY <2>2, <2>3
<1> HIDE DEF D, C, counts, n
<1>8. ASSUME NEW S \in SUBSET DOMAIN d.journals, IsFiniteSet(S)
      PROVE  /\ SumOver(AmountsIn(e), S) = SumOver(AmountsIn(d), S)
             /\ SumOver(AmountsIn(e), S \cup {n}) = SumOver(AmountsIn(d), S) + j.amount
             /\ SumOver(AmountsIn(d), S) \in Int
  <2>1. SumOver(AmountsIn(e), S) = SumOver(AmountsIn(d), S) /\ SumOver(AmountsIn(d), S) \in Int
    BY <1>2, <1>8, SumCongruent, SumType
  <2>2. SumOver(AmountsIn(e), S \cup {n}) = SumOver(AmountsIn(e), S) + AmountsIn(e)[n]
    <3>1. n \notin S /\ \A k \in S \cup {n} : AmountsIn(e)[k] \in Int
      BY <1>2, <1>3
    <3> QED
      BY <3>1, <1>8, SumAdd
  <2> QED
    BY <2>1, <2>2, <1>3
<1>9. /\ SumOver(AmountsIn(e), D) = SumOver(AmountsIn(d), D)
      /\ SumOver(AmountsIn(e), D \cup {n}) = SumOver(AmountsIn(d), D) + j.amount
      /\ SumOver(AmountsIn(d), D) \in Int
  BY <1>4, <1>5, <1>8
<1>10. /\ SumOver(AmountsIn(e), C) = SumOver(AmountsIn(d), C)
       /\ SumOver(AmountsIn(e), C \cup {n}) = SumOver(AmountsIn(d), C) + j.amount
       /\ SumOver(AmountsIn(d), C) \in Int
  BY <1>4, <1>5, <1>8
<1>11. /\ OwnBalance(d, account, fund) = SumOver(AmountsIn(d), D) - SumOver(AmountsIn(d), C)
       /\ OwnBalance(e, account, fund) = SumOver(AmountsIn(e), DebitsOf(e, account, fund))
                                           - SumOver(AmountsIn(e), CreditsOf(e, account, fund))
  BY BalanceSums DEF D, C
<1>12. SumOver(AmountsIn(e), DebitsOf(e, account, fund)) = SumOver(AmountsIn(d), D)
         + (IF counts /\ j.fund = fund /\ j.dr = account THEN j.amount ELSE 0)
  BY <1>6, <1>9
<1>13. SumOver(AmountsIn(e), CreditsOf(e, account, fund)) = SumOver(AmountsIn(d), C)
         + (IF counts /\ j.fund = fund /\ j.cr = account THEN j.amount ELSE 0)
  BY <1>7, <1>10
<1> QED
  BY <1>3, <1>9, <1>10, <1>11, <1>12, <1>13 DEF Moves, counts

\* What a lot's ledger adds up.
Mine(d, l, fund) ==
  {c \in Charges : c[2] = l /\ FundOf[c[1]] = fund /\ d.charges[c] # "NONE"}
MineCancelled(d, l, fund) == {c \in Mine(d, l, fund) : d.charges[c] = "CANCELLED"}
Extra(d) == [c \in Charges |-> Adjusted(d, c)]
Got(d) == [r \in DOMAIN d.receipts |-> d.receipts[r].amount]
GotFrom(d, l, fund) == {r \in ReceiptsOf(d, "RECORDED", fund) : d.receipts[r].lot = l}

LEMMA ShareType == \A c \in Charges : ShareOf[c] \in Nat
  BY ShareOfAssumption DEF Charges

LEMMA Grows ==
  ASSUME NEW X, NEW s \in Seq(X), NEW x
  PROVE  /\ DOMAIN s = 1..Len(s) /\ Len(s) \in Nat
         /\ DOMAIN Append(s, x) = DOMAIN s \cup {Len(s) + 1}
         /\ Len(s) + 1 \notin DOMAIN s
         /\ Append(s, x)[Len(s) + 1] = x
         /\ \A k \in DOMAIN s : Append(s, x)[k] = s[k]
  OBVIOUS

LEMMA AdjustedType == ASSUME NEW d \in Tables, NEW c PROVE Adjusted(d, c) \in Int
<1> DEFINE S == {a \in DOMAIN d.adjustments : d.adjustments[a].charge = c}
           g == [a \in DOMAIN d.adjustments |-> d.adjustments[a].amount]
<1>1. IsFiniteSet(S) /\ \A a \in S : g[a] \in Int
  BY FiniteTables, FS_Subset, RowsOf
<1>2. Adjusted(d, c) = SumOver(g, S)
  BY DEF Adjusted
<1> HIDE DEF g, S
<1> QED
  BY <1>1, <1>2, SumType

LEMMA LotParts ==
  ASSUME NEW d \in Tables, NEW l, NEW fund
  PROVE  /\ LotBalance(d, l, fund) =
              SumOver(ShareOf, Mine(d, l, fund)) - SumOver(ShareOf, MineCancelled(d, l, fund))
                + SumOver(Extra(d), Mine(d, l, fund)) - SumOver(Got(d), GotFrom(d, l, fund))
         /\ IsFiniteSet(Mine(d, l, fund)) /\ Mine(d, l, fund) \in SUBSET Charges
         /\ IsFiniteSet(MineCancelled(d, l, fund)) /\ MineCancelled(d, l, fund) \in SUBSET Charges
         /\ IsFiniteSet(GotFrom(d, l, fund)) /\ GotFrom(d, l, fund) \in SUBSET DOMAIN d.receipts
         /\ SumOver(ShareOf, Mine(d, l, fund)) \in Int
         /\ SumOver(ShareOf, MineCancelled(d, l, fund)) \in Int
         /\ SumOver(Extra(d), Mine(d, l, fund)) \in Int
         /\ SumOver(Got(d), GotFrom(d, l, fund)) \in Int
         /\ \A c \in Charges : Extra(d)[c] \in Int
         /\ \A r \in DOMAIN d.receipts : Got(d)[r] \in Int
<1>1. Mine(d, l, fund) \in SUBSET Charges /\ MineCancelled(d, l, fund) \in SUBSET Charges
  BY DEF Mine, MineCancelled
<1>2. GotFrom(d, l, fund) \in SUBSET DOMAIN d.receipts
  BY DEF GotFrom, ReceiptsOf
<1>3. /\ IsFiniteSet(Mine(d, l, fund)) /\ IsFiniteSet(MineCancelled(d, l, fund))
      /\ IsFiniteSet(GotFrom(d, l, fund))
  BY <1>1, <1>2, FiniteTables, FS_Subset
<1>4. \A c \in Charges : ShareOf[c] \in Int /\ Extra(d)[c] \in Int
  BY ShareType, AdjustedType DEF Extra
<1>5. \A r \in DOMAIN d.receipts : Got(d)[r] \in Int
  BY RowsOf DEF Got
<1>6. /\ SumOver(ShareOf, Mine(d, l, fund)) \in Int
      /\ SumOver(ShareOf, MineCancelled(d, l, fund)) \in Int
  <2>1. /\ \A c \in Mine(d, l, fund) : ShareOf[c] \in Int
        /\ \A c \in MineCancelled(d, l, fund) : ShareOf[c] \in Int
    BY <1>1, <1>4
  <2> QED
    BY <2>1, <1>3, SumType
<1>7. SumOver(Extra(d), Mine(d, l, fund)) \in Int
  <2>1. \A c \in Mine(d, l, fund) : Extra(d)[c] \in Int
    BY <1>1, <1>4
  <2> QED
    BY <2>1, <1>3, SumType
<1>8. SumOver(Got(d), GotFrom(d, l, fund)) \in Int
  <2>1. \A r \in GotFrom(d, l, fund) : Got(d)[r] \in Int
    BY <1>2, <1>5
  <2> QED
    BY <2>1, <1>3, SumType
<1>9. LotBalance(d, l, fund) =
        SumOver(ShareOf, Mine(d, l, fund)) - SumOver(ShareOf, MineCancelled(d, l, fund))
          + SumOver(Extra(d), Mine(d, l, fund)) - SumOver(Got(d), GotFrom(d, l, fund))
  BY DEF LotBalance, Mine, MineCancelled, Extra, Got, GotFrom
<1> QED
  BY <1>1, <1>2, <1>3, <1>4, <1>5, <1>6, <1>7, <1>8, <1>9

LEMMA LotType == ASSUME NEW d \in Tables, NEW l, NEW fund PROVE LotBalance(d, l, fund) \in Int
  BY LotParts

\* What does not change with other rows.
LEMMA SameMine ==
  ASSUME NEW d \in Tables, NEW e \in Tables, NEW l, NEW fund,
         \A c \in Charges : (e.charges[c] = "NONE" <=> d.charges[c] = "NONE")
                            /\ (e.charges[c] = "CANCELLED" <=> d.charges[c] = "CANCELLED")
  PROVE  Mine(e, l, fund) = Mine(d, l, fund) /\ MineCancelled(e, l, fund) = MineCancelled(d, l, fund)
<1>1. Mine(e, l, fund) = Mine(d, l, fund)
  BY DEF Mine
<1> QED
  BY <1>1 DEF MineCancelled, Mine

LEMMA SameExtra ==
  ASSUME NEW d, NEW e, e.adjustments = d.adjustments
  PROVE  Extra(e) = Extra(d) /\ \A c : Adjusted(e, c) = Adjusted(d, c)
  BY DEF Extra, Adjusted

LEMMA SameGot ==
  ASSUME NEW d, NEW e, e.receipts = d.receipts
  PROVE  Got(e) = Got(d) /\ \A l, fund : GotFrom(e, l, fund) = GotFrom(d, l, fund)
  BY DEF Got, GotFrom, ReceiptsOf

LEMMA SameTaken ==
  ASSUME NEW d, NEW e, e.allocations = d.allocations
  PROVE  \A r : AppliedFrom(e, r) = AppliedFrom(d, r)
  BY DEF AppliedFrom, Applied

LEMMA SameHeld ==
  ASSUME NEW d, NEW e, e.allocations = d.allocations, e.receipts = d.receipts
  PROVE  /\ \A fund : HeldFor(e, fund) = HeldFor(d, fund)
         /\ \A r : Unapplied(e, r) = Unapplied(d, r)
<1>1. \A r : Unapplied(e, r) = Unapplied(d, r)
  BY SameTaken, Zenon DEF Unapplied
<1>2. \A fund : ReceiptsOf(e, "RECORDED", fund) = ReceiptsOf(d, "RECORDED", fund)
  BY DEF ReceiptsOf
<1>3. [r \in DOMAIN e.receipts |-> Unapplied(e, r)] = [r \in DOMAIN d.receipts |-> Unapplied(d, r)]
  BY <1>1
<1> QED
  BY <1>1, <1>2, <1>3, Zenon DEF HeldFor

LEMMA LineStays ==
  ASSUME NEW d, NEW e, NEW j, Grown(d, e, j), NEW k, NEW dr, NEW cr, NEW fund, NEW amount,
         Line(d, k, dr, cr, fund, amount)
  PROVE  Line(e, k, dr, cr, fund, amount)
  BY DEF Grown, Line

LEMMA TotalType == ASSUME NEW i \in Instalments PROVE InstalmentTotal(i) \in Int
<1> DEFINE g == [l \in Lots |-> ShareOf[<<i, l>>]]
<1>1. \A l \in Lots : g[l] \in Int
  BY ShareType DEF Charges
<1>2. InstalmentTotal(i) = SumOver(g, Lots)
  BY DEF InstalmentTotal
<1> HIDE DEF g
<1> QED
  BY <1>1, <1>2, FiniteAssumption, SumType

\* issue.
IssueStep(d, e, i, j) ==
  /\ e \in Tables /\ Appends(d, e, j)
  /\ j.type = "LEVY" /\ j.of = 0 /\ j.fund = FundOf[i] /\ j.amount = InstalmentTotal(i)
  /\ j.dr = "LOT_LEVY_RECEIVABLE" /\ j.cr = "LEVY_INCOME"
  /\ d.instalments[i].status = "PENDING"
  /\ e.instalments[i].status = "ISSUED" /\ e.instalments[i].journal = Len(d.journals) + 1
  /\ \A x \in Instalments \ {i} : e.instalments[x] = d.instalments[x]
  /\ \A c \in Charges :
       e.charges[c] = IF c[1] = i /\ ShareOf[c] > 0 THEN "ISSUED" ELSE d.charges[c]
  /\ e.adjustments = d.adjustments /\ e.receipts = d.receipts /\ e.allocations = d.allocations

LEMMA IssueSound ==
  ASSUME NEW d, Sound(d), NEW i \in Instalments, NEW j, NEW e, IssueStep(d, e, i, j)
  PROVE  Sound(e)
<1>d. /\ d \in Tables /\ JournalsSound(d) /\ RowsSound(d) /\ LinesSound(d)
      /\ LinksSound(d) /\ CoverSound(d) /\ TieSound(d)
  BY DEF Sound
<1>1. e \in Tables
  BY DEF IssueStep
<1>j. /\ j.type = "LEVY" /\ j.of = 0 /\ j.fund = FundOf[i]
      /\ j.dr = "LOT_LEVY_RECEIVABLE" /\ j.cr = "LEVY_INCOME" /\ j.amount = InstalmentTotal(i)
  BY DEF IssueStep
<1>f. e.adjustments = d.adjustments /\ e.receipts = d.receipts /\ e.allocations = d.allocations
  BY DEF IssueStep
<1>i. /\ d.instalments[i].status = "PENDING"
      /\ e.instalments[i].status = "ISSUED" /\ e.instalments[i].journal = Len(d.journals) + 1
      /\ \A x \in Instalments : x # i => e.instalments[x] = d.instalments[x]
  BY DEF IssueStep
<1>c. \A c \in Charges : e.charges[c] = IF c[1] = i /\ ShareOf[c] > 0 THEN "ISSUED" ELSE d.charges[c]
  BY DEF IssueStep
<1>a. Appends(d, e, j)
  BY DEF IssueStep
<1>g. Grown(d, e, j)
  BY <1>a, <1>d, Appended
<1>2. JournalsSound(e)
  BY <1>a, <1>d, JournalsStaySound
<1>s. IssuedOnce(e) = IssuedOnce(d) \cup {i} /\ i \notin IssuedOnce(d)
  BY <1>f, <1>i DEF IssuedOnce
<1>3. RowsSound(e)
  <2>1. ReversedIn(e.instalments, Instalments) = ReversedIn(d.instalments, Instalments)
    BY <1>f, <1>i DEF ReversedIn
  <2>2. i \notin ReversedIn(d.instalments, Instalments)
    BY <1>i DEF ReversedIn
  <2>3. \A x \in IssuedOnce(d) : e.instalments[x].journal = d.instalments[x].journal
    BY <1>f, <1>i, <1>s DEF IssuedOnce
  <2>4. Follows(e, e.instalments, IssuedOnce(d) \cup {i}, ReversedIn(d.instalments, Instalments), "LEVY")
    <3>1. Follows(d, d.instalments, IssuedOnce(d), ReversedIn(d.instalments, Instalments), "LEVY")
      BY <1>d DEF RowsSound
    <3>2. JournalsSound(d) /\ j.type = "LEVY" /\ j.of = 0 /\ i \notin IssuedOnce(d)
      BY <1>d, <1>j, <1>s
    <3>3. e.instalments[i].journal = Len(d.journals) + 1
      BY <1>i
    <3> QED
      BY <3>1, <3>2, <3>3, <1>a, <2>2, <2>3, FollowsNew, Zenon
  <2>5. /\ Follows(e, d.receipts, DOMAIN d.receipts, ReversedIn(d.receipts, DOMAIN d.receipts), "RECEIPT")
        /\ Follows(e, d.allocations, DOMAIN d.allocations,
                   ReversedIn(d.allocations, DOMAIN d.allocations), "PAYMENT_ALLOCATION")
        /\ Follows(e, d.adjustments, DOMAIN d.adjustments, {}, "LEVY_ADJUSTMENT")
    BY <1>d, <1>a, <1>j, FollowsOther DEF RowsSound
  <2> QED
    BY <1>f, <1>s, <2>1, <2>4, <2>5, Zenon DEF RowsSound
<1>4. LinesSound(e)
  <2>1. \A x \in IssuedOnce(e) :
          Line(e, e.instalments[x].journal, "LOT_LEVY_RECEIVABLE", "LEVY_INCOME", FundOf[x], InstalmentTotal(x))
    <3>1. Line(e, e.instalments[i].journal, "LOT_LEVY_RECEIVABLE", "LEVY_INCOME", FundOf[i], InstalmentTotal(i))
      BY <1>g, <1>i, <1>j DEF Grown, Line
    <3>2. \A x \in IssuedOnce(d) : e.instalments[x].journal = d.instalments[x].journal
      BY <1>f, <1>i, <1>s DEF IssuedOnce
    <3>3. \A x \in IssuedOnce(d) :
          Line(e, d.instalments[x].journal, "LOT_LEVY_RECEIVABLE", "LEVY_INCOME", FundOf[x], InstalmentTotal(x))
      BY <1>d, <1>g, LineStays DEF LinesSound
    <3> QED
      BY <1>s, <1>f, <3>1, <3>2, <3>3, Zenon
  <2>2. \A r \in DOMAIN d.receipts :
          Line(e, d.receipts[r].journal, "FUND_CASH", "UNAPPLIED_CASH", d.receipts[r].fund, d.receipts[r].amount)
    BY <1>d, <1>g, LineStays DEF LinesSound
  <2>3. \A a \in DOMAIN d.allocations :
          Line(e, d.allocations[a].journal, "UNAPPLIED_CASH", "LOT_LEVY_RECEIVABLE",
               FundOf[d.allocations[a].charge[1]], d.allocations[a].amount)
    BY <1>d, <1>g, LineStays DEF LinesSound
  <2> QED
    BY <1>f, <2>1, <2>2, <2>3, Zenon DEF LinesSound
<1>k. \A c \in Charges : /\ c[1] \in Instalments /\ ShareOf[c] \in Nat
                         /\ c[1] = i => d.charges[c] = "NONE"
  <2>1. \A c \in Charges : c[1] \in Instalments /\ ShareOf[c] \in Nat
    BY ShareType DEF Charges
  <2>2. \A c \in Charges : d.charges[c] = "NONE" <=> d.instalments[c[1]].status = "PENDING" \/ ShareOf[c] = 0
    BY <1>d DEF LinksSound
  <2> QED
    BY <2>1, <2>2, <1>i
<1>5. LinksSound(e)
  <2>1. \A c \in Charges :
          /\ e.charges[c] = "NONE" <=> e.instalments[c[1]].status = "PENDING" \/ ShareOf[c] = 0
          /\ e.charges[c] = "CANCELLED" <=> e.instalments[c[1]].status = "REVERSED" /\ ShareOf[c] > 0
    <3> SUFFICES ASSUME NEW c \in Charges
                 PROVE  /\ e.charges[c] = "NONE" <=> e.instalments[c[1]].status = "PENDING" \/ ShareOf[c] = 0
                        /\ e.charges[c] = "CANCELLED" <=> e.instalments[c[1]].status = "REVERSED" /\ ShareOf[c] > 0
      OBVIOUS
    <3>1. /\ d.charges[c] = "NONE" <=> d.instalments[c[1]].status = "PENDING" \/ ShareOf[c] = 0
          /\ d.charges[c] = "CANCELLED" <=> d.instalments[c[1]].status = "REVERSED" /\ ShareOf[c] > 0
      BY <1>d DEF LinksSound
    <3> QED
      BY <3>1, <1>k, <1>f, <1>i, <1>c
  <2>2. \A c \in Charges : d.charges[c] # "NONE" => e.charges[c] # "NONE"
    BY <1>f, <1>c
  <2>3. /\ \A a \in DOMAIN d.allocations : d.allocations[a].charge \in Charges
        /\ \A a \in DOMAIN d.adjustments : d.adjustments[a].charge \in Charges
    BY <1>d, RowsOf
  <2> QED
    BY <1>d, <1>f, <2>1, <2>2, <2>3 DEF LinksSound
<1>6. CoverSound(e)
  BY <1>d, <1>f, SameTaken DEF CoverSound
<1>7. TieSound(e)
  <2> SUFFICES ASSUME NEW f \in Funds
               PROVE  /\ -OwnBalance(e, "UNAPPLIED_CASH", f) = HeldFor(e, f)
                      /\ OwedBy(e, f) = OwnBalance(e, "LOT_LEVY_RECEIVABLE", f) + OwnBalance(e, "UNAPPLIED_CASH", f)
    BY DEF TieSound
  <2>1. /\ -OwnBalance(d, "UNAPPLIED_CASH", f) = HeldFor(d, f)
        /\ OwedBy(d, f) = OwnBalance(d, "LOT_LEVY_RECEIVABLE", f) + OwnBalance(d, "UNAPPLIED_CASH", f)
    BY <1>d DEF TieSound
  <2> DEFINE gain == IF FundOf[i] = f THEN InstalmentTotal(i) ELSE 0
  <2>2. /\ OwnBalance(e, "UNAPPLIED_CASH", f) = OwnBalance(d, "UNAPPLIED_CASH", f) + 0
        /\ OwnBalance(e, "LOT_LEVY_RECEIVABLE", f) = OwnBalance(d, "LOT_LEVY_RECEIVABLE", f) + gain
    <3>1. /\ Moves(j, "UNAPPLIED_CASH", f) = 0
          /\ Moves(j, "LOT_LEVY_RECEIVABLE", f) = gain
      BY <1>j, TotalType DEF Moves
    <3>2. \A acc \in {"UNAPPLIED_CASH", "LOT_LEVY_RECEIVABLE"} :
            OwnBalance(e, acc, f) = OwnBalance(d, acc, f) + Moves(j, acc, f)
      BY <1>d, <1>1, <1>a, <1>j, BalanceMoves
    <3> QED
      BY <3>1, <3>2
  <2>3. HeldFor(e, f) = HeldFor(d, f)
    BY <1>f, SameHeld
  <2>4. OwedBy(e, f) = OwedBy(d, f) + gain
    <3> DEFINE was == [l \in Lots |-> LotBalance(d, l, f)]
               is == [l \in Lots |-> LotBalance(e, l, f)]
               share == [l \in Lots |-> ShareOf[<<i, l>>]]
    <3>1. \A l \in Lots : was[l] \in Int /\ is[l] \in Int /\ share[l] \in Int
      BY <1>d, <1>1, LotType, ShareType DEF Charges
    <3>2. OwedBy(e, f) = SumOver(is, Lots) /\ OwedBy(d, f) = SumOver(was, Lots)
      BY DEF OwedBy
    <3>3. InstalmentTotal(i) = SumOver(share, Lots)
      BY DEF InstalmentTotal
    <3>4. ASSUME NEW l \in Lots
          PROVE  is[l] = was[l] + (IF FundOf[i] = f THEN share[l] ELSE 0)
      <4> DEFINE c == <<i, l>>
                 joins == FundOf[i] = f /\ ShareOf[c] > 0
      <4>1. c \in Charges /\ ShareOf[c] \in Nat /\ c[1] = i /\ c[2] = l
        BY ShareType DEF Charges
      <4>2. d.charges[c] = "NONE" /\ c \notin Mine(d, l, f)
        BY <1>k, <4>1 DEF Mine
      <4>3. \A x \in Charges : x[2] = l /\ x[1] = i => x = c
        BY DEF Charges
      <4>4. Mine(e, l, f) = IF joins THEN Mine(d, l, f) \cup {c} ELSE Mine(d, l, f)
        <5> HIDE DEF c
        <5>1. \A x \in Charges : x \in Mine(e, l, f) <=> x \in Mine(d, l, f) \/ (joins /\ x = c)
          <6> SUFFICES ASSUME NEW x \in Charges
                       PROVE  x \in Mine(e, l, f) <=> x \in Mine(d, l, f) \/ (joins /\ x = c)
            OBVIOUS
          <6>1. CASE x[1] = i
            BY <6>1, <1>c, <1>f, <1>k, <4>1, <4>3 DEF Mine
          <6>2. CASE x[1] # i
            BY <6>2, <1>c, <1>f, <4>1 DEF Mine
          <6> QED
            BY <6>1, <6>2
        <5>2. Mine(e, l, f) \in SUBSET Charges /\ Mine(d, l, f) \in SUBSET Charges
          BY DEF Mine
        <5> HIDE DEF joins
        <5> QED
          BY <5>1, <5>2, <4>1
      <4>5. MineCancelled(e, l, f) = MineCancelled(d, l, f)
        <5>1. \A x \in Mine(d, l, f) : e.charges[x] = d.charges[x]
          BY <1>c, <1>f, <1>k DEF Mine
        <5>2. e.charges[c] = "CANCELLED" => ~joins
          BY <1>c, <1>f, <4>1
        <5> HIDE DEF c, joins
        <5> QED
          BY <4>4, <5>1, <5>2 DEF MineCancelled
      <4>6. Extra(e) = Extra(d) /\ Got(e) = Got(d) /\ GotFrom(e, l, f) = GotFrom(d, l, f)
        BY <1>f, SameExtra, SameGot
      <4>7. Extra(d)[c] = 0
        <5>1. \A a \in DOMAIN d.adjustments : d.adjustments[a].charge # c
          BY <1>d, <4>2 DEF LinksSound
        <5>2. Adjusted(d, c) = 0
          <6>1. {a \in DOMAIN d.adjustments : d.adjustments[a].charge = c} = {}
            BY <5>1
          <6> QED
            BY <6>1, SumEmpty DEF Adjusted
        <5> QED
          BY <5>2, <4>1 DEF Extra
      <4>8. /\ IsFiniteSet(Mine(d, l, f)) /\ Mine(d, l, f) \in SUBSET Charges
            /\ LotBalance(d, l, f) =
              SumOver(ShareOf, Mine(d, l, f)) - SumOver(ShareOf, MineCancelled(d, l, f))
                + SumOver(Extra(d), Mine(d, l, f)) - SumOver(Got(d), GotFrom(d, l, f))
            /\ LotBalance(e, l, f) =
              SumOver(ShareOf, Mine(e, l, f)) - SumOver(ShareOf, MineCancelled(e, l, f))
                + SumOver(Extra(e), Mine(e, l, f)) - SumOver(Got(e), GotFrom(e, l, f))
            /\ SumOver(ShareOf, Mine(d, l, f)) \in Int
            /\ SumOver(ShareOf, MineCancelled(d, l, f)) \in Int
            /\ SumOver(Extra(d), Mine(d, l, f)) \in Int
            /\ SumOver(Got(d), GotFrom(d, l, f)) \in Int
            /\ \A x \in Charges : Extra(d)[x] \in Int
        BY <1>d, <1>1, LotParts
      <4>9. /\ SumOver(ShareOf, Mine(d, l, f) \cup {c}) = SumOver(ShareOf, Mine(d, l, f)) + ShareOf[c]
            /\ SumOver(Extra(d), Mine(d, l, f) \cup {c}) = SumOver(Extra(d), Mine(d, l, f)) + Extra(d)[c]
        <5> HIDE DEF c
        <5>1. /\ \A x \in Mine(d, l, f) \cup {c} : ShareOf[x] \in Int
              /\ \A x \in Mine(d, l, f) \cup {c} : Extra(d)[x] \in Int
          BY <4>1, <4>8, ShareType
        <5>2. SumOver(ShareOf, Mine(d, l, f) \cup {c}) = SumOver(ShareOf, Mine(d, l, f)) + ShareOf[c]
          BY <5>1, <4>2, <4>8, SumAdd, Zenon
        <5>3. SumOver(Extra(d), Mine(d, l, f) \cup {c}) = SumOver(Extra(d), Mine(d, l, f)) + Extra(d)[c]
          BY <5>1, <4>2, <4>8, SumAdd, Zenon
        <5> QED
          BY <5>2, <5>3
      <4>10. /\ SumOver(ShareOf, Mine(e, l, f)) = SumOver(ShareOf, Mine(d, l, f)) + (IF joins THEN ShareOf[c] ELSE 0)
             /\ SumOver(Extra(e), Mine(e, l, f)) = SumOver(Extra(d), Mine(d, l, f))
        <5> HIDE DEF joins, c
        <5>1. CASE joins
          <6>1. Mine(e, l, f) = Mine(d, l, f) \cup {c}
            BY <5>1, <4>4
          <6>2. /\ SumOver(ShareOf, Mine(e, l, f)) = SumOver(ShareOf, Mine(d, l, f)) + ShareOf[c]
                /\ SumOver(Extra(e), Mine(e, l, f)) = SumOver(Extra(d), Mine(d, l, f)) + Extra(d)[c]
            BY <6>1, <4>6, <4>9, Zenon
          <6> QED
            BY <5>1, <6>2, <4>7, <4>8
        <5>2. CASE ~joins
          <6>1. Mine(e, l, f) = Mine(d, l, f)
            BY <5>2, <4>4
          <6> QED
            BY <5>2, <6>1, <4>6, <4>8
        <5> QED
          BY <5>1, <5>2
      <4>11. share[l] = ShareOf[c] /\ is[l] = LotBalance(e, l, f) /\ was[l] = LotBalance(d, l, f)
        OBVIOUS
      <4> HIDE DEF c, share, is, was
      <4> QED
        <5>1. /\ SumOver(ShareOf, MineCancelled(e, l, f)) = SumOver(ShareOf, MineCancelled(d, l, f))
              /\ SumOver(Got(e), GotFrom(e, l, f)) = SumOver(Got(d), GotFrom(d, l, f))
          BY <4>5, <4>6, Zenon
        <5> QED
          BY <4>1, <4>8, <4>10, <4>11, <5>1
    <3> HIDE DEF was, is, share
    <3>5. CASE FundOf[i] = f
      <4>1. SumOver(is, Lots) = SumOver(was, Lots) + SumOver(share, Lots)
        BY <3>1, <3>4, <3>5, FiniteAssumption, SumPlus
      <4> QED
        BY <4>1, <3>2, <3>3, <3>5
    <3>6. CASE FundOf[i] # f
      <4>1. \A l \in Lots : is[l] = was[l]
        BY <3>1, <3>4, <3>6
      <4>2. SumOver(is, Lots) = SumOver(was, Lots) /\ SumOver(was, Lots) \in Int
        BY <4>1, <3>1, FiniteAssumption, SumCongruent, SumType
      <4> QED
        BY <4>2, <3>2, <3>6
    <3> QED
      BY <3>5, <3>6
  <2>5. /\ OwnBalance(d, "UNAPPLIED_CASH", f) \in Int /\ OwnBalance(d, "LOT_LEVY_RECEIVABLE", f) \in Int
        /\ gain \in Int
    BY <1>d, TotalType, BalanceSums
  <2> HIDE DEF gain
  <2> QED
    BY <2>1, <2>2, <2>3, <2>4, <2>5
<1> QED
  BY <1>1, <1>2, <1>3, <1>4, <1>5, <1>6, <1>7 DEF Sound

\* The generic reversal of a reversal.
ReverseThroughStep(d, e, k, j) ==
  /\ e \in Tables /\ Appends(d, e, j)
  /\ j.type = "REVERSAL" /\ j.of = k /\ k # 0 /\ d.journals[k].type = "REVERSAL"
  /\ e.instalments = d.instalments /\ e.charges = d.charges
  /\ e.adjustments = d.adjustments /\ e.receipts = d.receipts /\ e.allocations = d.allocations

LEMMA ReverseThroughSound ==
  ASSUME NEW d, Sound(d), NEW k, NEW j, NEW e, ReverseThroughStep(d, e, k, j)
  PROVE  Sound(e)
<1>d. /\ d \in Tables /\ JournalsSound(d) /\ RowsSound(d) /\ LinesSound(d)
      /\ LinksSound(d) /\ CoverSound(d) /\ TieSound(d)
  BY DEF Sound
<1>1. e \in Tables
  BY DEF ReverseThroughStep
<1>j. j.type = "REVERSAL" /\ j.of # 0 /\ d.journals[j.of].type = "REVERSAL"
  BY DEF ReverseThroughStep
<1>f. /\ e.instalments = d.instalments /\ e.charges = d.charges
      /\ e.adjustments = d.adjustments /\ e.receipts = d.receipts /\ e.allocations = d.allocations
  BY DEF ReverseThroughStep
<1>a. Appends(d, e, j)
  BY DEF ReverseThroughStep
<1>g. Grown(d, e, j)
  BY <1>a, <1>d, Appended
<1>2. JournalsSound(e)
  BY <1>a, <1>d, JournalsStaySound
<1>s. IssuedOnce(e) = IssuedOnce(d)
  BY <1>f DEF IssuedOnce
<1>3. RowsSound(e)
  <2>1. /\ Follows(e, d.instalments, IssuedOnce(d), ReversedIn(d.instalments, Instalments), "LEVY")
        /\ Follows(e, d.receipts, DOMAIN d.receipts, ReversedIn(d.receipts, DOMAIN d.receipts), "RECEIPT")
        /\ Follows(e, d.allocations, DOMAIN d.allocations,
                   ReversedIn(d.allocations, DOMAIN d.allocations), "PAYMENT_ALLOCATION")
        /\ Follows(e, d.adjustments, DOMAIN d.adjustments, {}, "LEVY_ADJUSTMENT")
    BY <1>d, <1>a, <1>j, FollowsOther DEF RowsSound
  <2> QED
    BY <1>f, <1>s, <2>1, Zenon DEF RowsSound
<1>4. LinesSound(e)
  <2>1. \A x \in IssuedOnce(d) :
          Line(e, d.instalments[x].journal, "LOT_LEVY_RECEIVABLE", "LEVY_INCOME", FundOf[x], InstalmentTotal(x))
    BY <1>d, <1>g, LineStays DEF LinesSound
  <2>2. \A r \in DOMAIN d.receipts :
          Line(e, d.receipts[r].journal, "FUND_CASH", "UNAPPLIED_CASH", d.receipts[r].fund, d.receipts[r].amount)
    BY <1>d, <1>g, LineStays DEF LinesSound
  <2>3. \A a \in DOMAIN d.allocations :
          Line(e, d.allocations[a].journal, "UNAPPLIED_CASH", "LOT_LEVY_RECEIVABLE",
               FundOf[d.allocations[a].charge[1]], d.allocations[a].amount)
    BY <1>d, <1>g, LineStays DEF LinesSound
  <2> QED
    BY <1>f, <1>s, <2>1, <2>2, <2>3, Zenon DEF LinesSound
<1>5. LinksSound(e)
  BY <1>d, <1>f DEF LinksSound
<1>6. CoverSound(e)
  BY <1>d, <1>f, SameTaken DEF CoverSound
<1>7. TieSound(e)
  <2> SUFFICES ASSUME NEW f \in Funds
               PROVE  /\ -OwnBalance(e, "UNAPPLIED_CASH", f) = HeldFor(e, f)
                      /\ OwedBy(e, f) = OwnBalance(e, "LOT_LEVY_RECEIVABLE", f) + OwnBalance(e, "UNAPPLIED_CASH", f)
    BY DEF TieSound
  <2>1. /\ -OwnBalance(d, "UNAPPLIED_CASH", f) = HeldFor(d, f)
        /\ OwedBy(d, f) = OwnBalance(d, "LOT_LEVY_RECEIVABLE", f) + OwnBalance(d, "UNAPPLIED_CASH", f)
    BY <1>d DEF TieSound
  <2>2. \A acc \in {"UNAPPLIED_CASH", "LOT_LEVY_RECEIVABLE"} : OwnBalance(e, acc, f) = OwnBalance(d, acc, f)
    <3>1. \A acc \in {"UNAPPLIED_CASH", "LOT_LEVY_RECEIVABLE"} :
            OwnBalance(e, acc, f) = OwnBalance(d, acc, f) + 0 /\ OwnBalance(d, acc, f) \in Int
      BY <1>d, <1>1, <1>a, <1>j, BalanceMoves, BalanceSums
    <3> QED
      BY <3>1
  <2>3. HeldFor(e, f) = HeldFor(d, f)
    BY <1>f, SameHeld
  <2>4. OwedBy(e, f) = OwedBy(d, f)
    <3>1. \A l : Mine(e, l, f) = Mine(d, l, f) /\ MineCancelled(e, l, f) = MineCancelled(d, l, f)
      BY <1>f DEF Mine, MineCancelled
    <3>2. Extra(e) = Extra(d) /\ Got(e) = Got(d) /\ \A l : GotFrom(e, l, f) = GotFrom(d, l, f)
      BY <1>f, SameExtra, SameGot
    <3>3. \A l : LotBalance(e, l, f) = LotBalance(d, l, f)
      BY <3>1, <3>2, <1>d, <1>1, LotParts, Zenon
    <3> QED
      BY <3>3 DEF OwedBy
  <2> QED
    BY <2>1, <2>2, <2>3, <2>4
<1> QED
  BY <1>1, <1>2, <1>3, <1>4, <1>5, <1>6, <1>7 DEF Sound

\* reverseInstallment.
ReverseInstalmentStep(d, e, i, j) ==
  /\ e \in Tables /\ Appends(d, e, j)
  /\ j.type = "REVERSAL" /\ j.of = d.instalments[i].journal /\ j.of # 0
  /\ j.fund = FundOf[i] /\ j.amount = InstalmentTotal(i)
  /\ j.dr = "LEVY_INCOME" /\ j.cr = "LOT_LEVY_RECEIVABLE"
  /\ d.instalments[i].status = "ISSUED"
  /\ e.instalments[i].status = "REVERSED" /\ e.instalments[i].journal = d.instalments[i].journal
  /\ \A x \in Instalments \ {i} : e.instalments[x] = d.instalments[x]
  /\ \A c \in Charges :
       e.charges[c] = IF c[1] = i /\ d.charges[c] # "NONE" THEN "CANCELLED" ELSE d.charges[c]
  /\ e.adjustments = d.adjustments /\ e.receipts = d.receipts /\ e.allocations = d.allocations

LEMMA ReverseInstalmentSound ==
  ASSUME NEW d, Sound(d), NEW i \in Instalments, NEW j, NEW e, ReverseInstalmentStep(d, e, i, j)
  PROVE  Sound(e)
<1>d. /\ d \in Tables /\ JournalsSound(d) /\ RowsSound(d) /\ LinesSound(d)
      /\ LinksSound(d) /\ CoverSound(d) /\ TieSound(d)
  BY DEF Sound
<1>1. e \in Tables
  BY DEF ReverseInstalmentStep
<1>j. /\ j.type = "REVERSAL" /\ j.of = d.instalments[i].journal /\ j.of # 0 /\ j.fund = FundOf[i]
      /\ j.dr = "LEVY_INCOME" /\ j.cr = "LOT_LEVY_RECEIVABLE" /\ j.amount = InstalmentTotal(i)
  BY DEF ReverseInstalmentStep
<1>f. e.adjustments = d.adjustments /\ e.receipts = d.receipts /\ e.allocations = d.allocations
  BY DEF ReverseInstalmentStep
<1>i. /\ d.instalments[i].status = "ISSUED"
      /\ e.instalments[i].status = "REVERSED" /\ e.instalments[i].journal = d.instalments[i].journal
      /\ \A x \in Instalments : x # i => e.instalments[x] = d.instalments[x]
  BY DEF ReverseInstalmentStep
<1>c. \A c \in Charges :
        e.charges[c] = IF c[1] = i /\ d.charges[c] # "NONE" THEN "CANCELLED" ELSE d.charges[c]
  BY DEF ReverseInstalmentStep
<1>a. Appends(d, e, j)
  BY DEF ReverseInstalmentStep
<1>g. Grown(d, e, j)
  BY <1>a, <1>d, Appended
<1>2. JournalsSound(e)
  BY <1>a, <1>d, JournalsStaySound
<1>s. IssuedOnce(e) = IssuedOnce(d) /\ i \in IssuedOnce(d)
  BY <1>f, <1>i DEF IssuedOnce
<1>t. \A x \in IssuedOnce(d) : e.instalments[x].journal = d.instalments[x].journal
  BY <1>f, <1>i, <1>s DEF IssuedOnce
<1>o. d.journals[j.of].type = "LEVY"
  BY <1>d, <1>j, <1>s DEF RowsSound, Follows
<1>3. RowsSound(e)
  <2>1. ReversedIn(e.instalments, Instalments) = ReversedIn(d.instalments, Instalments) \cup {i}
    BY <1>f, <1>i DEF ReversedIn
  <2>4. Follows(e, e.instalments, IssuedOnce(d), ReversedIn(d.instalments, Instalments) \cup {i}, "LEVY")
    <3>1. Follows(d, d.instalments, IssuedOnce(d), ReversedIn(d.instalments, Instalments), "LEVY")
      BY <1>d DEF RowsSound
    <3>2. JournalsSound(d) /\ j.type = "REVERSAL" /\ j.of = d.instalments[i].journal /\ i \in IssuedOnce(d)
      BY <1>d, <1>j, <1>s
    <3>3. "LEVY" # "REVERSAL"
      OBVIOUS
    <3> QED
      BY <3>1, <3>2, <3>3, <1>a, <1>t, FollowsReversal, Zenon
  <2>5. /\ Follows(e, d.receipts, DOMAIN d.receipts, ReversedIn(d.receipts, DOMAIN d.receipts), "RECEIPT")
        /\ Follows(e, d.allocations, DOMAIN d.allocations,
                   ReversedIn(d.allocations, DOMAIN d.allocations), "PAYMENT_ALLOCATION")
        /\ Follows(e, d.adjustments, DOMAIN d.adjustments, {}, "LEVY_ADJUSTMENT")
    BY <1>d, <1>a, <1>j, <1>o, FollowsOther DEF RowsSound
  <2> QED
    BY <1>f, <1>s, <2>1, <2>4, <2>5, Zenon DEF RowsSound
<1>4. LinesSound(e)
  <2>1. \A x \in IssuedOnce(d) :
          Line(e, d.instalments[x].journal, "LOT_LEVY_RECEIVABLE", "LEVY_INCOME", FundOf[x], InstalmentTotal(x))
    BY <1>d, <1>g, LineStays DEF LinesSound
  <2>2. \A r \in DOMAIN d.receipts :
          Line(e, d.receipts[r].journal, "FUND_CASH", "UNAPPLIED_CASH", d.receipts[r].fund, d.receipts[r].amount)
    BY <1>d, <1>g, LineStays DEF LinesSound
  <2>3. \A a \in DOMAIN d.allocations :
          Line(e, d.allocations[a].journal, "UNAPPLIED_CASH", "LOT_LEVY_RECEIVABLE",
               FundOf[d.allocations[a].charge[1]], d.allocations[a].amount)
    BY <1>d, <1>g, LineStays DEF LinesSound
  <2>4. \A x \in IssuedOnce(e) :
          Line(e, e.instalments[x].journal, "LOT_LEVY_RECEIVABLE", "LEVY_INCOME", FundOf[x], InstalmentTotal(x))
    BY <1>s, <1>t, <2>1, Zenon
  <2> QED
    BY <1>f, <2>2, <2>3, <2>4, Zenon DEF LinesSound
<1>l. \A c \in Charges :
        /\ d.charges[c] = "NONE" <=> d.instalments[c[1]].status = "PENDING" \/ ShareOf[c] = 0
        /\ d.charges[c] = "CANCELLED" <=> d.instalments[c[1]].status = "REVERSED" /\ ShareOf[c] > 0
  BY <1>d DEF LinksSound
<1>k. \A c \in Charges : /\ c[1] \in Instalments /\ ShareOf[c] \in Nat
                         /\ c[1] = i => (d.charges[c] = "NONE" <=> ShareOf[c] = 0) /\ d.charges[c] # "CANCELLED"
  <2>1. \A c \in Charges : c[1] \in Instalments /\ ShareOf[c] \in Nat
    BY ShareType DEF Charges
  <2> QED
    BY <2>1, <1>l, <1>i
<1>5. LinksSound(e)
  <2>1. \A c \in Charges :
          /\ e.charges[c] = "NONE" <=> e.instalments[c[1]].status = "PENDING" \/ ShareOf[c] = 0
          /\ e.charges[c] = "CANCELLED" <=> e.instalments[c[1]].status = "REVERSED" /\ ShareOf[c] > 0
    BY <1>l, <1>k, <1>f, <1>i, <1>c
  <2>2. \A c \in Charges : d.charges[c] # "NONE" => e.charges[c] # "NONE"
    BY <1>f, <1>c
  <2>3. /\ \A a \in DOMAIN d.allocations : d.allocations[a].charge \in Charges
        /\ \A a \in DOMAIN d.adjustments : d.adjustments[a].charge \in Charges
    BY <1>d, RowsOf
  <2> QED
    BY <1>d, <1>f, <2>1, <2>2, <2>3 DEF LinksSound
<1>6. CoverSound(e)
  BY <1>d, <1>f, SameTaken DEF CoverSound
<1>7. TieSound(e)
  <2> SUFFICES ASSUME NEW f \in Funds
               PROVE  /\ -OwnBalance(e, "UNAPPLIED_CASH", f) = HeldFor(e, f)
                      /\ OwedBy(e, f) = OwnBalance(e, "LOT_LEVY_RECEIVABLE", f) + OwnBalance(e, "UNAPPLIED_CASH", f)
    BY DEF TieSound
  <2>1. /\ -OwnBalance(d, "UNAPPLIED_CASH", f) = HeldFor(d, f)
        /\ OwedBy(d, f) = OwnBalance(d, "LOT_LEVY_RECEIVABLE", f) + OwnBalance(d, "UNAPPLIED_CASH", f)
    BY <1>d DEF TieSound
  <2> DEFINE loss == IF FundOf[i] = f THEN InstalmentTotal(i) ELSE 0
  <2>2. /\ OwnBalance(e, "UNAPPLIED_CASH", f) = OwnBalance(d, "UNAPPLIED_CASH", f) + 0
        /\ OwnBalance(e, "LOT_LEVY_RECEIVABLE", f) = OwnBalance(d, "LOT_LEVY_RECEIVABLE", f) + (0 - loss)
    <3>1. /\ Moves(j, "UNAPPLIED_CASH", f) = 0
          /\ Moves(j, "LOT_LEVY_RECEIVABLE", f) = 0 - loss
      BY <1>j, TotalType DEF Moves
    <3>2. \A acc \in {"UNAPPLIED_CASH", "LOT_LEVY_RECEIVABLE"} :
            OwnBalance(e, acc, f) = OwnBalance(d, acc, f) + Moves(j, acc, f)
      BY <1>d, <1>1, <1>a, <1>j, <1>o, BalanceMoves
    <3> QED
      BY <3>1, <3>2
  <2>3. HeldFor(e, f) = HeldFor(d, f)
    BY <1>f, SameHeld
  <2>4. OwedBy(d, f) = OwedBy(e, f) + loss
    <3> DEFINE was == [l \in Lots |-> LotBalance(d, l, f)]
               is == [l \in Lots |-> LotBalance(e, l, f)]
               share == [l \in Lots |-> ShareOf[<<i, l>>]]
    <3>1. \A l \in Lots : was[l] \in Int /\ is[l] \in Int /\ share[l] \in Int
      BY <1>d, <1>1, LotType, ShareType DEF Charges
    <3>2. OwedBy(e, f) = SumOver(is, Lots) /\ OwedBy(d, f) = SumOver(was, Lots)
      BY DEF OwedBy
    <3>3. InstalmentTotal(i) = SumOver(share, Lots)
      BY DEF InstalmentTotal
    <3>4. ASSUME NEW l \in Lots
          PROVE  was[l] = is[l] + (IF FundOf[i] = f THEN share[l] ELSE 0)
      <4> DEFINE c == <<i, l>>
                 leaves == FundOf[i] = f /\ ShareOf[c] > 0
      <4>1. c \in Charges /\ ShareOf[c] \in Nat /\ c[1] = i /\ c[2] = l
        BY ShareType DEF Charges
      <4>2. c \notin MineCancelled(d, l, f)
        BY <1>k, <4>1 DEF MineCancelled
      <4>3. \A x \in Charges : x[2] = l /\ x[1] = i => x = c
        BY DEF Charges
      <4>4. Mine(e, l, f) = Mine(d, l, f)
        BY <1>c, <1>k DEF Mine
      <4>5. MineCancelled(e, l, f) = IF leaves THEN MineCancelled(d, l, f) \cup {c} ELSE MineCancelled(d, l, f)
        <5> HIDE DEF c
        <5>1. \A x \in Charges : x \in MineCancelled(e, l, f) <=> x \in MineCancelled(d, l, f) \/ (leaves /\ x = c)
          <6> SUFFICES ASSUME NEW x \in Charges
                       PROVE  x \in MineCancelled(e, l, f) <=> x \in MineCancelled(d, l, f) \/ (leaves /\ x = c)
            OBVIOUS
          <6>0. \A y \in Charges : y \in Mine(d, l, f) <=> y[2] = l /\ FundOf[y[1]] = f /\ d.charges[y] # "NONE"
            BY DEF Mine
          <6>3. /\ x \in MineCancelled(e, l, f) <=> x \in Mine(d, l, f) /\ e.charges[x] = "CANCELLED"
                /\ x \in MineCancelled(d, l, f) <=> x \in Mine(d, l, f) /\ d.charges[x] = "CANCELLED"
            BY <4>4 DEF MineCancelled
          <6>1. CASE x[1] = i
            <7>1. x \in Mine(d, l, f) <=> leaves /\ x = c
              BY <6>0, <6>1, <1>k, <4>1, <4>3
            <7>2. x \in Mine(d, l, f) => e.charges[x] = "CANCELLED" /\ d.charges[x] # "CANCELLED"
              BY <6>0, <6>1, <1>c, <1>k
            <7> HIDE DEF leaves
            <7> QED
              BY <6>3, <7>1, <7>2, Zenon
          <6>2. CASE x[1] # i
            <7>1. e.charges[x] = d.charges[x] /\ x # c
              BY <6>2, <1>c, <4>1
            <7> HIDE DEF leaves
            <7> QED
              BY <6>3, <7>1, Zenon
          <6> QED
            BY <6>1, <6>2
        <5>2. MineCancelled(e, l, f) \in SUBSET Charges /\ MineCancelled(d, l, f) \in SUBSET Charges
          BY DEF MineCancelled, Mine
        <5> HIDE DEF leaves
        <5> QED
          BY <5>1, <5>2, <4>1
      <4>6. Extra(e) = Extra(d) /\ Got(e) = Got(d) /\ GotFrom(e, l, f) = GotFrom(d, l, f)
        BY <1>f, SameExtra, SameGot
      <4>8. /\ IsFiniteSet(MineCancelled(d, l, f)) /\ MineCancelled(d, l, f) \in SUBSET Charges
            /\ LotBalance(d, l, f) =
              SumOver(ShareOf, Mine(d, l, f)) - SumOver(ShareOf, MineCancelled(d, l, f))
                + SumOver(Extra(d), Mine(d, l, f)) - SumOver(Got(d), GotFrom(d, l, f))
            /\ LotBalance(e, l, f) =
              SumOver(ShareOf, Mine(e, l, f)) - SumOver(ShareOf, MineCancelled(e, l, f))
                + SumOver(Extra(e), Mine(e, l, f)) - SumOver(Got(e), GotFrom(e, l, f))
            /\ SumOver(ShareOf, Mine(d, l, f)) \in Int
            /\ SumOver(ShareOf, MineCancelled(d, l, f)) \in Int
            /\ SumOver(Extra(d), Mine(d, l, f)) \in Int
            /\ SumOver(Got(d), GotFrom(d, l, f)) \in Int
        BY <1>d, <1>1, LotParts
      <4>9. SumOver(ShareOf, MineCancelled(d, l, f) \cup {c}) = SumOver(ShareOf, MineCancelled(d, l, f)) + ShareOf[c]
        <5> HIDE DEF c
        <5>1. \A x \in MineCancelled(d, l, f) \cup {c} : ShareOf[x] \in Int
          BY <4>1, <4>8, ShareType
        <5> QED
          BY <5>1, <4>2, <4>8, SumAdd, Zenon
      <4>10. SumOver(ShareOf, MineCancelled(e, l, f))
               = SumOver(ShareOf, MineCancelled(d, l, f)) + (IF leaves THEN ShareOf[c] ELSE 0)
        <5> HIDE DEF leaves, c
        <5>1. CASE leaves
          <6>1. MineCancelled(e, l, f) = MineCancelled(d, l, f) \cup {c}
            BY <5>1, <4>5
          <6>2. SumOver(ShareOf, MineCancelled(e, l, f)) = SumOver(ShareOf, MineCancelled(d, l, f)) + ShareOf[c]
            BY <6>1, <4>9, Zenon
          <6> QED
            BY <5>1, <6>2
        <5>2. CASE ~leaves
          <6>1. MineCancelled(e, l, f) = MineCancelled(d, l, f)
            BY <5>2, <4>5
          <6> QED
            BY <5>2, <6>1, <4>8
        <5> QED
          BY <5>1, <5>2
      <4>11. share[l] = ShareOf[c] /\ is[l] = LotBalance(e, l, f) /\ was[l] = LotBalance(d, l, f)
        OBVIOUS
      <4> HIDE DEF c, share, is, was
      <4> QED
        <5>1. /\ SumOver(ShareOf, Mine(e, l, f)) = SumOver(ShareOf, Mine(d, l, f))
              /\ SumOver(Extra(e), Mine(e, l, f)) = SumOver(Extra(d), Mine(d, l, f))
              /\ SumOver(Got(e), GotFrom(e, l, f)) = SumOver(Got(d), GotFrom(d, l, f))
          BY <4>4, <4>6, Zenon
        <5> QED
          BY <4>1, <4>8, <4>10, <4>11, <5>1
    <3> HIDE DEF was, is, share
    <3>5. CASE FundOf[i] = f
      <4>1. SumOver(was, Lots) = SumOver(is, Lots) + SumOver(share, Lots)
        BY <3>1, <3>4, <3>5, FiniteAssumption, SumPlus
      <4> QED
        BY <4>1, <3>2, <3>3, <3>5
    <3>6. CASE FundOf[i] # f
      <4>1. \A l \in Lots : was[l] = is[l]
        BY <3>1, <3>4, <3>6
      <4>2. SumOver(was, Lots) = SumOver(is, Lots) /\ SumOver(is, Lots) \in Int
        BY <4>1, <3>1, FiniteAssumption, SumCongruent, SumType
      <4> QED
        BY <4>2, <3>2, <3>6
    <3>7. SumOver(is, Lots) \in Int
      BY <3>1, FiniteAssumption, SumType
    <3> QED
      BY <3>5, <3>6
  <2>5. /\ OwnBalance(d, "UNAPPLIED_CASH", f) \in Int /\ OwnBalance(d, "LOT_LEVY_RECEIVABLE", f) \in Int
        /\ loss \in Int
    BY <1>d, TotalType, BalanceSums
  <2>6. OwedBy(e, f) \in Int
    <3> DEFINE is == [l \in Lots |-> LotBalance(e, l, f)]
    <3>1. \A l \in Lots : is[l] \in Int
      BY <1>1, LotType
    <3>2. OwedBy(e, f) = SumOver(is, Lots)
      BY DEF OwedBy
    <3> HIDE DEF is
    <3> QED
      BY <3>1, <3>2, FiniteAssumption, SumType
  <2> HIDE DEF loss
  <2> QED
    BY <2>1, <2>2, <2>3, <2>4, <2>5, <2>6
<1> QED
  BY <1>1, <1>2, <1>3, <1>4, <1>5, <1>6, <1>7 DEF Sound

\* Sums over receipts and over lots when one summand changes.
LEMMA UnappliedType == ASSUME NEW d \in Tables, NEW r \in DOMAIN d.receipts PROVE Unapplied(d, r) \in Int
  BY AppliedFromSum, RowsOf DEF Unapplied

LEMMA HeldChange ==
  ASSUME NEW d \in Tables, NEW e \in Tables, e.receipts = d.receipts, NEW fund,
         NEW r \in DOMAIN d.receipts, d.receipts[r].status = "RECORDED", NEW x \in Int,
         Unapplied(e, r) = Unapplied(d, r) + x,
         \A q \in DOMAIN d.receipts : q # r => Unapplied(e, q) = Unapplied(d, q)
  PROVE  HeldFor(e, fund) = HeldFor(d, fund) + (IF d.receipts[r].fund = fund THEN x ELSE 0)
<1> DEFINE S == ReceiptsOf(d, "RECORDED", fund)
           was == [q \in DOMAIN d.receipts |-> Unapplied(d, q)]
           is == [q \in DOMAIN d.receipts |-> Unapplied(e, q)]
<1>1. HeldFor(d, fund) = SumOver(was, S) /\ HeldFor(e, fund) = SumOver(is, S)
  <2>1. ReceiptsOf(e, "RECORDED", fund) = S
    BY DEF ReceiptsOf
  <2> QED
    BY <2>1 DEF HeldFor
<1>2. S \in SUBSET DOMAIN d.receipts /\ IsFiniteSet(S) /\ (r \in S <=> d.receipts[r].fund = fund)
  <2>1. S \in SUBSET DOMAIN d.receipts /\ (r \in S <=> d.receipts[r].fund = fund)
    BY DEF ReceiptsOf
  <2> QED
    BY <2>1, FiniteTables, FS_Subset
<1>3. \A q \in DOMAIN d.receipts : was[q] \in Int /\ is[q] \in Int /\ (q # r => is[q] = was[q])
  BY UnappliedType
<1>4. is[r] = was[r] + x
  OBVIOUS
<1> HIDE DEF S, was, is
<1>5. CASE r \in S
  <2>1. (\A q \in S : was[q] \in Int /\ is[q] \in Int) /\ \A q \in S \ {r} : is[q] = was[q]
    BY <1>2, <1>3
  <2>2. SumOver(is, S) = SumOver(was, S) - was[r] + is[r]
    BY <2>1, <1>2, <1>5, SumChange
  <2>3. SumOver(was, S) \in Int
    BY <2>1, <1>2, SumType
  <2> QED
    BY <1>1, <1>2, <1>3, <1>4, <1>5, <2>2, <2>3
<1>6. CASE r \notin S
  <2>1. \A q \in S : was[q] \in Int /\ is[q] = was[q]
    BY <1>2, <1>3, <1>6
  <2>2. SumOver(is, S) = SumOver(was, S) /\ SumOver(was, S) \in Int
    BY <2>1, <1>2, SumCongruent, SumType
  <2> QED
    BY <1>1, <1>2, <1>6, <2>2
<1> QED
  BY <1>5, <1>6

LEMMA HeldType == ASSUME NEW d \in Tables, NEW fund PROVE HeldFor(d, fund) \in Int
<1> DEFINE S == ReceiptsOf(d, "RECORDED", fund)
           was == [q \in DOMAIN d.receipts |-> Unapplied(d, q)]
<1>1. S \in SUBSET DOMAIN d.receipts /\ HeldFor(d, fund) = SumOver(was, S)
  BY DEF ReceiptsOf, HeldFor
<1>2. IsFiniteSet(S) /\ \A q \in S : was[q] \in Int
  BY <1>1, FiniteTables, FS_Subset, UnappliedType
<1> HIDE DEF S, was
<1> QED
  BY <1>1, <1>2, SumType

LEMMA OwedType == ASSUME NEW d \in Tables, NEW fund PROVE OwedBy(d, fund) \in Int
<1> DEFINE was == [l \in Lots |-> LotBalance(d, l, fund)]
<1>1. \A l \in Lots : was[l] \in Int
  BY LotType
<1>2. OwedBy(d, fund) = SumOver(was, Lots)
  BY DEF OwedBy
<1> HIDE DEF was
<1> QED
  BY <1>1, <1>2, FiniteAssumption, SumType

LEMMA OwedChange ==
  ASSUME NEW d \in Tables, NEW e \in Tables, NEW fund, NEW l \in Lots, NEW x \in Int,
         LotBalance(e, l, fund) = LotBalance(d, l, fund) + x,
         \A m \in Lots : m # l => LotBalance(e, m, fund) = LotBalance(d, m, fund)
  PROVE  OwedBy(e, fund) = OwedBy(d, fund) + x
<1> DEFINE was == [m \in Lots |-> LotBalance(d, m, fund)]
           is == [m \in Lots |-> LotBalance(e, m, fund)]
<1>1. /\ \A m \in Lots : was[m] \in Int /\ is[m] \in Int
      /\ \A m \in Lots \ {l} : is[m] = was[m]
  BY LotType
<1>2. OwedBy(d, fund) = SumOver(was, Lots) /\ OwedBy(e, fund) = SumOver(is, Lots)
  BY DEF OwedBy
<1>3. is[l] = was[l] + x
  OBVIOUS
<1> HIDE DEF was, is
<1>4. SumOver(is, Lots) = SumOver(was, Lots) - was[l] + is[l]
  BY <1>1, FiniteAssumption, SumChange
<1>5. SumOver(was, Lots) \in Int
  BY <1>1, FiniteAssumption, SumType
<1> QED
  BY <1>1, <1>2, <1>3, <1>4, <1>5

LEMMA OwedSame ==
  ASSUME NEW d \in Tables, NEW e \in Tables, e.adjustments = d.adjustments, e.receipts = d.receipts,
         \A c \in Charges : (e.charges[c] = "NONE" <=> d.charges[c] = "NONE")
                            /\ (e.charges[c] = "CANCELLED" <=> d.charges[c] = "CANCELLED"),
         NEW fund
  PROVE  OwedBy(e, fund) = OwedBy(d, fund)
<1>1. \A l : Mine(e, l, fund) = Mine(d, l, fund) /\ MineCancelled(e, l, fund) = MineCancelled(d, l, fund)
  BY SameMine
<1>2. Extra(e) = Extra(d) /\ Got(e) = Got(d) /\ \A l : GotFrom(e, l, fund) = GotFrom(d, l, fund)
  BY SameExtra, SameGot
<1>3. \A l : LotBalance(e, l, fund) = LotBalance(d, l, fund)
  BY <1>1, <1>2, LotParts, Zenon
<1> QED
  BY <1>3 DEF OwedBy

\* applyAllocationWithinTransaction.
AllocateStep(d, e, r, c, n, j) ==
  /\ e \in Tables /\ Appends(d, e, j)
  /\ j.type = "PAYMENT_ALLOCATION" /\ j.of = 0 /\ j.fund = FundOf[c[1]] /\ j.amount = n
  /\ j.dr = "UNAPPLIED_CASH" /\ j.cr = "LOT_LEVY_RECEIVABLE"
  /\ r \in DOMAIN d.receipts /\ d.receipts[r].status = "RECORDED" /\ d.receipts[r].fund = FundOf[c[1]]
  /\ c \in Charges /\ n \in Int /\ n > 0 /\ n <= Unapplied(d, r)
  /\ d.charges[c] \notin {"NONE", "CANCELLED"} /\ e.charges[c] \notin {"NONE", "CANCELLED"}
  /\ \A x \in Charges : x # c => e.charges[x] = d.charges[x]
  /\ DOMAIN e.allocations = DOMAIN d.allocations \cup {Len(d.allocations) + 1}
  /\ Len(d.allocations) + 1 \notin DOMAIN d.allocations
  /\ \A a \in DOMAIN d.allocations : e.allocations[a] = d.allocations[a]
  /\ e.allocations[Len(d.allocations) + 1].receipt = r
  /\ e.allocations[Len(d.allocations) + 1].charge = c
  /\ e.allocations[Len(d.allocations) + 1].amount = n
  /\ e.allocations[Len(d.allocations) + 1].status = "APPLIED"
  /\ e.allocations[Len(d.allocations) + 1].journal = Len(d.journals) + 1
  /\ e.instalments = d.instalments /\ e.adjustments = d.adjustments /\ e.receipts = d.receipts

LEMMA AllocateTakes ==
  ASSUME NEW d \in Tables, NEW e, NEW r, NEW c, NEW n, NEW j, AllocateStep(d, e, r, c, n, j)
  PROVE  \A q : AppliedFrom(e, q) = AppliedFrom(d, q) + (IF q = r THEN n ELSE 0)
<1> DEFINE m == Len(d.allocations) + 1
<1>1. /\ e \in Tables /\ n \in Int /\ DOMAIN e.allocations = DOMAIN d.allocations \cup {m}
      /\ m \notin DOMAIN d.allocations
      /\ \A a \in DOMAIN d.allocations : e.allocations[a] = d.allocations[a]
      /\ e.allocations[m].receipt = r /\ e.allocations[m].amount = n /\ e.allocations[m].status = "APPLIED"
  BY DEF AllocateStep
<1> HIDE DEF m
<1> SUFFICES ASSUME NEW q PROVE AppliedFrom(e, q) = AppliedFrom(d, q) + (IF q = r THEN n ELSE 0)
  OBVIOUS
<1>2. /\ \A a \in DOMAIN d.allocations : WorthOf(d)[a] \in Int /\ WorthOf(e)[a] = WorthOf(d)[a]
      /\ WorthOf(e)[m] = n
  <2>1. \A a \in DOMAIN d.allocations : d.allocations[a].amount \in Int
    BY RowsOf
  <2> QED
    BY <1>1, <2>1 DEF WorthOf
<1>3. /\ TakenFrom(d, q) \in SUBSET DOMAIN d.allocations /\ IsFiniteSet(TakenFrom(d, q))
      /\ m \notin TakenFrom(d, q)
  <2>1. TakenFrom(d, q) \in SUBSET DOMAIN d.allocations
    BY DEF TakenFrom
  <2> QED
    BY <2>1, <1>1, FiniteTables, FS_Subset
<1>4. SumOver(WorthOf(e), TakenFrom(d, q)) = SumOver(WorthOf(d), TakenFrom(d, q))
  <2>1. \A a \in TakenFrom(d, q) : WorthOf(d)[a] \in Int /\ WorthOf(e)[a] = WorthOf(d)[a]
    BY <1>2, <1>3
  <2> QED
    BY <2>1, <1>3, SumCongruent
<1>5. SumOver(WorthOf(e), TakenFrom(d, q) \cup {m}) = SumOver(WorthOf(e), TakenFrom(d, q)) + WorthOf(e)[m]
  <2>1. \A a \in TakenFrom(d, q) \cup {m} : WorthOf(e)[a] \in Int
    BY <1>1, <1>2, <1>3
  <2> QED
    BY <2>1, <1>3, SumAdd, Zenon
<1>6. /\ AppliedFrom(e, q) = SumOver(WorthOf(e), TakenFrom(e, q))
      /\ AppliedFrom(d, q) = SumOver(WorthOf(d), TakenFrom(d, q)) /\ AppliedFrom(d, q) \in Int
  BY <1>1, AppliedFromSum
<1>7. CASE q = r
  <2>1. TakenFrom(e, q) = TakenFrom(d, q) \cup {m}
    BY <1>1, <1>7 DEF TakenFrom
  <2>2. AppliedFrom(e, q) = SumOver(WorthOf(e), TakenFrom(d, q) \cup {m})
    BY <2>1, <1>6, Zenon
  <2> QED
    BY <2>2, <1>1, <1>2, <1>4, <1>5, <1>6, <1>7
<1>8. CASE q # r
  <2>1. TakenFrom(e, q) = TakenFrom(d, q)
    BY <1>1, <1>8 DEF TakenFrom
  <2>2. AppliedFrom(e, q) = AppliedFrom(d, q)
    BY <2>1, <1>4, <1>6, Zenon
  <2> QED
    BY <2>2, <1>6, <1>8
<1> QED
  BY <1>7, <1>8

LEMMA AllocateSound ==
  ASSUME NEW d, Sound(d), NEW e, NEW r, NEW c, NEW n, NEW j, AllocateStep(d, e, r, c, n, j)
  PROVE  Sound(e)
<1> DEFINE m == Len(d.allocations) + 1
<1>d. /\ d \in Tables /\ JournalsSound(d) /\ RowsSound(d) /\ LinesSound(d)
      /\ LinksSound(d) /\ CoverSound(d) /\ TieSound(d)
  BY DEF Sound
<1>1. e \in Tables
  BY DEF AllocateStep
<1>j. /\ j.type = "PAYMENT_ALLOCATION" /\ j.of = 0 /\ j.fund = FundOf[c[1]] /\ j.amount = n
      /\ j.dr = "UNAPPLIED_CASH" /\ j.cr = "LOT_LEVY_RECEIVABLE"
  BY DEF AllocateStep
<1>f. e.instalments = d.instalments /\ e.adjustments = d.adjustments /\ e.receipts = d.receipts
  BY DEF AllocateStep
<1>r. /\ r \in DOMAIN d.receipts /\ d.receipts[r].status = "RECORDED" /\ d.receipts[r].fund = FundOf[c[1]]
      /\ c \in Charges /\ n \in Int /\ n > 0 /\ n <= Unapplied(d, r)
  BY DEF AllocateStep
<1>c. /\ d.charges[c] \notin {"NONE", "CANCELLED"} /\ e.charges[c] \notin {"NONE", "CANCELLED"}
      /\ \A x \in Charges : x # c => e.charges[x] = d.charges[x]
  BY DEF AllocateStep
<1>m. /\ DOMAIN e.allocations = DOMAIN d.allocations \cup {m} /\ m \notin DOMAIN d.allocations
      /\ \A a \in DOMAIN d.allocations : e.allocations[a] = d.allocations[a]
      /\ e.allocations[m].receipt = r /\ e.allocations[m].charge = c /\ e.allocations[m].amount = n
      /\ e.allocations[m].status = "APPLIED" /\ e.allocations[m].journal = Len(d.journals) + 1
  BY DEF AllocateStep
<1> HIDE DEF m
<1>a. Appends(d, e, j)
  BY DEF AllocateStep
<1>g. Grown(d, e, j)
  BY <1>a, <1>d, Appended
<1>2. JournalsSound(e)
  BY <1>a, <1>d, JournalsStaySound
<1>s. IssuedOnce(e) = IssuedOnce(d)
  BY <1>f DEF IssuedOnce
<1>3. RowsSound(e)
  <2>1. /\ ReversedIn(e.allocations, DOMAIN e.allocations) = ReversedIn(d.allocations, DOMAIN d.allocations)
        /\ m \notin ReversedIn(d.allocations, DOMAIN d.allocations)
    BY <1>m DEF ReversedIn
  <2>2. Follows(e, e.allocations, DOMAIN d.allocations \cup {m},
                ReversedIn(d.allocations, DOMAIN d.allocations), "PAYMENT_ALLOCATION")
    <3>1. Follows(d, d.allocations, DOMAIN d.allocations,
                  ReversedIn(d.allocations, DOMAIN d.allocations), "PAYMENT_ALLOCATION")
      BY <1>d DEF RowsSound
    <3>2. JournalsSound(d) /\ j.type = "PAYMENT_ALLOCATION" /\ j.of = 0 /\ m \notin DOMAIN d.allocations
      BY <1>d, <1>j, <1>m
    <3>3. /\ e.allocations[m].journal = Len(d.journals) + 1
          /\ \A a \in DOMAIN d.allocations : e.allocations[a].journal = d.allocations[a].journal
      BY <1>m
    <3> QED
      BY <3>1, <3>2, <3>3, <1>a, <2>1, FollowsNew, Zenon
  <2>5. /\ Follows(e, d.instalments, IssuedOnce(d), ReversedIn(d.instalments, Instalments), "LEVY")
        /\ Follows(e, d.receipts, DOMAIN d.receipts, ReversedIn(d.receipts, DOMAIN d.receipts), "RECEIPT")
        /\ Follows(e, d.adjustments, DOMAIN d.adjustments, {}, "LEVY_ADJUSTMENT")
    BY <1>d, <1>a, <1>j, FollowsOther DEF RowsSound
  <2> QED
    BY <1>f, <1>s, <1>m, <2>1, <2>2, <2>5, Zenon DEF RowsSound
<1>4. LinesSound(e)
  <2>1. \A x \in IssuedOnce(d) :
          Line(e, d.instalments[x].journal, "LOT_LEVY_RECEIVABLE", "LEVY_INCOME", FundOf[x], InstalmentTotal(x))
    BY <1>d, <1>g, LineStays DEF LinesSound
  <2>2. \A q \in DOMAIN d.receipts :
          Line(e, d.receipts[q].journal, "FUND_CASH", "UNAPPLIED_CASH", d.receipts[q].fund, d.receipts[q].amount)
    BY <1>d, <1>g, LineStays DEF LinesSound
  <2>3. \A a \in DOMAIN d.allocations :
          Line(e, d.allocations[a].journal, "UNAPPLIED_CASH", "LOT_LEVY_RECEIVABLE",
               FundOf[d.allocations[a].charge[1]], d.allocations[a].amount)
    BY <1>d, <1>g, LineStays DEF LinesSound
  <2>4. Line(e, e.allocations[m].journal, "UNAPPLIED_CASH", "LOT_LEVY_RECEIVABLE",
             FundOf[e.allocations[m].charge[1]], e.allocations[m].amount)
    BY <1>m, <1>g, <1>j DEF Grown, Line
  <2>5. \A a \in DOMAIN e.allocations :
          Line(e, e.allocations[a].journal, "UNAPPLIED_CASH", "LOT_LEVY_RECEIVABLE",
               FundOf[e.allocations[a].charge[1]], e.allocations[a].amount)
    BY <1>m, <2>3, <2>4
  <2> QED
    BY <1>f, <1>s, <2>1, <2>2, <2>5, Zenon DEF LinesSound
<1>e. \A x \in Charges : (e.charges[x] = "NONE" <=> d.charges[x] = "NONE")
                         /\ (e.charges[x] = "CANCELLED" <=> d.charges[x] = "CANCELLED")
  BY <1>c
<1>5. LinksSound(e)
  <2>1. \A x \in Charges :
          /\ e.charges[x] = "NONE" <=> e.instalments[x[1]].status = "PENDING" \/ ShareOf[x] = 0
          /\ e.charges[x] = "CANCELLED" <=> e.instalments[x[1]].status = "REVERSED" /\ ShareOf[x] > 0
    BY <1>d, <1>e, <1>f DEF LinksSound
  <2>2. /\ \A a \in DOMAIN d.allocations : d.allocations[a].charge \in Charges
        /\ \A a \in DOMAIN d.adjustments : d.adjustments[a].charge \in Charges
    BY <1>d, RowsOf
  <2>3. \A a \in DOMAIN d.allocations :
          /\ d.allocations[a].amount > 0
          /\ d.allocations[a].receipt \in DOMAIN d.receipts
          /\ d.receipts[d.allocations[a].receipt].fund = FundOf[d.allocations[a].charge[1]]
          /\ e.charges[d.allocations[a].charge] # "NONE"
    BY <1>d, <1>e, <2>2 DEF LinksSound
  <2>4. \A a \in DOMAIN e.allocations :
          /\ e.allocations[a].amount > 0
          /\ e.allocations[a].receipt \in DOMAIN e.receipts
          /\ e.receipts[e.allocations[a].receipt].fund = FundOf[e.allocations[a].charge[1]]
          /\ e.charges[e.allocations[a].charge] # "NONE"
    <3> SUFFICES ASSUME NEW a \in DOMAIN e.allocations
                 PROVE  /\ e.allocations[a].amount > 0
                        /\ e.allocations[a].receipt \in DOMAIN e.receipts
                        /\ e.receipts[e.allocations[a].receipt].fund = FundOf[e.allocations[a].charge[1]]
                        /\ e.charges[e.allocations[a].charge] # "NONE"
      OBVIOUS
    <3>1. CASE a = m
      BY <3>1, <1>m, <1>r, <1>c, <1>f
    <3>2. CASE a \in DOMAIN d.allocations
      BY <3>2, <1>m, <1>f, <2>3
    <3> QED
      BY <3>1, <3>2, <1>m
  <2>5. \A a \in DOMAIN e.adjustments : e.charges[e.adjustments[a].charge] # "NONE"
    BY <1>d, <1>f, <1>e, <2>2 DEF LinksSound
  <2> QED
    BY <2>1, <2>4, <2>5 DEF LinksSound
<1>t. \A q : AppliedFrom(e, q) = AppliedFrom(d, q) + (IF q = r THEN n ELSE 0)
  BY <1>d, AllocateTakes
<1>u. \A q \in DOMAIN d.receipts : AppliedFrom(d, q) \in Int /\ d.receipts[q].amount \in Int
  BY <1>d, AppliedFromSum, RowsOf
<1>6. CoverSound(e)
  <2>1. \A q \in DOMAIN e.receipts : AppliedFrom(e, q) <= e.receipts[q].amount
    <3> SUFFICES ASSUME NEW q \in DOMAIN d.receipts PROVE AppliedFrom(e, q) <= d.receipts[q].amount
      BY <1>f
    <3>1. AppliedFrom(d, q) <= d.receipts[q].amount
      BY <1>d DEF CoverSound
    <3>2. n <= d.receipts[r].amount - AppliedFrom(d, r)
      BY <1>r DEF Unapplied
    <3> QED
      BY <3>1, <3>2, <1>t, <1>u, <1>r
  <2>2. \A a \in DOMAIN e.allocations :
          e.allocations[a].status = "APPLIED" => e.receipts[e.allocations[a].receipt].status # "REVERSED"
    <3>1. \A a \in DOMAIN d.allocations :
            d.allocations[a].status = "APPLIED" => d.receipts[d.allocations[a].receipt].status # "REVERSED"
      BY <1>d DEF CoverSound
    <3> QED
      BY <3>1, <1>m, <1>f, <1>r
  <2> QED
    BY <2>1, <2>2 DEF CoverSound
<1>7. TieSound(e)
  <2> SUFFICES ASSUME NEW f \in Funds
               PROVE  /\ -OwnBalance(e, "UNAPPLIED_CASH", f) = HeldFor(e, f)
                      /\ OwedBy(e, f) = OwnBalance(e, "LOT_LEVY_RECEIVABLE", f) + OwnBalance(e, "UNAPPLIED_CASH", f)
    BY DEF TieSound
  <2>1. /\ -OwnBalance(d, "UNAPPLIED_CASH", f) = HeldFor(d, f)
        /\ OwedBy(d, f) = OwnBalance(d, "LOT_LEVY_RECEIVABLE", f) + OwnBalance(d, "UNAPPLIED_CASH", f)
    BY <1>d DEF TieSound
  <2> DEFINE x == IF FundOf[c[1]] = f THEN n ELSE 0
  <2>2. /\ OwnBalance(e, "UNAPPLIED_CASH", f) = OwnBalance(d, "UNAPPLIED_CASH", f) + x
        /\ OwnBalance(e, "LOT_LEVY_RECEIVABLE", f) = OwnBalance(d, "LOT_LEVY_RECEIVABLE", f) + (0 - x)
    <3>1. /\ Moves(j, "UNAPPLIED_CASH", f) = x
          /\ Moves(j, "LOT_LEVY_RECEIVABLE", f) = 0 - x
      BY <1>j, <1>r DEF Moves
    <3>2. \A acc \in {"UNAPPLIED_CASH", "LOT_LEVY_RECEIVABLE"} :
            OwnBalance(e, acc, f) = OwnBalance(d, acc, f) + Moves(j, acc, f)
      BY <1>d, <1>1, <1>a, <1>j, BalanceMoves
    <3> QED
      BY <3>1, <3>2
  <2>3. HeldFor(e, f) = HeldFor(d, f) + (0 - x)
    <3>1. /\ Unapplied(e, r) = Unapplied(d, r) + (0 - n)
          /\ \A q \in DOMAIN d.receipts : q # r => Unapplied(e, q) = Unapplied(d, q)
      BY <1>f, <1>t, <1>u, <1>r DEF Unapplied
    <3>2. HeldFor(e, f) = HeldFor(d, f) + (IF d.receipts[r].fund = f THEN (0 - n) ELSE 0)
      <4>1. 0 - n \in Int
        BY <1>r
      <4> QED
        BY <3>1, <4>1, <1>d, <1>1, <1>f, <1>r, HeldChange
    <3>3. HeldFor(d, f) \in Int
      BY <1>d, HeldType
    <3> QED
      BY <3>2, <3>3, <1>r
  <2>4. OwedBy(e, f) = OwedBy(d, f)
    BY <1>d, <1>1, <1>f, <1>e, OwedSame
  <2>5. /\ OwnBalance(d, "UNAPPLIED_CASH", f) \in Int /\ OwnBalance(d, "LOT_LEVY_RECEIVABLE", f) \in Int
        /\ x \in Int /\ HeldFor(d, f) \in Int
    BY <1>d, <1>r, BalanceSums, HeldType
  <2> HIDE DEF x
  <2> QED
    BY <2>1, <2>2, <2>3, <2>4, <2>5
<1> QED
  BY <1>1, <1>2, <1>3, <1>4, <1>5, <1>6, <1>7 DEF Sound

\* reverseAllocation: the charge is owed again, unless it was cancelled.
ReverseAllocationStep(d, e, a, j) ==
  /\ e \in Tables /\ Appends(d, e, j)
  /\ a \in DOMAIN d.allocations
  /\ j.type = "REVERSAL" /\ j.of = d.allocations[a].journal /\ j.of # 0
  /\ j.fund = FundOf[d.allocations[a].charge[1]] /\ j.amount = d.allocations[a].amount
  /\ j.dr = "LOT_LEVY_RECEIVABLE" /\ j.cr = "UNAPPLIED_CASH"
  /\ d.allocations[a].status = "APPLIED"
  /\ DOMAIN e.allocations = DOMAIN d.allocations
  /\ \A x \in DOMAIN d.allocations :
       /\ e.allocations[x].receipt = d.allocations[x].receipt
       /\ e.allocations[x].charge = d.allocations[x].charge
       /\ e.allocations[x].amount = d.allocations[x].amount
       /\ e.allocations[x].journal = d.allocations[x].journal
       /\ e.allocations[x].status = IF x = a THEN "REVERSED" ELSE d.allocations[x].status
  /\ \A x \in Charges : (e.charges[x] = "NONE" <=> d.charges[x] = "NONE")
                         /\ (e.charges[x] = "CANCELLED" <=> d.charges[x] = "CANCELLED")
  /\ e.instalments = d.instalments /\ e.adjustments = d.adjustments /\ e.receipts = d.receipts

LEMMA ReverseAllocationSound ==
  ASSUME NEW d, Sound(d), NEW e, NEW a, NEW j, ReverseAllocationStep(d, e, a, j)
  PROVE  Sound(e)
<1>d. /\ d \in Tables /\ JournalsSound(d) /\ RowsSound(d) /\ LinesSound(d)
      /\ LinksSound(d) /\ CoverSound(d) /\ TieSound(d)
  BY DEF Sound
<1>1. e \in Tables
  BY DEF ReverseAllocationStep
<1>j. /\ j.type = "REVERSAL" /\ j.of = d.allocations[a].journal /\ j.of # 0
      /\ j.fund = FundOf[d.allocations[a].charge[1]] /\ j.amount = d.allocations[a].amount
      /\ j.dr = "LOT_LEVY_RECEIVABLE" /\ j.cr = "UNAPPLIED_CASH"
      /\ a \in DOMAIN d.allocations /\ d.allocations[a].status = "APPLIED"
  BY DEF ReverseAllocationStep
<1>f. e.instalments = d.instalments /\ e.adjustments = d.adjustments /\ e.receipts = d.receipts
  BY DEF ReverseAllocationStep
<1>e. \A x \in Charges : (e.charges[x] = "NONE" <=> d.charges[x] = "NONE")
                         /\ (e.charges[x] = "CANCELLED" <=> d.charges[x] = "CANCELLED")
  BY DEF ReverseAllocationStep
<1>m. /\ DOMAIN e.allocations = DOMAIN d.allocations
      /\ \A x \in DOMAIN d.allocations :
           /\ e.allocations[x].receipt = d.allocations[x].receipt
           /\ e.allocations[x].charge = d.allocations[x].charge
           /\ e.allocations[x].amount = d.allocations[x].amount
           /\ e.allocations[x].journal = d.allocations[x].journal
           /\ e.allocations[x].status = IF x = a THEN "REVERSED" ELSE d.allocations[x].status
  BY DEF ReverseAllocationStep
<1>a. Appends(d, e, j)
  BY DEF ReverseAllocationStep
<1>g. Grown(d, e, j)
  BY <1>a, <1>d, Appended
<1>2. JournalsSound(e)
  BY <1>a, <1>d, JournalsStaySound
<1>s. IssuedOnce(e) = IssuedOnce(d)
  BY <1>f DEF IssuedOnce
<1>o. d.journals[j.of].type = "PAYMENT_ALLOCATION"
  BY <1>d, <1>j DEF RowsSound, Follows
<1>3. RowsSound(e)
  <2>1. ReversedIn(e.allocations, DOMAIN e.allocations) = ReversedIn(d.allocations, DOMAIN d.allocations) \cup {a}
    BY <1>m, <1>j DEF ReversedIn
  <2>2. Follows(e, e.allocations, DOMAIN d.allocations,
                ReversedIn(d.allocations, DOMAIN d.allocations) \cup {a}, "PAYMENT_ALLOCATION")
    <3>1. Follows(d, d.allocations, DOMAIN d.allocations,
                  ReversedIn(d.allocations, DOMAIN d.allocations), "PAYMENT_ALLOCATION")
      BY <1>d DEF RowsSound
    <3>2. /\ JournalsSound(d) /\ j.type = "REVERSAL" /\ j.of = d.allocations[a].journal
          /\ a \in DOMAIN d.allocations /\ "PAYMENT_ALLOCATION" # "REVERSAL"
      BY <1>d, <1>j
    <3>3. \A x \in DOMAIN d.allocations : e.allocations[x].journal = d.allocations[x].journal
      BY <1>m
    <3> QED
      BY <3>1, <3>2, <3>3, <1>a, FollowsReversal, Zenon
  <2>5. /\ Follows(e, d.instalments, IssuedOnce(d), ReversedIn(d.instalments, Instalments), "LEVY")
        /\ Follows(e, d.receipts, DOMAIN d.receipts, ReversedIn(d.receipts, DOMAIN d.receipts), "RECEIPT")
        /\ Follows(e, d.adjustments, DOMAIN d.adjustments, {}, "LEVY_ADJUSTMENT")
    BY <1>d, <1>a, <1>j, <1>o, FollowsOther DEF RowsSound
  <2> QED
    BY <1>f, <1>s, <1>m, <2>1, <2>2, <2>5, Zenon DEF RowsSound
<1>4. LinesSound(e)
  <2>1. \A x \in IssuedOnce(d) :
          Line(e, d.instalments[x].journal, "LOT_LEVY_RECEIVABLE", "LEVY_INCOME", FundOf[x], InstalmentTotal(x))
    BY <1>d, <1>g, LineStays DEF LinesSound
  <2>2. \A q \in DOMAIN d.receipts :
          Line(e, d.receipts[q].journal, "FUND_CASH", "UNAPPLIED_CASH", d.receipts[q].fund, d.receipts[q].amount)
    BY <1>d, <1>g, LineStays DEF LinesSound
  <2>3. \A x \in DOMAIN d.allocations :
          Line(e, d.allocations[x].journal, "UNAPPLIED_CASH", "LOT_LEVY_RECEIVABLE",
               FundOf[d.allocations[x].charge[1]], d.allocations[x].amount)
    BY <1>d, <1>g, LineStays DEF LinesSound
  <2>4. \A x \in DOMAIN e.allocations :
          Line(e, e.allocations[x].journal, "UNAPPLIED_CASH", "LOT_LEVY_RECEIVABLE",
               FundOf[e.allocations[x].charge[1]], e.allocations[x].amount)
    BY <1>m, <2>3
  <2> QED
    BY <1>f, <1>s, <2>1, <2>2, <2>4, Zenon DEF LinesSound
<1>5. LinksSound(e)
  <2>1. \A x \in Charges :
          /\ e.charges[x] = "NONE" <=> e.instalments[x[1]].status = "PENDING" \/ ShareOf[x] = 0
          /\ e.charges[x] = "CANCELLED" <=> e.instalments[x[1]].status = "REVERSED" /\ ShareOf[x] > 0
    BY <1>d, <1>e, <1>f DEF LinksSound
  <2>2. /\ \A x \in DOMAIN d.allocations : d.allocations[x].charge \in Charges
        /\ \A x \in DOMAIN d.adjustments : d.adjustments[x].charge \in Charges
    BY <1>d, RowsOf
  <2>3. \A x \in DOMAIN e.allocations :
          /\ e.allocations[x].amount > 0
          /\ e.allocations[x].receipt \in DOMAIN e.receipts
          /\ e.receipts[e.allocations[x].receipt].fund = FundOf[e.allocations[x].charge[1]]
          /\ e.charges[e.allocations[x].charge] # "NONE"
    BY <1>d, <1>e, <1>m, <1>f, <2>2 DEF LinksSound
  <2>5. \A x \in DOMAIN e.adjustments : e.charges[e.adjustments[x].charge] # "NONE"
    BY <1>d, <1>f, <1>e, <2>2 DEF LinksSound
  <2> QED
    BY <2>1, <2>3, <2>5 DEF LinksSound
<1>w. /\ d.allocations[a].amount \in Int /\ d.allocations[a].amount > 0
      /\ d.allocations[a].receipt \in DOMAIN d.receipts
      /\ d.receipts[d.allocations[a].receipt].fund = FundOf[d.allocations[a].charge[1]]
      /\ d.receipts[d.allocations[a].receipt].status = "RECORDED"
  BY <1>d, <1>j, RowsOf DEF LinksSound, CoverSound
<1>t. \A q : AppliedFrom(e, q) = AppliedFrom(d, q)
                                 + (IF q = d.allocations[a].receipt THEN 0 - d.allocations[a].amount ELSE 0)
  <2> SUFFICES ASSUME NEW q
               PROVE  AppliedFrom(e, q) = AppliedFrom(d, q)
                        + (IF q = d.allocations[a].receipt THEN 0 - d.allocations[a].amount ELSE 0)
    OBVIOUS
  <2>1. WorthOf(e) = WorthOf(d)
    BY <1>m DEF WorthOf
  <2>2. TakenFrom(e, q) = TakenFrom(d, q) \ {a} /\ (a \in TakenFrom(d, q) <=> q = d.allocations[a].receipt)
    BY <1>m, <1>j DEF TakenFrom
  <2>3. /\ AppliedFrom(e, q) = SumOver(WorthOf(e), TakenFrom(e, q))
        /\ AppliedFrom(d, q) = SumOver(WorthOf(d), TakenFrom(d, q)) /\ AppliedFrom(d, q) \in Int
    BY <1>d, <1>1, AppliedFromSum
  <2>4. AppliedFrom(e, q) = SumOver(WorthOf(d), TakenFrom(d, q) \ {a})
    BY <2>1, <2>2, <2>3, Zenon
  <2>5. /\ IsFiniteSet(TakenFrom(d, q)) /\ \A x \in TakenFrom(d, q) : WorthOf(d)[x] \in Int
        /\ WorthOf(d)[a] = d.allocations[a].amount
        /\ IsFiniteSet(TakenFrom(d, q) \ {a})
    <3>1. TakenFrom(d, q) \in SUBSET DOMAIN d.allocations
      BY DEF TakenFrom
    <3>2. \A x \in DOMAIN d.allocations : WorthOf(d)[x] = d.allocations[x].amount /\ WorthOf(d)[x] \in Int
      BY <1>d, RowsOf DEF WorthOf
    <3>3. IsFiniteSet(TakenFrom(d, q))
      BY <3>1, <1>d, FiniteTables, FS_Subset
    <3> QED
      BY <3>1, <3>2, <3>3, <1>j, FS_Subset
  <2>6. SumOver(WorthOf(d), TakenFrom(d, q) \ {a}) \in Int
    BY <2>5, SumType
  <2>7. CASE q = d.allocations[a].receipt
    <3>1. SumOver(WorthOf(d), TakenFrom(d, q)) = SumOver(WorthOf(d), TakenFrom(d, q) \ {a}) + WorthOf(d)[a]
      BY <2>2, <2>5, <2>7, SumRemove
    <3> QED
      BY <3>1, <2>3, <2>4, <2>5, <2>6, <2>7, <1>w
  <2>8. CASE q # d.allocations[a].receipt
    <3>1. TakenFrom(d, q) \ {a} = TakenFrom(d, q)
      BY <2>2, <2>8
    <3>2. AppliedFrom(e, q) = AppliedFrom(d, q)
      BY <3>1, <2>3, <2>4, Zenon
    <3> QED
      BY <3>2, <2>3, <2>8
  <2> QED
    BY <2>7, <2>8
<1>u. \A q \in DOMAIN d.receipts : AppliedFrom(d, q) \in Int /\ d.receipts[q].amount \in Int
  BY <1>d, AppliedFromSum, RowsOf
<1>6. CoverSound(e)
  <2>1. \A q \in DOMAIN e.receipts : AppliedFrom(e, q) <= e.receipts[q].amount
    <3> SUFFICES ASSUME NEW q \in DOMAIN d.receipts PROVE AppliedFrom(e, q) <= d.receipts[q].amount
      BY <1>f
    <3>1. AppliedFrom(d, q) <= d.receipts[q].amount
      BY <1>d DEF CoverSound
    <3> QED
      BY <3>1, <1>t, <1>u, <1>w
  <2>2. \A x \in DOMAIN e.allocations :
          e.allocations[x].status = "APPLIED" => e.receipts[e.allocations[x].receipt].status # "REVERSED"
    <3>1. \A x \in DOMAIN d.allocations :
            d.allocations[x].status = "APPLIED" => d.receipts[d.allocations[x].receipt].status # "REVERSED"
      BY <1>d DEF CoverSound
    <3> QED
      BY <3>1, <1>m, <1>f
  <2> QED
    BY <2>1, <2>2 DEF CoverSound
<1>7. TieSound(e)
  <2> SUFFICES ASSUME NEW f \in Funds
               PROVE  /\ -OwnBalance(e, "UNAPPLIED_CASH", f) = HeldFor(e, f)
                      /\ OwedBy(e, f) = OwnBalance(e, "LOT_LEVY_RECEIVABLE", f) + OwnBalance(e, "UNAPPLIED_CASH", f)
    BY DEF TieSound
  <2>1. /\ -OwnBalance(d, "UNAPPLIED_CASH", f) = HeldFor(d, f)
        /\ OwedBy(d, f) = OwnBalance(d, "LOT_LEVY_RECEIVABLE", f) + OwnBalance(d, "UNAPPLIED_CASH", f)
    BY <1>d DEF TieSound
  <2> DEFINE n == d.allocations[a].amount
             r == d.allocations[a].receipt
             x == IF j.fund = f THEN n ELSE 0
  <2>2. /\ OwnBalance(e, "UNAPPLIED_CASH", f) = OwnBalance(d, "UNAPPLIED_CASH", f) + (0 - x)
        /\ OwnBalance(e, "LOT_LEVY_RECEIVABLE", f) = OwnBalance(d, "LOT_LEVY_RECEIVABLE", f) + x
    <3>1. /\ Moves(j, "UNAPPLIED_CASH", f) = 0 - x
          /\ Moves(j, "LOT_LEVY_RECEIVABLE", f) = x
      BY <1>j, <1>w DEF Moves
    <3>2. \A acc \in {"UNAPPLIED_CASH", "LOT_LEVY_RECEIVABLE"} :
            OwnBalance(e, acc, f) = OwnBalance(d, acc, f) + Moves(j, acc, f)
      BY <1>d, <1>1, <1>a, <1>j, <1>o, BalanceMoves
    <3> QED
      BY <3>1, <3>2
  <2>3. HeldFor(e, f) = HeldFor(d, f) + x
    <3>1. /\ Unapplied(e, r) = Unapplied(d, r) + n
          /\ \A q \in DOMAIN d.receipts : q # r => Unapplied(e, q) = Unapplied(d, q)
      BY <1>f, <1>t, <1>u, <1>w DEF Unapplied
    <3>2. HeldFor(e, f) = HeldFor(d, f) + (IF d.receipts[r].fund = f THEN n ELSE 0)
      BY <3>1, <1>d, <1>1, <1>f, <1>w, HeldChange
    <3> QED
      BY <3>2, <1>w, <1>j
  <2>4. OwedBy(e, f) = OwedBy(d, f)
    BY <1>d, <1>1, <1>f, <1>e, OwedSame
  <2>5. /\ OwnBalance(d, "UNAPPLIED_CASH", f) \in Int /\ OwnBalance(d, "LOT_LEVY_RECEIVABLE", f) \in Int
        /\ x \in Int /\ HeldFor(d, f) \in Int
    BY <1>d, <1>w, BalanceSums, HeldType
  <2> HIDE DEF x
  <2> QED
    BY <2>1, <2>2, <2>3, <2>4, <2>5
<1> QED
  BY <1>1, <1>2, <1>3, <1>4, <1>5, <1>6, <1>7 DEF Sound

\* reverseReceipt: nothing of the receipt is applied any more.
ReverseReceiptStep(d, e, r, j) ==
  /\ e \in Tables /\ Appends(d, e, j)
  /\ r \in DOMAIN d.receipts
  /\ j.type = "REVERSAL" /\ j.of = d.receipts[r].journal /\ j.of # 0
  /\ j.fund = d.receipts[r].fund /\ j.amount = d.receipts[r].amount
  /\ j.dr = "UNAPPLIED_CASH" /\ j.cr = "FUND_CASH"
  /\ d.receipts[r].status = "RECORDED"
  /\ \A a \in DOMAIN d.allocations : d.allocations[a].receipt = r => d.allocations[a].status # "APPLIED"
  /\ DOMAIN e.receipts = DOMAIN d.receipts
  /\ \A q \in DOMAIN d.receipts :
       /\ e.receipts[q].lot = d.receipts[q].lot
       /\ e.receipts[q].fund = d.receipts[q].fund
       /\ e.receipts[q].amount = d.receipts[q].amount
       /\ e.receipts[q].journal = d.receipts[q].journal
       /\ e.receipts[q].status = IF q = r THEN "REVERSED" ELSE d.receipts[q].status
  /\ e.instalments = d.instalments /\ e.charges = d.charges
  /\ e.adjustments = d.adjustments /\ e.allocations = d.allocations

LEMMA ReverseReceiptSound ==
  ASSUME NEW d, Sound(d), NEW e, NEW r, NEW j, ReverseReceiptStep(d, e, r, j)
  PROVE  Sound(e)
<1>d. /\ d \in Tables /\ JournalsSound(d) /\ RowsSound(d) /\ LinesSound(d)
      /\ LinksSound(d) /\ CoverSound(d) /\ TieSound(d)
  BY DEF Sound
<1>1. e \in Tables
  BY DEF ReverseReceiptStep
<1>j. /\ j.type = "REVERSAL" /\ j.of = d.receipts[r].journal /\ j.of # 0
      /\ j.fund = d.receipts[r].fund /\ j.amount = d.receipts[r].amount
      /\ j.dr = "UNAPPLIED_CASH" /\ j.cr = "FUND_CASH"
      /\ r \in DOMAIN d.receipts /\ d.receipts[r].status = "RECORDED"
      /\ \A a \in DOMAIN d.allocations : d.allocations[a].receipt = r => d.allocations[a].status # "APPLIED"
  BY DEF ReverseReceiptStep
<1>f. /\ e.instalments = d.instalments /\ e.charges = d.charges
      /\ e.adjustments = d.adjustments /\ e.allocations = d.allocations
  BY DEF ReverseReceiptStep
<1>m. /\ DOMAIN e.receipts = DOMAIN d.receipts
      /\ \A q \in DOMAIN d.receipts :
           /\ e.receipts[q].lot = d.receipts[q].lot
           /\ e.receipts[q].fund = d.receipts[q].fund
           /\ e.receipts[q].amount = d.receipts[q].amount
           /\ e.receipts[q].journal = d.receipts[q].journal
           /\ e.receipts[q].status = IF q = r THEN "REVERSED" ELSE d.receipts[q].status
  BY DEF ReverseReceiptStep
<1>a. Appends(d, e, j)
  BY DEF ReverseReceiptStep
<1>g. Grown(d, e, j)
  BY <1>a, <1>d, Appended
<1>2. JournalsSound(e)
  BY <1>a, <1>d, JournalsStaySound
<1>s. IssuedOnce(e) = IssuedOnce(d)
  BY <1>f DEF IssuedOnce
<1>o. d.journals[j.of].type = "RECEIPT"
  BY <1>d, <1>j DEF RowsSound, Follows
<1>3. RowsSound(e)
  <2>1. ReversedIn(e.receipts, DOMAIN e.receipts) = ReversedIn(d.receipts, DOMAIN d.receipts) \cup {r}
    BY <1>m, <1>j DEF ReversedIn
  <2>2. Follows(e, e.receipts, DOMAIN d.receipts, ReversedIn(d.receipts, DOMAIN d.receipts) \cup {r}, "RECEIPT")
    <3>1. Follows(d, d.receipts, DOMAIN d.receipts, ReversedIn(d.receipts, DOMAIN d.receipts), "RECEIPT")
      BY <1>d DEF RowsSound
    <3>2. /\ JournalsSound(d) /\ j.type = "REVERSAL" /\ j.of = d.receipts[r].journal
          /\ r \in DOMAIN d.receipts /\ "RECEIPT" # "REVERSAL"
      BY <1>d, <1>j
    <3>3. \A x \in DOMAIN d.receipts : e.receipts[x].journal = d.receipts[x].journal
      BY <1>m
    <3> QED
      BY <3>1, <3>2, <3>3, <1>a, FollowsReversal, Zenon
  <2>5. /\ Follows(e, d.instalments, IssuedOnce(d), ReversedIn(d.instalments, Instalments), "LEVY")
        /\ Follows(e, d.allocations, DOMAIN d.allocations,
                   ReversedIn(d.allocations, DOMAIN d.allocations), "PAYMENT_ALLOCATION")
        /\ Follows(e, d.adjustments, DOMAIN d.adjustments, {}, "LEVY_ADJUSTMENT")
    BY <1>d, <1>a, <1>j, <1>o, FollowsOther DEF RowsSound
  <2> QED
    BY <1>f, <1>s, <1>m, <2>1, <2>2, <2>5, Zenon DEF RowsSound
<1>4. LinesSound(e)
  <2>1. \A x \in IssuedOnce(d) :
          Line(e, d.instalments[x].journal, "LOT_LEVY_RECEIVABLE", "LEVY_INCOME", FundOf[x], InstalmentTotal(x))
    BY <1>d, <1>g, LineStays DEF LinesSound
  <2>2. \A q \in DOMAIN d.receipts :
          Line(e, d.receipts[q].journal, "FUND_CASH", "UNAPPLIED_CASH", d.receipts[q].fund, d.receipts[q].amount)
    BY <1>d, <1>g, LineStays DEF LinesSound
  <2>3. \A x \in DOMAIN d.allocations :
          Line(e, d.allocations[x].journal, "UNAPPLIED_CASH", "LOT_LEVY_RECEIVABLE",
               FundOf[d.allocations[x].charge[1]], d.allocations[x].amount)
    BY <1>d, <1>g, LineStays DEF LinesSound
  <2>4. \A x \in DOMAIN e.receipts :
          Line(e, e.receipts[x].journal, "FUND_CASH", "UNAPPLIED_CASH", e.receipts[x].fund, e.receipts[x].amount)
    BY <1>m, <2>2
  <2> QED
    BY <1>f, <1>s, <2>1, <2>3, <2>4, Zenon DEF LinesSound
<1>5. LinksSound(e)
  <2>1. \A x \in Charges :
          /\ e.charges[x] = "NONE" <=> e.instalments[x[1]].status = "PENDING" \/ ShareOf[x] = 0
          /\ e.charges[x] = "CANCELLED" <=> e.instalments[x[1]].status = "REVERSED" /\ ShareOf[x] > 0
    BY <1>d, <1>f DEF LinksSound
  <2>3. \A x \in DOMAIN e.allocations :
          /\ e.allocations[x].amount > 0
          /\ e.allocations[x].receipt \in DOMAIN e.receipts
          /\ e.receipts[e.allocations[x].receipt].fund = FundOf[e.allocations[x].charge[1]]
          /\ e.charges[e.allocations[x].charge] # "NONE"
    BY <1>d, <1>m, <1>f DEF LinksSound
  <2>5. \A x \in DOMAIN e.adjustments : e.charges[e.adjustments[x].charge] # "NONE"
    BY <1>d, <1>f DEF LinksSound
  <2> QED
    BY <2>1, <2>3, <2>5 DEF LinksSound
<1>t. /\ \A q : AppliedFrom(e, q) = AppliedFrom(d, q)
      /\ AppliedFrom(d, r) = 0
  <2>1. TakenFrom(d, r) = {}
    BY <1>j DEF TakenFrom
  <2>2. AppliedFrom(d, r) = SumOver(WorthOf(d), TakenFrom(d, r))
    BY <1>d, AppliedFromSum
  <2> QED
    BY <2>1, <2>2, <1>f, SameTaken, SumEmpty
<1>u. \A q \in DOMAIN d.receipts : AppliedFrom(d, q) \in Int /\ d.receipts[q].amount \in Int
  BY <1>d, AppliedFromSum, RowsOf
<1>6. CoverSound(e)
  <2>1. \A q \in DOMAIN e.receipts : AppliedFrom(e, q) <= e.receipts[q].amount
    BY <1>d, <1>m, <1>t DEF CoverSound
  <2>2. \A x \in DOMAIN e.allocations :
          e.allocations[x].status = "APPLIED" => e.receipts[e.allocations[x].receipt].status # "REVERSED"
    <3>1. \A x \in DOMAIN d.allocations : d.allocations[x].receipt \in DOMAIN d.receipts
      BY <1>d DEF LinksSound
    <3> QED
      BY <3>1, <1>d, <1>m, <1>f, <1>j DEF CoverSound
  <2> QED
    BY <2>1, <2>2 DEF CoverSound
<1>7. TieSound(e)
  <2> SUFFICES ASSUME NEW f \in Funds
               PROVE  /\ -OwnBalance(e, "UNAPPLIED_CASH", f) = HeldFor(e, f)
                      /\ OwedBy(e, f) = OwnBalance(e, "LOT_LEVY_RECEIVABLE", f) + OwnBalance(e, "UNAPPLIED_CASH", f)
    BY DEF TieSound
  <2>1. /\ -OwnBalance(d, "UNAPPLIED_CASH", f) = HeldFor(d, f)
        /\ OwedBy(d, f) = OwnBalance(d, "LOT_LEVY_RECEIVABLE", f) + OwnBalance(d, "UNAPPLIED_CASH", f)
    BY <1>d DEF TieSound
  <2> DEFINE n == d.receipts[r].amount
             l == d.receipts[r].lot
             x == IF d.receipts[r].fund = f THEN n ELSE 0
  <2>0. n \in Int /\ l \in Lots
    BY <1>d, <1>j, RowsOf
  <2>2. /\ OwnBalance(e, "UNAPPLIED_CASH", f) = OwnBalance(d, "UNAPPLIED_CASH", f) + x
        /\ OwnBalance(e, "LOT_LEVY_RECEIVABLE", f) = OwnBalance(d, "LOT_LEVY_RECEIVABLE", f) + 0
    <3>1. /\ Moves(j, "UNAPPLIED_CASH", f) = x
          /\ Moves(j, "LOT_LEVY_RECEIVABLE", f) = 0
      BY <1>j, <2>0 DEF Moves
    <3>2. \A acc \in {"UNAPPLIED_CASH", "LOT_LEVY_RECEIVABLE"} :
            OwnBalance(e, acc, f) = OwnBalance(d, acc, f) + Moves(j, acc, f)
      BY <1>d, <1>1, <1>a, <1>j, <1>o, BalanceMoves
    <3> QED
      BY <3>1, <3>2
  <2>6. ReceiptsOf(e, "RECORDED", f) = ReceiptsOf(d, "RECORDED", f) \ {r}
    BY <1>m, <1>j DEF ReceiptsOf
  <2>7. r \in ReceiptsOf(d, "RECORDED", f) <=> d.receipts[r].fund = f
    BY <1>j DEF ReceiptsOf
  <2>3. HeldFor(d, f) = HeldFor(e, f) + x
    <3> DEFINE S == ReceiptsOf(d, "RECORDED", f)
               was == [q \in DOMAIN d.receipts |-> Unapplied(d, q)]
    <3>1. HeldFor(d, f) = SumOver(was, S)
      BY DEF HeldFor
    <3>2. HeldFor(e, f) = SumOver(was, S \ {r})
      <4>1. [q \in DOMAIN e.receipts |-> Unapplied(e, q)] = was
        <5>1. \A q \in DOMAIN d.receipts : Unapplied(e, q) = Unapplied(d, q)
          BY <1>m, <1>t DEF Unapplied
        <5> QED
          BY <5>1, <1>m
      <4> QED
        BY <4>1, <2>6, Zenon DEF HeldFor
    <3>3. was[r] = n
      BY <1>j, <1>t, <2>0 DEF Unapplied
    <3>4. S \in SUBSET DOMAIN d.receipts /\ IsFiniteSet(S) /\ \A q \in S : was[q] \in Int
      <4>1. S \in SUBSET DOMAIN d.receipts
        BY DEF ReceiptsOf
      <4> QED
        BY <4>1, <1>d, FiniteTables, FS_Subset, UnappliedType
    <3> HIDE DEF S, was
    <3>5. IsFiniteSet(S \ {r}) /\ \A q \in S \ {r} : was[q] \in Int
      BY <3>4, FS_Subset
    <3>6. SumOver(was, S \ {r}) \in Int
      BY <3>5, SumType
    <3>7. CASE d.receipts[r].fund = f
      <4>1. r \in S
        BY <2>7, <3>7 DEF S
      <4>2. SumOver(was, S) = SumOver(was, S \ {r}) + was[r]
        BY <4>1, <3>4, SumRemove
      <4> QED
        BY <4>2, <3>1, <3>2, <3>3, <3>6, <3>7, <2>0
    <3>8. CASE d.receipts[r].fund # f
      <4>1. S \ {r} = S
        BY <2>7, <3>8 DEF S
      <4>2. HeldFor(e, f) = HeldFor(d, f)
        BY <4>1, <3>1, <3>2, Zenon
      <4> QED
        BY <4>2, <3>2, <3>6, <3>8
    <3> QED
      BY <3>7, <3>8
  <2>4. OwedBy(e, f) = OwedBy(d, f) + x
    <3>1. Extra(e) = Extra(d)
      BY <1>f, SameExtra
    <3>2. \A k : Mine(e, k, f) = Mine(d, k, f) /\ MineCancelled(e, k, f) = MineCancelled(d, k, f)
      BY <1>f DEF Mine, MineCancelled
    <3>3. Got(e) = Got(d)
      BY <1>m DEF Got
    <3>4. \A k : GotFrom(e, k, f) = GotFrom(d, k, f) \ {r}
      BY <2>6, <1>m DEF GotFrom, ReceiptsOf
    <3>5. \A k : r \in GotFrom(d, k, f) <=> d.receipts[r].fund = f /\ k = l
      BY <2>7 DEF GotFrom
    <3>6. ASSUME NEW k \in Lots
          PROVE  LotBalance(e, k, f) = LotBalance(d, k, f) + (IF k = l THEN x ELSE 0)
      <4> DEFINE G == GotFrom(d, k, f)
      <4>1. /\ LotBalance(d, k, f) =
                 SumOver(ShareOf, Mine(d, k, f)) - SumOver(ShareOf, MineCancelled(d, k, f))
                   + SumOver(Extra(d), Mine(d, k, f)) - SumOver(Got(d), G)
            /\ LotBalance(e, k, f) =
                 SumOver(ShareOf, Mine(e, k, f)) - SumOver(ShareOf, MineCancelled(e, k, f))
                   + SumOver(Extra(e), Mine(e, k, f)) - SumOver(Got(e), GotFrom(e, k, f))
            /\ SumOver(ShareOf, Mine(d, k, f)) \in Int
            /\ SumOver(ShareOf, MineCancelled(d, k, f)) \in Int
            /\ SumOver(Extra(d), Mine(d, k, f)) \in Int
            /\ SumOver(Got(d), G) \in Int
            /\ IsFiniteSet(G) /\ G \in SUBSET DOMAIN d.receipts
            /\ \A q \in DOMAIN d.receipts : Got(d)[q] \in Int
        BY <1>d, <1>1, LotParts
      <4>2. /\ SumOver(ShareOf, Mine(e, k, f)) = SumOver(ShareOf, Mine(d, k, f))
            /\ SumOver(ShareOf, MineCancelled(e, k, f)) = SumOver(ShareOf, MineCancelled(d, k, f))
            /\ SumOver(Extra(e), Mine(e, k, f)) = SumOver(Extra(d), Mine(d, k, f))
            /\ SumOver(Got(e), GotFrom(e, k, f)) = SumOver(Got(d), G \ {r})
        BY <3>1, <3>2, <3>3, <3>4, Zenon
      <4>3. Got(d)[r] = n
        BY <1>j DEF Got
      <4>4. r \in G <=> d.receipts[r].fund = f /\ k = l
        BY <3>5
      <4> HIDE DEF G
      <4>5. \A q \in G : Got(d)[q] \in Int
        BY <4>1
      <4>6. CASE r \in G
        <5>1. SumOver(Got(d), G) = SumOver(Got(d), G \ {r}) + Got(d)[r]
          BY <4>1, <4>5, <4>6, SumRemove
        <5>2. IsFiniteSet(G \ {r}) /\ \A q \in G \ {r} : Got(d)[q] \in Int
          BY <4>1, <4>5, FS_Subset
        <5>3. SumOver(Got(d), G \ {r}) \in Int
          BY <5>2, SumType
        <5> QED
          BY <5>1, <5>3, <4>1, <4>2, <4>3, <4>4, <4>6, <2>0
      <4>7. CASE r \notin G
        <5>1. G \ {r} = G
          BY <4>7
        <5>2. SumOver(Got(e), GotFrom(e, k, f)) = SumOver(Got(d), G)
          BY <5>1, <4>2, Zenon
        <5> QED
          BY <5>2, <4>1, <4>2, <4>4, <4>7
      <4> QED
        BY <4>6, <4>7
    <3>7. /\ LotBalance(e, l, f) = LotBalance(d, l, f) + x
          /\ \A k \in Lots : k # l => LotBalance(e, k, f) = LotBalance(d, k, f)
      <4>1. \A k \in Lots : LotBalance(d, k, f) \in Int
        BY <1>d, LotType
      <4> HIDE DEF x, l
      <4> QED
        BY <4>1, <3>6, <2>0
    <3>8. x \in Int
      BY <2>0
    <3> HIDE DEF x, l
    <3> QED
      BY <3>7, <3>8, <2>0, <1>d, <1>1, OwedChange
  <2>5. /\ OwnBalance(d, "UNAPPLIED_CASH", f) \in Int /\ OwnBalance(d, "LOT_LEVY_RECEIVABLE", f) \in Int
        /\ x \in Int /\ HeldFor(e, f) \in Int /\ OwedBy(d, f) \in Int
    BY <1>d, <1>1, <2>0, BalanceSums, HeldType, OwedType
  <2> HIDE DEF x
  <2> QED
    BY <2>1, <2>2, <2>3, <2>4, <2>5
<1> QED
  BY <1>1, <1>2, <1>3, <1>4, <1>5, <1>6, <1>7 DEF Sound

\* recordReceipt, before its allocations.
RecordReceiptStep(d, e, l, fund, n, j) ==
  /\ e \in Tables /\ Appends(d, e, j)
  /\ j.type = "RECEIPT" /\ j.of = 0 /\ j.fund = fund /\ j.amount = n
  /\ j.dr = "FUND_CASH" /\ j.cr = "UNAPPLIED_CASH"
  /\ l \in Lots /\ fund \in Funds /\ n \in Int /\ n > 0
  /\ DOMAIN e.receipts = DOMAIN d.receipts \cup {Len(d.receipts) + 1}
  /\ Len(d.receipts) + 1 \notin DOMAIN d.receipts
  /\ \A q \in DOMAIN d.receipts : e.receipts[q] = d.receipts[q]
  /\ e.receipts[Len(d.receipts) + 1].lot = l
  /\ e.receipts[Len(d.receipts) + 1].fund = fund
  /\ e.receipts[Len(d.receipts) + 1].amount = n
  /\ e.receipts[Len(d.receipts) + 1].status = "RECORDED"
  /\ e.receipts[Len(d.receipts) + 1].journal = Len(d.journals) + 1
  /\ e.instalments = d.instalments /\ e.charges = d.charges
  /\ e.adjustments = d.adjustments /\ e.allocations = d.allocations

LEMMA RecordReceiptSound ==
  ASSUME NEW d, Sound(d), NEW e, NEW l, NEW fund, NEW n, NEW j, RecordReceiptStep(d, e, l, fund, n, j)
  PROVE  Sound(e)
<1> DEFINE r == Len(d.receipts) + 1
<1>d. /\ d \in Tables /\ JournalsSound(d) /\ RowsSound(d) /\ LinesSound(d)
      /\ LinksSound(d) /\ CoverSound(d) /\ TieSound(d)
  BY DEF Sound
<1>1. e \in Tables
  BY DEF RecordReceiptStep
<1>j. /\ j.type = "RECEIPT" /\ j.of = 0 /\ j.fund = fund /\ j.amount = n
      /\ j.dr = "FUND_CASH" /\ j.cr = "UNAPPLIED_CASH"
      /\ l \in Lots /\ fund \in Funds /\ n \in Int /\ n > 0
  BY DEF RecordReceiptStep
<1>f. /\ e.instalments = d.instalments /\ e.charges = d.charges
      /\ e.adjustments = d.adjustments /\ e.allocations = d.allocations
  BY DEF RecordReceiptStep
<1>m. /\ DOMAIN e.receipts = DOMAIN d.receipts \cup {r} /\ r \notin DOMAIN d.receipts
      /\ \A q \in DOMAIN d.receipts : e.receipts[q] = d.receipts[q]
      /\ e.receipts[r].lot = l /\ e.receipts[r].fund = fund /\ e.receipts[r].amount = n
      /\ e.receipts[r].status = "RECORDED" /\ e.receipts[r].journal = Len(d.journals) + 1
  BY DEF RecordReceiptStep
<1> HIDE DEF r
<1>a. Appends(d, e, j)
  BY DEF RecordReceiptStep
<1>g. Grown(d, e, j)
  BY <1>a, <1>d, Appended
<1>2. JournalsSound(e)
  BY <1>a, <1>d, JournalsStaySound
<1>s. IssuedOnce(e) = IssuedOnce(d)
  BY <1>f DEF IssuedOnce
<1>3. RowsSound(e)
  <2>1. /\ ReversedIn(e.receipts, DOMAIN e.receipts) = ReversedIn(d.receipts, DOMAIN d.receipts)
        /\ r \notin ReversedIn(d.receipts, DOMAIN d.receipts)
    BY <1>m DEF ReversedIn
  <2>2. Follows(e, e.receipts, DOMAIN d.receipts \cup {r}, ReversedIn(d.receipts, DOMAIN d.receipts), "RECEIPT")
    <3>1. Follows(d, d.receipts, DOMAIN d.receipts, ReversedIn(d.receipts, DOMAIN d.receipts), "RECEIPT")
      BY <1>d DEF RowsSound
    <3>2. JournalsSound(d) /\ j.type = "RECEIPT" /\ j.of = 0 /\ r \notin DOMAIN d.receipts
      BY <1>d, <1>j, <1>m
    <3>3. /\ e.receipts[r].journal = Len(d.journals) + 1
          /\ \A q \in DOMAIN d.receipts : e.receipts[q].journal = d.receipts[q].journal
      BY <1>m
    <3> QED
      BY <3>1, <3>2, <3>3, <1>a, <2>1, FollowsNew, Zenon
  <2>5. /\ Follows(e, d.instalments, IssuedOnce(d), ReversedIn(d.instalments, Instalments), "LEVY")
        /\ Follows(e, d.allocations, DOMAIN d.allocations,
                   ReversedIn(d.allocations, DOMAIN d.allocations), "PAYMENT_ALLOCATION")
        /\ Follows(e, d.adjustments, DOMAIN d.adjustments, {}, "LEVY_ADJUSTMENT")
    BY <1>d, <1>a, <1>j, FollowsOther DEF RowsSound
  <2> QED
    BY <1>f, <1>s, <1>m, <2>1, <2>2, <2>5, Zenon DEF RowsSound
<1>4. LinesSound(e)
  <2>1. \A x \in IssuedOnce(d) :
          Line(e, d.instalments[x].journal, "LOT_LEVY_RECEIVABLE", "LEVY_INCOME", FundOf[x], InstalmentTotal(x))
    BY <1>d, <1>g, LineStays DEF LinesSound
  <2>2. \A q \in DOMAIN d.receipts :
          Line(e, d.receipts[q].journal, "FUND_CASH", "UNAPPLIED_CASH", d.receipts[q].fund, d.receipts[q].amount)
    BY <1>d, <1>g, LineStays DEF LinesSound
  <2>3. \A x \in DOMAIN d.allocations :
          Line(e, d.allocations[x].journal, "UNAPPLIED_CASH", "LOT_LEVY_RECEIVABLE",
               FundOf[d.allocations[x].charge[1]], d.allocations[x].amount)
    BY <1>d, <1>g, LineStays DEF LinesSound
  <2>4. Line(e, e.receipts[r].journal, "FUND_CASH", "UNAPPLIED_CASH", e.receipts[r].fund, e.receipts[r].amount)
    BY <1>m, <1>g, <1>j DEF Grown, Line
  <2>5. \A x \in DOMAIN e.receipts :
          Line(e, e.receipts[x].journal, "FUND_CASH", "UNAPPLIED_CASH", e.receipts[x].fund, e.receipts[x].amount)
    BY <1>m, <2>2, <2>4
  <2> QED
    BY <1>f, <1>s, <2>1, <2>3, <2>5, Zenon DEF LinesSound
<1>k. \A x \in DOMAIN d.allocations :
        d.allocations[x].receipt \in DOMAIN d.receipts /\ d.allocations[x].receipt # r
  BY <1>d, <1>m DEF LinksSound
<1>5. LinksSound(e)
  <2>1. \A x \in Charges :
          /\ e.charges[x] = "NONE" <=> e.instalments[x[1]].status = "PENDING" \/ ShareOf[x] = 0
          /\ e.charges[x] = "CANCELLED" <=> e.instalments[x[1]].status = "REVERSED" /\ ShareOf[x] > 0
    BY <1>d, <1>f DEF LinksSound
  <2>3. \A x \in DOMAIN e.allocations :
          /\ e.allocations[x].amount > 0
          /\ e.allocations[x].receipt \in DOMAIN e.receipts
          /\ e.receipts[e.allocations[x].receipt].fund = FundOf[e.allocations[x].charge[1]]
          /\ e.charges[e.allocations[x].charge] # "NONE"
    BY <1>d, <1>m, <1>f DEF LinksSound
  <2>5. \A x \in DOMAIN e.adjustments : e.charges[e.adjustments[x].charge] # "NONE"
    BY <1>d, <1>f DEF LinksSound
  <2> QED
    BY <2>1, <2>3, <2>5 DEF LinksSound
<1>t. /\ \A q : AppliedFrom(e, q) = AppliedFrom(d, q)
      /\ AppliedFrom(d, r) = 0
  <2>1. TakenFrom(d, r) = {}
    BY <1>k DEF TakenFrom
  <2>2. AppliedFrom(d, r) = SumOver(WorthOf(d), TakenFrom(d, r))
    BY <1>d, AppliedFromSum
  <2> QED
    BY <2>1, <2>2, <1>f, SameTaken, SumEmpty
<1>6. CoverSound(e)
  <2>1. \A q \in DOMAIN e.receipts : AppliedFrom(e, q) <= e.receipts[q].amount
    <3>1. \A q \in DOMAIN d.receipts : AppliedFrom(d, q) <= d.receipts[q].amount
      BY <1>d DEF CoverSound
    <3> QED
      BY <3>1, <1>m, <1>t, <1>j
  <2>2. \A x \in DOMAIN e.allocations :
          e.allocations[x].status = "APPLIED" => e.receipts[e.allocations[x].receipt].status # "REVERSED"
    BY <1>k, <1>d, <1>m, <1>f DEF CoverSound
  <2> QED
    BY <2>1, <2>2 DEF CoverSound
<1>7. TieSound(e)
  <2> SUFFICES ASSUME NEW f \in Funds
               PROVE  /\ -OwnBalance(e, "UNAPPLIED_CASH", f) = HeldFor(e, f)
                      /\ OwedBy(e, f) = OwnBalance(e, "LOT_LEVY_RECEIVABLE", f) + OwnBalance(e, "UNAPPLIED_CASH", f)
    BY DEF TieSound
  <2>1. /\ -OwnBalance(d, "UNAPPLIED_CASH", f) = HeldFor(d, f)
        /\ OwedBy(d, f) = OwnBalance(d, "LOT_LEVY_RECEIVABLE", f) + OwnBalance(d, "UNAPPLIED_CASH", f)
    BY <1>d DEF TieSound
  <2> DEFINE x == IF fund = f THEN n ELSE 0
  <2>2. /\ OwnBalance(e, "UNAPPLIED_CASH", f) = OwnBalance(d, "UNAPPLIED_CASH", f) + (0 - x)
        /\ OwnBalance(e, "LOT_LEVY_RECEIVABLE", f) = OwnBalance(d, "LOT_LEVY_RECEIVABLE", f) + 0
    <3>1. /\ Moves(j, "UNAPPLIED_CASH", f) = 0 - x
          /\ Moves(j, "LOT_LEVY_RECEIVABLE", f) = 0
      BY <1>j DEF Moves
    <3>2. \A acc \in {"UNAPPLIED_CASH", "LOT_LEVY_RECEIVABLE"} :
            OwnBalance(e, acc, f) = OwnBalance(d, acc, f) + Moves(j, acc, f)
      BY <1>d, <1>1, <1>a, <1>j, BalanceMoves
    <3> QED
      BY <3>1, <3>2
  <2>6. ReceiptsOf(e, "RECORDED", f) =
          IF fund = f THEN ReceiptsOf(d, "RECORDED", f) \cup {r} ELSE ReceiptsOf(d, "RECORDED", f)
    <3>1. CASE fund = f
      BY <3>1, <1>m DEF ReceiptsOf
    <3>2. CASE fund # f
      BY <3>2, <1>m DEF ReceiptsOf
    <3> QED
      BY <3>1, <3>2
  <2>7. r \notin ReceiptsOf(d, "RECORDED", f)
    BY <1>m DEF ReceiptsOf
  <2>3. HeldFor(e, f) = HeldFor(d, f) + x
    <3> DEFINE S == ReceiptsOf(d, "RECORDED", f)
               was == [q \in DOMAIN d.receipts |-> Unapplied(d, q)]
               is == [q \in DOMAIN e.receipts |-> Unapplied(e, q)]
    <3>1. HeldFor(d, f) = SumOver(was, S) /\ HeldFor(e, f) = SumOver(is, ReceiptsOf(e, "RECORDED", f))
      BY DEF HeldFor
    <3>2. \A q \in DOMAIN d.receipts : is[q] = was[q] /\ was[q] \in Int
      BY <1>d, <1>m, <1>t, UnappliedType DEF Unapplied
    <3>3. is[r] = n
      BY <1>m, <1>t, <1>j DEF Unapplied
    <3>4. S \in SUBSET DOMAIN d.receipts /\ IsFiniteSet(S)
      <4>1. S \in SUBSET DOMAIN d.receipts
        BY DEF ReceiptsOf
      <4> QED
        BY <4>1, <1>d, FiniteTables, FS_Subset
    <3>5. r \notin S /\ ReceiptsOf(e, "RECORDED", f) = IF fund = f THEN S \cup {r} ELSE S
      BY <2>6, <2>7
    <3> HIDE DEF S, was, is
    <3>6. SumOver(is, S) = SumOver(was, S) /\ SumOver(was, S) \in Int
      <4>1. \A q \in S : was[q] \in Int /\ is[q] = was[q]
        BY <3>2, <3>4
      <4> QED
        BY <4>1, <3>4, SumCongruent, SumType
    <3>7. SumOver(is, S \cup {r}) = SumOver(is, S) + is[r]
      <4>1. \A q \in S \cup {r} : is[q] \in Int
        BY <3>2, <3>3, <3>4, <1>j
      <4> QED
        BY <4>1, <3>4, <3>5, SumAdd, Zenon
    <3>8. CASE fund = f
      <4>1. HeldFor(e, f) = SumOver(is, S \cup {r})
        BY <3>1, <3>5, <3>8
      <4> QED
        BY <4>1, <3>1, <3>3, <3>6, <3>7, <3>8
    <3>9. CASE fund # f
      <4>1. HeldFor(e, f) = SumOver(is, S)
        BY <3>1, <3>5, <3>9
      <4>2. HeldFor(e, f) = HeldFor(d, f) /\ HeldFor(d, f) \in Int
        BY <4>1, <3>1, <3>6, Zenon
      <4> QED
        BY <4>2, <3>9
    <3> QED
      BY <3>8, <3>9
  <2>4. OwedBy(e, f) = OwedBy(d, f) + (0 - x)
    <3>1. Extra(e) = Extra(d)
      BY <1>f, SameExtra
    <3>2. \A k : Mine(e, k, f) = Mine(d, k, f) /\ MineCancelled(e, k, f) = MineCancelled(d, k, f)
      BY <1>f DEF Mine, MineCancelled
    <3>3. (\A q \in DOMAIN d.receipts : Got(e)[q] = Got(d)[q]) /\ Got(e)[r] = n
      BY <1>m DEF Got
    <3>4. \A k : GotFrom(e, k, f) = IF fund = f /\ k = l THEN GotFrom(d, k, f) \cup {r} ELSE GotFrom(d, k, f)
      <4> SUFFICES ASSUME NEW k
                   PROVE  GotFrom(e, k, f) = IF fund = f /\ k = l THEN GotFrom(d, k, f) \cup {r} ELSE GotFrom(d, k, f)
        OBVIOUS
      <4>1. \A q \in DOMAIN d.receipts : q \in GotFrom(e, k, f) <=> q \in GotFrom(d, k, f)
        BY <1>m DEF GotFrom, ReceiptsOf
      <4>2. r \in GotFrom(e, k, f) <=> fund = f /\ k = l
        BY <1>m DEF GotFrom, ReceiptsOf
      <4>3. GotFrom(e, k, f) \in SUBSET (DOMAIN d.receipts \cup {r}) /\ GotFrom(d, k, f) \in SUBSET DOMAIN d.receipts
        BY <1>m DEF GotFrom, ReceiptsOf
      <4>4. CASE fund = f /\ k = l
        <5>1. \A q : q \in GotFrom(e, k, f) <=> q \in GotFrom(d, k, f) \cup {r}
          BY <4>1, <4>2, <4>3, <4>4
        <5> QED
          BY <5>1, <4>4
      <4>5. CASE ~(fund = f /\ k = l)
        <5>1. \A q : q \in GotFrom(e, k, f) <=> q \in GotFrom(d, k, f)
          BY <4>1, <4>2, <4>3, <4>5, <1>m
        <5> QED
          BY <5>1, <4>5
      <4> QED
        BY <4>4, <4>5
    <3>6. ASSUME NEW k \in Lots
          PROVE  LotBalance(e, k, f) = LotBalance(d, k, f) + (IF k = l THEN (0 - x) ELSE 0)
      <4> DEFINE G == GotFrom(d, k, f)
      <4>1. /\ LotBalance(d, k, f) =
                 SumOver(ShareOf, Mine(d, k, f)) - SumOver(ShareOf, MineCancelled(d, k, f))
                   + SumOver(Extra(d), Mine(d, k, f)) - SumOver(Got(d), G)
            /\ LotBalance(e, k, f) =
                 SumOver(ShareOf, Mine(e, k, f)) - SumOver(ShareOf, MineCancelled(e, k, f))
                   + SumOver(Extra(e), Mine(e, k, f)) - SumOver(Got(e), GotFrom(e, k, f))
            /\ SumOver(ShareOf, Mine(d, k, f)) \in Int
            /\ SumOver(ShareOf, MineCancelled(d, k, f)) \in Int
            /\ SumOver(Extra(d), Mine(d, k, f)) \in Int
            /\ SumOver(Got(d), G) \in Int
            /\ IsFiniteSet(G) /\ G \in SUBSET DOMAIN d.receipts
            /\ \A q \in DOMAIN d.receipts : Got(d)[q] \in Int
        BY <1>d, <1>1, LotParts
      <4>2. /\ SumOver(ShareOf, Mine(e, k, f)) = SumOver(ShareOf, Mine(d, k, f))
            /\ SumOver(ShareOf, MineCancelled(e, k, f)) = SumOver(ShareOf, MineCancelled(d, k, f))
            /\ SumOver(Extra(e), Mine(e, k, f)) = SumOver(Extra(d), Mine(d, k, f))
        BY <3>1, <3>2, Zenon
      <4>3. SumOver(Got(e), G) = SumOver(Got(d), G)
        <5>1. \A q \in G : Got(d)[q] \in Int /\ Got(e)[q] = Got(d)[q]
          BY <4>1, <3>3
        <5> HIDE DEF G
        <5> QED
          BY <5>1, <4>1, SumCongruent
      <4>4. SumOver(Got(e), G \cup {r}) = SumOver(Got(e), G) + Got(e)[r]
        <5>1. \A q \in G \cup {r} : Got(e)[q] \in Int
          BY <4>1, <3>3, <1>j
        <5>2. r \notin G
          BY <4>1, <1>m
        <5> HIDE DEF G
        <5> QED
          BY <5>1, <5>2, <4>1, SumAdd, Zenon
      <4>5. GotFrom(e, k, f) = IF fund = f /\ k = l THEN G \cup {r} ELSE G
        BY <3>4
      <4> HIDE DEF G
      <4>6. CASE fund = f /\ k = l
        <5>1. SumOver(Got(e), GotFrom(e, k, f)) = SumOver(Got(e), G \cup {r})
          BY <4>5, <4>6
        <5> QED
          BY <5>1, <4>1, <4>2, <4>3, <4>4, <4>6, <3>3, <1>j
      <4>7. CASE ~(fund = f /\ k = l)
        <5>1. SumOver(Got(e), GotFrom(e, k, f)) = SumOver(Got(e), G)
          BY <4>5, <4>7
        <5> QED
          BY <5>1, <4>1, <4>2, <4>3, <4>7, <1>j
      <4> QED
        BY <4>6, <4>7
    <3>7. /\ LotBalance(e, l, f) = LotBalance(d, l, f) + (0 - x)
          /\ \A k \in Lots : k # l => LotBalance(e, k, f) = LotBalance(d, k, f)
      <4>1. \A k \in Lots : LotBalance(d, k, f) \in Int
        BY <1>d, LotType
      <4> HIDE DEF x
      <4> QED
        BY <4>1, <3>6, <1>j
    <3>8. 0 - x \in Int
      BY <1>j
    <3> HIDE DEF x
    <3> QED
      BY <3>7, <3>8, <1>j, <1>d, <1>1, OwedChange
  <2>5. /\ OwnBalance(d, "UNAPPLIED_CASH", f) \in Int /\ OwnBalance(d, "LOT_LEVY_RECEIVABLE", f) \in Int
        /\ x \in Int /\ HeldFor(d, f) \in Int /\ OwedBy(d, f) \in Int
    BY <1>d, <1>1, <1>j, BalanceSums, HeldType, OwedType
  <2> HIDE DEF x
  <2> QED
    BY <2>1, <2>2, <2>3, <2>4, <2>5
<1> QED
  BY <1>1, <1>2, <1>3, <1>4, <1>5, <1>6, <1>7 DEF Sound

\* createAdjustment.
AdjustStep(d, e, c, n, j) ==
  /\ e \in Tables /\ Appends(d, e, j)
  /\ j.type = "LEVY_ADJUSTMENT" /\ j.of = 0 /\ j.fund = FundOf[c[1]]
  /\ c \in Charges /\ n \in Int /\ d.charges[c] # "NONE"
  /\ \A f : Moves(j, "UNAPPLIED_CASH", f) = 0
  /\ \A f : Moves(j, "LOT_LEVY_RECEIVABLE", f) = IF FundOf[c[1]] = f THEN n ELSE 0
  /\ DOMAIN e.adjustments = DOMAIN d.adjustments \cup {Len(d.adjustments) + 1}
  /\ Len(d.adjustments) + 1 \notin DOMAIN d.adjustments
  /\ \A a \in DOMAIN d.adjustments : e.adjustments[a] = d.adjustments[a]
  /\ e.adjustments[Len(d.adjustments) + 1].charge = c
  /\ e.adjustments[Len(d.adjustments) + 1].amount = n
  /\ e.adjustments[Len(d.adjustments) + 1].journal = Len(d.journals) + 1
  /\ e.instalments = d.instalments /\ e.charges = d.charges
  /\ e.receipts = d.receipts /\ e.allocations = d.allocations

LEMMA AdjustSound ==
  ASSUME NEW d, Sound(d), NEW e, NEW c, NEW n, NEW j, AdjustStep(d, e, c, n, j)
  PROVE  Sound(e)
<1> DEFINE m == Len(d.adjustments) + 1
<1>d. /\ d \in Tables /\ JournalsSound(d) /\ RowsSound(d) /\ LinesSound(d)
      /\ LinksSound(d) /\ CoverSound(d) /\ TieSound(d)
  BY DEF Sound
<1>1. e \in Tables
  BY DEF AdjustStep
<1>j. /\ j.type = "LEVY_ADJUSTMENT" /\ j.of = 0 /\ j.fund = FundOf[c[1]]
      /\ c \in Charges /\ n \in Int /\ d.charges[c] # "NONE"
      /\ \A f : Moves(j, "UNAPPLIED_CASH", f) = 0
      /\ \A f : Moves(j, "LOT_LEVY_RECEIVABLE", f) = IF FundOf[c[1]] = f THEN n ELSE 0
  BY DEF AdjustStep
<1>f. /\ e.instalments = d.instalments /\ e.charges = d.charges
      /\ e.receipts = d.receipts /\ e.allocations = d.allocations
  BY DEF AdjustStep
<1>m. /\ DOMAIN e.adjustments = DOMAIN d.adjustments \cup {m} /\ m \notin DOMAIN d.adjustments
      /\ \A a \in DOMAIN d.adjustments : e.adjustments[a] = d.adjustments[a]
      /\ e.adjustments[m].charge = c /\ e.adjustments[m].amount = n
      /\ e.adjustments[m].journal = Len(d.journals) + 1
  BY DEF AdjustStep
<1> HIDE DEF m
<1>a. Appends(d, e, j)
  BY DEF AdjustStep
<1>g. Grown(d, e, j)
  BY <1>a, <1>d, Appended
<1>2. JournalsSound(e)
  BY <1>a, <1>d, JournalsStaySound
<1>s. IssuedOnce(e) = IssuedOnce(d)
  BY <1>f DEF IssuedOnce
<1>3. RowsSound(e)
  <2>2. Follows(e, e.adjustments, DOMAIN d.adjustments \cup {m}, {}, "LEVY_ADJUSTMENT")
    <3>1. Follows(d, d.adjustments, DOMAIN d.adjustments, {}, "LEVY_ADJUSTMENT")
      BY <1>d DEF RowsSound
    <3>2. JournalsSound(d) /\ j.type = "LEVY_ADJUSTMENT" /\ j.of = 0 /\ m \notin DOMAIN d.adjustments /\ m \notin {}
      BY <1>d, <1>j, <1>m
    <3>3. /\ e.adjustments[m].journal = Len(d.journals) + 1
          /\ \A a \in DOMAIN d.adjustments : e.adjustments[a].journal = d.adjustments[a].journal
      BY <1>m
    <3> QED
      BY <3>1, <3>2, <3>3, <1>a, FollowsNew, Zenon
  <2>5. /\ Follows(e, d.instalments, IssuedOnce(d), ReversedIn(d.instalments, Instalments), "LEVY")
        /\ Follows(e, d.receipts, DOMAIN d.receipts, ReversedIn(d.receipts, DOMAIN d.receipts), "RECEIPT")
        /\ Follows(e, d.allocations, DOMAIN d.allocations,
                   ReversedIn(d.allocations, DOMAIN d.allocations), "PAYMENT_ALLOCATION")
    BY <1>d, <1>a, <1>j, FollowsOther DEF RowsSound
  <2> QED
    BY <1>f, <1>s, <1>m, <2>2, <2>5, Zenon DEF RowsSound
<1>4. LinesSound(e)
  <2>1. \A x \in IssuedOnce(d) :
          Line(e, d.instalments[x].journal, "LOT_LEVY_RECEIVABLE", "LEVY_INCOME", FundOf[x], InstalmentTotal(x))
    BY <1>d, <1>g, LineStays DEF LinesSound
  <2>2. \A q \in DOMAIN d.receipts :
          Line(e, d.receipts[q].journal, "FUND_CASH", "UNAPPLIED_CASH", d.receipts[q].fund, d.receipts[q].amount)
    BY <1>d, <1>g, LineStays DEF LinesSound
  <2>3. \A x \in DOMAIN d.allocations :
          Line(e, d.allocations[x].journal, "UNAPPLIED_CASH", "LOT_LEVY_RECEIVABLE",
               FundOf[d.allocations[x].charge[1]], d.allocations[x].amount)
    BY <1>d, <1>g, LineStays DEF LinesSound
  <2> QED
    BY <1>f, <1>s, <2>1, <2>2, <2>3, Zenon DEF LinesSound
<1>5. LinksSound(e)
  <2>1. \A x \in Charges :
          /\ e.charges[x] = "NONE" <=> e.instalments[x[1]].status = "PENDING" \/ ShareOf[x] = 0
          /\ e.charges[x] = "CANCELLED" <=> e.instalments[x[1]].status = "REVERSED" /\ ShareOf[x] > 0
    BY <1>d, <1>f DEF LinksSound
  <2>3. \A x \in DOMAIN e.allocations :
          /\ e.allocations[x].amount > 0
          /\ e.allocations[x].receipt \in DOMAIN e.receipts
          /\ e.receipts[e.allocations[x].receipt].fund = FundOf[e.allocations[x].charge[1]]
          /\ e.charges[e.allocations[x].charge] # "NONE"
    BY <1>d, <1>f DEF LinksSound
  <2>5. \A x \in DOMAIN e.adjustments : e.charges[e.adjustments[x].charge] # "NONE"
    BY <1>d, <1>f, <1>m, <1>j DEF LinksSound
  <2> QED
    BY <2>1, <2>3, <2>5 DEF LinksSound
<1>6. CoverSound(e)
  BY <1>d, <1>f, SameTaken DEF CoverSound
<1>t. \A x : Adjusted(e, x) = Adjusted(d, x) + (IF x = c THEN n ELSE 0)
  <2> SUFFICES ASSUME NEW x PROVE Adjusted(e, x) = Adjusted(d, x) + (IF x = c THEN n ELSE 0)
    OBVIOUS
  <2> DEFINE S == {a \in DOMAIN d.adjustments : d.adjustments[a].charge = x}
             U == {a \in DOMAIN e.adjustments : e.adjustments[a].charge = x}
             was == [a \in DOMAIN d.adjustments |-> d.adjustments[a].amount]
             is == [a \in DOMAIN e.adjustments |-> e.adjustments[a].amount]
  <2>1. Adjusted(d, x) = SumOver(was, S) /\ Adjusted(e, x) = SumOver(is, U)
    BY DEF Adjusted
  <2>2. U = IF x = c THEN S \cup {m} ELSE S
    <3>1. CASE x = c
      BY <3>1, <1>m
    <3>2. CASE x # c
      BY <3>2, <1>m
    <3> QED
      BY <3>1, <3>2
  <2>3. S \in SUBSET DOMAIN d.adjustments /\ IsFiniteSet(S) /\ m \notin S
    BY <1>d, <1>m, FiniteTables, FS_Subset
  <2>4. (\A a \in S : was[a] \in Int /\ is[a] = was[a]) /\ is[m] = n
    BY <1>d, <1>m, RowsOf
  <2> HIDE DEF S, U, was, is
  <2>5. SumOver(is, S) = SumOver(was, S) /\ SumOver(was, S) \in Int
    BY <2>3, <2>4, SumCongruent, SumType
  <2>6. SumOver(is, S \cup {m}) = SumOver(is, S) + is[m]
    <3>1. \A a \in S \cup {m} : is[a] \in Int
      BY <2>4, <1>j
    <3> QED
      BY <3>1, <2>3, SumAdd, Zenon
  <2>7. CASE x = c
    <3>1. Adjusted(e, x) = SumOver(is, S \cup {m})
      BY <2>1, <2>2, <2>7
    <3> QED
      BY <3>1, <2>1, <2>4, <2>5, <2>6, <2>7
  <2>8. CASE x # c
    <3>1. Adjusted(e, x) = SumOver(is, S)
      BY <2>1, <2>2, <2>8
    <3>2. Adjusted(e, x) = Adjusted(d, x) /\ Adjusted(d, x) \in Int
      BY <3>1, <2>1, <2>5, Zenon
    <3> QED
      BY <3>2, <2>8
  <2> QED
    BY <2>7, <2>8
<1>7. TieSound(e)
  <2> SUFFICES ASSUME NEW f \in Funds
               PROVE  /\ -OwnBalance(e, "UNAPPLIED_CASH", f) = HeldFor(e, f)
                      /\ OwedBy(e, f) = OwnBalance(e, "LOT_LEVY_RECEIVABLE", f) + OwnBalance(e, "UNAPPLIED_CASH", f)
    BY DEF TieSound
  <2>1. /\ -OwnBalance(d, "UNAPPLIED_CASH", f) = HeldFor(d, f)
        /\ OwedBy(d, f) = OwnBalance(d, "LOT_LEVY_RECEIVABLE", f) + OwnBalance(d, "UNAPPLIED_CASH", f)
    BY <1>d DEF TieSound
  <2> DEFINE x == IF FundOf[c[1]] = f THEN n ELSE 0
             l == c[2]
  <2>0. l \in Lots /\ x \in Int
    BY <1>j DEF Charges
  <2>2. /\ OwnBalance(e, "UNAPPLIED_CASH", f) = OwnBalance(d, "UNAPPLIED_CASH", f) + 0
        /\ OwnBalance(e, "LOT_LEVY_RECEIVABLE", f) = OwnBalance(d, "LOT_LEVY_RECEIVABLE", f) + x
    <3>2. \A acc \in {"UNAPPLIED_CASH", "LOT_LEVY_RECEIVABLE"} :
            OwnBalance(e, acc, f) = OwnBalance(d, acc, f) + Moves(j, acc, f)
      BY <1>d, <1>1, <1>a, <1>j, BalanceMoves
    <3> QED
      BY <1>j, <3>2
  <2>3. HeldFor(e, f) = HeldFor(d, f)
    BY <1>f, SameHeld
  <2>4. OwedBy(e, f) = OwedBy(d, f) + x
    <3>1. Got(e) = Got(d) /\ \A k : GotFrom(e, k, f) = GotFrom(d, k, f)
      BY <1>f, SameGot
    <3>2. \A k : Mine(e, k, f) = Mine(d, k, f) /\ MineCancelled(e, k, f) = MineCancelled(d, k, f)
      BY <1>f DEF Mine, MineCancelled
    <3>3. /\ \A y \in Charges : Extra(d)[y] \in Int /\ Extra(e)[y] \in Int /\ (y # c => Extra(e)[y] = Extra(d)[y])
          /\ Extra(e)[c] = Extra(d)[c] + n
      <4>1. \A y \in Charges : Adjusted(d, y) \in Int /\ Adjusted(e, y) \in Int
        BY <1>d, <1>1, AdjustedType
      <4> QED
        BY <4>1, <1>t, <1>j DEF Extra
    <3>6. ASSUME NEW k \in Lots
          PROVE  LotBalance(e, k, f) = LotBalance(d, k, f) + (IF k = l THEN x ELSE 0)
      <4> DEFINE M == Mine(d, k, f)
      <4>1. /\ LotBalance(d, k, f) =
                 SumOver(ShareOf, M) - SumOver(ShareOf, MineCancelled(d, k, f))
                   + SumOver(Extra(d), M) - SumOver(Got(d), GotFrom(d, k, f))
            /\ LotBalance(e, k, f) =
                 SumOver(ShareOf, Mine(e, k, f)) - SumOver(ShareOf, MineCancelled(e, k, f))
                   + SumOver(Extra(e), Mine(e, k, f)) - SumOver(Got(e), GotFrom(e, k, f))
            /\ SumOver(ShareOf, M) \in Int
            /\ SumOver(ShareOf, MineCancelled(d, k, f)) \in Int
            /\ SumOver(Extra(d), M) \in Int
            /\ SumOver(Got(d), GotFrom(d, k, f)) \in Int
            /\ IsFiniteSet(M) /\ M \in SUBSET Charges
        BY <1>d, <1>1, LotParts
      <4>2. /\ SumOver(ShareOf, Mine(e, k, f)) = SumOver(ShareOf, M)
            /\ SumOver(ShareOf, MineCancelled(e, k, f)) = SumOver(ShareOf, MineCancelled(d, k, f))
            /\ SumOver(Extra(e), Mine(e, k, f)) = SumOver(Extra(e), M)
            /\ SumOver(Got(e), GotFrom(e, k, f)) = SumOver(Got(d), GotFrom(d, k, f))
        BY <3>1, <3>2, Zenon
      <4>3. c \in M <=> FundOf[c[1]] = f /\ k = l
        BY <1>j DEF Mine
      <4> HIDE DEF M, l
      <4>4. (\A y \in M : Extra(d)[y] \in Int /\ Extra(e)[y] \in Int) /\ (\A y \in M \ {c} : Extra(e)[y] = Extra(d)[y])
        BY <3>3, <4>1
      <4>5. CASE c \in M
        <5>1. SumOver(Extra(e), M) = SumOver(Extra(d), M) - Extra(d)[c] + Extra(e)[c]
          BY <4>1, <4>4, <4>5, SumChange
        <5>2. SumOver(Extra(e), M) = SumOver(Extra(d), M) + n
          BY <5>1, <3>3, <4>1, <4>4, <4>5, <1>j
        <5> QED
          BY <5>2, <4>1, <4>2, <4>3, <4>5, <1>j
      <4>6. CASE c \notin M
        <5>1. \A y \in M : Extra(d)[y] \in Int /\ Extra(e)[y] = Extra(d)[y]
          BY <4>4, <4>6
        <5>2. SumOver(Extra(e), M) = SumOver(Extra(d), M)
          BY <5>1, <4>1, SumCongruent
        <5> QED
          BY <5>2, <4>1, <4>2, <4>3, <4>6
      <4> QED
        BY <4>5, <4>6
    <3>7. /\ LotBalance(e, l, f) = LotBalance(d, l, f) + x
          /\ \A k \in Lots : k # l => LotBalance(e, k, f) = LotBalance(d, k, f)
      <4>1. \A k \in Lots : LotBalance(d, k, f) \in Int
        BY <1>d, LotType
      <4> HIDE DEF x, l
      <4> QED
        BY <4>1, <3>6, <2>0
    <3> HIDE DEF x, l
    <3> QED
      BY <3>7, <2>0, <1>d, <1>1, OwedChange
  <2>5. /\ OwnBalance(d, "UNAPPLIED_CASH", f) \in Int /\ OwnBalance(d, "LOT_LEVY_RECEIVABLE", f) \in Int
        /\ OwedBy(d, f) \in Int
    BY <1>d, <1>1, BalanceSums, OwedType
  <2> HIDE DEF x
  <2> QED
    BY <2>0, <2>1, <2>2, <2>3, <2>4, <2>5
<1> QED
  BY <1>1, <1>2, <1>3, <1>4, <1>5, <1>6, <1>7 DEF Sound

-----------------------------------------------------------------------------
(***************************************************************************)
(* The transactions are such steps.                                        *)
(***************************************************************************)

IsRecord(d) ==
  d = [journals |-> d.journals, instalments |-> d.instalments, charges |-> d.charges,
       adjustments |-> d.adjustments, receipts |-> d.receipts, allocations |-> d.allocations]

LEMMA TablesRecord == ASSUME NEW d \in Tables PROVE IsRecord(d)
<1>1. ASSUME NEW A, NEW B, NEW C, NEW X, NEW Y, NEW Z,
             NEW r \in [journals : A, instalments : B, charges : C, adjustments : X, receipts : Y, allocations : Z]
      PROVE  r = [journals |-> r.journals, instalments |-> r.instalments, charges |-> r.charges,
                  adjustments |-> r.adjustments, receipts |-> r.receipts, allocations |-> r.allocations]
  OBVIOUS
<1> QED
  BY <1>1, Zenon DEF Tables, IsRecord

\* w is d with one journal more.
Posted(d, w, j) ==
  /\ IsRecord(w) /\ w.journals = Append(d.journals, j)
  /\ w.instalments = d.instalments /\ w.charges = d.charges
  /\ w.adjustments = d.adjustments /\ w.receipts = d.receipts /\ w.allocations = d.allocations

LEMMA PostPosts ==
  ASSUME NEW d \in Tables, NEW type, NEW source, NEW dr, NEW cr, NEW fund, NEW amount
  PROVE  Posted(d, Post(d, type, source, dr, cr, fund, amount),
                [type |-> type, source |-> source, dr |-> dr, cr |-> cr,
                 fund |-> fund, amount |-> amount, of |-> NoJournal])
<1> DEFINE j == [type |-> type, source |-> source, dr |-> dr, cr |-> cr,
                 fund |-> fund, amount |-> amount, of |-> NoJournal]
           J == Append(d.journals, j)
           w == Post(d, type, source, dr, cr, fund, amount)
<1>1. w = [d EXCEPT !.journals = J]
  BY DEF Post
<1>2. IsRecord(d)
  BY TablesRecord
<1> HIDE DEF J, w
<1>3. /\ IsRecord(w) /\ w.journals = J /\ w.instalments = d.instalments /\ w.charges = d.charges
      /\ w.adjustments = d.adjustments /\ w.receipts = d.receipts /\ w.allocations = d.allocations
  BY <1>1, <1>2 DEF IsRecord
<1> QED
  BY <1>3 DEF Posted, w, J

LEMMA ReversalPosts ==
  ASSUME NEW d \in Tables, NEW k
  PROVE  Posted(d, PostReversal(d, k),
                [type |-> "REVERSAL", source |-> k, dr |-> d.journals[k].cr, cr |-> d.journals[k].dr,
                 fund |-> d.journals[k].fund, amount |-> d.journals[k].amount, of |-> k])
<1> DEFINE j == [type |-> "REVERSAL", source |-> k, dr |-> d.journals[k].cr, cr |-> d.journals[k].dr,
                 fund |-> d.journals[k].fund, amount |-> d.journals[k].amount, of |-> k]
           J == Append(d.journals, j)
           w == PostReversal(d, k)
<1>1. w = [d EXCEPT !.journals = J]
  BY DEF PostReversal
<1>2. IsRecord(d)
  BY TablesRecord
<1> HIDE DEF J, w
<1>3. /\ IsRecord(w) /\ w.journals = J /\ w.instalments = d.instalments /\ w.charges = d.charges
      /\ w.adjustments = d.adjustments /\ w.receipts = d.receipts /\ w.allocations = d.allocations
  BY <1>1, <1>2 DEF IsRecord
<1> QED
  BY <1>3 DEF Posted, w, J

LEMMA RecordTables ==
  ASSUME NEW e, IsRecord(e), e.journals \in Seq(Journal),
         e.instalments \in [Instalments -> [status : {"PENDING", "ISSUED", "REVERSED"}, journal : Nat]],
         e.charges \in [Charges -> {"NONE", "ISSUED", "PART_PAID", "PAID", "CANCELLED"}],
         e.adjustments \in Seq([charge : Charges, amount : Int, journal : Nat]),
         e.receipts \in Seq([lot : Lots, fund : Funds, amount : Int,
                             status : {"RECORDED", "REVERSED"}, journal : Nat]),
         e.allocations \in Seq([receipt : Nat, charge : Charges, amount : Int,
                                status : {"APPLIED", "REVERSED"}, journal : Nat])
  PROVE  e \in Tables
<1>1. ASSUME NEW A, NEW B, NEW C, NEW X, NEW Y, NEW Z, NEW r,
             r = [journals |-> r.journals, instalments |-> r.instalments, charges |-> r.charges,
                  adjustments |-> r.adjustments, receipts |-> r.receipts, allocations |-> r.allocations],
             r.journals \in A, r.instalments \in B, r.charges \in C,
             r.adjustments \in X, r.receipts \in Y, r.allocations \in Z
      PROVE  r \in [journals : A, instalments : B, charges : C, adjustments : X, receipts : Y, allocations : Z]
  BY <1>1
<1> QED
  BY <1>1, Zenon DEF Tables, IsRecord

AfterIssue(d, i) ==
  [Post(d, "LEVY", i, "LOT_LEVY_RECEIVABLE", "LEVY_INCOME", FundOf[i], InstalmentTotal(i)) EXCEPT
     !.instalments[i] = [status |-> "ISSUED", journal |-> NextJournal(d)],
     !.charges = [c \in Charges |-> IF c[1] = i /\ ShareOf[c] > 0 THEN "ISSUED" ELSE d.charges[c]]]

LEMMA IssueIsStep ==
  ASSUME NEW d \in Tables, NEW i \in Instalments, d.instalments[i].status = "PENDING"
  PROVE  \E j : IssueStep(d, AfterIssue(d, i), i, j)
<1> DEFINE j == [type |-> "LEVY", source |-> i, dr |-> "LOT_LEVY_RECEIVABLE", cr |-> "LEVY_INCOME",
                 fund |-> FundOf[i], amount |-> InstalmentTotal(i), of |-> NoJournal]
           inst == [d.instalments EXCEPT ![i] = [status |-> "ISSUED", journal |-> NextJournal(d)]]
           ch == [c \in Charges |-> IF c[1] = i /\ ShareOf[c] > 0 THEN "ISSUED" ELSE d.charges[c]]
           e == AfterIssue(d, i)
           w == Post(d, "LEVY", i, "LOT_LEVY_RECEIVABLE", "LEVY_INCOME", FundOf[i], InstalmentTotal(i))
<1>1. /\ IsRecord(e) /\ e.journals = Append(d.journals, j) /\ e.instalments = inst /\ e.charges = ch
      /\ e.adjustments = d.adjustments /\ e.receipts = d.receipts /\ e.allocations = d.allocations
  <2>1. Posted(d, w, j)
    BY PostPosts
  <2>2. e = [[w EXCEPT !.instalments = [w.instalments EXCEPT ![i] = [status |-> "ISSUED", journal |-> NextJournal(d)]]]
               EXCEPT !.charges = ch]
    BY DEF AfterIssue
  <2> HIDE DEF j, w, e, ch
  <2>3. w.instalments = d.instalments
    BY <2>1 DEF Posted
  <2>4. e = [[w EXCEPT !.instalments = inst] EXCEPT !.charges = ch]
    BY <2>2, <2>3
  <2> HIDE DEF inst
  <2> QED
    BY <2>1, <2>4 DEF Posted, IsRecord
<1>2. /\ j \in Journal /\ j.type = "LEVY" /\ j.of = 0 /\ j.fund = FundOf[i]
      /\ j.dr = "LOT_LEVY_RECEIVABLE" /\ j.cr = "LEVY_INCOME" /\ j.amount = InstalmentTotal(i)
  BY TotalType, FundOfAssumption, InstalmentsAssumption DEF Journal, Types, Accounts, NoJournal
<1>3. NextJournal(d) = Len(d.journals) + 1 /\ Len(d.journals) \in Nat
  BY FieldsOf DEF NextJournal
<1>4. /\ inst \in [Instalments -> [status : {"PENDING", "ISSUED", "REVERSED"}, journal : Nat]]
      /\ inst[i].status = "ISSUED" /\ inst[i].journal = Len(d.journals) + 1
      /\ \A x \in Instalments \ {i} : inst[x] = d.instalments[x]
  BY <1>3, FieldsOf
<1>5. /\ ch \in [Charges -> {"NONE", "ISSUED", "PART_PAID", "PAID", "CANCELLED"}]
      /\ \A c \in Charges : ch[c] = IF c[1] = i /\ ShareOf[c] > 0 THEN "ISSUED" ELSE d.charges[c]
  BY FieldsOf
<1> HIDE DEF j, inst, ch, e
<1>6. e \in Tables
  <2>1. Append(d.journals, j) \in Seq(Journal)
    BY <1>2, FieldsOf
  <2> QED
    BY <2>1, <1>1, <1>4, <1>5, RecordTables, FieldsOf
<1>8. Appends(d, e, j)
  BY <1>1, <1>2, <1>3 DEF Appends
<1>9. IssueStep(d, e, i, j)
  BY <1>1, <1>2, <1>4, <1>5, <1>6, <1>8 DEF IssueStep
<1> QED
  BY <1>9 DEF e

\* The journal that reverses a row's journal mirrors what the row says.
LEMMA ReversalJournal ==
  ASSUME NEW d \in Tables, JournalsSound(d), NEW k, NEW dr, NEW cr, NEW fund, NEW amount,
         Line(d, k, dr, cr, fund, amount),
         NEW j, j = [type |-> "REVERSAL", source |-> k, dr |-> d.journals[k].cr, cr |-> d.journals[k].dr,
                     fund |-> d.journals[k].fund, amount |-> d.journals[k].amount, of |-> k]
  PROVE  /\ j \in Journal /\ j.type = "REVERSAL" /\ j.of = k /\ k # 0 /\ k <= Len(d.journals)
         /\ j.dr = cr /\ j.cr = dr /\ j.fund = fund /\ j.amount = amount
<1>1. k \in Nat /\ k # 0 /\ k <= Len(d.journals)
  <2>1. DOMAIN d.journals = 1..Len(d.journals) /\ Len(d.journals) \in Nat
    BY FieldsOf
  <2> QED
    BY <2>1 DEF Line
<1>2. /\ d.journals[k].amount \in Int /\ d.journals[k].fund \in Funds
      /\ d.journals[k].dr \in Accounts /\ d.journals[k].cr \in Accounts
  BY RowsOf DEF Line
<1>3. j \in Journal
  BY <1>1, <1>2 DEF Journal, Types
<1> QED
  BY <1>1, <1>3 DEF Line

AfterReverseInstalment(d, i) ==
  [PostReversal(d, d.instalments[i].journal) EXCEPT
     !.instalments[i].status = "REVERSED",
     !.charges = [c \in Charges |->
                    IF c[1] = i /\ d.charges[c] # "NONE" THEN "CANCELLED" ELSE d.charges[c]]]

LEMMA ReverseInstalmentIsStep ==
  ASSUME NEW d, Sound(d), NEW i \in Instalments, d.instalments[i].status = "ISSUED"
  PROVE  \E j : ReverseInstalmentStep(d, AfterReverseInstalment(d, i), i, j)
<1> DEFINE k == d.instalments[i].journal
           j == [type |-> "REVERSAL", source |-> k, dr |-> d.journals[k].cr, cr |-> d.journals[k].dr,
                 fund |-> d.journals[k].fund, amount |-> d.journals[k].amount, of |-> k]
           inst == [d.instalments EXCEPT ![i] = [d.instalments[i] EXCEPT !.status = "REVERSED"]]
           ch == [c \in Charges |-> IF c[1] = i /\ d.charges[c] # "NONE" THEN "CANCELLED" ELSE d.charges[c]]
           e == AfterReverseInstalment(d, i)
           w == PostReversal(d, k)
<1>d. d \in Tables /\ JournalsSound(d) /\ LinesSound(d)
  BY DEF Sound
<1>1. /\ IsRecord(e) /\ e.journals = Append(d.journals, j) /\ e.instalments = inst /\ e.charges = ch
      /\ e.adjustments = d.adjustments /\ e.receipts = d.receipts /\ e.allocations = d.allocations
  <2>1. Posted(d, w, j)
    BY <1>d, ReversalPosts
  <2>2. e = [[w EXCEPT !.instalments = [w.instalments EXCEPT ![i] = [w.instalments[i] EXCEPT !.status = "REVERSED"]]]
               EXCEPT !.charges = ch]
    BY DEF AfterReverseInstalment
  <2> HIDE DEF k, j, w, e, ch
  <2>3. w.instalments = d.instalments
    BY <2>1 DEF Posted
  <2>4. e = [[w EXCEPT !.instalments = inst] EXCEPT !.charges = ch]
    BY <2>2, <2>3
  <2> HIDE DEF inst
  <2> QED
    BY <2>1, <2>4 DEF Posted, IsRecord
<1>2. Line(d, k, "LOT_LEVY_RECEIVABLE", "LEVY_INCOME", FundOf[i], InstalmentTotal(i))
  BY <1>d DEF LinesSound, IssuedOnce
<1>3. /\ j \in Journal /\ j.type = "REVERSAL" /\ j.of = k /\ k # 0 /\ k <= Len(d.journals)
      /\ j.dr = "LEVY_INCOME" /\ j.cr = "LOT_LEVY_RECEIVABLE" /\ j.fund = FundOf[i] /\ j.amount = InstalmentTotal(i)
  <2> HIDE DEF k
  <2> QED
    BY <1>d, <1>2, ReversalJournal
<1>4. /\ inst \in [Instalments -> [status : {"PENDING", "ISSUED", "REVERSED"}, journal : Nat]]
      /\ inst[i].status = "REVERSED" /\ inst[i].journal = k
      /\ \A x \in Instalments \ {i} : inst[x] = d.instalments[x]
  BY <1>d, FieldsOf
<1>5. /\ ch \in [Charges -> {"NONE", "ISSUED", "PART_PAID", "PAID", "CANCELLED"}]
      /\ \A c \in Charges : ch[c] = IF c[1] = i /\ d.charges[c] # "NONE" THEN "CANCELLED" ELSE d.charges[c]
  BY <1>d, FieldsOf
<1> HIDE DEF j, inst, ch, e
<1>6. e \in Tables
  <2>1. Append(d.journals, j) \in Seq(Journal)
    BY <1>3, <1>d, FieldsOf
  <2>3. e.journals \in Seq(Journal)
    BY <2>1, <1>1
  <2>4. /\ e.instalments \in [Instalments -> [status : {"PENDING", "ISSUED", "REVERSED"}, journal : Nat]]
        /\ e.charges \in [Charges -> {"NONE", "ISSUED", "PART_PAID", "PAID", "CANCELLED"}]
    BY <1>d, <1>1, <1>4, <1>5, FieldsOf
  <2>5. /\ e.adjustments \in Seq([charge : Charges, amount : Int, journal : Nat])
        /\ e.receipts \in Seq([lot : Lots, fund : Funds, amount : Int,
                              status : {"RECORDED", "REVERSED"}, journal : Nat])
        /\ e.allocations \in Seq([receipt : Nat, charge : Charges, amount : Int,
                                 status : {"APPLIED", "REVERSED"}, journal : Nat])
    BY <1>d, <1>1, <1>4, <1>5, FieldsOf
  <2>6. IsRecord(e)
    BY <1>1
  <2> QED
    BY <2>3, <2>4, <2>5, <2>6, RecordTables, Zenon
<1>8. Appends(d, e, j)
  BY <1>1, <1>3 DEF Appends
<1>9. ReverseInstalmentStep(d, e, i, j)
  BY <1>1, <1>3, <1>4, <1>5, <1>6, <1>8 DEF ReverseInstalmentStep
<1> QED
  BY <1>9 DEF e

LEMMA ReverseThroughIsStep ==
  ASSUME NEW d, Sound(d), NEW k \in DOMAIN d.journals, d.journals[k].type = "REVERSAL"
  PROVE  \E j : ReverseThroughStep(d, PostReversal(d, k), k, j)
<1> DEFINE j == [type |-> "REVERSAL", source |-> k, dr |-> d.journals[k].cr, cr |-> d.journals[k].dr,
                 fund |-> d.journals[k].fund, amount |-> d.journals[k].amount, of |-> k]
           e == PostReversal(d, k)
<1>d. d \in Tables /\ JournalsSound(d)
  BY DEF Sound
<1>1. Posted(d, e, j)
  BY <1>d, ReversalPosts
<1>2. Line(d, k, d.journals[k].dr, d.journals[k].cr, d.journals[k].fund, d.journals[k].amount)
  BY DEF Line
<1>3. j \in Journal /\ j.type = "REVERSAL" /\ j.of = k /\ k # 0 /\ k <= Len(d.journals)
  BY <1>d, <1>2, ReversalJournal
<1> HIDE DEF j, e
<1>4. e \in Tables
  <2>1. Append(d.journals, j) \in Seq(Journal)
    BY <1>3, <1>d, FieldsOf
  <2>2. /\ IsRecord(e) /\ e.journals = Append(d.journals, j)
        /\ e.instalments = d.instalments /\ e.charges = d.charges
        /\ e.adjustments = d.adjustments /\ e.receipts = d.receipts /\ e.allocations = d.allocations
    BY <1>1 DEF Posted
  <2> QED
    BY <2>1, <2>2, <1>d, RecordTables, FieldsOf
<1>5. ReverseThroughStep(d, e, k, j)
  BY <1>1, <1>3, <1>4 DEF ReverseThroughStep, Appends, Posted
<1> QED
  BY <1>5 DEF e

AfterAdjustment(d, c, n, source) ==
  LET magnitude == IF n > 0 THEN n ELSE -n
      posted == IF n > 0
        THEN Post(d, "LEVY_ADJUSTMENT", source, "LOT_LEVY_RECEIVABLE", "LEVY_INCOME", FundOf[c[1]], magnitude)
        ELSE Post(d, "LEVY_ADJUSTMENT", source, "LEVY_INCOME", "LOT_LEVY_RECEIVABLE", FundOf[c[1]], magnitude)
  IN [posted EXCEPT !.adjustments = Append(@, [charge |-> c, amount |-> n, journal |-> NextJournal(d)])]

LEMMA FundType == \A c \in Charges : FundOf[c[1]] \in Funds
  BY FundOfAssumption DEF Charges

LEMMA AdjustIsStep ==
  ASSUME NEW d \in Tables, NEW c \in Charges, NEW n \in Int, NEW source \in Int, d.charges[c] # "NONE"
  PROVE  \E j : AdjustStep(d, AfterAdjustment(d, c, n, source), c, n, j)
<1> DEFINE m == IF n > 0 THEN n ELSE -n
           dr == IF n > 0 THEN "LOT_LEVY_RECEIVABLE" ELSE "LEVY_INCOME"
           cr == IF n > 0 THEN "LEVY_INCOME" ELSE "LOT_LEVY_RECEIVABLE"
           j == [type |-> "LEVY_ADJUSTMENT", source |-> source, dr |-> dr, cr |-> cr,
                 fund |-> FundOf[c[1]], amount |-> m, of |-> NoJournal]
           w == Post(d, "LEVY_ADJUSTMENT", source, dr, cr, FundOf[c[1]], m)
           row == [charge |-> c, amount |-> n, journal |-> NextJournal(d)]
           e == AfterAdjustment(d, c, n, source)
           adj == Append(d.adjustments, row)
<1>1. /\ IsRecord(e) /\ e.journals = Append(d.journals, j) /\ e.adjustments = adj
      /\ e.instalments = d.instalments /\ e.charges = d.charges
      /\ e.receipts = d.receipts /\ e.allocations = d.allocations
  <2>1. Posted(d, w, j)
    BY PostPosts
  <2>2. e = [w EXCEPT !.adjustments = Append(w.adjustments, row)]
    BY DEF AfterAdjustment
  <2> HIDE DEF j, w, e, row
  <2>3. e = [w EXCEPT !.adjustments = adj]
    BY <2>1, <2>2 DEF Posted
  <2> HIDE DEF adj
  <2> QED
    BY <2>1, <2>3 DEF Posted, IsRecord
<1>2. /\ j \in Journal /\ j.type = "LEVY_ADJUSTMENT" /\ j.of = 0 /\ j.fund = FundOf[c[1]]
      /\ j.dr = dr /\ j.cr = cr /\ j.amount = m
  BY FundType DEF Journal, Types, Accounts, NoJournal
<1>3. NextJournal(d) = Len(d.journals) + 1 /\ Len(d.journals) \in Nat
  BY FieldsOf DEF NextJournal
<1>4. /\ adj \in Seq([charge : Charges, amount : Int, journal : Nat])
      /\ DOMAIN adj = DOMAIN d.adjustments \cup {Len(d.adjustments) + 1}
      /\ Len(d.adjustments) + 1 \notin DOMAIN d.adjustments
      /\ adj[Len(d.adjustments) + 1] = row
      /\ \A a \in DOMAIN d.adjustments : adj[a] = d.adjustments[a]
  <2> DEFINE X == [charge : Charges, amount : Int, journal : Nat]
  <2>1. row \in X
    BY <1>3
  <2>2. d.adjustments \in Seq(X)
    BY FieldsOf
  <2> HIDE DEF X, row
  <2>3. adj \in Seq(X)
    BY <2>1, <2>2
  <2> QED
    BY <2>2, <2>3, Grows DEF X
<1>5. row.charge = c /\ row.amount = n /\ row.journal = Len(d.journals) + 1
  BY <1>3
<1>6. /\ \A f : Moves(j, "UNAPPLIED_CASH", f) = 0
      /\ \A f : Moves(j, "LOT_LEVY_RECEIVABLE", f) = IF FundOf[c[1]] = f THEN n ELSE 0
  <2>1. CASE n > 0
    BY <1>2, <2>1 DEF Moves
  <2>2. CASE ~(n > 0)
    BY <1>2, <2>2 DEF Moves
  <2> QED
    BY <2>1, <2>2
<1> HIDE DEF j, e, adj, row, m, dr, cr
<1>7. e \in Tables
  <2>1. Append(d.journals, j) \in Seq(Journal)
    BY <1>2, FieldsOf
  <2> QED
    BY <2>1, <1>1, <1>4, RecordTables, FieldsOf
<1>8. Appends(d, e, j)
  BY <1>1, <1>2, <1>3 DEF Appends
<1>9. AdjustStep(d, e, c, n, j)
  BY <1>1, <1>2, <1>4, <1>5, <1>6, <1>7, <1>8 DEF AdjustStep
<1> QED
  BY <1>9 DEF e

AfterReceipt(d, l, fund, n, source) ==
  [Post(d, "RECEIPT", source, "FUND_CASH", "UNAPPLIED_CASH", fund, n) EXCEPT
     !.receipts = Append(@, [lot |-> l, fund |-> fund, amount |-> n,
                             status |-> "RECORDED", journal |-> NextJournal(d)])]

LEMMA RecordReceiptIsStep ==
  ASSUME NEW d \in Tables, NEW l \in Lots, NEW fund \in Funds, NEW n \in Nat \ {0}, NEW source \in Int
  PROVE  \E j : RecordReceiptStep(d, AfterReceipt(d, l, fund, n, source), l, fund, n, j)
<1> DEFINE j == [type |-> "RECEIPT", source |-> source, dr |-> "FUND_CASH", cr |-> "UNAPPLIED_CASH",
                 fund |-> fund, amount |-> n, of |-> NoJournal]
           w == Post(d, "RECEIPT", source, "FUND_CASH", "UNAPPLIED_CASH", fund, n)
           row == [lot |-> l, fund |-> fund, amount |-> n, status |-> "RECORDED", journal |-> NextJournal(d)]
           e == AfterReceipt(d, l, fund, n, source)
           rec == Append(d.receipts, row)
<1>1. /\ IsRecord(e) /\ e.journals = Append(d.journals, j) /\ e.receipts = rec
      /\ e.instalments = d.instalments /\ e.charges = d.charges
      /\ e.adjustments = d.adjustments /\ e.allocations = d.allocations
  <2>1. Posted(d, w, j)
    BY PostPosts
  <2>2. e = [w EXCEPT !.receipts = Append(w.receipts, row)]
    BY DEF AfterReceipt
  <2> HIDE DEF j, w, e, row
  <2>3. e = [w EXCEPT !.receipts = rec]
    BY <2>1, <2>2 DEF Posted
  <2> HIDE DEF rec
  <2> QED
    BY <2>1, <2>3 DEF Posted, IsRecord
<1>2. /\ j \in Journal /\ j.type = "RECEIPT" /\ j.of = 0 /\ j.fund = fund
      /\ j.dr = "FUND_CASH" /\ j.cr = "UNAPPLIED_CASH" /\ j.amount = n
  BY DEF Journal, Types, Accounts, NoJournal
<1>3. NextJournal(d) = Len(d.journals) + 1 /\ Len(d.journals) \in Nat
  BY FieldsOf DEF NextJournal
<1>4. /\ rec \in Seq([lot : Lots, fund : Funds, amount : Int, status : {"RECORDED", "REVERSED"}, journal : Nat])
      /\ DOMAIN rec = DOMAIN d.receipts \cup {Len(d.receipts) + 1}
      /\ Len(d.receipts) + 1 \notin DOMAIN d.receipts
      /\ rec[Len(d.receipts) + 1] = row
      /\ \A q \in DOMAIN d.receipts : rec[q] = d.receipts[q]
  <2> DEFINE X == [lot : Lots, fund : Funds, amount : Int, status : {"RECORDED", "REVERSED"}, journal : Nat]
  <2>1. row \in X
    BY <1>3
  <2>2. d.receipts \in Seq(X)
    BY FieldsOf
  <2> HIDE DEF X, row
  <2>3. rec \in Seq(X)
    BY <2>1, <2>2
  <2> QED
    BY <2>2, <2>3, Grows DEF X
<1>5. row.lot = l /\ row.fund = fund /\ row.amount = n /\ row.status = "RECORDED" /\ row.journal = Len(d.journals) + 1
  BY <1>3
<1> HIDE DEF j, e, rec, row
<1>7. e \in Tables
  <2>1. Append(d.journals, j) \in Seq(Journal)
    BY <1>2, FieldsOf
  <2> QED
    BY <2>1, <1>1, <1>4, RecordTables, FieldsOf
<1>8. Appends(d, e, j)
  BY <1>1, <1>2, <1>3 DEF Appends
<1>9. RecordReceiptStep(d, e, l, fund, n, j)
  BY <1>1, <1>2, <1>4, <1>5, <1>7, <1>8 DEF RecordReceiptStep
<1> QED
  BY <1>9 DEF e

\* updateChargeStatus writes one charge, unless it is cancelled.
LEMMA RefreshFields ==
  ASSUME NEW w, IsRecord(w), NEW c \in Charges,
         w.charges \in [Charges -> {"NONE", "ISSUED", "PART_PAID", "PAID", "CANCELLED"}]
  PROVE  /\ IsRecord(Refresh(w, c)) /\ Refresh(w, c).journals = w.journals
         /\ Refresh(w, c).instalments = w.instalments /\ Refresh(w, c).adjustments = w.adjustments
         /\ Refresh(w, c).receipts = w.receipts /\ Refresh(w, c).allocations = w.allocations
         /\ Refresh(w, c).charges \in [Charges -> {"NONE", "ISSUED", "PART_PAID", "PAID", "CANCELLED"}]
         /\ \A x \in Charges : x # c => Refresh(w, c).charges[x] = w.charges[x]
         /\ w.charges[c] = "CANCELLED" => Refresh(w, c).charges[c] = "CANCELLED"
         /\ w.charges[c] # "CANCELLED" => Refresh(w, c).charges[c] \in {"ISSUED", "PART_PAID", "PAID"}
<1> DEFINE p == PaymentStatus(w, c)
           ch == [w.charges EXCEPT ![c] = p]
<1>1. p \in {"ISSUED", "PART_PAID", "PAID"}
  BY DEF PaymentStatus
<1> HIDE DEF p
<1>2. CASE w.charges[c] = "CANCELLED"
  <2>1. Refresh(w, c) = w
    BY <1>2 DEF Refresh
  <2> QED
    BY <2>1, <1>2
<1>3. CASE w.charges[c] # "CANCELLED"
  <2>1. Refresh(w, c) = [w EXCEPT !.charges = ch]
    BY <1>3 DEF Refresh, p
  <2>2. /\ ch \in [Charges -> {"NONE", "ISSUED", "PART_PAID", "PAID", "CANCELLED"}]
        /\ ch[c] = p /\ \A x \in Charges : x # c => ch[x] = w.charges[x]
    BY <1>1
  <2> DEFINE e == Refresh(w, c)
  <2> HIDE DEF ch, e
  <2>3. /\ IsRecord(e) /\ e.journals = w.journals /\ e.charges = ch
        /\ e.instalments = w.instalments /\ e.adjustments = w.adjustments
        /\ e.receipts = w.receipts /\ e.allocations = w.allocations
    BY <2>1 DEF IsRecord, e
  <2> QED
    BY <2>2, <2>3, <1>1, <1>3 DEF e
<1> QED
  BY <1>2, <1>3

LEMMA AllocateIsStep ==
  ASSUME NEW d \in Tables, NEW r \in DOMAIN d.receipts, NEW c \in Charges, NEW n \in Int, n > 0,
         NEW source \in Int, MayAllocate(d, r, c, n)
  PROVE  \E j : AllocateStep(d, Allocate(d, r, c, n, source), r, c, n, j)
<1> DEFINE j == [type |-> "PAYMENT_ALLOCATION", source |-> source, dr |-> "UNAPPLIED_CASH",
                 cr |-> "LOT_LEVY_RECEIVABLE", fund |-> FundOf[c[1]], amount |-> n, of |-> NoJournal]
           w == Post(d, "PAYMENT_ALLOCATION", source, "UNAPPLIED_CASH", "LOT_LEVY_RECEIVABLE", FundOf[c[1]], n)
           row == [receipt |-> r, charge |-> c, amount |-> n, status |-> "APPLIED", journal |-> NextJournal(d)]
           all == Append(d.allocations, row)
           v == [w EXCEPT !.allocations = Append(w.allocations, row)]
           e == Allocate(d, r, c, n, source)
<1>1. /\ IsRecord(v) /\ v.journals = Append(d.journals, j) /\ v.allocations = all
      /\ v.instalments = d.instalments /\ v.charges = d.charges
      /\ v.adjustments = d.adjustments /\ v.receipts = d.receipts
  <2>1. Posted(d, w, j)
    BY PostPosts
  <2> HIDE DEF j, w, row
  <2>3. v = [w EXCEPT !.allocations = all]
    BY <2>1 DEF Posted
  <2> HIDE DEF all, v
  <2> QED
    BY <2>1, <2>3 DEF Posted, IsRecord
<1>2. e = Refresh(v, c)
  BY DEF Allocate
<1>3. /\ j \in Journal /\ j.type = "PAYMENT_ALLOCATION" /\ j.of = 0 /\ j.fund = FundOf[c[1]]
      /\ j.dr = "UNAPPLIED_CASH" /\ j.cr = "LOT_LEVY_RECEIVABLE" /\ j.amount = n
  BY FundType DEF Journal, Types, Accounts, NoJournal
<1>4. NextJournal(d) = Len(d.journals) + 1 /\ Len(d.journals) \in Nat
  BY FieldsOf DEF NextJournal
<1>5. /\ all \in Seq([receipt : Nat, charge : Charges, amount : Int,
                      status : {"APPLIED", "REVERSED"}, journal : Nat])
      /\ DOMAIN all = DOMAIN d.allocations \cup {Len(d.allocations) + 1}
      /\ Len(d.allocations) + 1 \notin DOMAIN d.allocations
      /\ all[Len(d.allocations) + 1] = row
      /\ \A q \in DOMAIN d.allocations : all[q] = d.allocations[q]
  <2> DEFINE X == [receipt : Nat, charge : Charges, amount : Int, status : {"APPLIED", "REVERSED"}, journal : Nat]
  <2>0. r \in Nat
    <3>1. DOMAIN d.receipts = 1..Len(d.receipts) /\ Len(d.receipts) \in Nat
      BY FieldsOf
    <3> QED
      BY <3>1
  <2>1. row \in X
    BY <1>4, <2>0
  <2>2. d.allocations \in Seq(X)
    BY FieldsOf
  <2> HIDE DEF X, row
  <2>3. all \in Seq(X)
    BY <2>1, <2>2
  <2>4. /\ DOMAIN all = DOMAIN d.allocations \cup {Len(d.allocations) + 1}
        /\ Len(d.allocations) + 1 \notin DOMAIN d.allocations
        /\ all[Len(d.allocations) + 1] = row
        /\ \A q \in DOMAIN d.allocations : all[q] = d.allocations[q]
    BY <2>2, Grows
  <2> HIDE DEF all
  <2> QED
    BY <2>3, <2>4 DEF X
<1>6. /\ row.receipt = r /\ row.charge = c /\ row.amount = n /\ row.status = "APPLIED"
      /\ row.journal = Len(d.journals) + 1
  BY <1>4
<1>7. /\ d.receipts[r].status = "RECORDED" /\ d.charges[c] \notin {"NONE", "CANCELLED"}
      /\ d.receipts[r].fund = FundOf[c[1]] /\ n <= Unapplied(d, r)
  BY DEF MayAllocate
<1> HIDE DEF j, v, e, all, row
<1>8. /\ IsRecord(e) /\ e.journals = Append(d.journals, j) /\ e.allocations = all
      /\ e.instalments = d.instalments /\ e.adjustments = d.adjustments /\ e.receipts = d.receipts
      /\ e.charges \in [Charges -> {"NONE", "ISSUED", "PART_PAID", "PAID", "CANCELLED"}]
      /\ \A x \in Charges : x # c => e.charges[x] = d.charges[x]
      /\ e.charges[c] \in {"ISSUED", "PART_PAID", "PAID"}
  <2>1. v.charges \in [Charges -> {"NONE", "ISSUED", "PART_PAID", "PAID", "CANCELLED"}]
    BY <1>1, FieldsOf
  <2> QED
    BY <2>1, <1>1, <1>2, <1>7, RefreshFields
<1>9. e \in Tables
  <2>1. Append(d.journals, j) \in Seq(Journal)
    BY <1>3, FieldsOf
  <2> QED
    BY <2>1, <1>8, <1>5, RecordTables, FieldsOf
<1>10. Appends(d, e, j)
  BY <1>8, <1>3, <1>4 DEF Appends
<1>11. AllocateStep(d, e, r, c, n, j)
  BY <1>3, <1>5, <1>6, <1>7, <1>8, <1>9, <1>10 DEF AllocateStep
<1> QED
  BY <1>11 DEF e

AfterReverseAllocation(d, a) ==
  Refresh([PostReversal(d, d.allocations[a].journal) EXCEPT !.allocations[a].status = "REVERSED"],
          d.allocations[a].charge)

LEMMA ReverseAllocationIsStep ==
  ASSUME NEW d, Sound(d), NEW a \in DOMAIN d.allocations, d.allocations[a].status = "APPLIED"
  PROVE  \E j : ReverseAllocationStep(d, AfterReverseAllocation(d, a), a, j)
<1> DEFINE k == d.allocations[a].journal
           c == d.allocations[a].charge
           j == [type |-> "REVERSAL", source |-> k, dr |-> d.journals[k].cr, cr |-> d.journals[k].dr,
                 fund |-> d.journals[k].fund, amount |-> d.journals[k].amount, of |-> k]
           w == PostReversal(d, k)
           all == [d.allocations EXCEPT ![a] = [d.allocations[a] EXCEPT !.status = "REVERSED"]]
           v == [w EXCEPT !.allocations = [w.allocations EXCEPT ![a] = [w.allocations[a] EXCEPT !.status = "REVERSED"]]]
           e == AfterReverseAllocation(d, a)
<1>d. d \in Tables /\ JournalsSound(d) /\ LinesSound(d) /\ LinksSound(d)
  BY DEF Sound
<1>1. /\ IsRecord(v) /\ v.journals = Append(d.journals, j) /\ v.allocations = all
      /\ v.instalments = d.instalments /\ v.charges = d.charges
      /\ v.adjustments = d.adjustments /\ v.receipts = d.receipts
  <2>1. Posted(d, w, j)
    BY <1>d, ReversalPosts
  <2> HIDE DEF k, j, w
  <2>2. w.allocations = d.allocations
    BY <2>1 DEF Posted
  <2>3. v = [w EXCEPT !.allocations = all]
    BY <2>2
  <2> HIDE DEF all, v
  <2> QED
    BY <2>1, <2>3 DEF Posted, IsRecord
<1>2. e = Refresh(v, c)
  BY DEF AfterReverseAllocation
<1>3. Line(d, k, "UNAPPLIED_CASH", "LOT_LEVY_RECEIVABLE", FundOf[c[1]], d.allocations[a].amount)
  BY <1>d DEF LinesSound
<1>4. /\ j \in Journal /\ j.type = "REVERSAL" /\ j.of = k /\ k # 0 /\ k <= Len(d.journals)
      /\ j.dr = "LOT_LEVY_RECEIVABLE" /\ j.cr = "UNAPPLIED_CASH" /\ j.fund = FundOf[c[1]]
      /\ j.amount = d.allocations[a].amount
  <2> HIDE DEF k
  <2> QED
    BY <1>d, <1>3, ReversalJournal
<1>5. /\ all \in Seq([receipt : Nat, charge : Charges, amount : Int,
                      status : {"APPLIED", "REVERSED"}, journal : Nat])
      /\ DOMAIN all = DOMAIN d.allocations
      /\ \A x \in DOMAIN d.allocations :
           /\ all[x].receipt = d.allocations[x].receipt /\ all[x].charge = d.allocations[x].charge
           /\ all[x].amount = d.allocations[x].amount /\ all[x].journal = d.allocations[x].journal
           /\ all[x].status = IF x = a THEN "REVERSED" ELSE d.allocations[x].status
  <2> DEFINE X == [receipt : Nat, charge : Charges, amount : Int, status : {"APPLIED", "REVERSED"}, journal : Nat]
             row == [d.allocations[a] EXCEPT !.status = "REVERSED"]
  <2>1. d.allocations \in Seq(X)
    BY <1>d, FieldsOf
  <2>2. d.allocations[a] \in X
    <3> HIDE DEF X
    <3> QED
      BY <2>1, Element
  <2>3. /\ row \in X /\ row.receipt = d.allocations[a].receipt /\ row.charge = d.allocations[a].charge
        /\ row.amount = d.allocations[a].amount /\ row.journal = d.allocations[a].journal
        /\ row.status = "REVERSED"
    BY <2>2
  <2> HIDE DEF X, row
  <2>4. all = [d.allocations EXCEPT ![a] = row]
    BY DEF row
  <2> HIDE DEF all
  <2>5. all \in Seq(X) /\ DOMAIN all = DOMAIN d.allocations /\ all[a] = row
        /\ \A x \in DOMAIN d.allocations : x # a => all[x] = d.allocations[x]
    BY <2>1, <2>3, <2>4
  <2> QED
    BY <2>3, <2>5 DEF X
<1>6. c \in Charges /\ d.charges[c] # "NONE"
  BY <1>d, RowsOf DEF LinksSound
<1> HIDE DEF j, v, e, all, c, k
<1>8. /\ IsRecord(e) /\ e.journals = Append(d.journals, j) /\ e.allocations = all
      /\ e.instalments = d.instalments /\ e.adjustments = d.adjustments /\ e.receipts = d.receipts
      /\ e.charges \in [Charges -> {"NONE", "ISSUED", "PART_PAID", "PAID", "CANCELLED"}]
      /\ \A x \in Charges : (e.charges[x] = "NONE" <=> d.charges[x] = "NONE")
                            /\ (e.charges[x] = "CANCELLED" <=> d.charges[x] = "CANCELLED")
  <2>1. v.charges \in [Charges -> {"NONE", "ISSUED", "PART_PAID", "PAID", "CANCELLED"}]
    BY <1>1, <1>d, FieldsOf
  <2>2. /\ IsRecord(e) /\ e.journals = v.journals
        /\ e.instalments = v.instalments /\ e.adjustments = v.adjustments
        /\ e.receipts = v.receipts /\ e.allocations = v.allocations
        /\ e.charges \in [Charges -> {"NONE", "ISSUED", "PART_PAID", "PAID", "CANCELLED"}]
        /\ \A x \in Charges : x # c => e.charges[x] = v.charges[x]
        /\ v.charges[c] = "CANCELLED" => e.charges[c] = "CANCELLED"
        /\ v.charges[c] # "CANCELLED" => e.charges[c] \in {"ISSUED", "PART_PAID", "PAID"}
    BY <2>1, <1>1, <1>2, <1>6, RefreshFields
  <2> QED
    BY <2>2, <1>1, <1>6
<1>9. e \in Tables
  <2>1. Append(d.journals, j) \in Seq(Journal)
    BY <1>4, <1>d, FieldsOf
  <2>3. e.journals \in Seq(Journal)
    BY <2>1, <1>8
  <2>4. /\ e.instalments \in [Instalments -> [status : {"PENDING", "ISSUED", "REVERSED"}, journal : Nat]]
        /\ e.charges \in [Charges -> {"NONE", "ISSUED", "PART_PAID", "PAID", "CANCELLED"}]
    BY <1>d, <1>8, <1>5, FieldsOf
  <2>5. /\ e.adjustments \in Seq([charge : Charges, amount : Int, journal : Nat])
        /\ e.receipts \in Seq([lot : Lots, fund : Funds, amount : Int,
                              status : {"RECORDED", "REVERSED"}, journal : Nat])
        /\ e.allocations \in Seq([receipt : Nat, charge : Charges, amount : Int,
                                 status : {"APPLIED", "REVERSED"}, journal : Nat])
    BY <1>d, <1>8, <1>5, FieldsOf
  <2>6. IsRecord(e)
    BY <1>8
  <2> QED
    BY <2>3, <2>4, <2>5, <2>6, RecordTables, Zenon
<1>10. Appends(d, e, j)
  BY <1>8, <1>4 DEF Appends
<1>11. ReverseAllocationStep(d, e, a, j)
  BY <1>4, <1>5, <1>8, <1>9, <1>10 DEF ReverseAllocationStep, c, k
<1> QED
  BY <1>11 DEF e

AfterReverseReceipt(d, r) ==
  [PostReversal(d, d.receipts[r].journal) EXCEPT !.receipts[r].status = "REVERSED"]

LEMMA ReverseReceiptIsStep ==
  ASSUME NEW d, Sound(d), NEW r \in DOMAIN d.receipts, d.receipts[r].status = "RECORDED",
         \A a \in DOMAIN d.allocations : d.allocations[a].receipt = r => d.allocations[a].status # "APPLIED"
  PROVE  \E j : ReverseReceiptStep(d, AfterReverseReceipt(d, r), r, j)
<1> DEFINE k == d.receipts[r].journal
           j == [type |-> "REVERSAL", source |-> k, dr |-> d.journals[k].cr, cr |-> d.journals[k].dr,
                 fund |-> d.journals[k].fund, amount |-> d.journals[k].amount, of |-> k]
           w == PostReversal(d, k)
           rec == [d.receipts EXCEPT ![r] = [d.receipts[r] EXCEPT !.status = "REVERSED"]]
           e == AfterReverseReceipt(d, r)
<1>d. d \in Tables /\ JournalsSound(d) /\ LinesSound(d) /\ LinksSound(d)
  BY DEF Sound
<1>1. /\ IsRecord(e) /\ e.journals = Append(d.journals, j) /\ e.receipts = rec
      /\ e.instalments = d.instalments /\ e.charges = d.charges
      /\ e.adjustments = d.adjustments /\ e.allocations = d.allocations
  <2>1. Posted(d, w, j)
    BY <1>d, ReversalPosts
  <2>0. e = [w EXCEPT !.receipts = [w.receipts EXCEPT ![r] = [w.receipts[r] EXCEPT !.status = "REVERSED"]]]
    BY DEF AfterReverseReceipt
  <2> HIDE DEF k, j, w, e
  <2>2. w.receipts = d.receipts
    BY <2>1 DEF Posted
  <2>3. e = [w EXCEPT !.receipts = rec]
    BY <2>0, <2>2
  <2> HIDE DEF rec
  <2> QED
    BY <2>1, <2>3 DEF Posted, IsRecord
<1>3. Line(d, k, "FUND_CASH", "UNAPPLIED_CASH", d.receipts[r].fund, d.receipts[r].amount)
  BY <1>d DEF LinesSound
<1>4. /\ j \in Journal /\ j.type = "REVERSAL" /\ j.of = k /\ k # 0 /\ k <= Len(d.journals)
      /\ j.dr = "UNAPPLIED_CASH" /\ j.cr = "FUND_CASH" /\ j.fund = d.receipts[r].fund
      /\ j.amount = d.receipts[r].amount
  <2> HIDE DEF k
  <2> QED
    BY <1>d, <1>3, ReversalJournal
<1>5. /\ rec \in Seq([lot : Lots, fund : Funds, amount : Int, status : {"RECORDED", "REVERSED"}, journal : Nat])
      /\ DOMAIN rec = DOMAIN d.receipts
      /\ \A x \in DOMAIN d.receipts :
           /\ rec[x].lot = d.receipts[x].lot /\ rec[x].fund = d.receipts[x].fund
           /\ rec[x].amount = d.receipts[x].amount /\ rec[x].journal = d.receipts[x].journal
           /\ rec[x].status = IF x = r THEN "REVERSED" ELSE d.receipts[x].status
  <2> DEFINE X == [lot : Lots, fund : Funds, amount : Int, status : {"RECORDED", "REVERSED"}, journal : Nat]
             row == [d.receipts[r] EXCEPT !.status = "REVERSED"]
  <2>1. d.receipts \in Seq(X)
    BY <1>d, FieldsOf
  <2>2. d.receipts[r] \in X
    <3> HIDE DEF X
    <3> QED
      BY <2>1, Element
  <2>3. /\ row \in X /\ row.lot = d.receipts[r].lot /\ row.fund = d.receipts[r].fund
        /\ row.amount = d.receipts[r].amount /\ row.journal = d.receipts[r].journal
        /\ row.status = "REVERSED"
    BY <2>2
  <2> HIDE DEF X, row
  <2>4. rec = [d.receipts EXCEPT ![r] = row]
    BY DEF row
  <2> HIDE DEF rec
  <2>5. rec \in Seq(X) /\ DOMAIN rec = DOMAIN d.receipts /\ rec[r] = row
        /\ \A x \in DOMAIN d.receipts : x # r => rec[x] = d.receipts[x]
    BY <2>1, <2>3, <2>4
  <2> QED
    BY <2>3, <2>5 DEF X
<1> HIDE DEF j, e, rec, k
<1>9. e \in Tables
  <2>1. Append(d.journals, j) \in Seq(Journal)
    BY <1>4, <1>d, FieldsOf
  <2> QED
    BY <2>1, <1>d, <1>1, <1>5, RecordTables, FieldsOf
<1>10. Appends(d, e, j)
  BY <1>1, <1>4 DEF Appends
<1>11. ReverseReceiptStep(d, e, r, j)
  BY <1>1, <1>4, <1>5, <1>9, <1>10 DEF ReverseReceiptStep, k
<1> QED
  BY <1>11 DEF e

-----------------------------------------------------------------------------
(***************************************************************************)
(* The first state.                                                        *)
(***************************************************************************)

LEMMA StartsSound == Init => Sound(db)
<1> SUFFICES ASSUME Init PROVE Sound(db)
  OBVIOUS
<1>1. /\ IsRecord(db) /\ db.journals = <<>> /\ db.adjustments = <<>> /\ db.receipts = <<>>
      /\ db.allocations = <<>>
      /\ db.instalments = [i \in Instalments |-> [status |-> "PENDING", journal |-> NoJournal]]
      /\ db.charges = [c \in Charges |-> "NONE"]
  BY DEF Init, IsRecord
<1>2. /\ DOMAIN db.journals = {} /\ DOMAIN db.adjustments = {}
      /\ DOMAIN db.receipts = {} /\ DOMAIN db.allocations = {}
      /\ \A i \in Instalments : db.instalments[i].status = "PENDING"
      /\ \A c \in Charges : db.charges[c] = "NONE" /\ c[1] \in Instalments
  BY <1>1 DEF Charges
<1>3. db \in Tables
  <2>1. /\ db.instalments \in [Instalments -> [status : {"PENDING", "ISSUED", "REVERSED"}, journal : Nat]]
        /\ db.charges \in [Charges -> {"NONE", "ISSUED", "PART_PAID", "PAID", "CANCELLED"}]
    BY <1>1 DEF NoJournal
  <2>2. \A X : <<>> \in Seq(X)
    OBVIOUS
  <2>3. /\ db.journals \in Seq(Journal)
        /\ db.adjustments \in Seq([charge : Charges, amount : Int, journal : Nat])
        /\ db.receipts \in Seq([lot : Lots, fund : Funds, amount : Int,
                                status : {"RECORDED", "REVERSED"}, journal : Nat])
        /\ db.allocations \in Seq([receipt : Nat, charge : Charges, amount : Int,
                                   status : {"APPLIED", "REVERSED"}, journal : Nat])
    BY <1>1, <2>2, Zenon
  <2>4. IsRecord(db)
    BY <1>1
  <2> QED
    BY <2>1, <2>3, <2>4, RecordTables, Zenon
<1>4. JournalsSound(db)
  BY <1>2, <1>3, FieldsOf DEF JournalsSound
<1>5. RowsSound(db)
  <2>1. IssuedOnce(db) = {}
    BY <1>2 DEF IssuedOnce
  <2>2. \A T, R, type : Follows(db, T, {}, R, type)
    BY <1>2 DEF Follows
  <2> QED
    BY <2>1, <2>2, <1>2, Zenon DEF RowsSound
<1>6. LinesSound(db)
  BY <1>2 DEF LinesSound, IssuedOnce
<1>7. LinksSound(db)
  BY <1>2 DEF LinksSound
<1>8. CoverSound(db)
  BY <1>2 DEF CoverSound
<1>9. TieSound(db)
  <2> SUFFICES ASSUME NEW f \in Funds
               PROVE  /\ -OwnBalance(db, "UNAPPLIED_CASH", f) = HeldFor(db, f)
                      /\ OwedBy(db, f) = OwnBalance(db, "LOT_LEVY_RECEIVABLE", f)
                                           + OwnBalance(db, "UNAPPLIED_CASH", f)
    BY DEF TieSound
  <2>1. \A account : DebitsOf(db, account, f) = {} /\ CreditsOf(db, account, f) = {}
    BY <1>2 DEF DebitsOf, CreditsOf, Own
  <2>2. \A account : OwnBalance(db, account, f) = 0
    <3> SUFFICES ASSUME NEW account PROVE OwnBalance(db, account, f) = 0
      OBVIOUS
    <3>1. OwnBalance(db, account, f) = SumOver(AmountsIn(db), DebitsOf(db, account, f))
                                         - SumOver(AmountsIn(db), CreditsOf(db, account, f))
      BY <1>3, BalanceSums
    <3>2. SumOver(AmountsIn(db), {}) = 0
      BY SumEmpty
    <3>3. OwnBalance(db, account, f) = SumOver(AmountsIn(db), {}) - SumOver(AmountsIn(db), {})
      BY <2>1, <3>1, Zenon
    <3> QED
      BY <3>2, <3>3
  <2>3. HeldFor(db, f) = 0
    <3>1. ReceiptsOf(db, "RECORDED", f) = {}
      BY <1>2 DEF ReceiptsOf
    <3> QED
      BY <3>1, SumEmpty, Zenon DEF HeldFor
  <2>4. ASSUME NEW l PROVE LotBalance(db, l, f) = 0
    <3>1. Mine(db, l, f) = {} /\ MineCancelled(db, l, f) = {} /\ GotFrom(db, l, f) = {}
      BY <1>2 DEF Mine, MineCancelled, GotFrom, ReceiptsOf
    <3>2. LotBalance(db, l, f) =
            SumOver(ShareOf, Mine(db, l, f)) - SumOver(ShareOf, MineCancelled(db, l, f))
              + SumOver(Extra(db), Mine(db, l, f)) - SumOver(Got(db), GotFrom(db, l, f))
      BY <1>3, LotParts
    <3>3. LotBalance(db, l, f) =
            SumOver(ShareOf, {}) - SumOver(ShareOf, {}) + SumOver(Extra(db), {}) - SumOver(Got(db), {})
      BY <3>1, <3>2, Zenon
    <3>4. SumOver(ShareOf, {}) = 0 /\ SumOver(Extra(db), {}) = 0 /\ SumOver(Got(db), {}) = 0
      BY SumEmpty
    <3> QED
      BY <3>3, <3>4
  <2>5. OwedBy(db, f) = 0
    <3> DEFINE g == [l \in Lots |-> LotBalance(db, l, f)]
    <3>1. \A l \in Lots : g[l] = 0
      BY <2>4
    <3>2. OwedBy(db, f) = SumOver(g, Lots)
      BY DEF OwedBy
    <3> HIDE DEF g
    <3> QED
      BY <3>1, <3>2, FiniteAssumption, SumZero
  <2> QED
    BY <2>2, <2>3, <2>5
<1> QED
  BY <1>3, <1>4, <1>5, <1>6, <1>7, <1>8, <1>9 DEF Sound

-----------------------------------------------------------------------------
(***************************************************************************)
(* The charges a new receipt is allocated to, oldest due date first.       *)
(***************************************************************************)

\* What remains of an automatic allocation, in the order it is to happen.
InOrder(todo, l, fund) ==
  /\ \A k \in DOMAIN todo :
       /\ todo[k].amount = AutoAmount /\ todo[k].charge \in Charges
       /\ todo[k].charge[2] = l /\ FundOf[todo[k].charge[1]] = fund
  /\ \A j, k \in DOMAIN todo : j < k => todo[j].charge[1] < todo[k].charge[1]

LEMMA CandidatesInOrder ==
  ASSUME NEW d \in Tables, NEW l \in Lots, NEW fund
  PROVE  /\ Candidates(d, l, fund) \in Seq(Item)
         /\ InOrder(Candidates(d, l, fund), l, fund)
         /\ \A c \in Charges :
              c[2] = l /\ FundOf[c[1]] = fund /\ d.charges[c] \in {"ISSUED", "PART_PAID"} =>
                \E k \in DOMAIN Candidates(d, l, fund) : Candidates(d, l, fund)[k].charge = c
<1> DEFINE S == Payable(d, l, fund)
           n == Cardinality(S)
           s == Ascending(S)
           todo == Candidates(d, l, fund)
<1>1. S \in SUBSET Instalments /\ S \in SUBSET Nat /\ IsFiniteSet(S)
  <2>1. S \in SUBSET Instalments
    BY DEF Payable
  <2> HIDE DEF S
  <2> QED
    BY <2>1, FiniteAssumption, FS_Subset, InstalmentsAssumption
<1>2. s \in [1..n -> S] /\ Ascends(s, S) /\ n \in Nat
  <2> HIDE DEF S
  <2> QED
    BY <1>1, AscendingOrder, FS_CardinalityType
<1>3. /\ \A j, k \in 1..n : j < k => s[j] < s[k]
      /\ \A x \in S : \E k \in 1..n : s[k] = x
  <2> HIDE DEF S, s
  <2> QED
    BY <1>2 DEF Ascends
<1>4. \A i \in Instalments : i \in S <=> FundOf[i] = fund /\ d.charges[<<i, l>>] \in {"ISSUED", "PART_PAID"}
  BY DEF Payable
<1>5. todo = [k \in 1..n |-> [charge |-> <<s[k], l>>, amount |-> AutoAmount]]
  <2>1. todo = [k \in DOMAIN s |-> [charge |-> <<s[k], l>>, amount |-> AutoAmount]]
    BY DEF Candidates
  <2> HIDE DEF s, n, todo
  <2>2. DOMAIN s = 1..n
    BY <1>2
  <2> QED
    BY <2>1, <2>2
<1> HIDE DEF s, n, todo, S
<1>6. /\ DOMAIN todo = 1..n
      /\ \A k \in 1..n : todo[k] = [charge |-> <<s[k], l>>, amount |-> AutoAmount] /\ <<s[k], l>> \in Charges
                         /\ s[k] \in Instalments /\ FundOf[s[k]] = fund
  BY <1>1, <1>2, <1>4, <1>5 DEF Charges
<1>7. todo \in Seq(Item)
  <2>1. \A k \in 1..n : [charge |-> <<s[k], l>>, amount |-> AutoAmount] \in Item
    BY <1>6 DEF Item, AutoAmount
  <2> HIDE DEF Item
  <2>2. todo \in [1..n -> Item]
    BY <1>5, <2>1
  <2> QED
    BY <2>2, <1>2
<1>8. \A k \in 1..n : /\ todo[k].amount = AutoAmount /\ todo[k].charge = <<s[k], l>> /\ todo[k].charge[1] = s[k]
                      /\ todo[k].charge \in Charges /\ todo[k].charge[2] = l
  <2> SUFFICES ASSUME NEW k \in 1..n
               PROVE  /\ todo[k].amount = AutoAmount /\ todo[k].charge = <<s[k], l>>
                      /\ todo[k].charge[1] = s[k]
                      /\ todo[k].charge \in Charges /\ todo[k].charge[2] = l
    BY Zenon
  <2>1. todo[k] = [charge |-> <<s[k], l>>, amount |-> AutoAmount] /\ <<s[k], l>> \in Charges
    BY <1>6
  <2>2. todo[k].amount = AutoAmount /\ todo[k].charge = <<s[k], l>>
    BY <2>1
  <2>3. <<s[k], l>>[1] = s[k] /\ <<s[k], l>>[2] = l
    OBVIOUS
  <2> QED
    BY <2>1, <2>2, <2>3, Zenon
<1>9. InOrder(todo, l, fund)
  <2>1. \A k \in 1..n : FundOf[todo[k].charge[1]] = fund
    <3> SUFFICES ASSUME NEW k \in 1..n PROVE FundOf[todo[k].charge[1]] = fund
      OBVIOUS
    <3>1. todo[k].charge[1] = s[k] /\ FundOf[s[k]] = fund
      BY <1>6, <1>8, Zenon
    <3> QED
      BY <3>1, Zenon
  <2>2. \A j, k \in 1..n : j < k => todo[j].charge[1] < todo[k].charge[1]
    BY <1>3, <1>8
  <2> QED
    BY <2>1, <2>2, <1>6, <1>8 DEF InOrder
<1>10. ASSUME NEW c \in Charges, c[2] = l, FundOf[c[1]] = fund, d.charges[c] \in {"ISSUED", "PART_PAID"}
       PROVE  \E k \in DOMAIN todo : todo[k].charge = c
  <2>1. c = <<c[1], l>> /\ c[1] \in Instalments
    BY <1>10 DEF Charges
  <2>2. c[1] \in S
    BY <2>1, <1>4, <1>10
  <2>3. PICK k \in 1..n : s[k] = c[1]
    BY <2>2, <1>3
  <2>4. todo[k].charge = c
    BY <2>1, <2>3, <1>8
  <2> QED
    BY <2>4, <1>6
<1> QED
  BY <1>7, <1>9, <1>10 DEF todo

\* Nothing is left to pay, or the charge is marked so.
Settled(d, c) == d.charges[c] = "PAID" \/ Outstanding(d, c) <= 0
SameLedger(d, r, c) == c[2] = d.receipts[r].lot /\ FundOf[c[1]] = d.receipts[r].fund

\* An automatic allocation on its way: what it has paid comes before what it
\* has yet to turn to, and an older charge than one it has paid is settled.
PaysOldest(d, r, todo) ==
  /\ InOrder(todo, d.receipts[r].lot, d.receipts[r].fund)
  /\ \A a \in DOMAIN d.allocations :
       d.allocations[a].receipt = r =>
         /\ SameLedger(d, r, d.allocations[a].charge)
         /\ \A k \in DOMAIN todo : d.allocations[a].charge[1] < todo[k].charge[1]
         /\ \A c \in Charges :
              SameLedger(d, r, c) /\ c[1] < d.allocations[a].charge[1] => Settled(d, c)
  /\ Unapplied(d, r) > 0 =>
       \A c \in Charges :
         SameLedger(d, r, c) => Settled(d, c) \/ \E k \in DOMAIN todo : todo[k].charge = c

Flight == [open : {TRUE}, tables : Tables, receipt : Nat, auto : BOOLEAN, todo : Seq(Item)]

FlightSound(p) ==
  /\ Sound(p.tables) /\ p.receipt \in DOMAIN p.tables.receipts
  /\ p.auto => PaysOldest(p.tables, p.receipt, p.todo)

\* The inductive invariant.
IInv ==
  /\ Sound(db)
  /\ pending = NoTransaction \/ (pending \in Flight /\ FlightSound(pending))

LEMMA TailOf ==
  ASSUME NEW X, NEW s \in Seq(X), s # <<>>
  PROVE  /\ 1 \in DOMAIN s /\ Head(s) = s[1] /\ Head(s) \in X /\ Tail(s) \in Seq(X)
         /\ \A k \in DOMAIN Tail(s) : k \in Nat /\ k > 0 /\ k + 1 \in DOMAIN s /\ Tail(s)[k] = s[k + 1]
         /\ \A k \in DOMAIN s : k = 1 \/ (k - 1 \in DOMAIN Tail(s) /\ Tail(s)[k - 1] = s[k])
         /\ \A k \in DOMAIN s : k \in Nat
  OBVIOUS

LEMMA MinTwo ==
  ASSUME NEW a \in Int, NEW b \in Int
  PROVE  /\ Min({a, b}) \in {a, b} /\ Min({a, b}) \in Int
         /\ Min({a, b}) <= a /\ Min({a, b}) <= b
<1>1. \E x \in {a, b} : \A y \in {a, b} : x <= y
  OBVIOUS
<1> QED
  BY <1>1 DEF Min

LEMMA AppliedToType == ASSUME NEW d \in Tables, NEW c PROVE AppliedTo(d, c) \in Int
<1> DEFINE S == {a \in DOMAIN d.allocations : d.allocations[a].charge = c}
<1>1. AppliedTo(d, c) = Applied(d, S) /\ S \in SUBSET DOMAIN d.allocations
  BY DEF AppliedTo
<1> HIDE DEF S
<1> QED
  BY <1>1, AppliedSum

LEMMA OutstandingType == ASSUME NEW d \in Tables, NEW c \in Charges PROVE Outstanding(d, c) \in Int
<1>1. AppliedTo(d, c) \in Int /\ Adjusted(d, c) \in Int /\ ShareOf[c] \in Int
  BY AppliedToType, AdjustedType, ShareType
<1> QED
  BY <1>1 DEF Outstanding, EffectiveAmount

\* What is applied to a charge.
PaidOn(d, c) ==
  {a \in DOMAIN d.allocations : d.allocations[a].charge = c /\ d.allocations[a].status = "APPLIED"}

LEMMA AppliedToSum ==
  ASSUME NEW d \in Tables, NEW c
  PROVE  AppliedTo(d, c) = SumOver(WorthOf(d), PaidOn(d, c)) /\ AppliedTo(d, c) \in Int
<1> DEFINE S == {a \in DOMAIN d.allocations : d.allocations[a].charge = c}
<1>1. {a \in S : d.allocations[a].status = "APPLIED"} = PaidOn(d, c)
  BY DEF PaidOn
<1>2. AppliedTo(d, c) = Applied(d, S)
  BY DEF AppliedTo
<1>3. Applied(d, S) = SumOver(WorthOf(d), {a \in S : d.allocations[a].status = "APPLIED"}) /\ Applied(d, S) \in Int
  BY AppliedSum
<1> QED
  BY <1>1, <1>2, <1>3, Zenon

LEMMA AllocatePays ==
  ASSUME NEW d \in Tables, NEW e, NEW r, NEW c, NEW n, NEW j, AllocateStep(d, e, r, c, n, j)
  PROVE  \A q : AppliedTo(e, q) = AppliedTo(d, q) + (IF q = c THEN n ELSE 0)
<1> DEFINE m == Len(d.allocations) + 1
<1>1. /\ e \in Tables /\ n \in Int /\ DOMAIN e.allocations = DOMAIN d.allocations \cup {m}
      /\ m \notin DOMAIN d.allocations
      /\ \A a \in DOMAIN d.allocations : e.allocations[a] = d.allocations[a]
      /\ e.allocations[m].charge = c /\ e.allocations[m].amount = n /\ e.allocations[m].status = "APPLIED"
  BY DEF AllocateStep
<1> HIDE DEF m
<1> SUFFICES ASSUME NEW q PROVE AppliedTo(e, q) = AppliedTo(d, q) + (IF q = c THEN n ELSE 0)
  OBVIOUS
<1>2. /\ \A a \in DOMAIN d.allocations : WorthOf(d)[a] \in Int /\ WorthOf(e)[a] = WorthOf(d)[a]
      /\ WorthOf(e)[m] = n
  <2>1. \A a \in DOMAIN d.allocations : d.allocations[a].amount \in Int
    BY RowsOf
  <2> QED
    BY <1>1, <2>1 DEF WorthOf
<1>3. /\ PaidOn(d, q) \in SUBSET DOMAIN d.allocations /\ IsFiniteSet(PaidOn(d, q))
      /\ m \notin PaidOn(d, q)
  <2>1. PaidOn(d, q) \in SUBSET DOMAIN d.allocations
    BY DEF PaidOn
  <2> QED
    BY <2>1, <1>1, FiniteTables, FS_Subset
<1>4. SumOver(WorthOf(e), PaidOn(d, q)) = SumOver(WorthOf(d), PaidOn(d, q))
  <2>1. \A a \in PaidOn(d, q) : WorthOf(d)[a] \in Int /\ WorthOf(e)[a] = WorthOf(d)[a]
    BY <1>2, <1>3
  <2> QED
    BY <2>1, <1>3, SumCongruent
<1>5. SumOver(WorthOf(e), PaidOn(d, q) \cup {m}) = SumOver(WorthOf(e), PaidOn(d, q)) + WorthOf(e)[m]
  <2>1. \A a \in PaidOn(d, q) \cup {m} : WorthOf(e)[a] \in Int
    BY <1>1, <1>2, <1>3
  <2> QED
    BY <2>1, <1>3, SumAdd, Zenon
<1>6. /\ AppliedTo(e, q) = SumOver(WorthOf(e), PaidOn(e, q))
      /\ AppliedTo(d, q) = SumOver(WorthOf(d), PaidOn(d, q)) /\ AppliedTo(d, q) \in Int
  BY <1>1, AppliedToSum
<1>7. CASE q = c
  <2>1. PaidOn(e, q) = PaidOn(d, q) \cup {m}
    BY <1>1, <1>7 DEF PaidOn
  <2>2. AppliedTo(e, q) = SumOver(WorthOf(e), PaidOn(d, q) \cup {m})
    BY <2>1, <1>6, Zenon
  <2> QED
    BY <2>2, <1>1, <1>2, <1>4, <1>5, <1>6, <1>7
<1>8. CASE q # c
  <2>1. PaidOn(e, q) = PaidOn(d, q)
    BY <1>1, <1>8 DEF PaidOn
  <2>2. AppliedTo(e, q) = AppliedTo(d, q)
    BY <2>1, <1>4, <1>6, Zenon
  <2> QED
    BY <2>2, <1>6, <1>8
<1> QED
  BY <1>7, <1>8

LEMMA TailInOrder ==
  ASSUME NEW todo \in Seq(Item), todo # <<>>, NEW l, NEW fund, InOrder(todo, l, fund)
  PROVE  InOrder(Tail(todo), l, fund)
<1> DEFINE t == Tail(todo)
<1>1. \A k \in DOMAIN t : k \in Nat /\ k + 1 \in DOMAIN todo /\ t[k] = todo[k + 1]
  BY TailOf
<1> HIDE DEF t
<1>2. ASSUME NEW k \in DOMAIN t
      PROVE  /\ t[k].amount = AutoAmount /\ t[k].charge \in Charges
             /\ t[k].charge[2] = l /\ FundOf[t[k].charge[1]] = fund
  <2>1. k + 1 \in DOMAIN todo /\ t[k] = todo[k + 1]
    BY <1>1
  <2>2. /\ todo[k + 1].amount = AutoAmount /\ todo[k + 1].charge \in Charges
        /\ todo[k + 1].charge[2] = l /\ FundOf[todo[k + 1].charge[1]] = fund
    BY <2>1, Zenon DEF InOrder
  <2> QED
    BY <2>1, <2>2, Zenon
<1>3. ASSUME NEW i \in DOMAIN t, NEW k \in DOMAIN t, i < k PROVE t[i].charge[1] < t[k].charge[1]
  <2>1. /\ i + 1 \in DOMAIN todo /\ k + 1 \in DOMAIN todo /\ i + 1 < k + 1
        /\ t[i] = todo[i + 1] /\ t[k] = todo[k + 1]
    BY <1>1, <1>3
  <2>2. todo[i + 1].charge[1] < todo[k + 1].charge[1]
    BY <2>1 DEF InOrder
  <2> QED
    BY <2>1, <2>2, Zenon
<1> QED
  BY <1>2, <1>3 DEF InOrder, t

LEMMA DueType == \A c \in Charges : c[1] \in Instalments /\ c[1] \in Int
<1> SUFFICES ASSUME NEW c \in Charges PROVE c[1] \in Instalments /\ c[1] \in Int
  OBVIOUS
<1>1. c[1] \in Instalments
  BY DEF Charges
<1>2. \A i \in Instalments : i \in Int
  BY InstalmentsAssumption
<1> QED
  BY <1>1, <1>2, Zenon

LEMMA PaysOldestStarts ==
  ASSUME NEW d, Sound(d), NEW e, NEW l, NEW fund, NEW n, NEW j, RecordReceiptStep(d, e, l, fund, n, j)
  PROVE  PaysOldest(e, Len(d.receipts) + 1, Candidates(d, l, fund))
<1> DEFINE r == Len(d.receipts) + 1
           todo == Candidates(d, l, fund)
<1>d. d \in Tables /\ LinksSound(d)
  BY DEF Sound
<1>1. /\ e.receipts[r].lot = l /\ e.receipts[r].fund = fund /\ r \notin DOMAIN d.receipts
      /\ l \in Lots /\ e.charges = d.charges /\ e.allocations = d.allocations
      /\ e.adjustments = d.adjustments /\ e \in Tables
  BY DEF RecordReceiptStep
<1> HIDE DEF r, todo
<1>2. /\ InOrder(todo, l, fund)
      /\ \A c \in Charges :
           c[2] = l /\ FundOf[c[1]] = fund /\ d.charges[c] \in {"ISSUED", "PART_PAID"} =>
             \E k \in DOMAIN todo : todo[k].charge = c
  <2>1. d \in Tables /\ l \in Lots
    BY <1>d, <1>1
  <2>2. InOrder(Candidates(d, l, fund), l, fund)
    BY <2>1, CandidatesInOrder
  <2>3. \A c \in Charges :
          c[2] = l /\ FundOf[c[1]] = fund /\ d.charges[c] \in {"ISSUED", "PART_PAID"} =>
            \E k \in DOMAIN Candidates(d, l, fund) : Candidates(d, l, fund)[k].charge = c
    BY <2>1, CandidatesInOrder
  <2> QED
    BY <2>2, <2>3 DEF todo
<1>3. InOrder(todo, e.receipts[r].lot, e.receipts[r].fund)
  BY <1>1, <1>2, Zenon
<1>4. \A a \in DOMAIN e.allocations : e.allocations[a].receipt # r
  <2>1. \A a \in DOMAIN d.allocations : d.allocations[a].receipt \in DOMAIN d.receipts
    BY <1>d, Zenon DEF LinksSound
  <2> QED
    BY <2>1, <1>1
<1>5. ASSUME NEW c \in Charges, SameLedger(e, r, c)
      PROVE  Settled(e, c) \/ \E k \in DOMAIN todo : todo[k].charge = c
  <2>1. c[2] = l /\ FundOf[c[1]] = fund
    BY <1>1, <1>5, Zenon DEF SameLedger
  <2>2. d.charges[c] \in {"NONE", "ISSUED", "PART_PAID", "PAID", "CANCELLED"}
    BY <1>d, FieldsOf
  <2>3. CASE d.charges[c] \in {"ISSUED", "PART_PAID"}
    BY <2>1, <2>3, <1>2
  <2>4. CASE d.charges[c] = "PAID"
    BY <2>4, <1>1 DEF Settled
  <2>5. CASE d.charges[c] \in {"NONE", "CANCELLED"}
    <3>1. Outstanding(e, c) = 0
      BY <2>5, <1>1 DEF Outstanding
    <3> QED
      BY <3>1 DEF Settled
  <2> QED
    BY <2>2, <2>3, <2>4, <2>5
<1>6. PaysOldest(e, r, todo)
  BY <1>3, <1>4, <1>5, Zenon DEF PaysOldest
<1> QED
  BY <1>6 DEF r, todo

\* The charge the next item asks for is settled, or nothing is left to give.
LEMMA PaysOldestSkips ==
  ASSUME NEW d \in Tables, NEW r \in DOMAIN d.receipts, NEW todo \in Seq(Item), todo # <<>>,
         PaysOldest(d, r, todo), Outstanding(d, Head(todo).charge) <= 0 \/ Unapplied(d, r) <= 0
  PROVE  PaysOldest(d, r, IF Unapplied(d, r) <= 0 THEN <<>> ELSE Tail(todo))
<1>1. CASE Unapplied(d, r) <= 0
  <2>1. DOMAIN <<>> = {} /\ ~(Unapplied(d, r) > 0)
    BY <1>1, UnappliedType
  <2>2. InOrder(<<>>, d.receipts[r].lot, d.receipts[r].fund)
    BY <2>1 DEF InOrder
  <2>3. ASSUME NEW a \in DOMAIN d.allocations, d.allocations[a].receipt = r
        PROVE  /\ SameLedger(d, r, d.allocations[a].charge)
               /\ \A c \in Charges :
                    SameLedger(d, r, c) /\ c[1] < d.allocations[a].charge[1] => Settled(d, c)
    BY <2>3, Zenon DEF PaysOldest
  <2>4. PaysOldest(d, r, <<>>)
    BY <2>1, <2>2, <2>3 DEF PaysOldest
  <2> QED
    BY <1>1, <2>4
<1>2. CASE ~(Unapplied(d, r) <= 0)
  <2> DEFINE t == Tail(todo)
  <2>0. /\ Unapplied(d, r) > 0 /\ Outstanding(d, Head(todo).charge) <= 0
    BY <1>2, UnappliedType
  <2>1. /\ \A k \in DOMAIN t : k \in Nat /\ k + 1 \in DOMAIN todo /\ t[k] = todo[k + 1]
        /\ \A k \in DOMAIN todo : k = 1 \/ (k - 1 \in DOMAIN t /\ t[k - 1] = todo[k])
        /\ Head(todo) = todo[1] /\ 1 \in DOMAIN todo
    BY TailOf
  <2>2. InOrder(t, d.receipts[r].lot, d.receipts[r].fund)
    BY TailInOrder DEF PaysOldest
  <2> HIDE DEF t
  <2>3. ASSUME NEW a \in DOMAIN d.allocations, d.allocations[a].receipt = r
        PROVE  /\ SameLedger(d, r, d.allocations[a].charge)
               /\ \A k \in DOMAIN t : d.allocations[a].charge[1] < t[k].charge[1]
               /\ \A c \in Charges :
                    SameLedger(d, r, c) /\ c[1] < d.allocations[a].charge[1] => Settled(d, c)
    <3>1. /\ SameLedger(d, r, d.allocations[a].charge)
          /\ \A k \in DOMAIN todo : d.allocations[a].charge[1] < todo[k].charge[1]
          /\ \A c \in Charges :
               SameLedger(d, r, c) /\ c[1] < d.allocations[a].charge[1] => Settled(d, c)
      BY <2>3, Zenon DEF PaysOldest
    <3>2. \A k \in DOMAIN t : d.allocations[a].charge[1] < t[k].charge[1]
      BY <3>1, <2>1, Zenon
    <3> QED
      BY <3>1, <3>2
  <2>4. ASSUME NEW c \in Charges, SameLedger(d, r, c)
        PROVE  Settled(d, c) \/ \E k \in DOMAIN t : t[k].charge = c
    <3>1. Settled(d, c) \/ \E k \in DOMAIN todo : todo[k].charge = c
      BY <2>0, <2>4 DEF PaysOldest
    <3>2. ASSUME NEW k \in DOMAIN todo, todo[k].charge = c, k # 1 PROVE \E i \in DOMAIN t : t[i].charge = c
      BY <3>2, <2>1, Zenon
    <3>3. ASSUME todo[1].charge = c PROVE Settled(d, c)
      BY <3>3, <2>0, <2>1 DEF Settled
    <3> QED
      BY <3>1, <3>2, <3>3
  <2>5. PaysOldest(d, r, t)
    BY <2>2, <2>3, <2>4, Zenon DEF PaysOldest
  <2> QED
    BY <1>2, <2>5 DEF t
<1> QED
  BY <1>1, <1>2

\* The oldest charge that is left takes what it can.
LEMMA PaysOldestPays ==
  ASSUME NEW d \in Tables, NEW r \in DOMAIN d.receipts, NEW todo \in Seq(Item), todo # <<>>,
         PaysOldest(d, r, todo), NEW e, NEW n, NEW j, AllocateStep(d, e, r, Head(todo).charge, n, j),
         n = Unapplied(d, r) \/ n = Outstanding(d, Head(todo).charge)
  PROVE  PaysOldest(e, r, Tail(todo))
<1> DEFINE c == Head(todo).charge
           m == Len(d.allocations) + 1
           t == Tail(todo)
<1>1. /\ e \in Tables /\ n \in Int /\ n > 0 /\ n <= Unapplied(d, r) /\ c \in Charges
      /\ d.charges[c] \notin {"NONE", "CANCELLED"} /\ e.charges[c] \notin {"NONE", "CANCELLED"}
      /\ \A x \in Charges : x # c => e.charges[x] = d.charges[x]
      /\ DOMAIN e.allocations = DOMAIN d.allocations \cup {m}
      /\ \A a \in DOMAIN d.allocations : e.allocations[a] = d.allocations[a]
      /\ e.allocations[m].charge = c
      /\ e.adjustments = d.adjustments /\ e.receipts = d.receipts
  BY DEF AllocateStep
<1>2. \A x \in Charges : AppliedTo(e, x) = AppliedTo(d, x) + (IF x = c THEN n ELSE 0)
  BY AllocatePays
<1>3. Unapplied(e, r) = Unapplied(d, r) - n
  <2>1. AppliedFrom(e, r) = AppliedFrom(d, r) + n
    BY AllocateTakes
  <2>2. d.receipts[r].amount \in Int /\ AppliedFrom(d, r) \in Int
    BY RowsOf, AppliedFromSum
  <2> QED
    BY <2>1, <2>2, <1>1 DEF Unapplied
<1>4. /\ \A k \in DOMAIN t : k \in Nat /\ k > 0 /\ k + 1 \in DOMAIN todo /\ t[k] = todo[k + 1]
      /\ \A k \in DOMAIN todo : k = 1 \/ (k - 1 \in DOMAIN t /\ t[k - 1] = todo[k])
      /\ c = todo[1].charge /\ 1 \in DOMAIN todo /\ \A k \in DOMAIN todo : k \in Nat
  BY TailOf
<1>5. InOrder(t, d.receipts[r].lot, d.receipts[r].fund) /\ InOrder(todo, d.receipts[r].lot, d.receipts[r].fund)
  BY TailInOrder DEF PaysOldest
<1>e. \A x : EffectiveAmount(e, x) = EffectiveAmount(d, x)
  <2>1. \A x : Adjusted(e, x) = Adjusted(d, x)
    BY <1>1, SameExtra
  <2> QED
    BY <2>1 DEF EffectiveAmount
<1> HIDE DEF c, m, t
<1>6. \A x \in Charges : SameLedger(e, r, x) <=> SameLedger(d, r, x)
  BY <1>1, Zenon DEF SameLedger
<1>7. ASSUME NEW x \in Charges, x # c, Settled(d, x) PROVE Settled(e, x)
  <2>1. e.charges[x] = d.charges[x]
    BY <1>7, <1>1
  <2>2. AppliedTo(e, x) = AppliedTo(d, x) /\ AppliedTo(d, x) \in Int
    BY <1>7, <1>2, AppliedToType
  <2>3. Outstanding(e, x) = Outstanding(d, x)
    BY <2>1, <2>2, <1>e, Zenon DEF Outstanding
  <2> QED
    BY <2>1, <2>3, <1>7, Zenon DEF Settled
<1>8. Outstanding(e, c) = Outstanding(d, c) - n
  <2>1. AppliedTo(e, c) = AppliedTo(d, c) + n /\ AppliedTo(d, c) \in Int
    BY <1>1, <1>2, AppliedToType
  <2>2. EffectiveAmount(d, c) \in Int
    BY <1>1, AdjustedType, ShareType DEF EffectiveAmount
  <2>3. Outstanding(e, c) = EffectiveAmount(d, c) - AppliedTo(e, c)
    BY <1>1, <1>e, Zenon DEF Outstanding
  <2>4. Outstanding(d, c) = EffectiveAmount(d, c) - AppliedTo(d, c)
    BY <1>1, Zenon DEF Outstanding
  <2> QED
    BY <2>1, <2>2, <2>3, <2>4, <1>1
<1>9. Settled(e, c) \/ ~(Unapplied(e, r) > 0)
  <2>1. n = Unapplied(d, r) \/ n = Outstanding(d, c)
    BY DEF c
  <2>2. Outstanding(d, c) \in Int /\ Unapplied(d, r) \in Int
    BY <1>1, OutstandingType, UnappliedType
  <2> QED
    BY <2>1, <2>2, <1>3, <1>8, <1>1 DEF Settled
<1>10. \A k \in DOMAIN t : c[1] < t[k].charge[1]
  <2> SUFFICES ASSUME NEW k \in DOMAIN t PROVE c[1] < t[k].charge[1]
    OBVIOUS
  <2>1. k + 1 \in DOMAIN todo /\ 1 < k + 1 /\ t[k] = todo[k + 1]
    BY <1>4
  <2>2. todo[1].charge[1] < todo[k + 1].charge[1]
    BY <2>1, <1>4, <1>5 DEF InOrder
  <2> QED
    BY <2>1, <2>2, <1>4, Zenon
<1>11. SameLedger(d, r, c)
  BY <1>4, <1>5, Zenon DEF InOrder, SameLedger
<1>12. ASSUME NEW x \in Charges, SameLedger(d, r, x), x[1] < c[1] PROVE Settled(d, x)
  <2>0. Unapplied(d, r) > 0
    BY <1>1, UnappliedType
  <2>1. SUFFICES ASSUME NEW k \in DOMAIN todo, todo[k].charge = x PROVE FALSE
    BY <2>0, <1>12 DEF PaysOldest
  <2>2. CASE k = 1
    <3>1. x = c
      BY <2>1, <2>2, <1>4, Zenon
    <3>2. c[1] \in Int
      BY <1>1, DueType
    <3> QED
      BY <3>1, <3>2, <1>12
  <2>3. CASE k # 1
    <3>1. k - 1 \in DOMAIN t /\ t[k - 1].charge = x
      BY <2>1, <2>3, <1>4
    <3>2. c[1] < x[1]
      BY <3>1, <1>10
    <3>3. c[1] \in Int /\ x[1] \in Int
      BY <1>1, DueType
    <3> QED
      BY <3>2, <3>3, <1>12
  <2> QED
    BY <2>2, <2>3
<1>13. ASSUME NEW a \in DOMAIN e.allocations, e.allocations[a].receipt = r
       PROVE  /\ SameLedger(e, r, e.allocations[a].charge)
              /\ \A k \in DOMAIN t : e.allocations[a].charge[1] < t[k].charge[1]
              /\ \A x \in Charges :
                   SameLedger(e, r, x) /\ x[1] < e.allocations[a].charge[1] => Settled(e, x)
  <2>1. CASE a = m
    <3>1. e.allocations[a].charge = c
      BY <2>1, <1>1
    <3>2. \A x \in Charges : SameLedger(e, r, x) /\ x[1] < c[1] => x # c /\ Settled(d, x)
      <4>1. c[1] \in Int
        BY <1>1, DueType
      <4> QED
        BY <4>1, <1>6, <1>12
    <3>3. \A x \in Charges : SameLedger(e, r, x) /\ x[1] < c[1] => Settled(e, x)
      BY <3>2, <1>7
    <3>4. SameLedger(e, r, c)
      BY <1>1, <1>6, <1>11
    <3> QED
      BY <3>1, <3>3, <3>4, <1>10, Zenon
  <2>2. CASE a \in DOMAIN d.allocations
    <3>1. e.allocations[a] = d.allocations[a] /\ d.allocations[a].charge \in Charges
      BY <2>2, <1>1, RowsOf
    <3> DEFINE y == d.allocations[a].charge
    <3>2. /\ SameLedger(d, r, y) /\ \A k \in DOMAIN todo : y[1] < todo[k].charge[1]
          /\ \A x \in Charges : SameLedger(d, r, x) /\ x[1] < y[1] => Settled(d, x)
      BY <2>2, <3>1, <1>13, Zenon DEF PaysOldest
    <3>3. e.allocations[a].charge = y /\ y \in Charges
      BY <3>1
    <3> HIDE DEF y
    <3>4. \A k \in DOMAIN t : y[1] < t[k].charge[1]
      BY <3>2, <1>4, Zenon
    <3>5. y[1] < c[1]
      BY <3>2, <1>4, Zenon
    <3>6. ASSUME NEW x \in Charges, SameLedger(d, r, x), x[1] < y[1] PROVE Settled(e, x)
      <4>1. x[1] \in Int /\ y[1] \in Int /\ c[1] \in Int
        BY <3>3, <1>1, DueType
      <4>2. x # c
        BY <4>1, <3>5, <3>6
      <4> QED
        BY <4>2, <3>2, <3>6, <1>7
    <3>7. SameLedger(e, r, y)
      BY <3>2, <3>3, <1>6
    <3> QED
      BY <3>3, <3>4, <3>6, <3>7, <1>6, Zenon
  <2> QED
    BY <2>1, <2>2, <1>1
<1>14. ASSUME Unapplied(e, r) > 0, NEW x \in Charges, SameLedger(e, r, x)
       PROVE  Settled(e, x) \/ \E k \in DOMAIN t : t[k].charge = x
  <2>1. CASE x = c
    BY <2>1, <1>9, <1>14
  <2>2. CASE x # c
    <3>1. Unapplied(d, r) > 0
      BY <1>1, UnappliedType
    <3>2. Settled(d, x) \/ \E k \in DOMAIN todo : todo[k].charge = x
      BY <3>1, <1>6, <1>14 DEF PaysOldest
    <3>3. ASSUME NEW k \in DOMAIN todo, todo[k].charge = x PROVE \E i \in DOMAIN t : t[i].charge = x
      BY <2>2, <3>3, <1>4, Zenon
    <3> QED
      BY <3>2, <3>3, <2>2, <1>7
  <2> QED
    BY <2>1, <2>2
<1>15. InOrder(t, e.receipts[r].lot, e.receipts[r].fund)
  BY <1>1, <1>5, Zenon
<1>16. PaysOldest(e, r, t)
  BY <1>13, <1>14, <1>15, Zenon DEF PaysOldest
<1> QED
  BY <1>16 DEF t

-----------------------------------------------------------------------------
(***************************************************************************)
(* Every step keeps the invariant.                                         *)
(***************************************************************************)

LEMMA FlightFields ==
  ASSUME NEW p \in Flight
  PROVE  /\ p.open /\ p.tables \in Tables /\ p.receipt \in Nat /\ p.auto \in BOOLEAN /\ p.todo \in Seq(Item)
  BY DEF Flight

Moved(p, todo, tables) == [p EXCEPT !.todo = todo, !.tables = tables]

LEMMA FlightMoves ==
  ASSUME NEW p \in Flight, NEW todo \in Seq(Item), NEW tables \in Tables
  PROVE  /\ Moved(p, todo, tables) \in Flight
         /\ Moved(p, todo, tables).tables = tables /\ Moved(p, todo, tables).todo = todo
         /\ Moved(p, todo, tables).receipt = p.receipt /\ Moved(p, todo, tables).auto = p.auto
  BY DEF Flight, Moved

LEMMA FlightSkips ==
  ASSUME NEW p \in Flight, NEW todo \in Seq(Item), NEW q, q = [p EXCEPT !.todo = todo]
  PROVE  /\ q \in Flight /\ q.tables = p.tables /\ q.todo = todo
         /\ q.receipt = p.receipt /\ q.auto = p.auto
  BY DEF Flight

LEMMA SourcesType == ASSUME NEW d \in Tables PROVE Sources(d) \subseteq Int /\ NextJournal(d) \in Int
<1>1. Len(d.journals) \in Nat
  BY FieldsOf
<1>2. NextJournal(d) \in Int
  BY <1>1 DEF NextJournal
<1>3. \A k \in Keys : k \in Int
  BY KeysAssumption
<1> QED
  BY <1>2, <1>3 DEF Sources

LEMMA TransactionKeeps == ASSUME IInv, Sound(db)', UNCHANGED pending PROVE IInv'
  BY DEF IInv

LEMMA IssueKeeps == ASSUME IInv, NEW i \in Instalments, Issue(i) PROVE IInv'
<1>1. db' = AfterIssue(db, i) /\ UNCHANGED pending /\ db.instalments[i].status = "PENDING"
  BY DEF Issue, Transaction, AfterIssue
<1>2. Sound(db) /\ db \in Tables
  BY DEF IInv, Sound
<1>3. PICK j : IssueStep(db, AfterIssue(db, i), i, j)
  BY <1>1, <1>2, IssueIsStep
<1>4. Sound(AfterIssue(db, i))
  BY <1>2, <1>3, IssueSound
<1> QED
  BY <1>1, <1>4, TransactionKeeps

LEMMA ReverseInstalmentKeeps == ASSUME IInv, NEW i \in Instalments, ReverseInstalment(i) PROVE IInv'
<1>1. /\ db' = AfterReverseInstalment(db, i) /\ UNCHANGED pending
      /\ db.instalments[i].status = "ISSUED"
  BY DEF ReverseInstalment, Transaction, AfterReverseInstalment
<1>2. Sound(db)
  BY DEF IInv
<1>3. PICK j : ReverseInstalmentStep(db, AfterReverseInstalment(db, i), i, j)
  BY <1>1, <1>2, ReverseInstalmentIsStep
<1>4. Sound(AfterReverseInstalment(db, i))
  BY <1>2, <1>3, ReverseInstalmentSound
<1> QED
  BY <1>1, <1>4, TransactionKeeps

LEMMA CreateAdjustmentKeeps ==
  ASSUME IInv, NEW c \in Charges, NEW n \in AdjustmentAmounts, NEW s \in Sources(db), CreateAdjustment(c, n, s)
  PROVE  IInv'
<1>1. /\ db' = AfterAdjustment(db, c, n, s) /\ UNCHANGED pending
      /\ db.charges[c] # "NONE"
  BY DEF CreateAdjustment, Transaction, AfterAdjustment
<1>2. Sound(db) /\ db \in Tables /\ n \in Int
  BY AmountsAssumption DEF IInv, Sound
<1>3. s \in Int
  BY <1>2, SourcesType
<1>4. PICK j : AdjustStep(db, AfterAdjustment(db, c, n, s), c, n, j)
  BY <1>1, <1>2, <1>3, AdjustIsStep
<1>5. Sound(AfterAdjustment(db, c, n, s))
  BY <1>2, <1>4, AdjustSound
<1> QED
  BY <1>1, <1>5, TransactionKeeps

LEMMA RecordReceiptKeeps ==
  ASSUME IInv, NEW l \in Lots, NEW f \in Funds, NEW n \in ReceiptAmounts, NEW s \in Sources(db),
         NEW auto \in BOOLEAN, NEW list \in Seq(Item), RecordReceipt(l, f, n, s, auto, list)
  PROVE  IInv'
<1> DEFINE e == AfterReceipt(db, l, f, n, s)
           r == Len(db.receipts) + 1
           todo == IF auto THEN Candidates(db, l, f) ELSE list
<1>1. /\ pending' = [open |-> TRUE, receipt |-> r, auto |-> auto, tables |-> e, todo |-> todo]
      /\ UNCHANGED db
  BY DEF RecordReceipt, AfterReceipt
<1>2. Sound(db) /\ db \in Tables
  BY DEF IInv, Sound
<1>3. s \in Int /\ n \in Nat \ {0}
  BY <1>2, SourcesType, AmountsAssumption
<1>4. PICK j : RecordReceiptStep(db, e, l, f, n, j)
  BY <1>2, <1>3, RecordReceiptIsStep
<1>5. Sound(e) /\ e \in Tables
  BY <1>2, <1>4, RecordReceiptSound DEF Sound
<1>6. r \in DOMAIN e.receipts /\ r \in Nat
  <2>1. Len(db.receipts) \in Nat
    BY <1>2, FieldsOf
  <2> QED
    BY <2>1, <1>4 DEF RecordReceiptStep
<1>7. Candidates(db, l, f) \in Seq(Item)
  BY <1>2, CandidatesInOrder
<1>8. todo \in Seq(Item)
  BY <1>7
<1>9. auto => PaysOldest(e, r, todo)
  <2>1. PaysOldest(e, r, Candidates(db, l, f))
    BY <1>2, <1>4, PaysOldestStarts
  <2> HIDE DEF e, r
  <2> QED
    BY <2>1
<1> HIDE DEF e, r, todo
<1>10. pending' \in Flight /\ pending'.tables = e /\ pending'.receipt = r /\ pending'.auto = auto
       /\ pending'.todo = todo
  BY <1>1, <1>5, <1>6, <1>8 DEF Flight
<1>11. FlightSound(pending')
  BY <1>5, <1>6, <1>9, <1>10 DEF FlightSound
<1> QED
  BY <1>1, <1>10, <1>11 DEF IInv

LEMMA CommitReceiptKeeps == ASSUME IInv, CommitReceipt PROVE IInv'
<1>1. pending.open /\ db' = pending.tables /\ pending' = NoTransaction
  BY DEF CommitReceipt
<1>2. pending # NoTransaction
  BY <1>1 DEF NoTransaction
<1>3. Sound(pending.tables)
  BY <1>2 DEF IInv, FlightSound
<1> QED
  BY <1>1, <1>3 DEF IInv

LEMMA RollbackReceiptKeeps == ASSUME IInv, RollbackReceipt PROVE IInv'
  BY DEF IInv, RollbackReceipt

LEMMA CreateAllocationKeeps ==
  ASSUME IInv, NEW r \in DOMAIN db.receipts, NEW c \in Charges, NEW n \in AllocationAmounts,
         NEW s \in Sources(db), CreateAllocation(r, c, n, s)
  PROVE  IInv'
<1>1. /\ db' = Allocate(db, r, c, n, s) /\ UNCHANGED pending /\ MayAllocate(db, r, c, n)
  BY DEF CreateAllocation, Transaction
<1>2. Sound(db) /\ db \in Tables /\ n \in Int /\ n > 0
  BY AmountsAssumption DEF IInv, Sound
<1>3. s \in Int
  BY <1>2, SourcesType
<1>4. PICK j : AllocateStep(db, Allocate(db, r, c, n, s), r, c, n, j)
  BY <1>1, <1>2, <1>3, AllocateIsStep
<1>5. Sound(Allocate(db, r, c, n, s))
  BY <1>2, <1>4, AllocateSound
<1> QED
  BY <1>1, <1>5, TransactionKeeps

LEMMA ReverseAllocationKeeps ==
  ASSUME IInv, NEW a \in DOMAIN db.allocations, ReverseAllocation(a)
  PROVE  IInv'
<1>1. /\ db' = AfterReverseAllocation(db, a) /\ UNCHANGED pending
      /\ db.allocations[a].status = "APPLIED"
  BY DEF ReverseAllocation, Transaction, AfterReverseAllocation
<1>2. Sound(db)
  BY DEF IInv
<1>3. PICK j : ReverseAllocationStep(db, AfterReverseAllocation(db, a), a, j)
  BY <1>1, <1>2, ReverseAllocationIsStep
<1>4. Sound(AfterReverseAllocation(db, a))
  BY <1>2, <1>3, ReverseAllocationSound
<1> QED
  BY <1>1, <1>4, TransactionKeeps

LEMMA ReverseReceiptKeeps ==
  ASSUME IInv, NEW r \in DOMAIN db.receipts, ReverseReceipt(r)
  PROVE  IInv'
<1>1. /\ db' = AfterReverseReceipt(db, r) /\ UNCHANGED pending
      /\ db.receipts[r].status = "RECORDED"
      /\ \A a \in DOMAIN db.allocations : db.allocations[a].receipt = r => db.allocations[a].status # "APPLIED"
  BY DEF ReverseReceipt, Transaction, AfterReverseReceipt
<1>2. Sound(db)
  BY DEF IInv
<1>3. PICK j : ReverseReceiptStep(db, AfterReverseReceipt(db, r), r, j)
  BY <1>1, <1>2, ReverseReceiptIsStep
<1>4. Sound(AfterReverseReceipt(db, r))
  BY <1>2, <1>3, ReverseReceiptSound
<1> QED
  BY <1>1, <1>4, TransactionKeeps

LEMMA ReverseThroughLedgerKeeps ==
  ASSUME IInv, NEW k \in DOMAIN db.journals, ReverseThroughLedger(k)
  PROVE  IInv'
<1>1. /\ db' = PostReversal(db, k) /\ UNCHANGED pending /\ db.journals[k].type = "REVERSAL"
  BY DEF ReverseThroughLedger, Transaction
<1>2. Sound(db)
  BY DEF IInv
<1>3. PICK j : ReverseThroughStep(db, PostReversal(db, k), k, j)
  BY <1>1, <1>2, ReverseThroughIsStep
<1>4. Sound(PostReversal(db, k))
  BY <1>2, <1>3, ReverseThroughSound
<1> QED
  BY <1>1, <1>4, TransactionKeeps

LEMMA AllocateNextKeeps == ASSUME IInv, AllocateNext PROVE IInv'
<1> DEFINE d == pending.tables
           r == pending.receipt
           todo == pending.todo
           c == Head(todo).charge
           asked == Head(todo).amount
           most == Min({Unapplied(d, r), Outstanding(d, c)})
           amount == IF asked = AutoAmount THEN most ELSE asked
           e == Allocate(d, r, c, amount, NextJournal(d))
           rest == IF Unapplied(d, r) <= 0 THEN <<>> ELSE Tail(todo)
<1>1. /\ pending.open /\ todo # <<>> /\ UNCHANGED db
      /\ \/ /\ asked = AutoAmount /\ most <= 0
            /\ pending' = [pending EXCEPT !.todo = rest]
         \/ /\ amount > 0 /\ MayAllocate(d, r, c, amount)
            /\ pending' = [pending EXCEPT !.todo = Tail(todo), !.tables = e]
  BY DEF AllocateNext
<1>2. pending \in Flight /\ FlightSound(pending) /\ Sound(db)
  BY <1>1 DEF IInv, NoTransaction
<1>3. /\ d \in Tables /\ todo \in Seq(Item) /\ Sound(d) /\ r \in DOMAIN d.receipts
      /\ pending.auto => PaysOldest(d, r, todo)
  BY <1>2, FlightFields DEF FlightSound
<1> HIDE DEF d, r, todo
<1>4. /\ Head(todo) = todo[1] /\ 1 \in DOMAIN todo /\ Head(todo) \in Item /\ Tail(todo) \in Seq(Item)
  BY <1>1, <1>3, TailOf
<1>5. c \in Charges /\ asked \in Nat
  BY <1>4 DEF Item
<1>6. /\ most \in Int /\ (most = Unapplied(d, r) \/ most = Outstanding(d, c))
      /\ Unapplied(d, r) \in Int /\ Outstanding(d, c) \in Int
  <2>1. Unapplied(d, r) \in Int /\ Outstanding(d, c) \in Int
    BY <1>3, <1>5, UnappliedType, OutstandingType
  <2> HIDE DEF c
  <2>2. most \in {Unapplied(d, r), Outstanding(d, c)} /\ most \in Int
    BY <2>1, MinTwo
  <2> QED
    BY <2>1, <2>2
<1>7. pending.auto => asked = AutoAmount
  <2>1. SUFFICES ASSUME pending.auto PROVE Head(todo).amount = AutoAmount
    OBVIOUS
  <2>2. InOrder(todo, d.receipts[r].lot, d.receipts[r].fund)
    BY <2>1, <1>3, Zenon DEF PaysOldest
  <2>3. todo[1].amount = AutoAmount
    BY <2>2, <1>4, Zenon DEF InOrder
  <2> QED
    BY <2>3, <1>4, Zenon
<1>8. CASE asked = AutoAmount /\ most <= 0 /\ pending' = [pending EXCEPT !.todo = rest]
  <2>1. rest \in Seq(Item)
    BY <1>4
  <2>2. pending.auto => PaysOldest(d, r, rest)
    <3>1. Outstanding(d, c) <= 0 \/ Unapplied(d, r) <= 0
      BY <1>6, <1>8
    <3> QED
      BY <3>1, <1>1, <1>3, PaysOldestSkips
  <2> HIDE DEF rest
  <2>3. /\ pending' \in Flight /\ pending'.tables = d /\ pending'.todo = rest
        /\ pending'.receipt = r /\ pending'.auto = pending.auto
    BY <2>1, <1>2, <1>8, FlightSkips DEF d, r
  <2>4. FlightSound(pending')
    BY <2>2, <2>3, <1>3 DEF FlightSound
  <2> QED
    BY <2>3, <2>4, <1>1, <1>2 DEF IInv
<1>9. CASE /\ amount > 0 /\ MayAllocate(d, r, c, amount)
           /\ pending' = [pending EXCEPT !.todo = Tail(todo), !.tables = e]
  <2>1. amount \in Int /\ NextJournal(d) \in Int
    BY <1>3, <1>5, <1>6, SourcesType
  <2>0. pending.auto => amount = Unapplied(d, r) \/ amount = Outstanding(d, c)
    BY <1>6, <1>7
  <2>2. PICK j : AllocateStep(d, e, r, c, amount, j)
    <3> HIDE DEF amount, c
    <3> QED
      BY <2>1, <1>3, <1>5, <1>9, AllocateIsStep
  <2> HIDE DEF e, amount
  <2>3. Sound(e) /\ e \in Tables /\ e.receipts = d.receipts
    BY <2>2, <1>3, AllocateSound DEF Sound, AllocateStep
  <2>4. pending.auto => PaysOldest(e, r, Tail(todo))
    BY <2>0, <2>2, <1>1, <1>3, PaysOldestPays
  <2>5. /\ pending' \in Flight /\ pending'.tables = e /\ pending'.todo = Tail(todo)
        /\ pending'.receipt = r /\ pending'.auto = pending.auto
    <3>1. e \in Tables /\ Tail(todo) \in Seq(Item) /\ pending \in Flight
      BY <2>3, <1>2, <1>4
    <3>2. pending' = Moved(pending, Tail(todo), e)
      BY <1>9 DEF Moved
    <3>3. /\ Moved(pending, Tail(todo), e) \in Flight
          /\ Moved(pending, Tail(todo), e).tables = e /\ Moved(pending, Tail(todo), e).todo = Tail(todo)
          /\ Moved(pending, Tail(todo), e).receipt = pending.receipt
          /\ Moved(pending, Tail(todo), e).auto = pending.auto
      BY <3>1, FlightMoves
    <3> QED
      BY <3>2, <3>3, Zenon DEF r
  <2>6. FlightSound(pending')
    BY <2>3, <2>4, <2>5, <1>3 DEF FlightSound
  <2> QED
    BY <2>5, <2>6, <1>1, <1>2 DEF IInv
<1> QED
  BY <1>1, <1>8, <1>9

-----------------------------------------------------------------------------
(***************************************************************************)
(* The theorems.                                                           *)
(***************************************************************************)

LEMMA RequestedType == Requested \subseteq Seq(Item)
<1>1. [charge : Instalments \X Lots, amount : Nat \ {0}] \subseteq Item
  BY DEF Item, Charges
<1>2. ASSUME NEW A, NEW B, A \subseteq B PROVE Seq(A) \subseteq Seq(B)
  BY <1>2
<1>3. Seq([charge : Instalments \X Lots, amount : Nat \ {0}]) \subseteq Seq(Item)
  BY <1>1, <1>2
<1> QED
  BY <1>3, RequestedAssumption, Zenon

LEMMA StepKeeps == IInv /\ [Next]_vars => IInv'
<1> SUFFICES ASSUME IInv, [Next]_vars PROVE IInv'
  OBVIOUS
<1>1. ASSUME NEW i \in Instalments, Issue(i) \/ ReverseInstalment(i) PROVE IInv'
  BY <1>1, IssueKeeps, ReverseInstalmentKeeps
<1>2. ASSUME NEW c \in Charges, NEW n \in AdjustmentAmounts, NEW s \in Sources(db), CreateAdjustment(c, n, s)
      PROVE  IInv'
  BY <1>2, CreateAdjustmentKeeps
<1>3. ASSUME NEW l \in Lots, NEW f \in Funds, NEW n \in ReceiptAmounts, NEW s \in Sources(db),
             RecordReceipt(l, f, n, s, TRUE, <<>>) \/ \E list \in Requested : RecordReceipt(l, f, n, s, FALSE, list)
      PROVE  IInv'
  <2>1. CASE RecordReceipt(l, f, n, s, TRUE, <<>>)
    <3>1. <<>> \in Seq(Item) /\ TRUE \in BOOLEAN
      OBVIOUS
    <3> QED
      BY <2>1, <3>1, RecordReceiptKeeps
  <2>2. ASSUME NEW list \in Requested, RecordReceipt(l, f, n, s, FALSE, list) PROVE IInv'
    <3>1. list \in Seq(Item) /\ FALSE \in BOOLEAN
      BY RequestedType
    <3> QED
      BY <2>2, <3>1, RecordReceiptKeeps
  <2> QED
    BY <1>3, <2>1, <2>2
<1>4. CASE AllocateNext \/ CommitReceipt \/ RollbackReceipt
  BY <1>4, AllocateNextKeeps, CommitReceiptKeeps, RollbackReceiptKeeps
<1>5. ASSUME NEW r \in DOMAIN db.receipts, NEW c \in Charges, NEW n \in AllocationAmounts,
             NEW s \in Sources(db), CreateAllocation(r, c, n, s)
      PROVE  IInv'
  BY <1>5, CreateAllocationKeeps
<1>6. ASSUME NEW a \in DOMAIN db.allocations, ReverseAllocation(a) PROVE IInv'
  BY <1>6, ReverseAllocationKeeps
<1>7. ASSUME NEW r \in DOMAIN db.receipts, ReverseReceipt(r) PROVE IInv'
  BY <1>7, ReverseReceiptKeeps
<1>8. ASSUME NEW k \in DOMAIN db.journals, ReverseThroughLedger(k) PROVE IInv'
  BY <1>8, ReverseThroughLedgerKeeps
<1>9. CASE UNCHANGED vars
  BY <1>9 DEF IInv, vars
<1> QED
  BY <1>1, <1>2, <1>3, <1>4, <1>5, <1>6, <1>7, <1>8, <1>9 DEF Next

LEMMA Invariance == Spec => []IInv
<1>1. Init => IInv
  BY StartsSound DEF IInv, Init
<1> QED
  BY <1>1, StepKeeps, PTL DEF Spec

\* The tables and the transaction in flight keep their shape, whatever is
\* posted, allocated, adjusted and reversed.
THEOREM TypeCorrect == Spec => []TypeOK
<1>1. IInv => TypeOK
  BY DEF IInv, Sound, TypeOK, Flight
<1> QED
  BY <1>1, Invariance, PTL

\* LedgersTie: what recorded receipts still hold and what the lots' ledgers
\* add up to is what the general ledger says, fund by fund.
THEOREM LedgersTieHolds == Spec => []LedgersTie
<1>1. IInv => LedgersTie
  BY Zenon DEF IInv, Sound, TieSound, LedgersTie, HeldFor, OwedBy
<1> QED
  BY <1>1, Invariance, PTL

\* ReceiptsCoverAllocations: no receipt gives more than it holds, and nothing
\* of a reversed one is applied.
THEOREM ReceiptsCoverAllocationsHolds == Spec => []ReceiptsCoverAllocations
<1>1. IInv => ReceiptsCoverAllocations
  <2> SUFFICES ASSUME IInv, NEW r \in DOMAIN db.receipts
               PROVE  /\ Unapplied(db, r) >= 0
                      /\ db.receipts[r].status = "REVERSED" => AppliedFrom(db, r) = 0
    BY DEF ReceiptsCoverAllocations
  <2>1. db \in Tables /\ CoverSound(db)
    BY DEF IInv, Sound
  <2>2. /\ AppliedFrom(db, r) = SumOver(WorthOf(db), TakenFrom(db, r)) /\ AppliedFrom(db, r) \in Int
        /\ db.receipts[r].amount \in Int
    BY <2>1, AppliedFromSum, RowsOf
  <2>3. Unapplied(db, r) >= 0
    BY <2>1, <2>2 DEF CoverSound, Unapplied
  <2>4. ASSUME db.receipts[r].status = "REVERSED" PROVE AppliedFrom(db, r) = 0
    <3>1. TakenFrom(db, r) = {}
      BY <2>1, <2>4 DEF CoverSound, TakenFrom
    <3> QED
      BY <3>1, <2>2, SumEmpty, Zenon
  <2> QED
    BY <2>3, <2>4
<1> QED
  BY <1>1, Invariance, PTL

\* A journal as Owners names it.
Tag(d, k) == <<d.journals[k].type, k, ReversalsOf(d, k) # {}>>
Of(d, type) == {k \in DOMAIN d.journals : d.journals[k].type = type}
TagsOf(d, type) == {Tag(d, k) : k \in Of(d, type)}
Tagged(T, I, R, type) == {<<type, T[x].journal, x \in R>> : x \in I}

LEMMA OwnersOf ==
  ASSUME NEW d, NEW T, NEW I, NEW R, NEW type, Follows(d, T, I, R, type)
  PROVE  Tagged(T, I, R, type) = TagsOf(d, type)
<1>1. \A k : ReversalsOf(d, k) # {} <=> Reversed(d, k)
  BY DEF ReversalsOf, Reversed
<1>2. ASSUME NEW x \in I
      PROVE  T[x].journal \in Of(d, type) /\ <<type, T[x].journal, x \in R>> = Tag(d, T[x].journal)
  <2>1. /\ T[x].journal \in DOMAIN d.journals /\ d.journals[T[x].journal].type = type
        /\ x \in R <=> Reversed(d, T[x].journal)
    BY DEF Follows
  <2>2. (x \in R) = (ReversalsOf(d, T[x].journal) # {})
    BY <2>1, <1>1
  <2>3. <<type, T[x].journal, x \in R>> = Tag(d, T[x].journal)
    BY <2>1, <2>2, Zenon DEF Tag
  <2> QED
    BY <2>1, <2>3 DEF Of
<1>3. ASSUME NEW k \in Of(d, type) PROVE \E x \in I : T[x].journal = k
  BY DEF Of, Follows
<1>4. ASSUME NEW z \in Tagged(T, I, R, type) PROVE z \in TagsOf(d, type)
  <2>1. PICK x \in I : z = <<type, T[x].journal, x \in R>>
    BY Zenon DEF Tagged
  <2>2. T[x].journal \in Of(d, type) /\ z = Tag(d, T[x].journal)
    BY <1>2, <2>1, Zenon
  <2> QED
    BY <2>2, Zenon DEF TagsOf
<1>5. ASSUME NEW z \in TagsOf(d, type) PROVE z \in Tagged(T, I, R, type)
  <2>1. PICK k \in Of(d, type) : z = Tag(d, k)
    BY Zenon DEF TagsOf
  <2>2. PICK x \in I : T[x].journal = k
    BY <1>3
  <2>3. z = <<type, T[x].journal, x \in R>>
    BY <2>1, <2>2, <1>2, Zenon
  <2> QED
    BY <2>3, Zenon DEF Tagged
<1> QED
  BY <1>4, <1>5, Zenon

\* RowsFollowJournals: every journal of a subledger has its row, and the row
\* is marked reversed exactly when the journal has been.
THEOREM RowsFollowJournalsHolds == Spec => []RowsFollowJournals
<1>1. IInv => RowsFollowJournals
  <2> SUFFICES ASSUME IInv PROVE RowsFollowJournals
    OBVIOUS
  <2> DEFINE levyRows == {<<"LEVY", db.instalments[i].journal, db.instalments[i].status = "REVERSED">> :
                          i \in IssuedOnce(db)}
             receiptRows == {<<"RECEIPT", db.receipts[r].journal, db.receipts[r].status = "REVERSED">> :
                            r \in DOMAIN db.receipts}
             allocationRows == {<<"PAYMENT_ALLOCATION", db.allocations[a].journal,
                               db.allocations[a].status = "REVERSED">> : a \in DOMAIN db.allocations}
             adjustmentRows == {<<"LEVY_ADJUSTMENT", db.adjustments[a].journal, FALSE>> :
                               a \in DOMAIN db.adjustments}
  <2>1. db \in Tables /\ RowsSound(db)
    BY DEF IInv, Sound
  <2>2. Owners(db) = levyRows \cup receiptRows \cup allocationRows \cup adjustmentRows
    BY Zenon DEF Owners, IssuedOnce
  <2>3. levyRows = TagsOf(db, "LEVY")
    <3> DEFINE R == ReversedIn(db.instalments, Instalments)
    <3>1. \A i \in IssuedOnce(db) : (i \in R) = (db.instalments[i].status = "REVERSED")
      BY DEF ReversedIn, IssuedOnce
    <3>2. Follows(db, db.instalments, IssuedOnce(db), R, "LEVY")
      BY <2>1 DEF RowsSound
    <3> HIDE DEF R
    <3>3. Tagged(db.instalments, IssuedOnce(db), R, "LEVY") = TagsOf(db, "LEVY")
      BY <3>2, OwnersOf
    <3>4. levyRows = Tagged(db.instalments, IssuedOnce(db), R, "LEVY")
      BY <3>1, Zenon DEF Tagged
    <3> QED
      BY <3>3, <3>4, Zenon
  <2>4. receiptRows = TagsOf(db, "RECEIPT")
    <3> DEFINE R == ReversedIn(db.receipts, DOMAIN db.receipts)
    <3>1. \A i \in DOMAIN db.receipts : (i \in R) = (db.receipts[i].status = "REVERSED")
      BY DEF ReversedIn
    <3>2. Follows(db, db.receipts, DOMAIN db.receipts, R, "RECEIPT")
      BY <2>1 DEF RowsSound
    <3> HIDE DEF R
    <3>3. Tagged(db.receipts, DOMAIN db.receipts, R, "RECEIPT") = TagsOf(db, "RECEIPT")
      BY <3>2, OwnersOf
    <3>4. receiptRows = Tagged(db.receipts, DOMAIN db.receipts, R, "RECEIPT")
      BY <3>1, Zenon DEF Tagged
    <3> QED
      BY <3>3, <3>4, Zenon
  <2>5. allocationRows = TagsOf(db, "PAYMENT_ALLOCATION")
    <3> DEFINE R == ReversedIn(db.allocations, DOMAIN db.allocations)
    <3>1. \A i \in DOMAIN db.allocations : (i \in R) = (db.allocations[i].status = "REVERSED")
      BY DEF ReversedIn
    <3>2. Follows(db, db.allocations, DOMAIN db.allocations, R, "PAYMENT_ALLOCATION")
      BY <2>1 DEF RowsSound
    <3> HIDE DEF R
    <3>3. Tagged(db.allocations, DOMAIN db.allocations, R, "PAYMENT_ALLOCATION") = TagsOf(db, "PAYMENT_ALLOCATION")
      BY <3>2, OwnersOf
    <3>4. allocationRows = Tagged(db.allocations, DOMAIN db.allocations, R, "PAYMENT_ALLOCATION")
      BY <3>1, Zenon DEF Tagged
    <3> QED
      BY <3>3, <3>4, Zenon
  <2>6. adjustmentRows = TagsOf(db, "LEVY_ADJUSTMENT")
    <3>1. \A i \in DOMAIN db.adjustments : (i \in {}) = FALSE
      OBVIOUS
    <3>2. Follows(db, db.adjustments, DOMAIN db.adjustments, {}, "LEVY_ADJUSTMENT")
      BY <2>1 DEF RowsSound
    <3>3. Tagged(db.adjustments, DOMAIN db.adjustments, {}, "LEVY_ADJUSTMENT") = TagsOf(db, "LEVY_ADJUSTMENT")
      BY <3>2, OwnersOf
    <3>4. adjustmentRows = Tagged(db.adjustments, DOMAIN db.adjustments, {}, "LEVY_ADJUSTMENT")
      BY <3>1, Zenon DEF Tagged
    <3> QED
      BY <3>3, <3>4, Zenon
  <2>7. \A k \in DOMAIN db.journals : db.journals[k].type \in Types
    <3> SUFFICES ASSUME NEW k \in DOMAIN db.journals PROVE db.journals[k].type \in Types
      OBVIOUS
    <3>1. db.journals[k] \in Journal
      BY <2>1, RowsOf
    <3> QED
      BY <3>1 DEF Journal
  <2> DEFINE Not == {x \in DOMAIN db.journals : db.journals[x].type # "REVERSAL"}
  <2>8. Not = Of(db, "LEVY") \cup Of(db, "RECEIPT") \cup Of(db, "PAYMENT_ALLOCATION") \cup Of(db, "LEVY_ADJUSTMENT")
    BY <2>7 DEF Of, Types
  <2>9. RowsFollowJournals <=> Owners(db) = {Tag(db, k) : k \in Not}
    BY Zenon DEF RowsFollowJournals, Tag
  <2> HIDE DEF levyRows, receiptRows, allocationRows, adjustmentRows, Not
  <2>10. {Tag(db, k) : k \in Not}
           = TagsOf(db, "LEVY") \cup TagsOf(db, "RECEIPT")
               \cup TagsOf(db, "PAYMENT_ALLOCATION") \cup TagsOf(db, "LEVY_ADJUSTMENT")
    BY <2>8, Zenon DEF TagsOf
  <2> QED
    BY <2>2, <2>3, <2>4, <2>5, <2>6, <2>9, <2>10, Zenon
<1> QED
  BY <1>1, Invariance, PTL

\* OldestFirst: an automatic allocation pays nothing on a younger charge while
\* an older one of the lot and fund, not marked paid, is still owed.
THEOREM OldestFirstHolds == Spec => []OldestFirst
<1>1. IInv => OldestFirst
  <2> DEFINE d == pending.tables
             r == pending.receipt
  <2> SUFFICES ASSUME IInv, pending.open, pending.auto, NEW young \in Charges,
                      NEW a \in DOMAIN d.allocations,
                      d.allocations[a].receipt = r, d.allocations[a].charge = young,
                      NEW old \in Charges, old[1] < young[1], old[2] = young[2],
                      FundOf[old[1]] = FundOf[young[1]], d.charges[old] # "PAID"
               PROVE  Outstanding(d, old) <= 0
    BY DEF OldestFirst
  <2>1. pending \in Flight /\ FlightSound(pending)
    BY DEF IInv, NoTransaction
  <2>2. PaysOldest(d, r, pending.todo)
    BY <2>1 DEF FlightSound
  <2> HIDE DEF d, r
  <2>3. /\ SameLedger(d, r, young)
        /\ \A c \in Charges : SameLedger(d, r, c) /\ c[1] < young[1] => Settled(d, c)
    BY <2>2, Zenon DEF PaysOldest
  <2>4. SameLedger(d, r, old)
    BY <2>3, Zenon DEF SameLedger
  <2>5. Settled(d, old)
    BY <2>3, <2>4, Zenon
  <2> QED
    BY <2>5, Zenon DEF Settled
<1> QED
  BY <1>1, Invariance, PTL

-----------------------------------------------------------------------------
(***************************************************************************)
(* The reports of one lot (LotAccount).                                    *)
(***************************************************************************)
Moments == [day : Int, tick : Int]
AdjustmentRows == [of : Levies, amount : Corrections, at : Moments]
ReceiptRecords ==
  [fund : Lot!FundsUsed, amount : Deposits, posted : Days, at : Moments, reversed : Moments]
AllocationRecords ==
  [receipt : Nat, to : Levies, amount : Deposits, at : Moments, reversed : Moments]

\* Every variable has its type, and what was said was said of days gone by.
LotTypeOK ==
  /\ today \in Int /\ events \in Int
  /\ charges \in [Levies -> [issued : Moments, reversed : Moments]]
  /\ adjustments \in Seq(AdjustmentRows)
  /\ receipts \in Seq(ReceiptRecords)
  /\ allocations \in Seq(AllocationRecords)
  /\ said = [d \in DOMAIN said |-> said[d]] /\ DOMAIN said \subseteq {d \in Int : d < today}

LotSound == LotTypeOK /\ ArrearsStand

LEMMA NowType == LotTypeOK => Lot!Now \in Moments /\ Lot!Never \in Moments /\ Lot!Now.day = today /\ Lot!Never.day = -1
BY DEF LotTypeOK, Lot!Now, Lot!Never, Moments

\* What happens now had not happened on a day gone by.
LEMMA NotByNow == LotTypeOK => \A day \in Int : day < today => ~Lot!By(Lot!Now, day) /\ ~Lot!By(Lot!Never, day)
BY NowType DEF Lot!By, Lot!Happened, LotTypeOK

LEMMA AdjustedSame ==
  ASSUME NEW day \in Int, NEW i \in Levies,
         \A k : /\ (k \in DOMAIN adjustments' /\ Lot!By(adjustments'[k].at, day))
                     <=> (k \in DOMAIN adjustments /\ Lot!By(adjustments[k].at, day))
                /\ k \in DOMAIN adjustments /\ Lot!By(adjustments[k].at, day)
                     => adjustments'[k].of = adjustments[k].of /\ adjustments'[k].amount = adjustments[k].amount
  PROVE  Lot!Adjusted(i, day)' = Lot!Adjusted(i, day)
<1> DEFINE S == {a \in DOMAIN adjustments : adjustments[a].of = i /\ Lot!By(adjustments[a].at, day)}
           T == {a \in DOMAIN adjustments' : adjustments'[a].of = i /\ Lot!By(adjustments'[a].at, day)}
<1>1. T = S
  OBVIOUS
<1>2. [a \in T |-> adjustments'[a].amount] = [a \in S |-> adjustments[a].amount]
  BY <1>1
<1>3. /\ Lot!Adjusted(i, day)' = Lot!SumOver([a \in T |-> adjustments'[a].amount], T)
      /\ Lot!Adjusted(i, day) = Lot!SumOver([a \in S |-> adjustments[a].amount], S)
  BY DEF Lot!Adjusted, Lot!By, Lot!Happened, Lot!Never, Lot!SumOver
<1> QED
  BY <1>1, <1>2, <1>3

LEMMA AppliedSame ==
  ASSUME NEW day \in Int, NEW i \in Levies,
         \A k : /\ (k \in DOMAIN allocations' /\ Lot!Standing(k, day)') <=> (k \in DOMAIN allocations /\ Lot!Standing(k, day))
                /\ k \in DOMAIN allocations /\ Lot!Standing(k, day)
                     => allocations'[k].to = allocations[k].to /\ allocations'[k].amount = allocations[k].amount
  PROVE  Lot!AppliedTo(i, day)' = Lot!AppliedTo(i, day)
<1> DEFINE S == {a \in DOMAIN allocations : allocations[a].to = i /\ Lot!Standing(a, day)}
           T == {a \in DOMAIN allocations' : allocations'[a].to = i /\ Lot!Standing(a, day)'}
<1>1. T = S
  OBVIOUS
<1>2. [a \in T |-> allocations'[a].amount] = [a \in S |-> allocations[a].amount]
  BY <1>1
<1>3. /\ Lot!AppliedTo(i, day)' = Lot!SumOver([a \in T |-> allocations'[a].amount], T)
      /\ Lot!AppliedTo(i, day) = Lot!SumOver([a \in S |-> allocations[a].amount], S)
  BY DEF Lot!AppliedTo, Lot!SumOver
<1> QED
  BY <1>1, <1>2, <1>3

\* What the report of a day says depends on what had been issued, reversed,
\* adjusted and applied by the end of it.
LEMMA ArrearsSame ==
  ASSUME NEW day \in Int,
         \A i \in Levies : /\ Lot!By(charges'[i].issued, day) <=> Lot!By(charges[i].issued, day)
                           /\ Lot!By(charges'[i].reversed, day) <=> Lot!By(charges[i].reversed, day)
                           /\ Lot!Adjusted(i, day)' = Lot!Adjusted(i, day)
                           /\ Lot!AppliedTo(i, day)' = Lot!AppliedTo(i, day)
  PROVE  Lot!Arrears(day)' = Lot!Arrears(day)
<1>1. \A i \in Levies : Lot!Cancelled(i, day)' <=> Lot!Cancelled(i, day)
  BY DEF Lot!Cancelled, Lot!By, Lot!Happened, Lot!Never
<1>2. \A i \in Levies : Lot!Outstanding(i, day)' = Lot!Outstanding(i, day)
  BY <1>1 DEF Lot!Outstanding
<1>3. \A i \in Levies : Lot!IsOverdue(i, day)' = Lot!IsOverdue(i, day)
  <2>1. \A i \in Levies : Lot!IsOverdue(i, day)' <=> Lot!IsOverdue(i, day)
    BY <1>1, <1>2 DEF Lot!IsOverdue
  <2>2. \A i \in Levies : Lot!IsOverdue(i, day)' \in BOOLEAN /\ Lot!IsOverdue(i, day) \in BOOLEAN
    BY DEF Lot!IsOverdue
  <2> QED
    BY <2>1, <2>2
<1>4. \A i \in Levies : Lot!ChargeArrears(i, day)' = Lot!ChargeArrears(i, day)
  <2> SUFFICES ASSUME NEW i \in Levies PROVE Lot!ChargeArrears(i, day)' = Lot!ChargeArrears(i, day)
    OBVIOUS
  <2>1. Lot!DaysOverdue(i, day)' = Lot!DaysOverdue(i, day)
    BY DEF Lot!DaysOverdue, Lot!Greater
  <2>2. Lot!AgeingBucketFor(Lot!DaysOverdue(i, day))' = Lot!AgeingBucketFor(Lot!DaysOverdue(i, day))
    BY <2>1 DEF Lot!AgeingBucketFor
  <2> QED
    BY <1>2, <1>3, <2>1, <2>2, Zenon DEF Lot!ChargeArrears
<1>5. {k \in Levies : Lot!By(charges'[k].issued, day)} = {k \in Levies : Lot!By(charges[k].issued, day)}
  OBVIOUS
<1>6. /\ Lot!Arrears(day)' = [i \in {k \in Levies : Lot!By(charges'[k].issued, day)} |-> Lot!ChargeArrears(i, day)']
      /\ Lot!Arrears(day) = [i \in {k \in Levies : Lot!By(charges[k].issued, day)} |-> Lot!ChargeArrears(i, day)]
  BY DEF Lot!Arrears, Lot!By, Lot!Happened, Lot!Never
<1> QED
  BY <1>4, <1>5, <1>6

\* What a transaction writes carries today's date: no report of a day gone by
\* is different after it.
LEMMA PastStands ==
  ASSUME LotSound, LotTypeOK', today' = today, said' = said,
         \A day \in Int : day < today => Lot!Arrears(day)' = Lot!Arrears(day)
  PROVE  LotSound'
BY DEF LotSound, LotTypeOK, ArrearsStand, Lot!ArrearsStand

LEMMA ChargeStands ==
  ASSUME LotSound, NEW i \in Levies, Lot!Issue(i) \/ Lot!ReverseInstalment(i)
  PROVE  LotSound'
<1>0. LotTypeOK
  BY DEF LotSound
<1>1. /\ today' = today /\ said' = said /\ events' = events + 1
      /\ adjustments' = adjustments /\ receipts' = receipts /\ allocations' = allocations
  BY DEF Lot!Issue, Lot!ReverseInstalment, Lot!Event
<1>2. PICK charge \in [issued : Moments, reversed : Moments] :
        /\ charges' = [charges EXCEPT ![i] = charge]
        /\ \/ charge.issued = charges[i].issued
           \/ ~Lot!Happened(charges[i].issued) /\ charge.issued = Lot!Now
        /\ \/ charge.reversed = charges[i].reversed
           \/ ~Lot!Happened(charges[i].reversed) /\ charge.reversed = Lot!Now
  <2>0. charges[i] \in [issued : Moments, reversed : Moments] /\ Lot!Now \in Moments
    BY <1>0, NowType DEF LotTypeOK
  <2>1. CASE Lot!Issue(i)
    <3>1. [charges[i] EXCEPT !.issued = Lot!Now] \in [issued : Moments, reversed : Moments]
      BY <2>0
    <3> QED
      BY <2>0, <2>1, <3>1 DEF Lot!Issue
  <2>2. CASE Lot!ReverseInstalment(i)
    <3>1. [charges[i] EXCEPT !.reversed = Lot!Now] \in [issued : Moments, reversed : Moments]
      BY <2>0
    <3> QED
      BY <2>0, <2>2, <3>1 DEF Lot!ReverseInstalment
  <2> QED
    BY <2>1, <2>2
<1>3. LotTypeOK'
  BY <1>0, <1>1, <1>2 DEF LotTypeOK
<1>4. ASSUME NEW day \in Int, day < today PROVE Lot!Arrears(day)' = Lot!Arrears(day)
  <2>1. /\ ~Lot!By(Lot!Now, day)
        /\ \A at : ~Lot!Happened(at) => ~Lot!By(at, day)
    BY <1>0, <1>4, NotByNow DEF Lot!By
  <2>2. \A k \in Levies : /\ Lot!By(charges'[k].issued, day) <=> Lot!By(charges[k].issued, day)
                          /\ Lot!By(charges'[k].reversed, day) <=> Lot!By(charges[k].reversed, day)
    BY <1>0, <1>2, <2>1 DEF LotTypeOK
  <2>3. \A k \in Levies : Lot!Adjusted(k, day)' = Lot!Adjusted(k, day)
    BY <1>1 DEF Lot!Adjusted, Lot!By, Lot!Happened, Lot!Never, Lot!SumOver
  <2>4. \A k : Lot!Standing(k, day)' <=> Lot!Standing(k, day)
    BY <1>1 DEF Lot!Standing, Lot!By, Lot!Happened, Lot!Never
  <2>5. \A k \in Levies : Lot!AppliedTo(k, day)' = Lot!AppliedTo(k, day)
    BY <1>1, <2>4, AppliedSame
  <2> QED
    BY <2>2, <2>3, <2>5, ArrearsSame
<1> QED
  BY <1>1, <1>3, <1>4, PastStands

LEMMA AdjustmentStands ==
  ASSUME LotSound, NEW i \in Levies, NEW amount \in Corrections, Lot!CreateAdjustment(i, amount)
  PROVE  LotSound'
<1> DEFINE row == [of |-> i, amount |-> amount, at |-> Lot!Now]
<1>0. LotTypeOK /\ row \in AdjustmentRows /\ adjustments' = Append(adjustments, row)
  BY NowType DEF LotSound, AdjustmentRows, Lot!CreateAdjustment
<1>1. LotTypeOK /\ LotTypeOK'
  BY <1>0 DEF LotTypeOK, Lot!CreateAdjustment, Lot!Event
<1>2. ASSUME NEW day \in Int, day < today PROVE Lot!Arrears(day)' = Lot!Arrears(day)
  <2>1. ~Lot!By(row.at, day)
    BY <1>1, <1>2, NotByNow
  <2> HIDE DEF row
  <2>2. /\ DOMAIN adjustments' = DOMAIN adjustments \cup {Len(adjustments) + 1}
        /\ adjustments'[Len(adjustments) + 1] = row
        /\ \A k \in DOMAIN adjustments : adjustments'[k] = adjustments[k]
    BY <1>0 DEF LotTypeOK
  <2>3. \A k \in Levies : Lot!Adjusted(k, day)' = Lot!Adjusted(k, day)
    <3>1. \A k : /\ (k \in DOMAIN adjustments' /\ Lot!By(adjustments'[k].at, day))
                       <=> (k \in DOMAIN adjustments /\ Lot!By(adjustments[k].at, day))
                 /\ k \in DOMAIN adjustments /\ Lot!By(adjustments[k].at, day)
                      => adjustments'[k].of = adjustments[k].of /\ adjustments'[k].amount = adjustments[k].amount
      BY <2>1, <2>2, Zenon
    <3> QED
      BY <3>1, AdjustedSame
  <2>4. \A k \in Levies : Lot!AppliedTo(k, day)' = Lot!AppliedTo(k, day)
    BY DEF Lot!CreateAdjustment, Lot!AppliedTo, Lot!Standing, Lot!By, Lot!Happened, Lot!Never, Lot!SumOver
  <2>5. charges' = charges
    BY DEF Lot!CreateAdjustment
  <2> QED
    BY <2>3, <2>4, <2>5, ArrearsSame
<1> QED
  BY <1>1, <1>2, PastStands DEF Lot!CreateAdjustment, Lot!Event

\* Neither a charge nor an adjustment is written.
LEMMA AllocationsStand ==
  ASSUME NEW day \in Int, charges' = charges, adjustments' = adjustments,
         \A k : /\ (k \in DOMAIN allocations' /\ Lot!Standing(k, day)') <=> (k \in DOMAIN allocations /\ Lot!Standing(k, day))
                /\ k \in DOMAIN allocations /\ Lot!Standing(k, day)
                     => allocations'[k].to = allocations[k].to /\ allocations'[k].amount = allocations[k].amount
  PROVE  Lot!Arrears(day)' = Lot!Arrears(day)
<1>1. \A k \in Levies : Lot!AppliedTo(k, day)' = Lot!AppliedTo(k, day)
  BY AppliedSame
<1>2. \A k \in Levies : Lot!Adjusted(k, day)' = Lot!Adjusted(k, day)
  BY DEF Lot!Adjusted, Lot!By, Lot!Happened, Lot!Never, Lot!SumOver
<1> QED
  BY <1>1, <1>2, ArrearsSame

LEMMA AllocationStands ==
  ASSUME LotSound, NEW r \in DOMAIN receipts, NEW i \in Levies, NEW amount \in Deposits,
         Lot!CreateAllocation(r, i, amount)
  PROVE  LotSound'
<1> DEFINE row == [receipt |-> r, to |-> i, amount |-> amount, at |-> Lot!Now, reversed |-> Lot!Never]
<1>0. LotTypeOK /\ row \in AllocationRecords /\ allocations' = Append(allocations, row)
  <2>1. LotTypeOK /\ r \in Nat
    BY DEF LotSound, LotTypeOK
  <2> QED
    BY <2>1, NowType DEF AllocationRecords, Lot!CreateAllocation
<1>1. LotTypeOK /\ LotTypeOK'
  BY <1>0 DEF LotTypeOK, Lot!CreateAllocation, Lot!Event
<1>2. ASSUME NEW day \in Int, day < today PROVE Lot!Arrears(day)' = Lot!Arrears(day)
  <2>1. ~Lot!By(row.at, day)
    BY <1>1, <1>2, NotByNow
  <2> HIDE DEF row
  <2>2. /\ DOMAIN allocations' = DOMAIN allocations \cup {Len(allocations) + 1}
        /\ allocations'[Len(allocations) + 1] = row
        /\ \A k \in DOMAIN allocations : allocations'[k] = allocations[k]
    BY <1>0 DEF LotTypeOK
  <2>3. \A k : /\ Lot!Standing(k, day)' <=> Lot!By(allocations'[k].at, day) /\ ~Lot!By(allocations'[k].reversed, day)
               /\ Lot!Standing(k, day) <=> Lot!By(allocations[k].at, day) /\ ~Lot!By(allocations[k].reversed, day)
    BY DEF Lot!Standing, Lot!By, Lot!Happened, Lot!Never
  <2>4. \A k : /\ (k \in DOMAIN allocations' /\ Lot!Standing(k, day)') <=> (k \in DOMAIN allocations /\ Lot!Standing(k, day))
               /\ k \in DOMAIN allocations /\ Lot!Standing(k, day)
                    => allocations'[k].to = allocations[k].to /\ allocations'[k].amount = allocations[k].amount
    BY <2>1, <2>2, <2>3, Zenon
  <2>5. charges' = charges /\ adjustments' = adjustments
    BY DEF Lot!CreateAllocation
  <2> QED
    BY <2>4, <2>5, AllocationsStand
<1> QED
  BY <1>1, <1>2, PastStands DEF Lot!CreateAllocation, Lot!Event

LEMMA ReversalStands ==
  ASSUME LotSound, NEW a \in DOMAIN allocations, Lot!ReverseAllocation(a)
  PROVE  LotSound'
<1> DEFINE row == [allocations[a] EXCEPT !.reversed = Lot!Now]
<1>0. /\ LotTypeOK /\ allocations[a] \in AllocationRecords
      /\ allocations' = [allocations EXCEPT ![a] = row] /\ ~Lot!Happened(allocations[a].reversed)
  BY DEF LotSound, LotTypeOK, Lot!ReverseAllocation
<1>1. /\ row \in AllocationRecords /\ row.reversed = Lot!Now /\ row.at = allocations[a].at
      /\ row.to = allocations[a].to /\ row.amount = allocations[a].amount
  BY <1>0, NowType DEF AllocationRecords
<1> HIDE DEF row
<1>2. /\ allocations' \in Seq(AllocationRecords) /\ DOMAIN allocations' = DOMAIN allocations
      /\ \A k \in DOMAIN allocations : allocations'[k] = IF k = a THEN row ELSE allocations[k]
  BY <1>0, <1>1 DEF LotTypeOK
<1>3. LotTypeOK'
  BY <1>0, <1>2 DEF LotTypeOK, Lot!ReverseAllocation, Lot!Event
<1>4. ASSUME NEW day \in Int, day < today PROVE Lot!Arrears(day)' = Lot!Arrears(day)
  <2>1. ~Lot!By(row.reversed, day) /\ ~Lot!By(allocations[a].reversed, day)
    BY <1>0, <1>1, <1>4, NotByNow DEF Lot!By
  <2>3. \A k : /\ Lot!Standing(k, day)' <=> Lot!By(allocations'[k].at, day) /\ ~Lot!By(allocations'[k].reversed, day)
               /\ Lot!Standing(k, day) <=> Lot!By(allocations[k].at, day) /\ ~Lot!By(allocations[k].reversed, day)
    BY DEF Lot!Standing, Lot!By, Lot!Happened, Lot!Never
  <2>4. \A k : /\ (k \in DOMAIN allocations' /\ Lot!Standing(k, day)') <=> (k \in DOMAIN allocations /\ Lot!Standing(k, day))
               /\ k \in DOMAIN allocations /\ Lot!Standing(k, day)
                    => allocations'[k].to = allocations[k].to /\ allocations'[k].amount = allocations[k].amount
    BY <1>1, <1>2, <2>1, <2>3
  <2>5. charges' = charges /\ adjustments' = adjustments
    BY DEF Lot!ReverseAllocation
  <2> QED
    BY <2>4, <2>5, AllocationsStand
<1> QED
  BY <1>0, <1>3, <1>4, PastStands DEF Lot!ReverseAllocation, Lot!Event

\* Receipts do not enter the arrears.
LEMMA ReceiptStands ==
  ASSUME LotSound,
         \/ \E fund \in Lot!FundsUsed, amount \in Deposits, posted \in Days : Lot!RecordReceipt(fund, amount, posted)
         \/ \E r \in DOMAIN receipts : Lot!ReverseReceipt(r)
  PROVE  LotSound'
<1>1. LotTypeOK'
  <2>1. CASE \E fund \in Lot!FundsUsed, amount \in Deposits, posted \in Days : Lot!RecordReceipt(fund, amount, posted)
    <3>1. PICK fund \in Lot!FundsUsed, amount \in Deposits, posted \in Days : Lot!RecordReceipt(fund, amount, posted)
      BY <2>1
    <3> DEFINE row == [fund |-> fund, amount |-> amount, posted |-> posted, at |-> Lot!Now, reversed |-> Lot!Never]
    <3>2. row \in ReceiptRecords /\ receipts' = Append(receipts, row)
      BY <3>1, NowType DEF LotSound, ReceiptRecords, Lot!RecordReceipt
    <3> HIDE DEF row
    <3> QED
      BY <3>1, <3>2 DEF LotSound, LotTypeOK, Lot!RecordReceipt, Lot!Event
  <2>2. ASSUME NEW r \in DOMAIN receipts, Lot!ReverseReceipt(r) PROVE LotTypeOK'
    <3> DEFINE row == [receipts[r] EXCEPT !.reversed = Lot!Now]
    <3>1. LotTypeOK /\ receipts[r] \in ReceiptRecords /\ receipts' = [receipts EXCEPT ![r] = row]
      BY <2>2 DEF LotSound, LotTypeOK, Lot!ReverseReceipt
    <3>2. row \in ReceiptRecords
      BY <3>1, NowType DEF ReceiptRecords
    <3> HIDE DEF row
    <3>3. receipts' \in Seq(ReceiptRecords)
      BY <3>1, <3>2 DEF LotTypeOK
    <3>4. /\ today' = today /\ said' = said /\ events' = events + 1
          /\ charges' = charges /\ adjustments' = adjustments /\ allocations' = allocations
      BY <2>2 DEF Lot!ReverseReceipt, Lot!Event
    <3> QED
      BY <3>1, <3>3, <3>4 DEF LotTypeOK
  <2> QED
    BY <2>1, <2>2
<1>2. charges' = charges /\ adjustments' = adjustments /\ allocations' = allocations /\ today' = today /\ said' = said
  BY DEF Lot!RecordReceipt, Lot!ReverseReceipt, Lot!Event
<1>3. ASSUME NEW day \in Int PROVE Lot!Arrears(day)' = Lot!Arrears(day)
  <2>1. \A k : Lot!Standing(k, day)' <=> Lot!Standing(k, day)
    BY <1>2 DEF Lot!Standing, Lot!By, Lot!Happened, Lot!Never
  <2> QED
    BY <1>2, <2>1, AllocationsStand
<1> QED
  BY <1>1, <1>2, <1>3, PastStands

\* A day that ends is said as its arrears are.
LEMMA DayStands ==
  ASSUME LotSound, Lot!DayEnds
  PROVE  LotSound'
<1>1. PICK day \in {d \in Days : d > today} :
        /\ today' = day
        /\ said' = [d \in DOMAIN said \cup {today} |-> IF d = today THEN Lot!Arrears(today) ELSE said[d]]
        /\ UNCHANGED <<events, charges, adjustments, receipts, allocations>>
  BY Zenon DEF Lot!DayEnds
<1>2. today \in Int /\ day \in Int /\ today < day
  BY <1>1, LotAssumption DEF LotSound, LotTypeOK
<1>3. LotTypeOK'
  BY <1>1, <1>2 DEF LotSound, LotTypeOK
<1>4. ASSUME NEW d \in Int PROVE Lot!Arrears(d)' = Lot!Arrears(d)
  <2>1. \A k : Lot!Standing(k, d)' <=> Lot!Standing(k, d)
    BY <1>1 DEF Lot!Standing, Lot!By, Lot!Happened, Lot!Never
  <2> QED
    BY <1>1, <2>1, AllocationsStand
<1>5. \A d \in DOMAIN said' : Lot!Arrears(d)' = said'[d]
  BY <1>1, <1>2, <1>4 DEF LotSound, LotTypeOK, ArrearsStand, Lot!ArrearsStand
<1> QED
  BY <1>3, <1>5 DEF LotSound, ArrearsStand, Lot!ArrearsStand

\* Every step leaves the past days as they were said.
LEMMA LotKeeps == LotSound /\ [Lot!Next]_(Lot!vars) => LotSound'
<1> SUFFICES ASSUME LotSound, [Lot!Next]_(Lot!vars) PROVE LotSound'
  OBVIOUS
<1>1. CASE UNCHANGED Lot!vars
  <2>1. /\ today' = today /\ events' = events /\ charges' = charges /\ adjustments' = adjustments
        /\ receipts' = receipts /\ allocations' = allocations /\ said' = said
    BY <1>1 DEF Lot!vars
  <2>2. LotTypeOK'
    BY <2>1 DEF LotSound, LotTypeOK
  <2>3. ASSUME NEW d \in Int PROVE Lot!Arrears(d)' = Lot!Arrears(d)
    <3>1. \A k : Lot!Standing(k, d)' <=> Lot!Standing(k, d)
      BY <2>1 DEF Lot!Standing, Lot!By, Lot!Happened, Lot!Never
    <3> QED
      BY <2>1, <3>1, AllocationsStand
  <2> QED
    BY <2>1, <2>2, <2>3, PastStands
<1> QED
  BY <1>1, ChargeStands, AdjustmentStands, AllocationStands, ReversalStands, ReceiptStands, DayStands DEF Lot!Next

\* Reversals, backdated receipts and late allocations leave what was reported
\* of a day gone by as it was (ArrearsService.getArrears), for any days,
\* charges and amounts and any number of rows.
THEOREM ArrearsAlwaysStand == Lot!Spec => []ArrearsStand
<1>1. Lot!Init => LotSound
  BY DEF Lot!Init, LotSound, LotTypeOK, ArrearsStand, Lot!ArrearsStand, Lot!Never, Moments
<1>2. LotSound /\ [Lot!Next]_(Lot!vars) => LotSound'
  BY LotKeeps
<1>3. LotSound => ArrearsStand
  BY DEF LotSound
<1> QED
  BY <1>1, <1>2, <1>3, PTL DEF Lot!Spec

-----------------------------------------------------------------------------
(***************************************************************************)
(* The lot ledger.  Its rows are in a strict total order, since no two     *)
(* transactions leave the same moment; so the balance of the last of some  *)
(* rows is the sum of all that come no later.                              *)
(***************************************************************************)
\* What is added up, whatever the function is outside.
LEMMA RowsSum ==
  ASSUME NEW S, IsFiniteSet(S), \A r \in S : r.amount \in Int
  PROVE  /\ Lot!SumOfRows(S) \in Int
         /\ \A A, B \in SUBSET S : A \cap B = {} => Lot!SumOfRows(A \cup B) = Lot!SumOfRows(A) + Lot!SumOfRows(B)
<1> DEFINE f == [r \in S |-> r.amount]
<1>1. \A x \in S : f[x] \in Int /\ f[x] = x.amount
  OBVIOUS
<1>2. ASSUME NEW T \in SUBSET S PROVE Lot!SumOfRows(T) = SumOver(f, T)
  <2> DEFINE g == [r \in T |-> r.amount]
  <2>1. Lot!SumOfRows(T) = SumOver(g, T)
    BY DEF Lot!SumOfRows, Lot!SumOver, SumOver
  <2>2. IsFiniteSet(T) /\ \A x \in T : f[x] \in Int /\ g[x] = f[x]
    BY <1>1, FS_Subset
  <2> HIDE DEF f, g
  <2> QED
    BY <2>1, <2>2, SumCongruent
<1> HIDE DEF f
<1>3. SumOver(f, S) \in Int
  BY <1>1, SumType
<1>4. ASSUME NEW A \in SUBSET S, NEW B \in SUBSET S, A \cap B = {}
      PROVE  Lot!SumOfRows(A \cup B) = Lot!SumOfRows(A) + Lot!SumOfRows(B)
  <2>1. SumOver(f, A \cup B) = SumOver(f, A) + SumOver(f, B)
    BY <1>1, <1>4, SumUnion
  <2>2. A \cup B \in SUBSET S
    OBVIOUS
  <2> QED
    BY <1>2, <2>1, <2>2
<1> QED
  BY <1>2, <1>3, <1>4

\* One row more.
LEMMA RowsSumAdd ==
  ASSUME NEW S, IsFiniteSet(S), NEW x, x \notin S, \A r \in S \cup {x} : r.amount \in Int
  PROVE  Lot!SumOfRows(S \cup {x}) = Lot!SumOfRows(S) + x.amount
<1> DEFINE T == S \cup {x}
           one == [r \in {x} |-> r.amount]
<1>1. IsFiniteSet(T) /\ S \in SUBSET T /\ {x} \in SUBSET T /\ S \cap {x} = {}
  BY FS_AddElement
<1>2. Lot!SumOfRows(S \cup {x}) = Lot!SumOfRows(S) + Lot!SumOfRows({x})
  <2>1. \A r \in T : r.amount \in Int
    OBVIOUS
  <2> HIDE DEF T
  <2> QED
    BY <1>1, <2>1, RowsSum
<1>3. Lot!SumOfRows({x}) = SumOver(one, {} \cup {x})
  BY DEF Lot!SumOfRows, Lot!SumOver, SumOver
<1>4. SumOver(one, {} \cup {x}) = SumOver(one, {}) + one[x]
  <2>1. IsFiniteSet({}) /\ x \notin {} /\ \A y \in {} \cup {x} : one[y] \in Int
    BY FS_EmptySet
  <2> HIDE DEF one
  <2> QED
    BY <2>1, SumAdd
<1>5. SumOver(one, {}) = 0 /\ one[x] = x.amount
  BY SumEmpty
<1> QED
  BY <1>2, <1>3, <1>4, <1>5

\* Rows are told apart by the moment, by what they are and by number.
Sortable(S) ==
  /\ \A r \in S : r.at.day \in Int /\ r.at.tick \in Int /\ r.id \in Int
  /\ \A r, s \in S :
       r.at.day = s.at.day /\ r.at.tick = s.at.tick
         /\ Lot!TypePriority(r.type) = Lot!TypePriority(s.type) /\ r.id = s.id => r = s

LEMMA PriorityType == ASSUME NEW type PROVE Lot!TypePriority(type) \in 0 .. 5
BY DEF Lot!TypePriority

\* The order of rows is strict and total.
LEMMA PrecedesIsOrder ==
  ASSUME NEW S, Sortable(S), NEW r \in S, NEW s \in S
  PROVE  /\ Lot!Precedes(r, s) => r # s /\ r.at.day <= s.at.day
         /\ r.at.day < s.at.day => Lot!Precedes(r, s)
         /\ r = s \/ Lot!Precedes(r, s) \/ Lot!Precedes(s, r)
         /\ \A t \in S : Lot!Precedes(r, s) /\ Lot!Precedes(s, t) => Lot!Precedes(r, t)
<1>1. \A x \in S : x.at.day \in Int /\ x.at.tick \in Int /\ Lot!TypePriority(x.type) \in Int /\ x.id \in Int
  BY PriorityType DEF Sortable
<1>2. \A x, y \in S : Lot!Precedes(x, y) <=>
        \/ x.at.day < y.at.day
        \/ x.at.day = y.at.day /\ x.at.tick < y.at.tick
        \/ /\ x.at.day = y.at.day /\ x.at.tick = y.at.tick
           /\ \/ Lot!TypePriority(x.type) < Lot!TypePriority(y.type)
              \/ Lot!TypePriority(x.type) = Lot!TypePriority(y.type) /\ x.id < y.id
  BY <1>1 DEF Lot!Precedes
<1>3. r = s \/ Lot!Precedes(r, s) \/ Lot!Precedes(s, r)
  BY <1>1, <1>2 DEF Sortable
<1> QED
  BY <1>1, <1>2, <1>3

\* Of finitely many rows one is last.
LEMMA LastExists ==
  ASSUME NEW S, IsFiniteSet(S), Sortable(S)
  PROVE  \A T \in SUBSET S : T # {} => \E r \in T : \A s \in T \ {r} : Lot!Precedes(s, r)
<1> DEFINE G == {T \in SUBSET S : T # {} => \E r \in T : \A s \in T \ {r} : Lot!Precedes(s, r)}
<1>1. {} \in G
  OBVIOUS
<1>2. ASSUME NEW T \in SUBSET S, NEW x \in S, T \in G, x \notin T PROVE T \cup {x} \in G
  <2>1. CASE T = {}
    BY <2>1
  <2>2. CASE T # {}
    <3>1. PICK r \in T : \A s \in T \ {r} : Lot!Precedes(s, r)
      BY <1>2, <2>2
    <3>2. CASE Lot!Precedes(x, r)
      BY <3>1, <3>2
    <3>3. CASE Lot!Precedes(r, x)
      <4>1. \A s \in T : Lot!Precedes(s, x)
        BY <3>1, <3>3, PrecedesIsOrder
      <4> QED
        BY <4>1
    <3> QED
      BY <1>2, <3>2, <3>3, PrecedesIsOrder
  <2> QED
    BY <2>1, <2>2
<1> HIDE DEF G
<1>3. \A T \in SUBSET S : T \in G
  BY <1>1, <1>2, SetInduction
<1> QED
  BY <1>3 DEF G

\* The balance the last of the rows T shows, all of the rows D coming before
\* it or being among them, and no other row.
LEMMA LastBalanceIs ==
  ASSUME NEW S, IsFiniteSet(S), Sortable(S), NEW full,
         \A row \in S : full[row] = Lot!SumOfRows({r \in S : r = row \/ Lot!Precedes(r, row)}),
         NEW D \in SUBSET S, NEW T \in SUBSET D, T # {}, NEW other,
         \A d \in D \ T, t \in T : Lot!Precedes(d, t),
         \A r \in S \ D, t \in T : Lot!Precedes(t, r)
  PROVE  Lot!LastBalance(full, T, other) = Lot!SumOfRows(D)
<1>1. T \in SUBSET S
  OBVIOUS
<1>2. \E r \in T : \A s \in T \ {r} : Lot!Precedes(s, r)
  BY <1>1, LastExists
<1>3. PICK t \in T : /\ \A s \in T \ {t} : Lot!Precedes(s, t)
                     /\ Lot!LastBalance(full, T, other) = full[t]
  BY <1>2 DEF Lot!LastBalance
<1>4. {r \in S : r = t \/ Lot!Precedes(r, t)} = D
  <2>1. \A r \in S \ D : r # t /\ ~Lot!Precedes(r, t)
    BY PrecedesIsOrder
  <2>2. \A r \in D : r = t \/ Lot!Precedes(r, t)
    BY <1>3
  <2> QED
    BY <2>1, <2>2
<1> QED
  BY <1>1, <1>3, <1>4

-----------------------------------------------------------------------------
\* A sum over all debits less one over all credits.
LEMMA DebitsLessCredits ==
  ASSUME NEW S, IsFiniteSet(S), \A r \in S : r.amount \in Int
  PROVE  /\ Lot!TotalDebits(S) \in Int /\ Lot!TotalCredits(S) \in Int
         /\ Lot!SumOfRows(S) = Lot!TotalDebits(S) - Lot!TotalCredits(S)
<1> DEFINE f == [r \in S |-> r.amount]
           d == [r \in S |-> Lot!Greater(0, r.amount)]
           c == [r \in S |-> Lot!Greater(0, -r.amount)]
<1>1. \A r \in S : f[r] \in Int /\ d[r] \in Int /\ c[r] \in Int /\ d[r] = f[r] + c[r]
  BY DEF Lot!Greater
<1>2. /\ Lot!SumOfRows(S) = SumOver(f, S) /\ Lot!TotalDebits(S) = SumOver(d, S)
      /\ Lot!TotalCredits(S) = SumOver(c, S)
  BY DEF Lot!SumOfRows, Lot!TotalDebits, Lot!TotalCredits, Lot!SumOver, SumOver
<1> HIDE DEF f, d, c
<1>3. SumOver(f, S) \in Int /\ SumOver(d, S) \in Int /\ SumOver(c, S) \in Int
  BY <1>1, SumType
<1>4. SumOver(d, S) = SumOver(f, S) + SumOver(c, S)
  BY <1>1, SumPlus
<1> QED
  BY <1>2, <1>3, <1>4

\* What a statement closes with is what it opened with and its movements, and
\* the next one opens with that.
LEMMA StatementsAgree ==
  ASSUME NEW S, IsFiniteSet(S), Sortable(S), \A r \in S : r.amount \in Int, NEW full, DOMAIN full = S,
         \A row \in S : full[row] = Lot!SumOfRows({r \in S : r = row \/ Lot!Precedes(r, row)}),
         NEW first \in Int, NEW last \in Int, first <= last
  PROVE  /\ Lot!ClosingBalance(full, first, last) =
              Lot!OpeningBalance(full, first) + Lot!TotalDebits(Lot!Movements(full, first, last))
                - Lot!TotalCredits(Lot!Movements(full, first, last))
         /\ Lot!ClosingBalance(full, first, last) = Lot!OpeningBalance(full, last + 1)
<1> DEFINE upTo(day) == {r \in S : r.at.day < day}
           moves == {r \in S : r.at.day \in first .. last}
<1>1. \A r \in S : r.at.day \in Int
  BY DEF Sortable
<1>2. ASSUME NEW day \in Int PROVE Lot!OpeningBalance(full, day) = Lot!SumOfRows(upTo(day))
  <2>1. Lot!OpeningBalance(full, day) = Lot!LastBalance(full, upTo(day), 0)
    BY DEF Lot!OpeningBalance
  <2>2. CASE upTo(day) = {}
    <3>1. Lot!LastBalance(full, upTo(day), 0) = 0
      BY <2>2 DEF Lot!LastBalance
    <3>2. Lot!SumOfRows(upTo(day)) = 0
      <4>1. \A r \in upTo(day) : [q \in upTo(day) |-> q.amount][r] = 0
        BY <2>2
      <4>2. Lot!SumOfRows({}) = SumOver([q \in {} |-> q.amount], {})
        BY DEF Lot!SumOfRows, Lot!SumOver, SumOver
      <4> QED
        BY <2>2, <4>2, SumEmpty
    <3> QED
      BY <2>1, <3>1, <3>2
  <2>3. CASE upTo(day) # {}
    <3>1. upTo(day) \in SUBSET S
      OBVIOUS
    <3>2. \A r \in S \ upTo(day), t \in upTo(day) : Lot!Precedes(t, r)
      <4>1. \A r \in S \ upTo(day), t \in upTo(day) : r \in S /\ t \in S /\ t.at.day < r.at.day
        BY <1>1
      <4> QED
        BY <4>1, PrecedesIsOrder
    <3>3. \A d \in upTo(day) \ upTo(day), t \in upTo(day) : Lot!Precedes(d, t)
      OBVIOUS
    <3> HIDE DEF upTo
    <3> QED
      BY <2>1, <2>3, <3>1, <3>2, <3>3, LastBalanceIs
  <2> QED
    BY <2>2, <2>3
<1>3. /\ upTo(last + 1) = upTo(first) \cup moves /\ upTo(first) \cap moves = {}
      /\ upTo(first) \in SUBSET S /\ moves \in SUBSET S
  BY <1>1
<1>4. Lot!SumOfRows(upTo(last + 1)) = Lot!SumOfRows(upTo(first)) + Lot!SumOfRows(moves)
  <2> HIDE DEF upTo, moves
  <2> QED
    BY <1>3, RowsSum
<1>5. Lot!Movements(full, first, last) = moves
  BY DEF Lot!Movements
<1>6. Lot!ClosingBalance(full, first, last) = Lot!SumOfRows(upTo(last + 1))
  <2>1. Lot!ClosingBalance(full, first, last) = Lot!LastBalance(full, moves, Lot!OpeningBalance(full, first))
    BY <1>5 DEF Lot!ClosingBalance
  <2>2. CASE moves = {}
    <3>1. Lot!LastBalance(full, moves, Lot!OpeningBalance(full, first)) = Lot!OpeningBalance(full, first)
      BY <2>2 DEF Lot!LastBalance
    <3>2. upTo(last + 1) = upTo(first)
      BY <1>3, <2>2
    <3> HIDE DEF upTo, moves
    <3> QED
      BY <1>2, <2>1, <3>1, <3>2
  <2>3. CASE moves # {}
    <3>1. upTo(last + 1) \in SUBSET S /\ moves \in SUBSET upTo(last + 1)
      BY <1>1
    <3>2. \A r \in S \ upTo(last + 1), t \in moves : Lot!Precedes(t, r)
      <4>1. \A r \in S \ upTo(last + 1), t \in moves : r \in S /\ t \in S /\ t.at.day < r.at.day
        BY <1>1
      <4> QED
        BY <4>1, PrecedesIsOrder
    <3>3. \A d \in upTo(last + 1) \ moves, t \in moves : Lot!Precedes(d, t)
      <4>1. \A d \in upTo(last + 1) \ moves, t \in moves : d \in S /\ t \in S /\ d.at.day < t.at.day
        BY <1>1
      <4> QED
        BY <4>1, PrecedesIsOrder
    <3> HIDE DEF upTo, moves
    <3>4. Lot!LastBalance(full, moves, Lot!OpeningBalance(full, first)) = Lot!SumOfRows(upTo(last + 1))
      BY <2>3, <3>1, <3>2, <3>3, LastBalanceIs
    <3> QED
      BY <2>1, <3>4
  <2> QED
    BY <2>2, <2>3
<1>7. /\ IsFiniteSet(moves) /\ \A r \in moves : r.amount \in Int
      /\ IsFiniteSet(upTo(first)) /\ \A r \in upTo(first) : r.amount \in Int
  BY <1>3, FS_Subset
<1> HIDE DEF upTo, moves
<1>8. /\ Lot!TotalDebits(moves) \in Int /\ Lot!TotalCredits(moves) \in Int
      /\ Lot!SumOfRows(moves) = Lot!TotalDebits(moves) - Lot!TotalCredits(moves)
      /\ Lot!SumOfRows(upTo(first)) \in Int
  BY <1>7, DebitsLessCredits, RowsSum
<1>9. /\ Lot!OpeningBalance(full, first) = Lot!SumOfRows(upTo(first))
      /\ Lot!OpeningBalance(full, last + 1) = Lot!SumOfRows(upTo(last + 1))
  BY <1>2
<1> QED
  BY <1>4, <1>5, <1>6, <1>8, <1>9

-----------------------------------------------------------------------------
\* The same, of rows.
LEMMA RowsSumParts ==
  ASSUME NEW S, NEW I, NEW F, Parts(S, I, F), \A r \in S : r.amount \in Int,
         NEW h, \A i \in I : h[i] = Lot!SumOfRows(F[i])
  PROVE  Lot!SumOfRows(S) = SumOver(h, I)
<1> DEFINE f == [r \in S |-> r.amount]
<1>1. \A r \in S : f[r] \in Int
  OBVIOUS
<1>2. \A i \in I : h[i] = SumOver(f, F[i])
  <2> SUFFICES ASSUME NEW i \in I PROVE Lot!SumOfRows(F[i]) = SumOver(f, F[i])
    OBVIOUS
  <2> DEFINE g == [r \in F[i] |-> r.amount]
  <2>1. Lot!SumOfRows(F[i]) = SumOver(g, F[i])
    BY DEF Lot!SumOfRows, Lot!SumOver, SumOver
  <2>2. IsFiniteSet(F[i]) /\ \A x \in F[i] : f[x] \in Int /\ g[x] = f[x]
    BY <1>1 DEF Parts
  <2> HIDE DEF f, g
  <2> QED
    BY <2>1, <2>2, SumCongruent
<1>3. Lot!SumOfRows(S) = SumOver(f, S)
  BY DEF Lot!SumOfRows, Lot!SumOver, SumOver
<1>4. SumOver(f, S) = SumOver(h, I)
  <2> HIDE DEF f
  <2> QED
    BY <1>1, <1>2, SumParts
<1> QED
  BY <1>3, <1>4

\* One row, and none.
LEMMA RowSum ==
  ASSUME NEW x, x.amount \in Int
  PROVE  Lot!SumOfRows({x}) = x.amount /\ Lot!SumOfRows({}) = 0
<1>1. Lot!SumOfRows({}) = 0
  <2>1. Lot!SumOfRows({}) = SumOver([q \in {} |-> q.amount], {})
    BY DEF Lot!SumOfRows, Lot!SumOver, SumOver
  <2> QED
    BY <2>1, SumEmpty
<1>2. Lot!SumOfRows({} \cup {x}) = Lot!SumOfRows({}) + x.amount
  <2>1. IsFiniteSet({}) /\ x \notin {} /\ \A r \in {} \cup {x} : r.amount \in Int
    BY FS_EmptySet
  <2> QED
    BY <2>1, RowsSumAdd
<1> QED
  BY <1>1, <1>2

\* Rows that stand for different members of I.
LEMMA RowsOfMembers ==
  ASSUME NEW I, IsFiniteSet(I), NEW f, \A i \in I : f[i].amount \in Int,
         \A i, j \in I : f[i] = f[j] => i = j,
         NEW g, \A i \in I : g[i] = f[i].amount, NEW S, S = {f[i] : i \in I}
  PROVE  /\ IsFiniteSet(S)
         /\ Lot!SumOfRows(S) = SumOver(g, I)
<1> DEFINE F == [i \in I |-> {f[i]}]
<1>1. \A i \in I : F[i] = {f[i]} /\ IsFiniteSet(F[i]) /\ \A r \in F[i] : r.amount \in Int
  BY FS_Singleton
<1>2. Parts(S, I, F) /\ \A r \in S : r.amount \in Int
  BY <1>1 DEF Parts
<1> HIDE DEF F
<1>3. \A i \in I : g[i] = Lot!SumOfRows(F[i])
  BY <1>1, RowSum
<1> QED
  BY <1>2, <1>3, PartsFinite, RowsSumParts

-----------------------------------------------------------------------------
\* What of a receipt is applied and has not been taken back.
Held(r) == {a \in DOMAIN allocations : allocations[a].receipt = r /\ ~Lot!Happened(allocations[a].reversed)}
PaidFrom(r) == SumOver([a \in Held(r) |-> allocations[a].amount], Held(r))

\* What has happened happened up to now; only what was issued is adjusted, paid
\* or reversed; of a receipt no more is applied than it brought, and nothing of
\* one reversed; and no instalment was reversed together with a receipt.
LotBooked ==
  /\ today \in Nat /\ events \in Nat
  /\ \A i \in Levies :
       /\ charges[i].issued.day <= today /\ charges[i].reversed.day <= today /\ charges[i].reversed.tick <= events
       /\ Lot!Happened(charges[i].reversed) => Lot!Happened(charges[i].issued)
  /\ \A k \in DOMAIN adjustments : Lot!Happened(adjustments[k].at) /\ adjustments[k].at.day <= today
  /\ \A r \in DOMAIN receipts :
       /\ Lot!Happened(receipts[r].at) /\ receipts[r].at.day <= today
       /\ receipts[r].reversed.day <= today /\ receipts[r].reversed.tick <= events
       /\ \A i \in Levies : Lot!Happened(receipts[r].reversed) /\ Lot!Happened(charges[i].reversed) =>
            receipts[r].reversed.tick # charges[i].reversed.tick
       /\ PaidFrom(r) <= receipts[r].amount
  /\ \A a \in DOMAIN allocations :
       /\ Lot!Happened(allocations[a].at) /\ allocations[a].at.day <= today /\ allocations[a].reversed.day <= today
       /\ allocations[a].receipt \in DOMAIN receipts
       /\ Lot!Happened(charges[allocations[a].to].issued)
       /\ Lot!Happened(receipts[allocations[a].receipt].reversed) => Lot!Happened(allocations[a].reversed)

\* The members of the tables, with their types.
LEMMA LotMembers ==
  ASSUME LotTypeOK
  PROVE  /\ \A i \in Levies : charges[i] \in [issued : Moments, reversed : Moments]
         /\ DOMAIN adjustments = 1..Len(adjustments) /\ DOMAIN receipts = 1..Len(receipts)
         /\ DOMAIN allocations = 1..Len(allocations)
         /\ Len(adjustments) \in Nat /\ Len(receipts) \in Nat /\ Len(allocations) \in Nat
         /\ \A k \in DOMAIN adjustments : k \in Int /\ adjustments[k] \in AdjustmentRows
         /\ \A k \in DOMAIN receipts : k \in Int /\ receipts[k] \in ReceiptRecords
         /\ \A k \in DOMAIN allocations : k \in Int /\ allocations[k] \in AllocationRecords
         /\ IsFiniteSet(DOMAIN adjustments) /\ IsFiniteSet(DOMAIN receipts) /\ IsFiniteSet(DOMAIN allocations)
<1>1. /\ DOMAIN adjustments = 1..Len(adjustments) /\ DOMAIN receipts = 1..Len(receipts)
      /\ DOMAIN allocations = 1..Len(allocations)
      /\ Len(adjustments) \in Nat /\ Len(receipts) \in Nat /\ Len(allocations) \in Nat
  BY DEF LotTypeOK
<1>2. /\ \A i \in Levies : charges[i] \in [issued : Moments, reversed : Moments]
      /\ \A k \in DOMAIN adjustments : adjustments[k] \in AdjustmentRows
      /\ \A k \in DOMAIN receipts : receipts[k] \in ReceiptRecords
      /\ \A k \in DOMAIN allocations : allocations[k] \in AllocationRecords
  BY <1>1 DEF LotTypeOK
<1>3. IsFiniteSet(DOMAIN adjustments) /\ IsFiniteSet(DOMAIN receipts) /\ IsFiniteSet(DOMAIN allocations)
  BY <1>1, FS_Interval
<1> QED
  BY <1>1, <1>2, <1>3

\* Today, everything there is counts.
LEMMA TodayIs ==
  ASSUME LotTypeOK, LotBooked
  PROVE  /\ \A i \in Levies : /\ Lot!By(charges[i].issued, today) <=> Lot!Happened(charges[i].issued)
                              /\ Lot!Cancelled(i, today) <=> Lot!Happened(charges[i].reversed)
         /\ \A k \in DOMAIN adjustments : Lot!By(adjustments[k].at, today)
         /\ \A r \in DOMAIN receipts : Lot!By(receipts[r].at, today)
         /\ \A a \in DOMAIN allocations : Lot!Standing(a, today) <=> ~Lot!Happened(allocations[a].reversed)
BY DEF LotBooked, Lot!By, Lot!Cancelled, Lot!Standing

-----------------------------------------------------------------------------
(***************************************************************************)
(* The rows of the full ledger, each named by what it is a row of.         *)
(***************************************************************************)
OpeningRow == Lot!Row(Lot!Midnight(0), "OPENING_POSITION", 0, Lot!NoFund, Opening.owing - Opening.credit)
ChargeRow(i) == Lot!Row(charges[i].issued, "LEVY_CHARGE", i, LevyFund[i], LevyAmount[i])
ChargeBack(i) == Lot!Row(charges[i].reversed, "LEVY_REVERSAL", i, LevyFund[i], -LevyAmount[i])
AdjustmentRow(a) ==
  Lot!Row(adjustments[a].at, "LEVY_ADJUSTMENT", a, LevyFund[adjustments[a].of], adjustments[a].amount)
ReceiptRow(r) == Lot!Row(Lot!Midnight(receipts[r].posted), "RECEIPT", r, receipts[r].fund, -receipts[r].amount)
ReceiptBack(r) == Lot!Row(receipts[r].reversed, "RECEIPT_REVERSAL", r, receipts[r].fund, receipts[r].amount)
AllocationRow(a) ==
  Lot!Row(allocations[a].at, "PAYMENT_ALLOCATION", a, receipts[allocations[a].receipt].fund, 0)

Issued == {i \in Levies : Lot!Happened(charges[i].issued)}
OfReceipt(r) == Lot!ReceiptRows(r) \cup Lot!AllocationRows(r)

LEMMA ChargeRowsAre ==
  \A i, x : x \in Lot!ChargeRows(i) <=>
    \/ x = ChargeRow(i)
    \/ Lot!Happened(charges[i].reversed) /\ x = ChargeBack(i)
    \/ \E a \in DOMAIN adjustments : adjustments[a].of = i /\ x = AdjustmentRow(a)
BY DEF Lot!ChargeRows, ChargeRow, ChargeBack, AdjustmentRow, Lot!Happened

LEMMA ReceiptRowsAre ==
  \A r, x : x \in OfReceipt(r) <=>
    \/ x = ReceiptRow(r)
    \/ Lot!Happened(receipts[r].reversed) /\ x = ReceiptBack(r)
    \/ \E a \in DOMAIN allocations : allocations[a].receipt = r /\ x = AllocationRow(a)
BY DEF OfReceipt, Lot!ReceiptRows, Lot!AllocationRows, ReceiptRow, ReceiptBack, AllocationRow, Lot!Happened

LEMMA RowsAre ==
  \A x : x \in Lot!Rows <=>
    \/ x = OpeningRow
    \/ \E i \in Issued : x \in Lot!ChargeRows(i)
    \/ \E r \in DOMAIN receipts : x \in OfReceipt(r)
BY DEF Lot!Rows, OpeningRow, Issued, OfReceipt

\* A row is one of these, with the type it shows.
RowTypes(x) ==
  /\ x.at \in Moments /\ x.id \in Int /\ x.amount \in Int
  /\ x.type # "OPENING_POSITION" => x.fund \in Lot!FundsUsed

LEMMA RowsByType ==
  ASSUME LotTypeOK, LotBooked, NEW x \in Lot!Rows
  PROVE  /\ RowTypes(x)
         /\ \/ x.type = "OPENING_POSITION" /\ x = OpeningRow
            \/ x.type = "LEVY_CHARGE" /\ x.id \in Issued /\ x = ChargeRow(x.id)
            \/ /\ x.type = "LEVY_REVERSAL" /\ x.id \in Issued /\ x = ChargeBack(x.id)
               /\ Lot!Happened(charges[x.id].reversed)
            \/ x.type = "LEVY_ADJUSTMENT" /\ x.id \in DOMAIN adjustments /\ x = AdjustmentRow(x.id)
            \/ x.type = "RECEIPT" /\ x.id \in DOMAIN receipts /\ x = ReceiptRow(x.id)
            \/ /\ x.type = "RECEIPT_REVERSAL" /\ x.id \in DOMAIN receipts /\ x = ReceiptBack(x.id)
               /\ Lot!Happened(receipts[x.id].reversed)
            \/ x.type = "PAYMENT_ALLOCATION" /\ x.id \in DOMAIN allocations /\ x = AllocationRow(x.id)
<1>1. \A i \in Levies : LevyFund[i] \in Lot!FundsUsed /\ LevyAmount[i] \in Int
  BY LotAssumption DEF Lot!FundsUsed
<1>2. CASE x = OpeningRow
  BY <1>2, LotAssumption DEF OpeningRow, Lot!Row, RowTypes, Lot!Midnight, Moments
<1>3. ASSUME NEW i \in Issued, x \in Lot!ChargeRows(i) 
      PROVE  /\ RowTypes(x)
             /\ \/ x.type = "LEVY_CHARGE" /\ x.id \in Issued /\ x = ChargeRow(x.id)
                \/ /\ x.type = "LEVY_REVERSAL" /\ x.id \in Issued /\ x = ChargeBack(x.id)
                   /\ Lot!Happened(charges[x.id].reversed)
                \/ x.type = "LEVY_ADJUSTMENT" /\ x.id \in DOMAIN adjustments /\ x = AdjustmentRow(x.id)
  <2>0. i \in Levies /\ i \in Int /\ charges[i] \in [issued : Moments, reversed : Moments]
    BY LotAssumption, LotMembers DEF Issued
  <2>1. CASE x = ChargeRow(i)
    BY <1>1, <2>0, <2>1 DEF ChargeRow, Lot!Row, RowTypes
  <2>2. CASE Lot!Happened(charges[i].reversed) /\ x = ChargeBack(i)
    BY <1>1, <2>0, <2>2 DEF ChargeBack, Lot!Row, RowTypes
  <2>3. ASSUME NEW a \in DOMAIN adjustments, x = AdjustmentRow(a) 
        PROVE  RowTypes(x) /\ x.type = "LEVY_ADJUSTMENT" /\ x.id = a
    <3>1. a \in Int /\ adjustments[a].of \in Levies /\ adjustments[a].amount \in Int /\ adjustments[a].at \in Moments
      BY LotMembers, LotAssumption DEF AdjustmentRows
    <3> QED
      BY <1>1, <2>3, <3>1 DEF AdjustmentRow, Lot!Row, RowTypes
  <2> QED
    BY <1>3, <2>1, <2>2, <2>3, ChargeRowsAre DEF ChargeRow, ChargeBack, Lot!Row
<1>4. ASSUME NEW r \in DOMAIN receipts, x \in OfReceipt(r)
      PROVE  /\ RowTypes(x)
             /\ \/ x.type = "RECEIPT" /\ x.id \in DOMAIN receipts /\ x = ReceiptRow(x.id)
                \/ /\ x.type = "RECEIPT_REVERSAL" /\ x.id \in DOMAIN receipts /\ x = ReceiptBack(x.id)
                   /\ Lot!Happened(receipts[x.id].reversed)
                \/ x.type = "PAYMENT_ALLOCATION" /\ x.id \in DOMAIN allocations /\ x = AllocationRow(x.id)
  <2>0. /\ r \in Int /\ receipts[r].fund \in Lot!FundsUsed /\ receipts[r].amount \in Int
        /\ Lot!Midnight(receipts[r].posted) \in Moments /\ receipts[r].reversed \in Moments
    <3>1. r \in Int /\ receipts[r] \in ReceiptRecords
      BY LotMembers
    <3>2. receipts[r].fund \in Lot!FundsUsed /\ receipts[r].amount \in Deposits /\ receipts[r].posted \in Days
          /\ receipts[r].reversed \in Moments
      BY <3>1 DEF ReceiptRecords
    <3>3. receipts[r].amount \in Int /\ receipts[r].posted \in Int
      <4>1. receipts[r].amount \in Deposits /\ receipts[r].posted \in Days
        BY <3>2
      <4>2. Deposits \subseteq Nat /\ Days \subseteq Int
        BY LotAssumption
      <4>3. receipts[r].amount \in Nat /\ receipts[r].posted \in Int
        BY <4>1, <4>2, Zenon
      <4> QED
        BY <4>3
    <3>4. Lot!Midnight(receipts[r].posted) \in Moments
      BY <3>3 DEF Lot!Midnight, Moments
    <3> QED
      BY <3>1, <3>2, <3>3, <3>4
  <2>1. CASE x = ReceiptRow(r)
    BY <2>0, <2>1 DEF ReceiptRow, Lot!Row, RowTypes
  <2>2. CASE Lot!Happened(receipts[r].reversed) /\ x = ReceiptBack(r)
    BY <2>0, <2>2 DEF ReceiptBack, Lot!Row, RowTypes
  <2>3. ASSUME NEW a \in DOMAIN allocations, allocations[a].receipt = r, x = AllocationRow(a) 
        PROVE  RowTypes(x) /\ x.type = "PAYMENT_ALLOCATION" /\ x.id = a
    <3>1. a \in Int /\ allocations[a].at \in Moments
      BY LotMembers DEF AllocationRecords
    <3> QED
      BY <2>0, <2>3, <3>1 DEF AllocationRow, Lot!Row, RowTypes
  <2> QED
    BY <1>4, <2>1, <2>2, <2>3, ReceiptRowsAre DEF ReceiptRow, ReceiptBack, Lot!Row
<1> QED
  BY <1>2, <1>3, <1>4, RowsAre DEF OpeningRow, Lot!Row

\* The ledger's order leaves no two rows unordered.
LEMMA RowsSortable ==
  ASSUME LotTypeOK, LotBooked
  PROVE  Sortable(Lot!Rows)
<1>1. ASSUME NEW x \in Lot!Rows PROVE x.at.day \in Int /\ x.at.tick \in Int /\ x.id \in Int
  BY RowsByType DEF RowTypes, Moments
<1>2. ASSUME NEW x \in Lot!Rows, NEW y \in Lot!Rows, x.at.tick = y.at.tick,
             Lot!TypePriority(x.type) = Lot!TypePriority(y.type), x.id = y.id
      PROVE  x = y
  <2>1. CASE x.type = y.type
    BY <1>2, <2>1, RowsByType
  <2>2. ASSUME NEW b \in Lot!Rows, NEW p \in Lot!Rows, b.type = "LEVY_REVERSAL", p.type = "RECEIPT_REVERSAL"
        PROVE  b.at.tick # p.at.tick
    <3>1. b.id \in Levies /\ Lot!Happened(charges[b.id].reversed) /\ b.at = charges[b.id].reversed
      BY <2>2, RowsByType DEF ChargeBack, Lot!Row, Issued
    <3>2. p.id \in DOMAIN receipts /\ Lot!Happened(receipts[p.id].reversed) /\ p.at = receipts[p.id].reversed
      BY <2>2, RowsByType DEF ReceiptBack, Lot!Row
    <3> QED
      BY <3>1, <3>2 DEF LotBooked
  <2>3. \A q \in {x, y} : q.type \in {"OPENING_POSITION", "LEVY_CHARGE", "LEVY_REVERSAL", "LEVY_ADJUSTMENT", "RECEIPT",
                                       "RECEIPT_REVERSAL", "PAYMENT_ALLOCATION"}
    BY RowsByType
  <2>4. x.type # y.type => \/ x.type = "LEVY_REVERSAL" /\ y.type = "RECEIPT_REVERSAL"
                           \/ y.type = "LEVY_REVERSAL" /\ x.type = "RECEIPT_REVERSAL"
    BY <1>2, <2>3 DEF Lot!TypePriority
  <2> QED
    BY <1>2, <2>1, <2>2, <2>4
<1> QED
  BY <1>1, <1>2 DEF Sortable

\* Sums of the instance are those of the lemmas.
LEMMA LotSum == ASSUME NEW f, NEW S PROVE Lot!SumOver(f, S) = SumOver(f, S)
BY DEF Lot!SumOver, SumOver

-----------------------------------------------------------------------------
\* What a charge and its adjustments add to the balance.
NetOf(i) == (IF Lot!Happened(charges[i].reversed) THEN 0 ELSE LevyAmount[i]) + Lot!Adjusted(i, today)

\* The rows of a charge.
LEMMA ChargeRowsSum ==
  ASSUME LotTypeOK, LotBooked, NEW i \in Issued
  PROVE  /\ IsFiniteSet(Lot!ChargeRows(i)) /\ Lot!SumOfRows(Lot!ChargeRows(i)) = NetOf(i)
         /\ Lot!Adjusted(i, today) \in Int
<1> DEFINE K == {a \in DOMAIN adjustments : adjustments[a].of = i}
           f == [a \in K |-> AdjustmentRow(a)]
           g == [a \in K |-> adjustments[a].amount]
           A == {f[a] : a \in K}
<1>0. i \in Levies /\ LevyAmount[i] \in Int
  BY LotAssumption DEF Issued
<1>1. K \in SUBSET DOMAIN adjustments /\ IsFiniteSet(K)
  <2>1. K \in SUBSET DOMAIN adjustments
    OBVIOUS
  <2> HIDE DEF K
  <2> QED
    BY <2>1, LotMembers, FS_Subset
<1>2. \A a \in K : /\ f[a].amount = g[a] /\ f[a].amount \in Int /\ f[a].id = a /\ f[a].type = "LEVY_ADJUSTMENT"
                   /\ g[a] \in Int
  <2>1. \A a \in K : adjustments[a] \in AdjustmentRows
    BY <1>1, LotMembers
  <2>2. \A a \in K : adjustments[a].amount \in Corrections
    BY <2>1 DEF AdjustmentRows
  <2>3. \A a \in K : adjustments[a].amount \in Int
    BY <2>2, LotAssumption
  <2> QED
    BY <2>3 DEF AdjustmentRow, Lot!Row
<1>3. Lot!Adjusted(i, today) = SumOver(g, K)
  <2>1. K = {a \in DOMAIN adjustments : adjustments[a].of = i /\ Lot!By(adjustments[a].at, today)}
    BY TodayIs
  <2>2. Lot!Adjusted(i, today) = Lot!SumOver(g, K)
    BY <2>1 DEF Lot!Adjusted
  <2> HIDE DEF g, K
  <2> QED
    BY <2>2, LotSum
<1>4. \A x : x \in A <=> \E a \in DOMAIN adjustments : adjustments[a].of = i /\ x = AdjustmentRow(a)
  OBVIOUS
<1>3a. A = {f[a] : a \in K}
  OBVIOUS
<1> HIDE DEF A, f, g, K
<1>5. /\ \A a \in K : f[a].amount \in Int /\ g[a] = f[a].amount
      /\ \A a, b \in K : f[a] = f[b] => a = b
      /\ \A x \in A : x.amount \in Int /\ x.type = "LEVY_ADJUSTMENT"
  BY <1>2, <1>3a
<1>6. IsFiniteSet(A) /\ Lot!SumOfRows(A) = SumOver(g, K)
  BY <1>1, <1>3a, <1>5, RowsOfMembers
<1>7. SumOver(g, K) \in Int
  BY <1>1, <1>2, SumType
<1> DEFINE B == A \cup {ChargeRow(i)}
<1>8. /\ ChargeRow(i) \notin A /\ ChargeRow(i).amount = LevyAmount[i] /\ ChargeRow(i).type = "LEVY_CHARGE"
      /\ ChargeBack(i).amount = -LevyAmount[i] /\ ChargeBack(i).type = "LEVY_REVERSAL" /\ ChargeBack(i) \notin B
  BY <1>5 DEF ChargeRow, ChargeBack, Lot!Row
<1>9. IsFiniteSet(B) /\ Lot!SumOfRows(B) = SumOver(g, K) + LevyAmount[i] /\ \A x \in B : x.amount \in Int
  <2>1. \A x \in A \cup {ChargeRow(i)} : x.amount \in Int
    BY <1>0, <1>5, <1>8
  <2>2. Lot!SumOfRows(A \cup {ChargeRow(i)}) = Lot!SumOfRows(A) + ChargeRow(i).amount
    BY <1>6, <1>8, <2>1, RowsSumAdd
  <2> QED
    BY <1>6, <1>8, <2>1, <2>2, FS_AddElement
<1>10. CASE Lot!Happened(charges[i].reversed)
  <2>1. Lot!ChargeRows(i) = B \cup {ChargeBack(i)}
    BY <1>4, <1>10, ChargeRowsAre
  <2>2. \A x \in B \cup {ChargeBack(i)} : x.amount \in Int
    BY <1>0, <1>8, <1>9
  <2> HIDE DEF B
  <2>3. Lot!SumOfRows(B \cup {ChargeBack(i)}) = Lot!SumOfRows(B) + ChargeBack(i).amount
    BY <1>8, <1>9, <2>2, RowsSumAdd
  <2>4. IsFiniteSet(B \cup {ChargeBack(i)})
    BY <1>9, FS_AddElement
  <2> QED
    BY <1>0, <1>3, <1>7, <1>8, <1>9, <1>10, <2>1, <2>3, <2>4 DEF NetOf
<1>11. CASE ~Lot!Happened(charges[i].reversed)
  <2>1. Lot!ChargeRows(i) = B
    BY <1>4, <1>11, ChargeRowsAre
  <2> HIDE DEF B
  <2> QED
    BY <1>0, <1>3, <1>7, <1>9, <1>11, <2>1 DEF NetOf
<1> QED
  BY <1>10, <1>11

\* What a receipt, applied or not, adds to the balance.
PaidBy(r) == IF Lot!Happened(receipts[r].reversed) THEN 0 ELSE 0 - receipts[r].amount

\* The rows of a receipt: what it brought, unless it was reversed.
LEMMA ReceiptRowsSum ==
  ASSUME LotTypeOK, LotBooked, NEW r \in DOMAIN receipts
  PROVE  /\ IsFiniteSet(OfReceipt(r)) /\ Lot!SumOfRows(OfReceipt(r)) = PaidBy(r)
         /\ receipts[r].amount \in Nat
<1> DEFINE K == {a \in DOMAIN allocations : allocations[a].receipt = r}
           f == [a \in K |-> AllocationRow(a)]
           g == [a \in K |-> 0]
           A == {f[a] : a \in K}
<1>0. receipts[r].amount \in Nat
  <2>1. receipts[r] \in ReceiptRecords
    BY LotMembers
  <2>2. receipts[r].amount \in Deposits
    BY <2>1 DEF ReceiptRecords
  <2> QED
    BY <2>2, LotAssumption
<1>1. K \in SUBSET DOMAIN allocations /\ IsFiniteSet(K)
  <2>1. K \in SUBSET DOMAIN allocations
    OBVIOUS
  <2> HIDE DEF K
  <2> QED
    BY <2>1, LotMembers, FS_Subset
<1>2. \A a \in K : f[a].amount = 0 /\ f[a].id = a /\ f[a].type = "PAYMENT_ALLOCATION" /\ g[a] = 0
  BY DEF AllocationRow, Lot!Row
<1>4. \A x : x \in A <=> \E a \in DOMAIN allocations : allocations[a].receipt = r /\ x = AllocationRow(a)
  OBVIOUS
<1>3a. A = {f[a] : a \in K}
  OBVIOUS
<1> HIDE DEF A, f, g, K
<1>5. /\ \A a \in K : f[a].amount \in Int /\ g[a] = f[a].amount
      /\ \A a, b \in K : f[a] = f[b] => a = b
      /\ \A x \in A : x.amount \in Int /\ x.type = "PAYMENT_ALLOCATION"
  BY <1>2, <1>3a
<1>6. IsFiniteSet(A) /\ Lot!SumOfRows(A) = SumOver(g, K)
  BY <1>1, <1>3a, <1>5, RowsOfMembers
<1>7. SumOver(g, K) = 0
  BY <1>1, <1>2, SumZero
<1> DEFINE B == A \cup {ReceiptRow(r)}
<1>8. /\ ReceiptRow(r) \notin A /\ ReceiptRow(r).amount = -receipts[r].amount /\ ReceiptRow(r).type = "RECEIPT"
      /\ ReceiptBack(r).amount = receipts[r].amount /\ ReceiptBack(r).type = "RECEIPT_REVERSAL" /\ ReceiptBack(r) \notin B
  BY <1>5 DEF ReceiptRow, ReceiptBack, Lot!Row
<1>9. IsFiniteSet(B) /\ Lot!SumOfRows(B) = -receipts[r].amount /\ \A x \in B : x.amount \in Int
  <2>1. \A x \in A \cup {ReceiptRow(r)} : x.amount \in Int
    BY <1>0, <1>5, <1>8
  <2>2. Lot!SumOfRows(A \cup {ReceiptRow(r)}) = Lot!SumOfRows(A) + ReceiptRow(r).amount
    BY <1>6, <1>8, <2>1, RowsSumAdd
  <2> QED
    BY <1>0, <1>6, <1>7, <1>8, <2>1, <2>2, FS_AddElement
<1>10. CASE Lot!Happened(receipts[r].reversed)
  <2>1. OfReceipt(r) = B \cup {ReceiptBack(r)}
    BY <1>4, <1>10, ReceiptRowsAre
  <2>2. \A x \in B \cup {ReceiptBack(r)} : x.amount \in Int
    BY <1>0, <1>8, <1>9
  <2> HIDE DEF B
  <2>3. Lot!SumOfRows(B \cup {ReceiptBack(r)}) = Lot!SumOfRows(B) + ReceiptBack(r).amount
    BY <1>8, <1>9, <2>2, RowsSumAdd
  <2>4. IsFiniteSet(B \cup {ReceiptBack(r)})
    BY <1>9, FS_AddElement
  <2> QED
    BY <1>0, <1>8, <1>9, <1>10, <2>1, <2>3, <2>4 DEF PaidBy
<1>11. CASE ~Lot!Happened(receipts[r].reversed)
  <2>1. OfReceipt(r) = B
    BY <1>4, <1>11, ReceiptRowsAre
  <2> HIDE DEF B
  <2> QED
    BY <1>0, <1>9, <1>11, <2>1 DEF PaidBy
<1> QED
  BY <1>10, <1>11

-----------------------------------------------------------------------------
\* All the rows: finitely many, and what they add up to.
LEMMA RowsSumTo ==
  ASSUME LotTypeOK, LotBooked
  PROVE  /\ IsFiniteSet(Lot!Rows) /\ \A x \in Lot!Rows : x.amount \in Int
         /\ Lot!SumOfRows(Lot!Rows) =
              (Opening.owing - Opening.credit) + SumOver([i \in Issued |-> NetOf(i)], Issued)
                + SumOver([r \in DOMAIN receipts |-> PaidBy(r)], DOMAIN receipts)
         /\ OpeningRow \in Lot!Rows
<1> DEFINE C == UNION {Lot!ChargeRows(i) : i \in Issued}
           P == UNION {OfReceipt(r) : r \in DOMAIN receipts}
           FC == [i \in Issued |-> Lot!ChargeRows(i)]
           FP == [r \in DOMAIN receipts |-> OfReceipt(r)]
           net == [i \in Issued |-> NetOf(i)]
           paid == [r \in DOMAIN receipts |-> PaidBy(r)]
<1>0. IsFiniteSet(Issued) /\ IsFiniteSet(DOMAIN receipts)
  <2>1. Issued \in SUBSET Levies /\ IsFiniteSet(Levies)
    BY LotAssumption DEF Issued
  <2> QED
    BY <2>1, FS_Subset, LotMembers
<1>1. \A x \in Lot!Rows : x.amount \in Int
  BY RowsByType DEF RowTypes
<1>2. \A x : x \in Lot!Rows <=> x = OpeningRow \/ x \in C \/ x \in P
  BY RowsAre
<1>3. /\ \A x \in C : x.type \in {"LEVY_CHARGE", "LEVY_REVERSAL", "LEVY_ADJUSTMENT"}
      /\ \A x \in P : x.type \in {"RECEIPT", "RECEIPT_REVERSAL", "PAYMENT_ALLOCATION"}
      /\ OpeningRow.type = "OPENING_POSITION" /\ OpeningRow.amount = Opening.owing - Opening.credit
  <2>1. \A i, x : x \in Lot!ChargeRows(i) => x.type \in {"LEVY_CHARGE", "LEVY_REVERSAL", "LEVY_ADJUSTMENT"}
    BY ChargeRowsAre DEF ChargeRow, ChargeBack, AdjustmentRow, Lot!Row
  <2>2. \A r, x : x \in OfReceipt(r) => x.type \in {"RECEIPT", "RECEIPT_REVERSAL", "PAYMENT_ALLOCATION"}
    BY ReceiptRowsAre DEF ReceiptRow, ReceiptBack, AllocationRow, Lot!Row
  <2> QED
    BY <2>1, <2>2 DEF OpeningRow, Lot!Row
<1>4. Parts(C, Issued, FC)
  <2>1. \A i \in Issued : IsFiniteSet(FC[i])
    BY ChargeRowsSum
  <2>2. \A x : x \in C <=> \E i \in Issued : x \in FC[i]
    OBVIOUS
  <2>3. ASSUME NEW i \in Issued, NEW j \in Issued, NEW x \in FC[i], x \in FC[j] PROVE i = j
    <3>1. \A k, y : y \in Lot!ChargeRows(k) =>
            \/ y.type \in {"LEVY_CHARGE", "LEVY_REVERSAL"} /\ y.id = k
            \/ y.type = "LEVY_ADJUSTMENT" /\ adjustments[y.id].of = k
      BY ChargeRowsAre DEF ChargeRow, ChargeBack, AdjustmentRow, Lot!Row
    <3>2. x \in Lot!ChargeRows(i) /\ x \in Lot!ChargeRows(j)
      BY <2>3
    <3> QED
      BY <3>1, <3>2
  <2> HIDE DEF FC, C
  <2>4. \A i, j \in Issued : i # j => FC[i] \cap FC[j] = {}
    BY <2>3
  <2> QED
    BY <1>0, <2>1, <2>2, <2>4 DEF Parts
<1>5. Parts(P, DOMAIN receipts, FP)
  <2>1. \A r \in DOMAIN receipts : IsFiniteSet(FP[r])
    BY ReceiptRowsSum
  <2>2. \A x : x \in P <=> \E r \in DOMAIN receipts : x \in FP[r]
    OBVIOUS
  <2>3. ASSUME NEW i \in DOMAIN receipts, NEW j \in DOMAIN receipts, NEW x \in FP[i], x \in FP[j] PROVE i = j
    <3>1. \A k, y : y \in OfReceipt(k) =>
            \/ y.type \in {"RECEIPT", "RECEIPT_REVERSAL"} /\ y.id = k
            \/ y.type = "PAYMENT_ALLOCATION" /\ allocations[y.id].receipt = k
      BY ReceiptRowsAre DEF ReceiptRow, ReceiptBack, AllocationRow, Lot!Row
    <3>2. x \in OfReceipt(i) /\ x \in OfReceipt(j)
      BY <2>3
    <3> QED
      BY <3>1, <3>2
  <2> HIDE DEF FP, P
  <2>4. \A i, j \in DOMAIN receipts : i # j => FP[i] \cap FP[j] = {}
    BY <2>3
  <2> QED
    BY <1>0, <2>1, <2>2, <2>4 DEF Parts
<1>6. /\ \A i \in Issued : net[i] = Lot!SumOfRows(FC[i])
      /\ \A r \in DOMAIN receipts : paid[r] = Lot!SumOfRows(FP[r])
  BY ChargeRowsSum, ReceiptRowsSum
<1> HIDE DEF C, P, FC, FP, net, paid
<1>7. (\A x \in C : x.amount \in Int) /\ (\A x \in P : x.amount \in Int) /\ IsFiniteSet(C) /\ IsFiniteSet(P)
  BY <1>1, <1>2, <1>4, <1>5, PartsFinite
<1>8. Lot!SumOfRows(C) = SumOver(net, Issued) /\ Lot!SumOfRows(P) = SumOver(paid, DOMAIN receipts)
  BY <1>4, <1>5, <1>6, <1>7, RowsSumParts
<1> DEFINE U == C \cup P
<1>9. /\ IsFiniteSet(U) /\ C \in SUBSET U /\ P \in SUBSET U /\ C \cap P = {} /\ (\A x \in U : x.amount \in Int)
      /\ OpeningRow \notin U /\ Lot!Rows = U \cup {OpeningRow}
  <2>1. IsFiniteSet(C \cup P)
    BY <1>7, FS_Union
  <2>2. OpeningRow \notin C \cup P /\ C \cap P = {}
    BY <1>3
  <2>3. Lot!Rows = (C \cup P) \cup {OpeningRow}
    BY <1>2
  <2> QED
    BY <1>7, <2>1, <2>2, <2>3
<1>10. Lot!SumOfRows(U) = Lot!SumOfRows(C) + Lot!SumOfRows(P)
  <2>1. \A A, B \in SUBSET U : A \cap B = {} => Lot!SumOfRows(A \cup B) = Lot!SumOfRows(A) + Lot!SumOfRows(B)
    <3> HIDE DEF U
    <3> QED
      BY <1>9, RowsSum
  <2> QED
    BY <1>9, <2>1, Zenon
<1>11. \A x \in U \cup {OpeningRow} : x.amount \in Int
  BY <1>1, <1>9
<1> HIDE DEF U
<1>12. Lot!SumOfRows(U \cup {OpeningRow}) = Lot!SumOfRows(U) + OpeningRow.amount
  BY <1>9, <1>11, RowsSumAdd
<1>13. IsFiniteSet(U \cup {OpeningRow})
  BY <1>9, FS_AddElement
<1>14. Lot!SumOfRows(C) \in Int /\ Lot!SumOfRows(P) \in Int
  BY <1>7, RowsSum
<1>15. Lot!SumOfRows(Lot!Rows) =
         (Opening.owing - Opening.credit) + SumOver(net, Issued) + SumOver(paid, DOMAIN receipts)
  <2>1. Lot!SumOfRows(Lot!Rows) = Lot!SumOfRows(C) + Lot!SumOfRows(P) + OpeningRow.amount
    BY <1>9, <1>10, <1>12
  <2>2. Opening.owing \in Int /\ Opening.credit \in Int
    BY LotAssumption
  <2> QED
    BY <1>3, <1>8, <1>14, <2>1, <2>2
<1> QED
  BY <1>1, <1>9, <1>13, <1>15 DEF net, paid

-----------------------------------------------------------------------------
\* What is applied to the charges is what is applied from the receipts.
Live == {a \in DOMAIN allocations : ~Lot!Happened(allocations[a].reversed)}

LEMMA AppliedEverywhere ==
  ASSUME LotTypeOK, LotBooked
  PROVE  /\ \A i \in Issued : Lot!AppliedTo(i, today) \in Int
         /\ \A r \in DOMAIN receipts : /\ Lot!AppliedFrom(r, today) = PaidFrom(r) /\ PaidFrom(r) \in Nat
                                       /\ Lot!Happened(receipts[r].reversed) => PaidFrom(r) = 0
         /\ SumOver([i \in Issued |-> Lot!AppliedTo(i, today)], Issued) =
              SumOver([r \in DOMAIN receipts |-> PaidFrom(r)], DOMAIN receipts)
<1> DEFINE f == [a \in Live |-> allocations[a].amount]
           to == [i \in Issued |-> {a \in Live : allocations[a].to = i}]
           from == [r \in DOMAIN receipts |-> {a \in Live : allocations[a].receipt = r}]
           g == [i \in Issued |-> Lot!AppliedTo(i, today)]
           h == [r \in DOMAIN receipts |-> PaidFrom(r)]
<1>0. /\ IsFiniteSet(Live) /\ Live \in SUBSET DOMAIN allocations
      /\ IsFiniteSet(Issued) /\ IsFiniteSet(DOMAIN receipts)
  <2>1. Issued \in SUBSET Levies /\ IsFiniteSet(Levies) /\ Live \in SUBSET DOMAIN allocations
    BY LotAssumption DEF Issued, Live
  <2> QED
    BY <2>1, FS_Subset, LotMembers
<1>1. \A a \in Live : f[a] \in Nat /\ f[a] \in Int /\ f[a] = allocations[a].amount
  <2> SUFFICES ASSUME NEW a \in Live PROVE allocations[a].amount \in Nat
    OBVIOUS
  <2>1. allocations[a] \in AllocationRecords
    BY <1>0, LotMembers
  <2>2. allocations[a].amount \in Deposits
    BY <2>1 DEF AllocationRecords
  <2> QED
    BY <2>2, LotAssumption
<1>2. \A a \in Live : allocations[a].to \in Issued /\ allocations[a].receipt \in DOMAIN receipts
  <2> SUFFICES ASSUME NEW a \in Live PROVE allocations[a].to \in Issued /\ allocations[a].receipt \in DOMAIN receipts
    OBVIOUS
  <2>1. a \in DOMAIN allocations /\ allocations[a] \in AllocationRecords
    BY <1>0, LotMembers
  <2>2. allocations[a].to \in Levies
    BY <2>1 DEF AllocationRecords
  <2> QED
    BY <2>1, <2>2 DEF LotBooked, Issued
<1>3. Parts(Live, Issued, to) /\ Parts(Live, DOMAIN receipts, from)
  <2>1. \A i \in Issued : IsFiniteSet(to[i])
    BY <1>0, FS_Subset
  <2>2. \A r \in DOMAIN receipts : IsFiniteSet(from[r])
    BY <1>0, FS_Subset
  <2>3. /\ \A x : x \in Live <=> \E i \in Issued : x \in to[i]
        /\ \A x : x \in Live <=> \E r \in DOMAIN receipts : x \in from[r]
    BY <1>2
  <2>4. /\ \A i, j \in Issued : i # j => to[i] \cap to[j] = {}
        /\ \A i, j \in DOMAIN receipts : i # j => from[i] \cap from[j] = {}
    OBVIOUS
  <2> HIDE DEF to, from
  <2> QED
    BY <1>0, <2>1, <2>2, <2>3, <2>4 DEF Parts
<1>4. ASSUME NEW i \in Issued PROVE g[i] = SumOver(f, to[i]) /\ g[i] \in Int
  <2> DEFINE T == {a \in Live : allocations[a].to = i}
             w == [a \in T |-> allocations[a].amount]
  <2>1. {a \in DOMAIN allocations : allocations[a].to = i /\ Lot!Standing(a, today)} = T
    BY TodayIs DEF Live
  <2>2. g[i] = Lot!SumOver(w, T)
    BY <2>1 DEF Lot!AppliedTo
  <2>3. T \in SUBSET Live /\ to[i] = T /\ \A a \in T : w[a] = f[a] /\ f[a] \in Int
    BY <1>1
  <2>4. IsFiniteSet(T)
    BY <1>0, <2>3, FS_Subset
  <2> HIDE DEF T, w, f, to, g
  <2>5. SumOver(w, T) = SumOver(f, T) /\ SumOver(f, T) \in Int
    BY <2>3, <2>4, SumCongruent, SumType
  <2> QED
    BY <2>2, <2>3, <2>5, LotSum
<1>5. ASSUME NEW r \in DOMAIN receipts PROVE h[r] = SumOver(f, from[r]) /\ h[r] \in Nat /\ Lot!AppliedFrom(r, today) = PaidFrom(r)
  <2> DEFINE T == Held(r)
             w == [a \in T |-> allocations[a].amount]
  <2>1. {a \in DOMAIN allocations : allocations[a].receipt = r /\ Lot!Standing(a, today)} = T
    BY TodayIs DEF Held
  <2>2. Lot!AppliedFrom(r, today) = Lot!SumOver(w, T) /\ PaidFrom(r) = SumOver(w, T)
    BY <2>1 DEF Lot!AppliedFrom, PaidFrom
  <2>3. T \in SUBSET Live /\ from[r] = T
    BY DEF Held, Live
  <2>4. \A a \in T : w[a] = f[a] /\ f[a] \in Int /\ w[a] \in Nat
    BY <1>1, <2>3
  <2>5. IsFiniteSet(T) /\ h[r] = PaidFrom(r)
    BY <1>0, <2>3, FS_Subset
  <2> HIDE DEF T, w, f, from, h
  <2>6. SumOver(w, T) = SumOver(f, T) /\ SumOver(w, T) \in Nat
    BY <2>4, <2>5, SumCongruent, SumNatural
  <2> QED
    BY <2>2, <2>3, <2>5, <2>6, LotSum
<1>6. ASSUME NEW r \in DOMAIN receipts, Lot!Happened(receipts[r].reversed) PROVE PaidFrom(r) = 0
  <2>1. Held(r) = {}
    BY <1>6 DEF Held, LotBooked
  <2> QED
    BY <2>1, SumEmpty DEF PaidFrom
<1>7. SumOver(f, Live) = SumOver(g, Issued) /\ SumOver(f, Live) = SumOver(h, DOMAIN receipts)
  <2>1. (\A i \in Issued : g[i] = SumOver(f, to[i])) /\ (\A r \in DOMAIN receipts : h[r] = SumOver(f, from[r]))
    BY <1>4, <1>5
  <2> HIDE DEF f, g, h, to, from
  <2> QED
    BY <1>1, <1>3, <2>1, SumParts
<1>8. SumOver(g, Issued) = SumOver(h, DOMAIN receipts)
  BY <1>7
<1> QED
  BY <1>4, <1>5, <1>6, <1>8

-----------------------------------------------------------------------------
\* The full ledger: each row with the sum of the rows up to it.
LEMMA FullLedgerIs ==
  ASSUME LotTypeOK, LotBooked, NEW full, full = Lot!FullLedger
  PROVE  /\ DOMAIN full = Lot!Rows
         /\ \A row \in Lot!Rows : full[row] = Lot!SumOfRows({r \in Lot!Rows : r = row \/ Lot!Precedes(r, row)})
         /\ Lot!CurrentBalance(full) = Lot!SumOfRows(Lot!Rows)
<1>1. /\ DOMAIN full = Lot!Rows
      /\ \A row \in Lot!Rows : full[row] = Lot!SumOfRows({r \in Lot!Rows : r = row \/ Lot!Precedes(r, row)})
  BY DEF Lot!FullLedger
<1>2. Lot!CurrentBalance(full) = Lot!SumOfRows(Lot!Rows)
  <2> DEFINE S == Lot!Rows
  <2>1. IsFiniteSet(S) /\ Sortable(S) /\ S # {}
    BY RowsSumTo, RowsSortable
  <2>2. Lot!CurrentBalance(full) = Lot!LastBalance(full, S, 0)
    BY <1>1 DEF Lot!CurrentBalance
  <2>3. \A row \in S : full[row] = Lot!SumOfRows({r \in S : r = row \/ Lot!Precedes(r, row)})
    BY <1>1
  <2>4. /\ \A d \in S \ S, t \in S : Lot!Precedes(d, t)
        /\ S \in SUBSET S
    OBVIOUS
  <2> HIDE DEF S
  <2>5. Lot!LastBalance(full, S, 0) = Lot!SumOfRows(S)
    BY <2>1, <2>3, <2>4, LastBalanceIs
  <2> QED
    BY <2>2, <2>5 DEF S
<1> QED
  BY <1>1, <1>2

\* The funds' balances, and the opening position, which is of none.
LEMMA FundsAddUp ==
  ASSUME LotTypeOK, LotBooked, NEW full, full = Lot!FullLedger
  PROVE  Lot!CurrentBalance(full) =
           (Opening.owing - Opening.credit)
             + Lot!SumOver([fund \in Lot!FundsUsed |-> Lot!FundBalance(full, fund)], Lot!FundsUsed)
<1> DEFINE S == Lot!Rows
           R == S \ {OpeningRow}
           I == Lot!FundsUsed
           F == [fund \in I |-> {r \in S : r.fund = fund}]
           h == [fund \in I |-> Lot!FundBalance(full, fund)]
<1>1. /\ DOMAIN full = S /\ Lot!CurrentBalance(full) = Lot!SumOfRows(S)
      /\ IsFiniteSet(S) /\ OpeningRow \in S /\ \A x \in S : x.amount \in Int
  BY FullLedgerIs, RowsSumTo
<1>2. \A x \in S : x # OpeningRow => x.fund \in I
  BY RowsByType DEF RowTypes, ChargeRow, ChargeBack, AdjustmentRow, ReceiptRow, ReceiptBack, AllocationRow, Lot!Row
<1>3. OpeningRow.fund \notin I /\ OpeningRow.amount = Opening.owing - Opening.credit
  BY LotAssumption DEF OpeningRow, Lot!Row
<1>4. IsFiniteSet(I)
  <2> DEFINE G == {T \in SUBSET Levies : IsFiniteSet({LevyFund[i] : i \in T})}
  <2>2. {} \in G
    <3>1. {LevyFund[i] : i \in {}} = {}
      OBVIOUS
    <3> QED
      BY <3>1, FS_EmptySet
  <2>3. ASSUME NEW T \in SUBSET Levies, NEW x \in Levies, T \in G, x \notin T PROVE T \cup {x} \in G
    <3>1. {LevyFund[i] : i \in T \cup {x}} = {LevyFund[i] : i \in T} \cup {LevyFund[x]}
      OBVIOUS
    <3>2. IsFiniteSet({LevyFund[i] : i \in T} \cup {LevyFund[x]})
      BY <2>3, FS_AddElement
    <3> QED
      BY <3>1, <3>2
  <2>4. IsFiniteSet(Levies)
    BY LotAssumption
  <2>5. \A T \in SUBSET Levies : T \in G
    <3> HIDE DEF G
    <3> QED
      BY <2>2, <2>3, <2>4, SetInduction
  <2> QED
    BY <2>5 DEF Lot!FundsUsed
<1>5. Parts(R, I, F)
  <2>1. \A fund \in I : IsFiniteSet(F[fund])
    BY <1>1, FS_Subset
  <2>2. \A x : x \in R <=> \E fund \in I : x \in F[fund]
    BY <1>1, <1>2, <1>3
  <2>3. \A k, l \in I : k # l => F[k] \cap F[l] = {}
    OBVIOUS
  <2> HIDE DEF R, I, F
  <2> QED
    BY <1>4, <2>1, <2>2, <2>3 DEF Parts
<1>6. \A fund \in I : h[fund] = Lot!SumOfRows(F[fund])
  BY <1>1 DEF Lot!FundBalance
<1>7. (\A x \in R : x.amount \in Int) /\ R \cup {OpeningRow} = S /\ OpeningRow \notin R /\ IsFiniteSet(R)
  BY <1>1, <1>5, PartsFinite
<1>8. \A x \in R \cup {OpeningRow} : x.amount \in Int
  BY <1>1, <1>7
<1> HIDE DEF S, R, I, F, h
<1>9. Lot!SumOfRows(R) = SumOver(h, I) /\ Lot!SumOfRows(R) \in Int
  BY <1>5, <1>6, <1>7, RowsSumParts, RowsSum
<1>10. Lot!SumOfRows(R \cup {OpeningRow}) = Lot!SumOfRows(R) + OpeningRow.amount
  BY <1>7, <1>8, RowsSumAdd
<1>11. Lot!SumOver(h, I) = SumOver(h, I) /\ Opening.owing \in Int /\ Opening.credit \in Int
  BY LotSum, LotAssumption
<1>12. Lot!CurrentBalance(full) = (Opening.owing - Opening.credit) + Lot!SumOver(h, I)
  <2>1. Lot!CurrentBalance(full) = Lot!SumOfRows(R) + OpeningRow.amount
    BY <1>1, <1>7, <1>10, Zenon
  <2> QED
    BY <1>3, <1>9, <1>11, <2>1
<1> QED
  BY <1>12 DEF h, I

-----------------------------------------------------------------------------
\* The balance is what is outstanding less what is not applied, but for what
\* reversed instalments leave.
LEMMA ArrearsDomain ==
  ASSUME LotTypeOK, LotBooked
  PROVE  /\ DOMAIN Lot!Arrears(today) = Issued /\ IsFiniteSet(Issued) /\ Issued \in SUBSET Levies
         /\ \A i \in Issued : /\ Lot!Adjusted(i, today) \in Int /\ Lot!AppliedTo(i, today) \in Int
                              /\ Lot!Outstanding(i, today) \in Int
                              /\ Lot!Outstanding(i, today) =
                                   IF Lot!Happened(charges[i].reversed) THEN 0
                                   ELSE LevyAmount[i] + Lot!Adjusted(i, today) - Lot!AppliedTo(i, today)
<1>1. DOMAIN Lot!Arrears(today) = Issued
  <2>1. \A i \in Levies : Lot!By(charges[i].issued, today) <=> Lot!Happened(charges[i].issued)
    BY TodayIs
  <2> QED
    BY <2>1 DEF Lot!Arrears, Issued
<1>2. IsFiniteSet(Issued) /\ Issued \in SUBSET Levies
  <2>1. Issued \in SUBSET Levies /\ IsFiniteSet(Levies)
    BY LotAssumption DEF Issued
  <2> QED
    BY <2>1, FS_Subset
<1>3. ASSUME NEW i \in Issued 
      PROVE  /\ Lot!Adjusted(i, today) \in Int /\ Lot!AppliedTo(i, today) \in Int
             /\ Lot!Outstanding(i, today) \in Int
             /\ Lot!Outstanding(i, today) =
                  IF Lot!Happened(charges[i].reversed) THEN 0
                  ELSE LevyAmount[i] + Lot!Adjusted(i, today) - Lot!AppliedTo(i, today)
  <2>1. Lot!Adjusted(i, today) \in Int /\ Lot!AppliedTo(i, today) \in Int /\ LevyAmount[i] \in Int
    BY <1>2, ChargeRowsSum, AppliedEverywhere, LotAssumption
  <2>2. Lot!Cancelled(i, today) <=> Lot!Happened(charges[i].reversed)
    BY <1>2, TodayIs
  <2> QED
    BY <2>1, <2>2 DEF Lot!Outstanding
<1> QED
  BY <1>1, <1>2, <1>3

LEMMA BalanceIsOwed ==
  ASSUME LotTypeOK, LotBooked, NEW full, full = Lot!FullLedger,
         NEW reversed, reversed = {i \in Levies : Lot!Happened(charges[i].reversed)}
  PROVE  Lot!CurrentBalance(full) =
           (Opening.owing - Opening.credit) + Lot!TotalOutstanding(today) - Lot!UnappliedCredits(today)
             + Lot!SumOver([i \in reversed |-> Lot!Adjusted(i, today) - Lot!AppliedTo(i, today)], reversed)
<1> DEFINE D == DOMAIN receipts
           net == [i \in Issued |-> NetOf(i)]
           out == [i \in Issued |-> Lot!Outstanding(i, today)]
           app == [i \in Issued |-> Lot!AppliedTo(i, today)]
           left == [i \in Issued |->
                      IF i \in reversed THEN Lot!Adjusted(i, today) - Lot!AppliedTo(i, today) ELSE 0]
           own == [i \in Issued |-> out[i] + left[i]]
           rest == [i \in reversed |-> Lot!Adjusted(i, today) - Lot!AppliedTo(i, today)]
           paid == [r \in D |-> PaidBy(r)]
           from == [r \in D |-> PaidFrom(r)]
           free == [r \in D |-> IF Lot!Happened(receipts[r].reversed) THEN 0 ELSE receipts[r].amount - PaidFrom(r)]
           owed == [r \in D |-> 0 - free[r]]
           held == {r \in D : ~Lot!Happened(receipts[r].reversed) /\ Lot!By(receipts[r].at, today)}
           kept == [r \in held |-> Lot!Greater(0, receipts[r].amount - Lot!AppliedFrom(r, today))]
<1>1. /\ IsFiniteSet(Issued) /\ IsFiniteSet(D)
      /\ reversed \in SUBSET Issued /\ held \in SUBSET D
  BY ArrearsDomain, LotMembers DEF LotBooked, Issued
<1>2. \A i \in Issued : /\ out[i] \in Int /\ app[i] \in Int /\ left[i] \in Int /\ own[i] \in Int /\ net[i] \in Int
                        /\ own[i] = out[i] + left[i] /\ net[i] = own[i] + app[i]
                        /\ (i \notin reversed => left[i] = 0)
  <2> SUFFICES ASSUME NEW i \in Issued 
               PROVE  /\ out[i] \in Int /\ app[i] \in Int /\ left[i] \in Int /\ own[i] \in Int /\ net[i] \in Int
                      /\ own[i] = out[i] + left[i] /\ net[i] = own[i] + app[i]
                      /\ (i \notin reversed => left[i] = 0)
    OBVIOUS
  <2>1. /\ Lot!Adjusted(i, today) \in Int /\ Lot!AppliedTo(i, today) \in Int /\ Lot!Outstanding(i, today) \in Int
        /\ Lot!Outstanding(i, today) = IF Lot!Happened(charges[i].reversed) THEN 0
                                       ELSE LevyAmount[i] + Lot!Adjusted(i, today) - Lot!AppliedTo(i, today)
        /\ i \in Levies
    BY ArrearsDomain
  <2>2. LevyAmount[i] \in Int
    BY <2>1, LotAssumption
  <2>3. i \in reversed <=> Lot!Happened(charges[i].reversed)
    BY <2>1
  <2> QED
    BY <2>1, <2>2, <2>3 DEF NetOf
<1>3. \A i \in reversed : rest[i] = left[i]
  BY <1>1
<1>4. \A r \in D : /\ paid[r] \in Int /\ from[r] \in Int /\ free[r] \in Int /\ owed[r] \in Int
                   /\ owed[r] = paid[r] + from[r] /\ owed[r] + free[r] = 0
                   /\ (r \notin held => free[r] = 0) /\ (r \in held => kept[r] = free[r])
  <2> SUFFICES ASSUME NEW r \in D 
               PROVE  /\ paid[r] \in Int /\ from[r] \in Int /\ free[r] \in Int /\ owed[r] \in Int
                      /\ owed[r] = paid[r] + from[r] /\ owed[r] + free[r] = 0
                      /\ (r \notin held => free[r] = 0) /\ (r \in held => kept[r] = free[r])
    OBVIOUS
  <2>1. /\ Lot!AppliedFrom(r, today) = PaidFrom(r) /\ PaidFrom(r) \in Nat
        /\ Lot!Happened(receipts[r].reversed) => PaidFrom(r) = 0
        /\ receipts[r].amount \in Nat /\ Lot!By(receipts[r].at, today) /\ PaidFrom(r) <= receipts[r].amount
    BY AppliedEverywhere, ReceiptRowsSum, TodayIs DEF LotBooked
  <2>2. r \in held <=> ~Lot!Happened(receipts[r].reversed)
    BY <2>1
  <2>3. r \in held => kept[r] = receipts[r].amount - PaidFrom(r)
    BY <2>1 DEF Lot!Greater
  <2> QED
    BY <2>1, <2>2, <2>3 DEF PaidBy
<1>5. SumOver(app, Issued) = SumOver(from, D)
  BY AppliedEverywhere
<1>6. Lot!SumOfRows(Lot!Rows) = (Opening.owing - Opening.credit) + SumOver(net, Issued) + SumOver(paid, D)
  BY RowsSumTo
<1>7. /\ Lot!TotalOutstanding(today) = SumOver(out, Issued) /\ Lot!UnappliedCredits(today) = SumOver(kept, held)
      /\ Lot!SumOver(rest, reversed) = SumOver(rest, reversed)
  <2>1. Lot!TotalOutstanding(today) = Lot!SumOver(out, Issued)
    BY ArrearsDomain DEF Lot!TotalOutstanding, Lot!OutstandingOf
  <2>2. Lot!UnappliedCredits(today) = Lot!SumOver(kept, held)
    BY DEF Lot!UnappliedCredits
  <2> HIDE DEF out, kept, held, rest
  <2> QED
    BY <2>1, <2>2, LotSum
<1> HIDE DEF D, net, out, app, left, own, rest, paid, from, free, owed, held, kept
<1>8. SumOver(net, Issued) = SumOver(own, Issued) + SumOver(app, Issued)
  BY <1>1, <1>2, SumPlus
<1>9. SumOver(own, Issued) = SumOver(out, Issued) + SumOver(left, Issued)
  BY <1>1, <1>2, SumPlus
<1>10. SumOver(left, Issued) = SumOver(rest, reversed)
  BY <1>1, <1>2, <1>3, SumWhere
<1>11. SumOver(owed, D) = SumOver(paid, D) + SumOver(from, D)
  BY <1>1, <1>4, SumPlus
<1>12. SumOver(owed, D) + SumOver(free, D) = 0
  <2> DEFINE zero == [r \in D |-> 0]
  <2>1. \A r \in D : owed[r] \in Int /\ free[r] \in Int /\ zero[r] = owed[r] + free[r] /\ zero[r] = 0
    BY <1>4
  <2> HIDE DEF zero
  <2>2. SumOver(zero, D) = SumOver(owed, D) + SumOver(free, D) /\ SumOver(zero, D) = 0
    BY <1>1, <2>1, SumPlus, SumZero
  <2> QED
    BY <2>2
<1>13. SumOver(free, D) = SumOver(kept, held)
  <2>1. (\A r \in D : free[r] \in Int /\ (r \notin held => free[r] = 0)) /\ \A r \in held : kept[r] = free[r]
    BY <1>1, <1>4
  <2> QED
    BY <1>1, <2>1, SumWhere
<1>14. /\ SumOver(net, Issued) \in Int /\ SumOver(own, Issued) \in Int /\ SumOver(app, Issued) \in Int
       /\ SumOver(out, Issued) \in Int /\ SumOver(left, Issued) \in Int
       /\ SumOver(owed, D) \in Int /\ SumOver(paid, D) \in Int /\ SumOver(from, D) \in Int /\ SumOver(free, D) \in Int
  BY <1>1, <1>2, <1>4, SumType
<1>15. Opening.owing \in Int /\ Opening.credit \in Int
  BY LotAssumption
<1>16. Lot!CurrentBalance(full) = Lot!SumOfRows(Lot!Rows)
  BY FullLedgerIs
<1>17. Lot!CurrentBalance(full) =
         (Opening.owing - Opening.credit) + Lot!TotalOutstanding(today) - Lot!UnappliedCredits(today)
           + Lot!SumOver(rest, reversed)
  BY <1>5, <1>6, <1>7, <1>8, <1>9, <1>10, <1>11, <1>12, <1>13, <1>14, <1>15, <1>16
<1> QED
  BY <1>17 DEF rest

-----------------------------------------------------------------------------
\* Whatever is outstanding is either not overdue or in one of four buckets.
LEMMA AgedCompletely ==
  ASSUME LotTypeOK, LotBooked
  PROVE  /\ Lot!OverdueAged("CURRENT", today) = 0
         /\ Lot!TotalCurrentOutstanding(today)
              + Lot!OverdueAged("DAYS_1_30", today) + Lot!OverdueAged("DAYS_31_60", today)
              + Lot!OverdueAged("DAYS_61_90", today) + Lot!OverdueAged("DAYS_90_PLUS", today)
              = Lot!SumOver([i \in DOMAIN Lot!Arrears(today) |-> Lot!Greater(0, Lot!Outstanding(i, today))],
                            DOMAIN Lot!Arrears(today))
<1> DEFINE W == Lot!Owed(today)
           Aged(b) == {i \in W : Lot!IsOverdue(i, today) /\ Lot!Arrears(today)[i].bucket = b}
           C == {i \in W : ~Lot!IsOverdue(i, today)}
           f == [i \in Issued |-> Lot!Outstanding(i, today)]
           g == [i \in Issued |-> Lot!Greater(0, Lot!Outstanding(i, today))]
<1>1. /\ DOMAIN Lot!Arrears(today) = Issued /\ IsFiniteSet(Issued) /\ Issued \in SUBSET Levies
      /\ W = {i \in Issued : Lot!Outstanding(i, today) > 0} /\ W \in SUBSET Issued /\ IsFiniteSet(W)
  <2>1. DOMAIN Lot!Arrears(today) = Issued /\ IsFiniteSet(Issued) /\ Issued \in SUBSET Levies
    BY ArrearsDomain
  <2>2. W = {i \in Issued : Lot!Outstanding(i, today) > 0}
    BY <2>1 DEF Lot!Owed
  <2>3. W \in SUBSET Issued
    BY <2>2
  <2> HIDE DEF W
  <2> QED
    BY <2>1, <2>2, <2>3, FS_Subset
<1>2. \A i \in Issued : f[i] \in Int /\ g[i] \in Int /\ (i \notin W => g[i] = 0) /\ (i \in W => g[i] = f[i])
  BY <1>1, ArrearsDomain DEF Lot!Greater
<1>3. ASSUME NEW T \in SUBSET Issued PROVE Lot!OutstandingOf(T, today) = SumOver(f, T)
  <2> DEFINE w == [i \in T |-> Lot!Outstanding(i, today)]
  <2>1. Lot!OutstandingOf(T, today) = SumOver(w, T)
    BY DEF Lot!OutstandingOf, Lot!SumOver, SumOver
  <2>2. IsFiniteSet(T)
    BY <1>1, FS_Subset
  <2>3. \A i \in T : f[i] \in Int /\ w[i] = f[i]
    BY <1>2
  <2> HIDE DEF w, f
  <2> QED
    BY <2>1, <2>2, <2>3, SumCongruent
<1>4. ASSUME NEW i \in W, Lot!IsOverdue(i, today)
      PROVE  Lot!Arrears(today)[i].bucket \in {"DAYS_1_30", "DAYS_31_60", "DAYS_61_90", "DAYS_90_PLUS"}
  <2>1. i \in Issued /\ i \in Levies /\ Lot!Outstanding(i, today) > 0 /\ Lot!Outstanding(i, today) \in Int
    BY <1>1, ArrearsDomain
  <2>2. Lot!Arrears(today)[i] = Lot!ChargeArrears(i, today)
    BY <1>1, <2>1 DEF Lot!Arrears
  <2>3. Lot!Arrears(today)[i].bucket = Lot!AgeingBucketFor(Lot!DaysOverdue(i, today))
    BY <2>1, <2>2 DEF Lot!ChargeArrears
  <2>4. LevyDue[i] \in Int /\ today \in Int
    BY <2>1, LotAssumption DEF LotTypeOK
  <2>5. Lot!DaysOverdue(i, today) \in Int /\ Lot!DaysOverdue(i, today) > 0
    BY <1>4, <2>4 DEF Lot!DaysOverdue, Lot!Greater, Lot!IsOverdue
  <2> QED
    BY <2>3, <2>5 DEF Lot!AgeingBucketFor
<1>5. Lot!OverdueAged("CURRENT", today) = 0
  <2>1. Aged("CURRENT") = {}
    BY <1>4
  <2>2. Lot!OverdueAged("CURRENT", today) = Lot!OutstandingOf({}, today)
    BY <2>1 DEF Lot!OverdueAged
  <2>3. Lot!OutstandingOf({}, today) = SumOver(f, {})
    BY <1>3
  <2> QED
    BY <2>2, <2>3, SumEmpty
<1> DEFINE A == Aged("DAYS_1_30")
           B == Aged("DAYS_31_60")
           D == Aged("DAYS_61_90")
           E == Aged("DAYS_90_PLUS")
<1>6. /\ Lot!OverdueAged("DAYS_1_30", today) = SumOver(f, A) /\ Lot!OverdueAged("DAYS_31_60", today) = SumOver(f, B)
      /\ Lot!OverdueAged("DAYS_61_90", today) = SumOver(f, D) /\ Lot!OverdueAged("DAYS_90_PLUS", today) = SumOver(f, E)
      /\ Lot!TotalCurrentOutstanding(today) = SumOver(f, C)
  <2>1. \A b : Aged(b) \in SUBSET Issued
    BY <1>1
  <2>2. C \in SUBSET Issued
    BY <1>1
  <2>3. \A b : Lot!OverdueAged(b, today) = Lot!OutstandingOf(Aged(b), today)
    BY DEF Lot!OverdueAged
  <2>4. Lot!TotalCurrentOutstanding(today) = Lot!OutstandingOf(C, today)
    BY DEF Lot!TotalCurrentOutstanding
  <2> HIDE DEF Aged, C, f
  <2> QED
    BY <1>3, <2>1, <2>2, <2>3, <2>4
<1>7. /\ W = (((C \cup A) \cup B) \cup D) \cup E
      /\ C \cap A = {} /\ (C \cup A) \cap B = {} /\ ((C \cup A) \cup B) \cap D = {} /\ (((C \cup A) \cup B) \cup D) \cap E = {}
  <2>1. \A i \in W : i \in C \/ i \in A \/ i \in B \/ i \in D \/ i \in E
    BY <1>4
  <2>2. C \in SUBSET W /\ A \in SUBSET W /\ B \in SUBSET W /\ D \in SUBSET W /\ E \in SUBSET W
    OBVIOUS
  <2>3. C \cap A = {} /\ C \cap B = {} /\ C \cap D = {} /\ C \cap E = {}
    OBVIOUS
  <2>4. A \cap B = {} /\ A \cap D = {} /\ A \cap E = {} /\ B \cap D = {} /\ B \cap E = {} /\ D \cap E = {}
    OBVIOUS
  <2> HIDE DEF A, B, C, D, E, W
  <2> QED
    BY <2>1, <2>2, <2>3, <2>4
<1>8. (\A i \in W : f[i] \in Int) /\ (\A i \in W : g[i] = f[i])
  BY <1>1, <1>2
<1>9. C \in SUBSET W /\ A \in SUBSET W /\ B \in SUBSET W /\ D \in SUBSET W /\ E \in SUBSET W
  OBVIOUS
<1>10. Lot!SumOver([i \in DOMAIN Lot!Arrears(today) |-> Lot!Greater(0, Lot!Outstanding(i, today))],
                   DOMAIN Lot!Arrears(today)) = SumOver(g, Issued)
  <2>1. [i \in DOMAIN Lot!Arrears(today) |-> Lot!Greater(0, Lot!Outstanding(i, today))] = g
    BY <1>1
  <2> HIDE DEF g
  <2> QED
    BY <1>1, <2>1, LotSum
<1> HIDE DEF A, B, C, D, E, W, f, g
<1>11. SumOver(f, (((C \cup A) \cup B) \cup D) \cup E) = SumOver(f, ((C \cup A) \cup B) \cup D) + SumOver(f, E)
  BY <1>1, <1>7, <1>8, <1>9, SumUnion
<1>12. SumOver(f, ((C \cup A) \cup B) \cup D) = SumOver(f, (C \cup A) \cup B) + SumOver(f, D)
  <2>1. (C \cup A) \cup B \in SUBSET W
    BY <1>9
  <2> QED
    BY <1>1, <1>7, <1>8, <1>9, <2>1, SumUnion
<1>13. SumOver(f, (C \cup A) \cup B) = SumOver(f, C \cup A) + SumOver(f, B)
  <2>1. C \cup A \in SUBSET W
    BY <1>9
  <2> QED
    BY <1>1, <1>7, <1>8, <1>9, <2>1, SumUnion
<1>14. SumOver(f, C \cup A) = SumOver(f, C) + SumOver(f, A)
  BY <1>1, <1>7, <1>8, <1>9, SumUnion
<1>15. SumOver(g, Issued) = SumOver(f, W)
  <2>1. (\A i \in Issued : g[i] \in Int /\ (i \notin W => g[i] = 0)) /\ \A i \in W : f[i] = g[i]
    BY <1>2, <1>8
  <2> QED
    BY <1>1, <2>1, SumWhere
<1>16. SumOver(f, C) \in Int /\ SumOver(f, A) \in Int /\ SumOver(f, B) \in Int /\ SumOver(f, D) \in Int /\ SumOver(f, E) \in Int
  <2>1. \A T \in SUBSET W : SumOver(f, T) \in Int
    <3> TAKE T \in SUBSET W
    <3>1. IsFiniteSet(T) /\ \A i \in T : f[i] \in Int
      BY <1>1, <1>8, FS_Subset
    <3> QED
      BY <3>1, SumType
  <2> QED
    BY <1>9, <2>1
<1>17. SumOver(f, W) = SumOver(f, (((C \cup A) \cup B) \cup D) \cup E)
  BY <1>7, Zenon
<1>18. SumOver(f, W) = SumOver(f, C) + SumOver(f, A) + SumOver(f, B) + SumOver(f, D) + SumOver(f, E)
  BY <1>11, <1>12, <1>13, <1>14, <1>16, <1>17
<1> QED
  BY <1>5, <1>6, <1>10, <1>15, <1>16, <1>18

-----------------------------------------------------------------------------
\* In a state whose books are in order the reports agree.
LEMMA ReportsHold ==
  ASSUME LotTypeOK, LotBooked
  PROVE  Lot!ReportsAgree
<1> DEFINE full == Lot!FullLedger
           start == Opening.owing - Opening.credit
           reversed == {i \in Levies : Lot!Happened(charges[i].reversed)}
           S == Lot!Rows
<1>1. /\ DOMAIN full = S /\ IsFiniteSet(S) /\ Sortable(S) /\ \A r \in S : r.amount \in Int
      /\ \A row \in S : full[row] = Lot!SumOfRows({r \in S : r = row \/ Lot!Precedes(r, row)})
  BY FullLedgerIs, RowsSumTo, RowsSortable
<1>2. ASSUME NEW first \in Days, NEW last \in Days, first <= last
      PROVE  /\ Lot!ClosingBalance(full, first, last) =
                  Lot!OpeningBalance(full, first) + Lot!TotalDebits(Lot!Movements(full, first, last))
                    - Lot!TotalCredits(Lot!Movements(full, first, last))
             /\ Lot!ClosingBalance(full, first, last) = Lot!OpeningBalance(full, last + 1)
  <2>1. first \in Int /\ last \in Int
    BY LotAssumption
  <2> HIDE DEF full, S
  <2> QED
    BY <1>1, <1>2, <2>1, StatementsAgree
<1>3. /\ Lot!CurrentBalance(full) = start + Lot!SumOver([fund \in Lot!FundsUsed |-> Lot!FundBalance(full, fund)], Lot!FundsUsed)
      /\ Lot!CurrentBalance(full) = start + Lot!TotalOutstanding(today) - Lot!UnappliedCredits(today)
           + Lot!SumOver([i \in reversed |-> Lot!Adjusted(i, today) - Lot!AppliedTo(i, today)], reversed)
  BY FundsAddUp, BalanceIsOwed
<1> QED
  BY <1>2, <1>3, AgedCompletely, Zenon DEF Lot!ReportsAgree

-----------------------------------------------------------------------------
\* What is happening happens today, after everything else.
LEMMA ThisMoment ==
  ASSUME LotTypeOK, LotBooked
  PROVE  /\ Lot!Now.day = today /\ Lot!Now.tick = events + 1 /\ Lot!Happened(Lot!Now)
         /\ Lot!Never.day = -1 /\ Lot!Never.tick = 0 /\ ~Lot!Happened(Lot!Never)
         /\ today \in Nat /\ events \in Nat /\ -1 <= today /\ 0 <= events + 1
BY DEF LotBooked, Lot!Now, Lot!Never, Lot!Happened

\* No reversal was at the moment that comes.
LEMMA TicksGone ==
  ASSUME LotTypeOK, LotBooked
  PROVE  /\ \A k \in Levies : charges[k].reversed.tick <= events + 1 /\ charges[k].reversed.tick # events + 1
         /\ \A r \in DOMAIN receipts : receipts[r].reversed.tick <= events + 1
<1>1. ASSUME NEW k \in Levies PROVE charges[k].reversed.tick <= events + 1 /\ charges[k].reversed.tick # events + 1
  <2>1. charges[k].reversed.tick \in Int /\ charges[k].reversed.tick <= events
    BY LotMembers DEF LotBooked, Moments
  <2> QED
    BY <2>1, ThisMoment
<1>2. ASSUME NEW r \in DOMAIN receipts PROVE receipts[r].reversed.tick <= events + 1
  <2>1. receipts[r].reversed.tick \in Int /\ receipts[r].reversed.tick <= events
    BY LotMembers DEF LotBooked, ReceiptRecords, Moments
  <2> QED
    BY <2>1, ThisMoment
<1> QED
  BY <1>1, <1>2

\* Nothing is booked at first.
LEMMA BookedInit == Lot!Init => LotBooked
BY DEF Lot!Init, LotBooked, Lot!Never, Lot!Happened

\* What a receipt paid depends on the allocations that stand.
LEMMA PaidSame ==
  ASSUME NEW r,
         \A k : /\ (k \in DOMAIN allocations' /\ allocations'[k].receipt = r /\ ~Lot!Happened(allocations'[k].reversed))
                     <=> (k \in DOMAIN allocations /\ allocations[k].receipt = r /\ ~Lot!Happened(allocations[k].reversed))
                /\ k \in DOMAIN allocations => allocations'[k].amount = allocations[k].amount
  PROVE  PaidFrom(r)' = PaidFrom(r)
<1> DEFINE S == {a \in DOMAIN allocations : allocations[a].receipt = r /\ ~Lot!Happened(allocations[a].reversed)}
           T == {a \in DOMAIN allocations' : allocations'[a].receipt = r /\ ~Lot!Happened(allocations'[a].reversed)}
<1>1. T = S
  OBVIOUS
<1>2. [a \in T |-> allocations'[a].amount] = [a \in S |-> allocations[a].amount]
  BY <1>1
<1>3. PaidFrom(r)' = SumOver([a \in T |-> allocations'[a].amount], T) /\ PaidFrom(r) = SumOver([a \in S |-> allocations[a].amount], S)
  BY DEF PaidFrom, Held, Lot!Happened, Lot!Never, SumOver
<1> QED
  BY <1>1, <1>2, <1>3

LEMMA PaidUnchanged == ASSUME allocations' = allocations PROVE \A r : PaidFrom(r)' = PaidFrom(r)
BY PaidSame

\* Each transaction keeps the books.
LEMMA ChargeBooks ==
  ASSUME LotTypeOK, LotTypeOK', LotBooked, NEW i \in Levies, Lot!Issue(i) \/ Lot!ReverseInstalment(i)
  PROVE  LotBooked'
<1>1. /\ today' = today /\ events' = events + 1
      /\ adjustments' = adjustments /\ receipts' = receipts /\ allocations' = allocations
  BY DEF Lot!Issue, Lot!ReverseInstalment, Lot!Event
<1>2. PICK charge : /\ charges' = [charges EXCEPT ![i] = charge]
                    /\ \/ /\ charge.issued = Lot!Now /\ charge.reversed = charges[i].reversed
                          /\ ~Lot!Happened(charges[i].issued)
                       \/ /\ charge.issued = charges[i].issued /\ charge.reversed = Lot!Now
                          /\ Lot!Happened(charges[i].issued)
  BY DEF LotTypeOK, Lot!Issue, Lot!ReverseInstalment
<1>3. \A k \in Levies : charges'[k] = IF k = i THEN charge ELSE charges[k]
  BY <1>2 DEF LotTypeOK
<1>4. \A k \in Levies :
        /\ charges'[k].issued.day <= today /\ charges'[k].reversed.day <= today /\ charges'[k].reversed.tick <= events + 1
        /\ Lot!Happened(charges'[k].reversed) => Lot!Happened(charges'[k].issued)
        /\ Lot!Happened(charges[k].issued) => Lot!Happened(charges'[k].issued)
        /\ charges'[k].reversed = charges[k].reversed \/ charges'[k].reversed = Lot!Now
  <2> SUFFICES ASSUME NEW k \in Levies
               PROVE  /\ charges'[k].issued.day <= today /\ charges'[k].reversed.day <= today
                      /\ charges'[k].reversed.tick <= events + 1
                      /\ Lot!Happened(charges'[k].reversed) => Lot!Happened(charges'[k].issued)
                      /\ Lot!Happened(charges[k].issued) => Lot!Happened(charges'[k].issued)
                      /\ charges'[k].reversed = charges[k].reversed \/ charges'[k].reversed = Lot!Now
    OBVIOUS
  <2>1. /\ charges[k].issued.day <= today /\ charges[k].reversed.day <= today /\ charges[k].reversed.tick <= events
        /\ Lot!Happened(charges[k].reversed) => Lot!Happened(charges[k].issued)
        /\ charges[k].reversed.tick \in Int
    BY LotMembers DEF LotBooked, Moments
  <2>2. charges'[k] = IF k = i THEN charge ELSE charges[k]
    BY <1>3
  <2> QED
    BY <1>2, <2>1, <2>2, ThisMoment
<1>5. ASSUME NEW r \in DOMAIN receipts, NEW k \in Levies,
             Lot!Happened(receipts[r].reversed), Lot!Happened(charges'[k].reversed)
      PROVE  receipts[r].reversed.tick # charges'[k].reversed.tick
  <2>1. /\ receipts[r].reversed.tick <= events /\ receipts[r].reversed.tick \in Int
        /\ Lot!Happened(charges[k].reversed) => receipts[r].reversed.tick # charges[k].reversed.tick
    BY <1>5, LotMembers DEF LotBooked, ReceiptRecords, Moments
  <2>2. charges'[k].reversed = charges[k].reversed \/ charges'[k].reversed = Lot!Now
    BY <1>4
  <2> QED
    BY <1>5, <2>1, <2>2, ThisMoment
<1>6. \A r \in DOMAIN receipts : receipts[r].reversed.tick <= events + 1
  BY TicksGone
<1>7. \A a \in DOMAIN allocations : Lot!Happened(charges'[allocations[a].to].issued)
  BY <1>4, LotMembers DEF LotBooked, AllocationRecords
<1> QED
  BY <1>1, <1>4, <1>5, <1>6, <1>7, PaidUnchanged DEF LotBooked, Lot!Happened, Lot!Never

LEMMA AdjustmentBooks ==
  ASSUME LotTypeOK, LotTypeOK', LotBooked, NEW i \in Levies, NEW amount \in Corrections, Lot!CreateAdjustment(i, amount)
  PROVE  LotBooked'
<1>1. /\ today' = today /\ events' = events + 1
      /\ charges' = charges /\ receipts' = receipts /\ allocations' = allocations
  BY DEF Lot!CreateAdjustment, Lot!Event
<1>2. PICK row : row.at = Lot!Now /\ adjustments' = Append(adjustments, row)
  BY DEF Lot!CreateAdjustment
<1>3. \A k \in DOMAIN adjustments' : Lot!Happened(adjustments'[k].at) /\ adjustments'[k].at.day <= today
  <2>1. DOMAIN adjustments' = 1..Len(adjustments) + 1 /\ adjustments'[Len(adjustments) + 1] = row
        /\ \A k \in DOMAIN adjustments : adjustments'[k] = adjustments[k]
    BY <1>2 DEF LotTypeOK
  <2> QED
    BY <1>2, <2>1, ThisMoment, LotMembers DEF LotBooked
<1>4. /\ \A k \in Levies : charges[k].reversed.tick <= events + 1
      /\ \A r \in DOMAIN receipts : receipts[r].reversed.tick <= events + 1
  BY TicksGone
<1> QED
  BY <1>1, <1>3, <1>4, PaidUnchanged DEF LotBooked, Lot!Happened, Lot!Never

LEMMA RecordBooks ==
  ASSUME LotTypeOK, LotTypeOK', LotBooked,
         NEW fund \in Lot!FundsUsed, NEW amount \in Deposits, NEW posted \in Days, Lot!RecordReceipt(fund, amount, posted)
  PROVE  LotBooked'
<1>1. /\ today' = today /\ events' = events + 1
      /\ charges' = charges /\ adjustments' = adjustments /\ allocations' = allocations
  BY DEF Lot!RecordReceipt, Lot!Event
<1>2. PICK row : /\ row.at = Lot!Now /\ row.reversed = Lot!Never /\ row.amount = amount
                 /\ receipts' = Append(receipts, row)
  BY DEF Lot!RecordReceipt
<1>3. /\ DOMAIN receipts' = DOMAIN receipts \cup {Len(receipts) + 1} /\ Len(receipts) + 1 \notin DOMAIN receipts
      /\ receipts'[Len(receipts) + 1] = row /\ \A k \in DOMAIN receipts : receipts'[k] = receipts[k]
  BY <1>2 DEF LotTypeOK
<1>4. PaidFrom(Len(receipts) + 1) = 0
  <2>1. Held(Len(receipts) + 1) = {}
    BY <1>3 DEF Held, LotBooked
  <2> QED
    BY <2>1, SumEmpty DEF PaidFrom
<1>5. \A r \in DOMAIN receipts' :
        /\ Lot!Happened(receipts'[r].at) /\ receipts'[r].at.day <= today
        /\ receipts'[r].reversed.day <= today /\ receipts'[r].reversed.tick <= events + 1
        /\ \A i \in Levies : Lot!Happened(receipts'[r].reversed) /\ Lot!Happened(charges[i].reversed) =>
             receipts'[r].reversed.tick # charges[i].reversed.tick
        /\ PaidFrom(r) <= receipts'[r].amount
  <2>1. ASSUME NEW r \in DOMAIN receipts
        PROVE  /\ Lot!Happened(receipts[r].at) /\ receipts[r].at.day <= today
               /\ receipts[r].reversed.day <= today /\ receipts[r].reversed.tick <= events + 1
               /\ \A i \in Levies : Lot!Happened(receipts[r].reversed) /\ Lot!Happened(charges[i].reversed) =>
                    receipts[r].reversed.tick # charges[i].reversed.tick
               /\ PaidFrom(r) <= receipts[r].amount
    BY LotMembers, ThisMoment DEF LotBooked, ReceiptRecords, Moments
  <2>2. amount \in Nat
    BY LotAssumption
  <2> QED
    BY <1>2, <1>3, <1>4, <2>1, <2>2, ThisMoment
<1>6. \A a \in DOMAIN allocations : /\ allocations[a].receipt \in DOMAIN receipts'
                                    /\ receipts'[allocations[a].receipt] = receipts[allocations[a].receipt]
  BY <1>3 DEF LotBooked
<1>7. \A k \in Levies : charges[k].reversed.tick <= events + 1
  BY TicksGone
<1> QED
  BY <1>1, <1>5, <1>6, <1>7, PaidUnchanged DEF LotBooked, Lot!Happened, Lot!Never

LEMMA ReverseReceiptBooks ==
  ASSUME LotTypeOK, LotTypeOK', LotBooked, NEW r \in DOMAIN receipts, Lot!ReverseReceipt(r)
  PROVE  LotBooked'
<1>1. /\ today' = today /\ events' = events + 1
      /\ charges' = charges /\ adjustments' = adjustments /\ allocations' = allocations
      /\ \A a \in DOMAIN allocations : allocations[a].receipt = r => Lot!Happened(allocations[a].reversed)
  BY DEF Lot!ReverseReceipt, Lot!Event
<1>2. PICK row : /\ row.at = receipts[r].at /\ row.reversed = Lot!Now /\ row.amount = receipts[r].amount
                 /\ receipts' = [receipts EXCEPT ![r] = row]
  <2> DEFINE new == [receipts[r] EXCEPT !.reversed = Lot!Now]
  <2>1. receipts' = [receipts EXCEPT ![r] = new]
    BY DEF Lot!ReverseReceipt
  <2>2. receipts[r] \in ReceiptRecords
    BY LotMembers
  <2>3. new.at = receipts[r].at /\ new.reversed = Lot!Now /\ new.amount = receipts[r].amount
    BY <2>2 DEF ReceiptRecords
  <2> HIDE DEF new
  <2> QED
    BY <2>1, <2>3
<1>3. /\ DOMAIN receipts' = DOMAIN receipts
      /\ \A k \in DOMAIN receipts : receipts'[k] = IF k = r THEN row ELSE receipts[k]
  BY <1>2 DEF LotTypeOK
<1>4. ASSUME NEW k \in DOMAIN receipts
      PROVE  /\ Lot!Happened(receipts'[k].at) /\ receipts'[k].at.day <= today
             /\ receipts'[k].reversed.day <= today /\ receipts'[k].reversed.tick <= events + 1
             /\ \A i \in Levies : Lot!Happened(receipts'[k].reversed) /\ Lot!Happened(charges[i].reversed) =>
                  receipts'[k].reversed.tick # charges[i].reversed.tick
             /\ PaidFrom(k) <= receipts'[k].amount
  <2>1. /\ Lot!Happened(receipts[k].at) /\ receipts[k].at.day <= today
        /\ receipts[k].reversed.day <= today /\ receipts[k].reversed.tick <= events + 1
        /\ \A i \in Levies : Lot!Happened(receipts[k].reversed) /\ Lot!Happened(charges[i].reversed) =>
             receipts[k].reversed.tick # charges[i].reversed.tick
        /\ PaidFrom(k) <= receipts[k].amount
    BY LotMembers, ThisMoment DEF LotBooked, ReceiptRecords, Moments
  <2>2. \A i \in Levies : charges[i].reversed.tick # events + 1
    BY TicksGone
  <2> QED
    BY <1>2, <1>3, <2>1, <2>2, ThisMoment
<1>5. \A a \in DOMAIN allocations :
        Lot!Happened(receipts'[allocations[a].receipt].reversed) => Lot!Happened(allocations[a].reversed)
  BY <1>1, <1>3 DEF LotBooked
<1>6. \A k \in Levies : charges[k].reversed.tick <= events + 1
  BY TicksGone
<1> QED
  BY <1>1, <1>3, <1>4, <1>5, <1>6, PaidUnchanged DEF LotBooked, Lot!Happened, Lot!Never

LEMMA DayBooks ==
  ASSUME LotTypeOK, LotTypeOK', LotBooked, Lot!DayEnds
  PROVE  LotBooked'
<1>1. PICK day \in {d \in Days : d > today} :
        /\ today' = day
        /\ said' = [d \in DOMAIN said \cup {today} |-> IF d = today THEN Lot!Arrears(today) ELSE said[d]]
        /\ UNCHANGED <<events, charges, adjustments, receipts, allocations>>
  BY Zenon DEF Lot!DayEnds
<1>2. day \in Nat /\ today \in Nat /\ today <= day /\ events' = events
  BY <1>1, LotAssumption DEF LotBooked
<1>3. /\ charges' = charges /\ adjustments' = adjustments /\ receipts' = receipts /\ allocations' = allocations
  BY <1>1
<1>4. \A k \in Levies : charges[k].issued.day <= day /\ charges[k].reversed.day <= day
  BY <1>2, LotMembers DEF LotBooked, Moments
<1>5. \A k \in DOMAIN adjustments : adjustments[k].at.day <= day
  BY <1>2, LotMembers DEF LotBooked, Moments, AdjustmentRows
<1>6. \A k \in DOMAIN receipts : receipts[k].at.day <= day /\ receipts[k].reversed.day <= day
  BY <1>2, LotMembers DEF LotBooked, Moments, ReceiptRecords
<1>7. \A k \in DOMAIN allocations : allocations[k].at.day <= day /\ allocations[k].reversed.day <= day
  BY <1>2, LotMembers DEF LotBooked, Moments, AllocationRecords
<1> QED
  BY <1>1, <1>2, <1>3, <1>4, <1>5, <1>6, <1>7, PaidUnchanged DEF LotBooked, Lot!Happened, Lot!Never

\* What of a receipt is applied is the sum of natural numbers.
LEMMA HeldAmounts ==
  ASSUME LotTypeOK, NEW r
  PROVE  IsFiniteSet(Held(r)) /\ \A a \in Held(r) : a \in DOMAIN allocations /\ allocations[a].amount \in Nat
<1>1. Held(r) \in SUBSET DOMAIN allocations /\ IsFiniteSet(DOMAIN allocations)
  BY LotMembers DEF Held
<1>2. IsFiniteSet(Held(r))
  BY <1>1, FS_Subset
<1>3. \A a \in DOMAIN allocations : allocations[a].amount \in Nat
  BY LotMembers, LotAssumption DEF AllocationRecords
<1> QED
  BY <1>1, <1>2, <1>3

LEMMA AllocationBooks ==
  ASSUME LotTypeOK, LotTypeOK', LotBooked, NEW r \in DOMAIN receipts, NEW i \in Levies, NEW amount \in Deposits,
         Lot!CreateAllocation(r, i, amount)
  PROVE  LotBooked'
<1>1. /\ today' = today /\ events' = events + 1
      /\ charges' = charges /\ adjustments' = adjustments /\ receipts' = receipts
      /\ ~Lot!Happened(receipts[r].reversed) /\ Lot!Happened(charges[i].issued)
      /\ amount <= receipts[r].amount - Lot!AppliedFrom(r, today)
  BY DEF Lot!CreateAllocation, Lot!MayAllocate, Lot!Open, Lot!Event
<1>2. PICK row : /\ row.receipt = r /\ row.to = i /\ row.amount = amount /\ row.at = Lot!Now /\ row.reversed = Lot!Never
                 /\ allocations' = Append(allocations, row)
  BY DEF Lot!CreateAllocation
<1>3. PICK n : n = Len(allocations) + 1
  OBVIOUS
<1>4. /\ DOMAIN allocations' = DOMAIN allocations \cup {n} /\ n \notin DOMAIN allocations
      /\ allocations'[n] = row /\ \A k \in DOMAIN allocations : allocations'[k] = allocations[k]
  BY <1>2, <1>3 DEF LotTypeOK
<1>5. \A q \in DOMAIN receipts : q # r => PaidFrom(q)' = PaidFrom(q)
  <2> SUFFICES ASSUME NEW q \in DOMAIN receipts, q # r PROVE PaidFrom(q)' = PaidFrom(q)
    OBVIOUS
  <2>1. \A k : /\ (k \in DOMAIN allocations' /\ allocations'[k].receipt = q /\ ~Lot!Happened(allocations'[k].reversed))
                     <=> (k \in DOMAIN allocations /\ allocations[k].receipt = q /\ ~Lot!Happened(allocations[k].reversed))
               /\ k \in DOMAIN allocations => allocations'[k].amount = allocations[k].amount
    BY <1>2, <1>4
  <2> QED
    BY <2>1, PaidSame
<1>6. PaidFrom(r)' = PaidFrom(r) + amount /\ PaidFrom(r) \in Int
  <2>1. PICK H : H = Held(r)
    OBVIOUS
  <2>2. IsFiniteSet(H) /\ \A a \in H : a \in DOMAIN allocations /\ allocations[a].amount \in Nat
    BY <2>1, HeldAmounts
  <2>3. {a \in DOMAIN allocations' : allocations'[a].receipt = r /\ ~Lot!Happened(allocations'[a].reversed)} = H \cup {n}
    BY <1>2, <1>4, <2>1, ThisMoment DEF Held
  <2>4. PICK f : f = [a \in H \cup {n} |-> allocations'[a].amount]
    OBVIOUS
  <2>5. PICK g : g = [a \in H |-> allocations[a].amount]
    OBVIOUS
  <2>6. PaidFrom(r)' = SumOver(f, H \cup {n})
    <3>1. PaidFrom(r)' =
            LET S == {a \in DOMAIN allocations' : allocations'[a].receipt = r /\ ~Lot!Happened(allocations'[a].reversed)}
            IN SumOver([a \in S |-> allocations'[a].amount], S)
      BY DEF PaidFrom, Held, Lot!Happened, Lot!Never, SumOver
    <3> QED
      BY <2>3, <2>4, <3>1, Zenon
  <2>7. PaidFrom(r) = SumOver(g, H)
    BY <2>1, <2>5 DEF PaidFrom
  <2>8. (\A a \in H : f[a] = g[a] /\ g[a] \in Nat) /\ f[n] = amount /\ amount \in Nat /\ n \notin H
    BY <1>2, <1>4, <2>2, <2>4, <2>5, LotAssumption
  <2>9. \A a \in H \cup {n} : f[a] \in Int
    BY <2>8
  <2>10. \A a \in H : g[a] \in Int /\ f[a] = g[a]
    BY <2>8
  <2>11. SumOver(f, H \cup {n}) = SumOver(f, H) + f[n]
    BY <2>2, <2>8, <2>9, SumAdd
  <2>12. SumOver(f, H) = SumOver(g, H) /\ SumOver(g, H) \in Int
    BY <2>2, <2>10, SumCongruent, SumType
  <2> QED
    BY <2>6, <2>7, <2>8, <2>11, <2>12
<1>7. \A q \in DOMAIN receipts : PaidFrom(q)' <= receipts[q].amount
  <2>1. Lot!AppliedFrom(r, today) = PaidFrom(r)
    BY AppliedEverywhere
  <2>2. \A q \in DOMAIN receipts : PaidFrom(q) <= receipts[q].amount
    BY DEF LotBooked
  <2>3. amount \in Int /\ receipts[r].amount \in Int
    BY LotMembers, LotAssumption DEF ReceiptRecords
  <2> QED
    BY <1>1, <1>5, <1>6, <2>1, <2>2, <2>3
<1>8. \A a \in DOMAIN allocations' :
        /\ Lot!Happened(allocations'[a].at) /\ allocations'[a].at.day <= today /\ allocations'[a].reversed.day <= today
        /\ allocations'[a].receipt \in DOMAIN receipts
        /\ Lot!Happened(charges[allocations'[a].to].issued)
        /\ Lot!Happened(receipts[allocations'[a].receipt].reversed) => Lot!Happened(allocations'[a].reversed)
  BY <1>1, <1>2, <1>4, ThisMoment DEF LotBooked
<1>9. /\ \A k \in Levies : charges[k].reversed.tick <= events + 1
      /\ \A q \in DOMAIN receipts : receipts[q].reversed.tick <= events + 1
  BY TicksGone
<1> QED
  BY <1>1, <1>7, <1>8, <1>9 DEF LotBooked, Lot!Happened, Lot!Never

LEMMA ReversalBooks ==
  ASSUME LotTypeOK, LotTypeOK', LotBooked, NEW b \in DOMAIN allocations, Lot!ReverseAllocation(b)
  PROVE  LotBooked'
<1>1. /\ today' = today /\ events' = events + 1
      /\ charges' = charges /\ adjustments' = adjustments /\ receipts' = receipts
      /\ ~Lot!Happened(allocations[b].reversed)
  BY DEF Lot!ReverseAllocation, Lot!Event
<1>2. PICK row : /\ row.receipt = allocations[b].receipt /\ row.to = allocations[b].to /\ row.amount = allocations[b].amount
                 /\ row.at = allocations[b].at /\ row.reversed = Lot!Now /\ allocations' = [allocations EXCEPT ![b] = row]
  <2> DEFINE new == [allocations[b] EXCEPT !.reversed = Lot!Now]
  <2>1. allocations' = [allocations EXCEPT ![b] = new]
    BY DEF Lot!ReverseAllocation
  <2>2. allocations[b] \in AllocationRecords
    BY LotMembers
  <2>3. /\ new.receipt = allocations[b].receipt /\ new.to = allocations[b].to /\ new.amount = allocations[b].amount
        /\ new.at = allocations[b].at /\ new.reversed = Lot!Now
    BY <2>2 DEF AllocationRecords
  <2> HIDE DEF new
  <2> QED
    BY <2>1, <2>3
<1>3. /\ DOMAIN allocations' = DOMAIN allocations
      /\ \A k \in DOMAIN allocations : allocations'[k] = IF k = b THEN row ELSE allocations[k]
  BY <1>2 DEF LotTypeOK
<1>4. ASSUME NEW q \in DOMAIN receipts PROVE PaidFrom(q)' <= PaidFrom(q) /\ PaidFrom(q)' \in Int /\ PaidFrom(q) \in Int
  <2>1. PICK H : H = Held(q)
    OBVIOUS
  <2>2. IsFiniteSet(H) /\ \A a \in H : a \in DOMAIN allocations /\ allocations[a].amount \in Nat
    BY <2>1, HeldAmounts
  <2>3. {a \in DOMAIN allocations' : allocations'[a].receipt = q /\ ~Lot!Happened(allocations'[a].reversed)} = H \ {b}
    BY <1>2, <1>3, <2>1, ThisMoment DEF Held
  <2>4. PICK g : g = [a \in H |-> allocations[a].amount]
    OBVIOUS
  <2>5. PICK f : f = [a \in H \ {b} |-> allocations'[a].amount]
    OBVIOUS
  <2>6. PaidFrom(q)' = SumOver(f, H \ {b})
    <3>1. PaidFrom(q)' =
            LET S == {a \in DOMAIN allocations' : allocations'[a].receipt = q /\ ~Lot!Happened(allocations'[a].reversed)}
            IN SumOver([a \in S |-> allocations'[a].amount], S)
      BY DEF PaidFrom, Held, Lot!Happened, Lot!Never, SumOver
    <3> QED
      BY <2>3, <2>5, <3>1, Zenon
  <2>7. PaidFrom(q) = SumOver(g, H)
    BY <2>1, <2>4 DEF PaidFrom
  <2>8. \A a \in H \ {b} : g[a] \in Int /\ f[a] = g[a]
    BY <1>3, <2>2, <2>4, <2>5
  <2>9. \A a \in H : g[a] \in Int /\ g[a] \in Nat
    BY <2>2, <2>4
  <2>10. IsFiniteSet(H \ {b})
    BY <2>2, FS_RemoveElement
  <2>11. SumOver(f, H \ {b}) = SumOver(g, H \ {b}) /\ SumOver(g, H \ {b}) \in Int
    BY <2>8, <2>10, SumCongruent, SumType
  <2>12. CASE b \in H
    <3>1. SumOver(g, H) = SumOver(g, H \ {b}) + g[b]
      BY <2>2, <2>9, <2>12, SumRemove
    <3> QED
      BY <2>6, <2>7, <2>9, <2>11, <2>12, <3>1
  <2>13. CASE b \notin H
    <3>1. H \ {b} = H
      BY <2>13
    <3> QED
      BY <2>6, <2>7, <2>11, <3>1
  <2> QED
    BY <2>12, <2>13
<1>5. ASSUME NEW q \in DOMAIN receipts PROVE PaidFrom(q)' <= receipts[q].amount
  <2>1. PaidFrom(q) <= receipts[q].amount
    BY DEF LotBooked
  <2>2. receipts[q].amount \in Int
    <3>1. receipts[q] \in ReceiptRecords
      BY LotMembers
    <3>2. receipts[q].amount \in Deposits
      BY <3>1 DEF ReceiptRecords
    <3>3. Deposits \subseteq Nat
      BY LotAssumption
    <3>4. receipts[q].amount \in Nat
      BY <3>2, <3>3, Zenon
    <3> QED
      BY <3>4
  <2>3. PaidFrom(q)' <= PaidFrom(q) /\ PaidFrom(q)' \in Int /\ PaidFrom(q) \in Int
    BY <1>4
  <2> QED
    BY <2>1, <2>2, <2>3
<1>6. \A a \in DOMAIN allocations :
        /\ Lot!Happened(allocations'[a].at) /\ allocations'[a].at.day <= today /\ allocations'[a].reversed.day <= today
        /\ allocations'[a].receipt \in DOMAIN receipts
        /\ Lot!Happened(charges[allocations'[a].to].issued)
        /\ Lot!Happened(receipts[allocations'[a].receipt].reversed) => Lot!Happened(allocations'[a].reversed)
  BY <1>2, <1>3, ThisMoment DEF LotBooked
<1>7. /\ \A k \in Levies : charges[k].reversed.tick <= events + 1
      /\ \A q \in DOMAIN receipts : receipts[q].reversed.tick <= events + 1
  BY TicksGone
<1> QED
  BY <1>1, <1>3, <1>5, <1>6, <1>7 DEF LotBooked, Lot!Happened, Lot!Never

\* Every step keeps the books.
LEMMA LotStaysBooked == LotTypeOK /\ LotTypeOK' /\ LotBooked /\ [Lot!Next]_(Lot!vars) => LotBooked'
<1> SUFFICES ASSUME LotTypeOK, LotTypeOK', LotBooked, [Lot!Next]_(Lot!vars) PROVE LotBooked'
  OBVIOUS
<1>1. CASE UNCHANGED Lot!vars
  <2>1. /\ today' = today /\ events' = events /\ charges' = charges /\ adjustments' = adjustments
        /\ receipts' = receipts /\ allocations' = allocations
    BY <1>1 DEF Lot!vars
  <2> QED
    BY <2>1, PaidUnchanged DEF LotBooked, Lot!Happened, Lot!Never
<1> QED
  BY <1>1, ChargeBooks, AdjustmentBooks, RecordBooks, AllocationBooks, ReversalBooks, ReverseReceiptBooks, DayBooks
  DEF Lot!Next

\* However backdated the receipts are, and whatever is adjusted, reversed and
\* taken back, what the two services tell a lot agrees: statements with each
\* other and with their movements, the funds with the balance, the summary with
\* the arrears, and the ledger with what is owed (LotLedgerService.buildLedger,
\* getStatement; ArrearsService.computeArrears, getSummary).
THEOREM ReportsAlwaysAgree == Lot!Spec => []ReportsAgree
<1>1. Lot!Init => LotSound /\ LotBooked
  BY BookedInit DEF Lot!Init, LotSound, LotTypeOK, ArrearsStand, Lot!ArrearsStand, Lot!Never, Moments
<1>2. LotSound /\ LotBooked /\ [Lot!Next]_(Lot!vars) => (LotSound /\ LotBooked)'
  <2>1. LotSound => LotTypeOK
    BY DEF LotSound
  <2>2. LotSound' => LotTypeOK'
    BY DEF LotSound
  <2> QED
    BY <2>1, <2>2, LotKeeps, LotStaysBooked
<1>3. LotSound /\ LotBooked => ReportsAgree
  BY ReportsHold DEF ReportsAgree, LotSound
<1> QED
  BY <1>1, <1>2, <1>3, PTL DEF Lot!Spec
=============================================================================
