------------------------- MODULE CollectionTheorems -------------------------
(***************************************************************************)
(* What module Collections computes, for every finite set, and how ranks,  *)
(* powers of ten and rounding count: facts proofs share.  A fact about all *)
(* finite sets is proved from a smallest set that it fails of.             *)
(***************************************************************************)
EXTENDS Collections, Sequences, FiniteSetTheorems, WellFoundedInduction, TLAPS

LEMMA Smallest ==
  ASSUME NEW T \in SUBSET Nat, T # {}
  PROVE  \E x \in T : \A y \in T : x <= y
<1> DEFINE R == {ss \in Nat \X Nat : ss[1] < ss[2]}
<1>1. IsWellFoundedOn(R, Nat)
  BY NatLessThanWellFounded DEF OpToRel
<1>2. \A p, q \in Nat : p < q => <<p, q>> \in R
  OBVIOUS
<1> HIDE DEF R
<1>3. PICK x \in T : \A y \in T : ~(<<y, x>> \in R)
  BY <1>1, WFMin
<1>4. \A y \in T : ~(y < x)
  BY <1>2, <1>3
<1> QED
  BY <1>3, <1>4

\* Of some finite sets, one is such that removing a member leads to none of them.
LEMMA SmallestSet ==
  ASSUME NEW S, IsFiniteSet(S), NEW B \in SUBSET SUBSET S, B # {}
  PROVE  \E T \in B : \A x \in T : T \ {x} \notin B
<1>1. \A T \in B : IsFiniteSet(T) /\ Cardinality(T) \in Nat
  BY FS_Subset, FS_CardinalityType
<1> DEFINE N == {Cardinality(T) : T \in B}
<1>2. PICK n \in N : \A m \in N : n <= m
  <2>1. N \in SUBSET Nat /\ N # {}
    BY <1>1
  <2> HIDE DEF N
  <2> QED
    BY <2>1, Smallest
<1>3. PICK T \in B : Cardinality(T) = n
  OBVIOUS
<1>4. ASSUME NEW x \in T, T \ {x} \in B PROVE FALSE
  <2>1. Cardinality(T \ {x}) = Cardinality(T) - 1
    BY <1>1, FS_RemoveElement
  <2>2. n <= Cardinality(T \ {x})
    BY <1>2, <1>4
  <2> QED
    BY <2>1, <2>2, <1>1, <1>3
<1> QED
  BY <1>4

LEMMA SetInduction ==
  ASSUME NEW S, IsFiniteSet(S), NEW G, {} \in G,
         \A T \in SUBSET S, x \in S : T \in G /\ x \notin T => T \cup {x} \in G
  PROVE  \A T \in SUBSET S : T \in G
<1> SUFFICES ASSUME NEW U \in SUBSET S, U \notin G PROVE FALSE
  OBVIOUS
<1> DEFINE B == {T \in SUBSET S : T \notin G}
<1>1. B \in SUBSET SUBSET S /\ B # {}
  OBVIOUS
<1>2. PICK T \in B : \A x \in T : T \ {x} \notin B
  <2> HIDE DEF B
  <2> QED
    BY <1>1, SmallestSet
<1>3. PICK x \in T : TRUE
  OBVIOUS
<1>4. T \ {x} \in SUBSET S /\ T \ {x} \in G /\ x \in S /\ x \notin T \ {x} /\ (T \ {x}) \cup {x} = T
  BY <1>2
<1> QED
  BY <1>4, Zenon

\* The sums of the subsets of S, given by adding member after member.
Additive(g, f, S) ==
  /\ g \in [SUBSET S -> Int] /\ g[{}] = 0
  /\ \A T \in SUBSET S, x \in S : x \notin T => g[T \cup {x}] = g[T] + f[x]

LEMMA AdditiveExists ==
  ASSUME NEW S, IsFiniteSet(S), NEW f, \A x \in S : f[x] \in Int
  PROVE  \E g : Additive(g, f, S)
<1> DEFINE G == {T \in SUBSET S : \E g : Additive(g, f, T)}
<1>1. {} \in G
  <2> DEFINE g == [T \in SUBSET {} |-> 0]
  <2>1. Additive(g, f, {})
    BY DEF Additive
  <2> QED
    BY <2>1
<1>2. ASSUME NEW T \in SUBSET S, NEW x \in S, T \in G, x \notin T PROVE T \cup {x} \in G
  <2>1. PICK h : Additive(h, f, T)
    BY <1>2
  <2> DEFINE g == [U \in SUBSET (T \cup {x}) |-> IF x \in U THEN h[U \ {x}] + f[x] ELSE h[U]]
  <2>2. \A U \in SUBSET (T \cup {x}) : U \ {x} \in SUBSET T /\ (x \notin U => U \in SUBSET T /\ U \ {x} = U)
    BY <1>2
  <2>3. h \in [SUBSET T -> Int] /\ f[x] \in Int
    BY <2>1 DEF Additive
  <2>4. g \in [SUBSET (T \cup {x}) -> Int]
    BY <2>2, <2>3
  <2>5. g[{}] = 0
    BY <2>1 DEF Additive
  <2>6. ASSUME NEW U \in SUBSET (T \cup {x}), NEW y \in T \cup {x}, y \notin U
        PROVE  g[U \cup {y}] = g[U] + f[y]
    <3>1. U \cup {y} \in SUBSET (T \cup {x}) /\ U \ {x} \in SUBSET T /\ h[U \ {x}] \in Int /\ f[y] \in Int
      BY <2>2, <2>3, <1>2
    <3>2. CASE y = x
      <4>1. (U \cup {y}) \ {x} = U /\ x \in U \cup {y} /\ x \notin U
        BY <2>6, <3>2
      <4> QED
        BY <3>1, <3>2, <4>1
    <3>3. CASE y # x /\ x \in U
      <4>1. /\ (U \cup {y}) \ {x} = (U \ {x}) \cup {y} /\ x \in U \cup {y} /\ y \in T /\ y \notin U \ {x}
        BY <2>6, <3>3
      <4>2. h[(U \ {x}) \cup {y}] = h[U \ {x}] + f[y]
        BY <4>1, <3>1, <2>1 DEF Additive
      <4> QED
        <5>1. g[U \cup {y}] = h[(U \ {x}) \cup {y}] + f[x]
          BY <3>1, <4>1
        <5>2. g[U] = h[U \ {x}] + f[x]
          BY <3>3
        <5> HIDE DEF g
        <5> QED
          BY <5>1, <5>2, <4>2, <3>1, <2>3
    <3>4. CASE y # x /\ x \notin U
      <4>1. x \notin U \cup {y} /\ y \in T /\ U \in SUBSET T
        BY <2>6, <3>4
      <4>2. h[U \cup {y}] = h[U] + f[y]
        BY <4>1, <2>6, <2>1 DEF Additive
      <4> QED
        BY <3>1, <3>4, <4>1, <4>2
    <3> QED
      BY <3>2, <3>3, <3>4
  <2>7. Additive(g, f, T \cup {x})
    <3> HIDE DEF g
    <3> QED
      BY <2>4, <2>5, <2>6 DEF Additive
  <2> QED
    BY <2>7
<1>3. S \in G
  <2> HIDE DEF G
  <2> QED
    BY <1>1, <1>2, SetInduction
<1> QED
  BY <1>3

LEMMA SumIsAdditive ==
  ASSUME NEW S, IsFiniteSet(S), NEW f, NEW g, Additive(g, f, S), NEW T \in SUBSET S, \A x \in S : f[x] \in Int
  PROVE  SumOver(f, T) = g[T]
<1> DEFINE Pick(U) == CHOOSE x \in U : TRUE
           Rec(s) == [U \in SUBSET T |-> IF U = {} THEN 0 ELSE f[Pick(U)] + s[U \ {Pick(U)}]]
           s == CHOOSE s : s = Rec(s)
<1>1. SumOver(f, T) = s[T]
  BY DEF SumOver
<1>2. ASSUME NEW U \in SUBSET T, U # {}
      PROVE  /\ Pick(U) \in U /\ U \ {Pick(U)} \in SUBSET T
             /\ g[U] = f[Pick(U)] + g[U \ {Pick(U)}]
  <2>1. Pick(U) \in U
    BY <1>2
  <2>2. /\ (U \ {Pick(U)}) \cup {Pick(U)} = U /\ U \ {Pick(U)} \in SUBSET S /\ Pick(U) \in S
        /\ Pick(U) \notin U \ {Pick(U)}
    BY <2>1
  <2> HIDE DEF Pick
  <2>3. g[(U \ {Pick(U)}) \cup {Pick(U)}] = g[U \ {Pick(U)}] + f[Pick(U)]
    BY <2>2 DEF Additive
  <2>4. g[U \ {Pick(U)}] \in Int /\ f[Pick(U)] \in Int
    BY <2>2 DEF Additive
  <2> QED
    <3>1. g[U] = g[U \ {Pick(U)}] + f[Pick(U)]
      BY <2>2, <2>3, Zenon
    <3>2. U \ {Pick(U)} \in SUBSET T
      OBVIOUS
    <3> QED
      BY <3>1, <3>2, <2>1, <2>4
<1> HIDE DEF Pick
<1>3. s = Rec(s)
  <2> DEFINE h == [U \in SUBSET T |-> g[U]]
  <2>1. ASSUME NEW U \in SUBSET T
        PROVE  h[U] = IF U = {} THEN 0 ELSE f[Pick(U)] + h[U \ {Pick(U)}]
    BY <1>2 DEF Additive
  <2>2. h = Rec(h)
    BY <2>1
  <2> HIDE DEF h, Rec
  <2> QED
    BY <2>2
<1> DEFINE B == {U \in SUBSET T : s[U] # g[U]}
<1>4. ASSUME B # {} PROVE FALSE
  <2>1. B \in SUBSET SUBSET T /\ IsFiniteSet(T)
    BY FS_Subset
  <2>2. PICK U \in B : \A x \in U : U \ {x} \notin B
    <3> HIDE DEF B
    <3> QED
      BY <1>4, <2>1, SmallestSet
  <2>3. U \in SUBSET T /\ s[U] # g[U]
    BY <2>2
  <2>4. s[U] = IF U = {} THEN 0 ELSE f[Pick(U)] + s[U \ {Pick(U)}]
    <3> HIDE DEF s
    <3> QED
      BY <1>3, <2>3
  <2> HIDE DEF s
  <2>5. U # {}
    BY <2>3, <2>4 DEF Additive
  <2>6. Pick(U) \in U /\ U \ {Pick(U)} \in SUBSET T /\ g[U] = f[Pick(U)] + g[U \ {Pick(U)}]
    BY <2>3, <2>5, <1>2
  <2>7. s[U \ {Pick(U)}] = g[U \ {Pick(U)}]
    BY <2>2, <2>6
  <2> QED
    BY <2>3, <2>4, <2>5, <2>6, <2>7
<1> HIDE DEF s
<1> QED
  BY <1>1, <1>4

LEMMA SumEmpty == ASSUME NEW f PROVE SumOver(f, {}) = 0
<1> DEFINE g == [T \in SUBSET {} |-> 0]
<1>1. Additive(g, f, {})
  BY DEF Additive
<1>2. SumOver(f, {}) = g[{}]
  <2> HIDE DEF g
  <2> QED
    BY <1>1, SumIsAdditive, FS_EmptySet
<1> QED
  BY <1>2

LEMMA SumType ==
  ASSUME NEW S, IsFiniteSet(S), NEW f, \A x \in S : f[x] \in Int
  PROVE  SumOver(f, S) \in Int
<1>1. PICK g : Additive(g, f, S)
  BY AdditiveExists
<1>2. SumOver(f, S) = g[S] /\ S \in SUBSET S
  BY <1>1, SumIsAdditive
<1> QED
  BY <1>1, <1>2 DEF Additive

LEMMA SumAdd ==
  ASSUME NEW S, IsFiniteSet(S), NEW x, x \notin S, NEW f, \A y \in S \cup {x} : f[y] \in Int
  PROVE  SumOver(f, S \cup {x}) = SumOver(f, S) + f[x]
<1>1. IsFiniteSet(S \cup {x})
  BY FS_AddElement
<1>2. PICK g : Additive(g, f, S \cup {x})
  BY <1>1, AdditiveExists
<1>3. SumOver(f, S) = g[S] /\ SumOver(f, S \cup {x}) = g[S \cup {x}]
  BY <1>1, <1>2, SumIsAdditive
<1> QED
  BY <1>2, <1>3 DEF Additive

LEMMA SumRemove ==
  ASSUME NEW S, IsFiniteSet(S), NEW x \in S, NEW f, \A y \in S : f[y] \in Int
  PROVE  SumOver(f, S) = SumOver(f, S \ {x}) + f[x]
<1>1. (S \ {x}) \cup {x} = S /\ IsFiniteSet(S \ {x}) /\ x \notin S \ {x}
  BY FS_RemoveElement
<1>2. SumOver(f, (S \ {x}) \cup {x}) = SumOver(f, S \ {x}) + f[x]
  BY <1>1, SumAdd
<1> QED
  BY <1>1, <1>2, Zenon

\* Every fact about a sum by adding one member after the other.
LEMMA SumCongruent ==
  ASSUME NEW S, IsFiniteSet(S), NEW f, NEW g, \A x \in S : f[x] \in Int /\ g[x] = f[x]
  PROVE  SumOver(g, S) = SumOver(f, S)
<1> DEFINE G == {T \in SUBSET S : SumOver(g, T) = SumOver(f, T)}
<1>1. {} \in G
  BY SumEmpty
<1>2. ASSUME NEW T \in SUBSET S, NEW x \in S, T \in G, x \notin T PROVE T \cup {x} \in G
  <2>1. IsFiniteSet(T)
    BY FS_Subset
  <2>2. \A y \in T \cup {x} : f[y] \in Int /\ g[y] \in Int
    OBVIOUS
  <2>3. SumOver(g, T \cup {x}) = SumOver(g, T) + g[x] /\ SumOver(f, T \cup {x}) = SumOver(f, T) + f[x]
    BY <1>2, <2>1, <2>2, SumAdd
  <2> QED
    BY <1>2, <2>3
<1>3. \A T \in SUBSET S : T \in G
  <2> HIDE DEF G
  <2> QED
    BY <1>1, <1>2, SetInduction
<1> QED
  BY <1>3

LEMMA SumPlus ==
  ASSUME NEW S, IsFiniteSet(S), NEW f, NEW g, NEW h,
         \A x \in S : f[x] \in Int /\ g[x] \in Int /\ h[x] = f[x] + g[x]
  PROVE  SumOver(h, S) = SumOver(f, S) + SumOver(g, S)
<1> DEFINE G == {T \in SUBSET S : SumOver(h, T) = SumOver(f, T) + SumOver(g, T)}
<1>1. {} \in G
  BY SumEmpty
<1>2. ASSUME NEW T \in SUBSET S, NEW x \in S, T \in G, x \notin T PROVE T \cup {x} \in G
  <2>1. IsFiniteSet(T)
    BY FS_Subset
  <2>2. SumOver(g, T) \in Int /\ SumOver(f, T) \in Int
    BY <2>1, SumType
  <2>3. h[x] \in Int /\ \A y \in T : h[y] \in Int
    OBVIOUS
  <2>4. /\ SumOver(g, T \cup {x}) = SumOver(g, T) + g[x]
        /\ SumOver(f, T \cup {x}) = SumOver(f, T) + f[x]
        /\ SumOver(h, T \cup {x}) = SumOver(h, T) + h[x]
    BY <1>2, <2>1, <2>3, SumAdd
  <2> QED
    BY <1>2, <2>2, <2>4
<1>3. \A T \in SUBSET S : T \in G
  <2> HIDE DEF G
  <2> QED
    BY <1>1, <1>2, SetInduction
<1> QED
  BY <1>3

LEMMA SumUnion ==
  ASSUME NEW S, IsFiniteSet(S), NEW A \in SUBSET S, NEW B \in SUBSET S, A \cap B = {},
         NEW f, \A x \in S : f[x] \in Int
  PROVE  SumOver(f, A \cup B) = SumOver(f, A) + SumOver(f, B)
<1> DEFINE G == {T \in SUBSET B : SumOver(f, A \cup T) = SumOver(f, A) + SumOver(f, T)}
<1>1. IsFiniteSet(A) /\ IsFiniteSet(B) /\ SumOver(f, A) \in Int
  BY FS_Subset, SumType
<1>2. {} \in G
  <2>1. A \cup {} = A /\ SumOver(f, {}) = 0
    BY SumEmpty
  <2> QED
    BY <2>1, <1>1
<1>3. ASSUME NEW T \in SUBSET B, NEW x \in B, T \in G, x \notin T PROVE T \cup {x} \in G
  <2>1. IsFiniteSet(T) /\ IsFiniteSet(A \cup T) /\ x \notin A \cup T /\ (A \cup T) \cup {x} = A \cup (T \cup {x})
    <3>1. IsFiniteSet(T) /\ IsFiniteSet(A \cup T)
      BY FS_Subset
    <3> QED
      BY <3>1, <1>3
  <2>2. SumOver(f, T) \in Int /\ f[x] \in Int
    BY <2>1, SumType
  <2>3. SumOver(f, T \cup {x}) = SumOver(f, T) + f[x]
    BY <1>3, <2>1, SumAdd
  <2>4. SumOver(f, (A \cup T) \cup {x}) = SumOver(f, A \cup T) + f[x]
    BY <2>1, SumAdd
  <2>5. SumOver(f, A \cup (T \cup {x})) = SumOver(f, A \cup T) + f[x]
    BY <2>1, <2>4, Zenon
  <2> QED
    BY <1>1, <1>3, <2>2, <2>3, <2>5
<1>4. B \in G
  <2> HIDE DEF G
  <2>1. \A T \in SUBSET B : T \in G
    BY <1>1, <1>2, <1>3, SetInduction
  <2> QED
    BY <2>1
<1> QED
  BY <1>4

\* What adds nothing makes no difference.
LEMMA SumZero ==
  ASSUME NEW S, IsFiniteSet(S), NEW f, \A x \in S : f[x] = 0
  PROVE  SumOver(f, S) = 0
<1> DEFINE G == {T \in SUBSET S : SumOver(f, T) = 0}
<1>1. {} \in G
  BY SumEmpty
<1>2. ASSUME NEW T \in SUBSET S, NEW x \in S, T \in G, x \notin T PROVE T \cup {x} \in G
  <2>1. IsFiniteSet(T)
    BY FS_Subset
  <2>2. \A y \in T \cup {x} : f[y] \in Int
    OBVIOUS
  <2>3. SumOver(f, T \cup {x}) = SumOver(f, T) + f[x]
    BY <1>2, <2>1, <2>2, SumAdd
  <2> QED
    BY <1>2, <2>3
<1>3. \A T \in SUBSET S : T \in G
  <2> HIDE DEF G
  <2> QED
    BY <1>1, <1>2, SetInduction
<1> QED
  BY <1>3

\* One summand changes, or a member that counted nothing joins in.
LEMMA SumChange ==
  ASSUME NEW S, IsFiniteSet(S), NEW x \in S, NEW f, NEW g,
         \A y \in S : f[y] \in Int /\ g[y] \in Int, \A y \in S \ {x} : g[y] = f[y]
  PROVE  SumOver(g, S) = SumOver(f, S) - f[x] + g[x]
<1>1. IsFiniteSet(S \ {x})
  BY FS_RemoveElement
<1>2. SumOver(g, S \ {x}) = SumOver(f, S \ {x})
  BY <1>1, SumCongruent
<1>3. SumOver(f, S \ {x}) \in Int
  BY <1>1, SumType
<1>4. SumOver(g, S) = SumOver(g, S \ {x}) + g[x] /\ SumOver(f, S) = SumOver(f, S \ {x}) + f[x]
  BY SumRemove
<1> QED
  BY <1>2, <1>3, <1>4
LEMMA SumNatural ==
  ASSUME NEW S, IsFiniteSet(S), NEW f, \A x \in S : f[x] \in Nat
  PROVE  SumOver(f, S) \in Nat
<1> DEFINE G == {T \in SUBSET S : SumOver(f, T) \in Nat}
<1>1. {} \in G
  BY SumEmpty
<1>2. ASSUME NEW T \in SUBSET S, NEW x \in S, T \in G, x \notin T PROVE T \cup {x} \in G
  <2>1. IsFiniteSet(T)
    BY FS_Subset
  <2>2. f[x] \in Nat /\ \A y \in T \cup {x} : f[y] \in Int
    OBVIOUS
  <2>3. SumOver(f, T \cup {x}) = SumOver(f, T) + f[x]
    BY <1>2, <2>1, <2>2, SumAdd
  <2> QED
    BY <1>2, <2>2, <2>3
<1>3. \A T \in SUBSET S : T \in G
  <2> HIDE DEF G
  <2> QED
    BY <1>1, <1>2, SetInduction
<1> QED
  BY <1>3

LEMMA SumMonotone ==
  ASSUME NEW S, IsFiniteSet(S), NEW f, NEW g, \A x \in S : f[x] \in Int /\ g[x] \in Int /\ f[x] <= g[x]
  PROVE  SumOver(f, S) <= SumOver(g, S)
<1> DEFINE h == [x \in S |-> g[x] - f[x]]
<1>1. \A x \in S : f[x] \in Int /\ h[x] \in Int /\ h[x] \in Nat /\ g[x] = f[x] + h[x]
  OBVIOUS
<1> HIDE DEF h
<1>2. SumOver(g, S) = SumOver(f, S) + SumOver(h, S)
  BY <1>1, SumPlus
<1>3. SumOver(f, S) \in Int /\ SumOver(h, S) \in Nat
  BY <1>1, SumType, SumNatural
<1> QED
  BY <1>2, <1>3
\* The F[i] are finitely many finite sets that have nothing in common, and U is
\* all they have.
Parts(U, I, F) ==
  /\ IsFiniteSet(I) /\ \A i \in I : IsFiniteSet(F[i])
  /\ \A x : x \in U <=> \E i \in I : x \in F[i]
  /\ \A i, j \in I : i # j => F[i] \cap F[j] = {}

\* A union of finitely many finite sets.
LEMMA PartsFinite ==
  ASSUME NEW U, NEW I, NEW F, Parts(U, I, F)
  PROVE  IsFiniteSet(U)
<1> DEFINE G == {T \in SUBSET I : IsFiniteSet(UNION {F[i] : i \in T})}
<1>1. {} \in G
  <2>1. UNION {F[i] : i \in {}} = {}
    OBVIOUS
  <2> QED
    BY <2>1, FS_EmptySet
<1>2. ASSUME NEW T \in SUBSET I, NEW x \in I, T \in G, x \notin T PROVE T \cup {x} \in G
  <2>1. UNION {F[i] : i \in T \cup {x}} = (UNION {F[i] : i \in T}) \cup F[x]
    OBVIOUS
  <2>2. IsFiniteSet((UNION {F[i] : i \in T}) \cup F[x])
    BY <1>2, FS_Union DEF Parts
  <2> QED
    BY <2>1, <2>2
<1>3. \A T \in SUBSET I : T \in G
  <2>1. IsFiniteSet(I)
    BY DEF Parts
  <2> HIDE DEF G
  <2> QED
    BY <1>1, <1>2, <2>1, SetInduction
<1>4. U = UNION {F[i] : i \in I}
  BY DEF Parts
<1>5. IsFiniteSet(UNION {F[i] : i \in I})
  BY <1>3
<1> QED
  BY <1>4, <1>5

\* What is added up part by part.
LEMMA SumParts ==
  ASSUME NEW U, NEW I, NEW F, Parts(U, I, F), NEW f, \A x \in U : f[x] \in Int,
         NEW h, \A i \in I : h[i] = SumOver(f, F[i])
  PROVE  SumOver(f, U) = SumOver(h, I)
<1> DEFINE G == {T \in SUBSET I : SumOver(f, UNION {F[i] : i \in T}) = SumOver(h, T)}
<1>0. /\ IsFiniteSet(U) /\ IsFiniteSet(I) /\ \A i \in I : F[i] \in SUBSET U
      /\ \A i, j \in I : i # j => F[i] \cap F[j] = {}
  BY PartsFinite DEF Parts
<1>1. {} \in G
  <2>1. UNION {F[i] : i \in {}} = {}
    OBVIOUS
  <2>2. SumOver(f, {}) = 0 /\ SumOver(h, {}) = 0
    BY SumEmpty
  <2> QED
    BY <2>1, <2>2
<1>2. \A i \in I : h[i] \in Int
  <2> SUFFICES ASSUME NEW i \in I PROVE h[i] \in Int
    OBVIOUS
  <2>1. IsFiniteSet(F[i]) /\ \A x \in F[i] : f[x] \in Int
    BY <1>0, FS_Subset
  <2> QED
    BY <2>1, SumType
<1>3. ASSUME NEW T \in SUBSET I, NEW x \in I, T \in G, x \notin T PROVE T \cup {x} \in G
  <2> DEFINE V == UNION {F[i] : i \in T}
  <2>1. UNION {F[i] : i \in T \cup {x}} = V \cup F[x]
    OBVIOUS
  <2>2. V \in SUBSET U /\ F[x] \in SUBSET U /\ V \cap F[x] = {}
    <3>1. \A i \in T : F[i] \cap F[x] = {} /\ F[i] \in SUBSET U
      BY <1>0, <1>3
    <3> QED
      BY <1>0, <3>1
  <2>3. SumOver(f, V) = SumOver(h, T)
    BY <1>3
  <2> HIDE DEF V
  <2>4. SumOver(f, V \cup F[x]) = SumOver(f, V) + SumOver(f, F[x])
    BY <1>0, <2>2, SumUnion
  <2>5. IsFiniteSet(T) /\ \A y \in T \cup {x} : h[y] \in Int
    BY <1>0, <1>2, FS_Subset
  <2>6. SumOver(h, T \cup {x}) = SumOver(h, T) + h[x]
    BY <1>3, <2>5, SumAdd
  <2>7. SumOver(f, UNION {F[i] : i \in T \cup {x}}) = SumOver(h, T \cup {x})
    BY <2>1, <2>3, <2>4, <2>6
  <2> QED
    BY <2>7
<1>4. \A T \in SUBSET I : T \in G
  <2> HIDE DEF G
  <2> QED
    BY <1>0, <1>1, <1>3, SetInduction
<1>5. U = UNION {F[i] : i \in I}
  BY DEF Parts
<1>6. SumOver(f, UNION {F[i] : i \in I}) = SumOver(h, I)
  BY <1>4
<1> QED
  BY <1>5, <1>6

\* Only what counts need be added up.
LEMMA SumWhere ==
  ASSUME NEW S, IsFiniteSet(S), NEW T \in SUBSET S, NEW f, \A x \in S : f[x] \in Int /\ (x \notin T => f[x] = 0),
         NEW g, \A x \in T : g[x] = f[x]
  PROVE  SumOver(f, S) = SumOver(g, T)
<1> DEFINE R == S \ T
<1>1. IsFiniteSet(T) /\ IsFiniteSet(R) /\ T \cup R = S /\ T \cap R = {} /\ R \in SUBSET S
  BY FS_Subset
<1>2. \A x \in R : f[x] = 0
  OBVIOUS
<1> HIDE DEF R
<1>3. SumOver(f, T \cup R) = SumOver(f, T) + SumOver(f, R)
  BY <1>1, SumUnion
<1>4. SumOver(f, R) = 0
  BY <1>1, <1>2, SumZero
<1>5. SumOver(g, T) = SumOver(f, T) /\ SumOver(f, T) \in Int
  BY <1>1, SumCongruent, SumType
<1>6. SumOver(f, S) = SumOver(f, T) + SumOver(f, R)
  BY <1>1, <1>3, Zenon
<1> QED
  BY <1>4, <1>5, <1>6

\* Every summand times the same number.
LEMMA SumScaled ==
  ASSUME NEW S, IsFiniteSet(S), NEW c \in Int, NEW f, NEW g, \A x \in S : f[x] \in Int /\ g[x] = c * f[x]
  PROVE  SumOver(g, S) = c * SumOver(f, S)
<1> DEFINE G == {T \in SUBSET S : SumOver(g, T) = c * SumOver(f, T)}
<1>0. \A p, q \in Int : c * p \in Int /\ c * p + c * q = c * (p + q)
  OBVIOUS
<1>1. {} \in G
  <2>1. SumOver(f, {}) = 0 /\ SumOver(g, {}) = 0
    BY SumEmpty
  <2> QED
    BY <2>1
<1>2. ASSUME NEW T \in SUBSET S, NEW x \in S, T \in G, x \notin T PROVE T \cup {x} \in G
  <2>1. IsFiniteSet(T)
    BY FS_Subset
  <2>2. \A y \in T \cup {x} : f[y] \in Int /\ g[y] \in Int
    BY <1>0
  <2>3. SumOver(f, T \cup {x}) = SumOver(f, T) + f[x]
    BY <1>2, <2>1, <2>2, SumAdd
  <2>4. SumOver(g, T \cup {x}) = SumOver(g, T) + g[x]
    BY <1>2, <2>1, <2>2, SumAdd
  <2>5. SumOver(f, T) \in Int
    BY <2>1, <2>2, SumType
  <2>6. SumOver(g, T) = c * SumOver(f, T) /\ g[x] = c * f[x] /\ f[x] \in Int
    BY <1>2
  <2>7. SumOver(g, T \cup {x}) = c * SumOver(f, T \cup {x})
    BY <1>0, <2>3, <2>4, <2>5, <2>6
  <2> QED
    BY <2>7
<1>3. \A T \in SUBSET S, x \in S : T \in G /\ x \notin T => T \cup {x} \in G
  BY <1>2
<1> HIDE DEF G
<1>4. \A T \in SUBSET S : T \in G
  BY <1>1, <1>3, SetInduction
<1>5. S \in G
  BY <1>4
<1> QED
  BY <1>5 DEF G

\* One for each of some members.
LEMMA SumOnes ==
  ASSUME NEW S, IsFiniteSet(S), NEW L \in SUBSET S, NEW f, \A x \in S : f[x] = IF x \in L THEN 1 ELSE 0
  PROVE  SumOver(f, S) = Cardinality(L)
<1> DEFINE G == {T \in SUBSET L : SumOver(f, T) = Cardinality(T)}
<1>0. IsFiniteSet(L)
  BY FS_Subset
<1>1. {} \in G
  BY SumEmpty, FS_EmptySet
<1>2. ASSUME NEW T \in SUBSET L, NEW x \in L, T \in G, x \notin T PROVE T \cup {x} \in G
  <2>1. IsFiniteSet(T) /\ Cardinality(T) \in Nat
    BY <1>0, FS_Subset, FS_CardinalityType
  <2>2. \A y \in T \cup {x} : f[y] \in Int /\ f[y] = 1
    OBVIOUS
  <2>3. SumOver(f, T \cup {x}) = SumOver(f, T) + f[x]
    BY <1>2, <2>1, <2>2, SumAdd
  <2>4. Cardinality(T \cup {x}) = Cardinality(T) + 1
    BY <1>2, <2>1, FS_AddElement
  <2> QED
    BY <1>2, <2>2, <2>3, <2>4
<1>3. SumOver(f, L) = Cardinality(L)
  <2>1. \A T \in SUBSET L, x \in L : T \in G /\ x \notin T => T \cup {x} \in G
    BY <1>2
  <2> HIDE DEF G
  <2>2. \A T \in SUBSET L : T \in G
    BY <1>0, <1>1, <2>1, SetInduction
  <2>3. L \in G
    BY <2>2
  <2> QED
    BY <2>3 DEF G
<1>4. SumOver(f, S) = SumOver(f, L)
  <2>1. \A x \in S : f[x] \in Int /\ (x \notin L => f[x] = 0)
    OBVIOUS
  <2> QED
    BY <2>1, SumWhere
<1> QED
  BY <1>3, <1>4

-----------------------------------------------------------------------------
(***************************************************************************)
(* Some numbers in their order, and a list picked by them.                 *)
(***************************************************************************)

Ascends(s, S) ==
  /\ \A j, k \in 1..Cardinality(S) : j < k => s[j] < s[k]
  /\ \A x \in S : \E k \in 1..Cardinality(S) : s[k] = x

LEMMA AscendingExists ==
  ASSUME NEW S \in SUBSET Nat, IsFiniteSet(S)
  PROVE  \E s \in [1..Cardinality(S) -> S] : Ascends(s, S)
<1> DEFINE B == {T \in SUBSET S : ~\E s \in [1..Cardinality(T) -> T] : Ascends(s, T)}
<1> SUFFICES ASSUME B # {} PROVE FALSE
  OBVIOUS
<1>1. PICK T \in B : \A x \in T : T \ {x} \notin B
  <2>1. B \in SUBSET SUBSET S
    OBVIOUS
  <2> HIDE DEF B
  <2> QED
    BY <2>1, SmallestSet
<1>2. IsFiniteSet(T) /\ T \in SUBSET Nat /\ Cardinality(T) \in Nat
  BY FS_Subset, FS_CardinalityType
<1>3. ~\E s \in [1..Cardinality(T) -> T] : Ascends(s, T)
  OBVIOUS
<1>4. T # {}
  <2> SUFFICES ASSUME T = {} PROVE FALSE
    OBVIOUS
  <2>1. Cardinality(T) = 0
    BY FS_EmptySet
  <2> DEFINE s == [k \in 1..Cardinality(T) |-> k]
  <2>2. s \in [1..Cardinality(T) -> T] /\ Ascends(s, T)
    BY <2>1 DEF Ascends
  <2> QED
    BY <2>2, <1>3
<1>5. PICK m \in T : \A y \in T : m <= y
  BY <1>2, <1>4, Smallest
<1> DEFINE U == T \ {m}
           n == Cardinality(U)
<1>6. U \notin B /\ U \in SUBSET S
  BY <1>1
<1>7. PICK s \in [1..n -> U] : Ascends(s, U)
  BY <1>6
<1>8. Cardinality(T) = n + 1 /\ n \in Nat
  <2>1. Cardinality(T \ {m}) = Cardinality(T) - 1 /\ IsFiniteSet(T \ {m})
    BY <1>2, FS_RemoveElement
  <2>2. n = Cardinality(T) - 1 /\ n \in Nat
    BY <2>1, FS_CardinalityType
  <2> HIDE DEF n
  <2> QED
    BY <2>2, <1>2
<1>13. /\ s \in [1..n -> U] /\ \A j, k \in 1..n : j < k => s[j] < s[k]
       /\ \A x \in U : \E k \in 1..n : s[k] = x
  BY <1>7 DEF Ascends
<1> HIDE DEF n, B
<1> DEFINE t == [k \in 1..(n + 1) |-> IF k = 1 THEN m ELSE s[k - 1]]
<1>9. t \in [1..(n + 1) -> T]
  <2>1. \A k \in 1..(n + 1) : k # 1 => k - 1 \in 1..n
    BY <1>8
  <2>2. \A k \in 1..n : s[k] \in T
    BY <1>13
  <2> QED
    BY <2>1, <2>2, <1>5
<1>10. \A j, k \in 1..(n + 1) : j < k => t[j] < t[k]
  <2> SUFFICES ASSUME NEW j \in 1..(n + 1), NEW k \in 1..(n + 1), j < k PROVE t[j] < t[k]
    OBVIOUS
  <2>1. k - 1 \in 1..n /\ t[k] = s[k - 1] /\ s[k - 1] \in U
    <3>1. k - 1 \in 1..n /\ k # 1
      BY <1>8
    <3> QED
      BY <3>1, <1>13
  <2>2. CASE j = 1
    <3>1. t[j] = m /\ m <= s[k - 1] /\ m # s[k - 1]
      BY <2>1, <2>2, <1>5
    <3>2. m \in Nat /\ s[k - 1] \in Nat
      BY <1>2, <2>1
    <3> QED
      BY <3>1, <3>2, <2>1
  <2>3. CASE j # 1
    <3>1. j - 1 \in 1..n /\ j - 1 < k - 1
      BY <2>3, <1>8
    <3>2. t[j] = s[j - 1]
      BY <2>3
    <3>3. s[j - 1] < s[k - 1]
      BY <3>1, <2>1, <1>13
    <3> QED
      BY <3>2, <3>3, <2>1
  <2> QED
    BY <2>2, <2>3
<1>11. ASSUME NEW x \in T PROVE \E k \in 1..(n + 1) : t[k] = x
  <2>1. CASE x = m
    <3>1. 1 \in 1..(n + 1) /\ t[1] = m
      BY <1>8
    <3> QED
      BY <3>1, <2>1
  <2>2. CASE x # m
    <3>1. PICK k \in 1..n : s[k] = x
      BY <2>2, <1>13
    <3>2. k + 1 \in 1..(n + 1) /\ k + 1 # 1 /\ (k + 1) - 1 = k
      BY <1>8
    <3>3. t[k + 1] = x
      BY <3>1, <3>2
    <3> QED
      BY <3>2, <3>3
  <2> QED
    BY <2>1, <2>2
<1>12. t \in [1..Cardinality(T) -> T] /\ Ascends(t, T)
  <2> HIDE DEF t
  <2> QED
    BY <1>8, <1>9, <1>10, <1>11 DEF Ascends
<1> QED
  BY <1>12, <1>3

LEMMA AscendingOrder ==
  ASSUME NEW S \in SUBSET Nat, IsFiniteSet(S)
  PROVE  Ascending(S) \in [1..Cardinality(S) -> S] /\ Ascends(Ascending(S), S)
<1>1. Ascending(S) = CHOOSE s \in [1..Cardinality(S) -> S] : Ascends(s, S)
  BY DEF Ascending, Ascends
<1> QED
  BY <1>1, AscendingExists, Zenon

LEMMA PickedHas ==
  ASSUME NEW S \in SUBSET Nat, IsFiniteSet(S), NEW list
  PROVE  /\ Cardinality(S) \in Nat /\ DOMAIN Picked(list, S) = 1..Cardinality(S)
         /\ \A k \in 1..Cardinality(S) : Ascending(S)[k] \in S /\ Picked(list, S)[k] = list[Ascending(S)[k]]
         /\ \A j, k \in 1..Cardinality(S) : j < k => Ascending(S)[j] < Ascending(S)[k]
         /\ \A x \in S : \E k \in 1..Cardinality(S) : Ascending(S)[k] = x /\ Picked(list, S)[k] = list[x]
<1>1. Ascending(S) \in [1..Cardinality(S) -> S] /\ Ascends(Ascending(S), S)
  BY AscendingOrder
<1>2. Cardinality(S) \in Nat
  BY FS_CardinalityType
<1>3. Picked(list, S) = [n \in 1..Cardinality(S) |-> list[Ascending(S)[n]]]
  BY DEF Picked
<1> QED
  BY <1>1, <1>2, <1>3 DEF Ascends

-----------------------------------------------------------------------------
(***************************************************************************)
(* Lists, of whatever they are lists.                                      *)
(***************************************************************************)
IsList(s) == \E X : s \in Seq(X)

LEMMA ListHas ==
  ASSUME NEW s, IsList(s)
  PROVE  Len(s) \in Nat /\ DOMAIN s = 1..Len(s)
<1>1. PICK X : s \in Seq(X)
  BY DEF IsList
<1> QED
  BY <1>1

LEMMA ListOf ==
  ASSUME NEW f, NEW n \in Nat, f = [k \in 1..n |-> f[k]]
  PROVE  IsList(f) /\ Len(f) = n
<1> DEFINE X == {f[k] : k \in 1..n}
<1>1. f \in [1..n -> X]
  OBVIOUS
<1>2. f \in Seq(X) /\ Len(f) = n
  <2> HIDE DEF X
  <2> QED
    BY <1>1
<1> QED
  BY <1>2 DEF IsList

LEMMA ListAppend ==
  ASSUME NEW s, IsList(s), NEW x
  PROVE  /\ IsList(Append(s, x)) /\ Len(Append(s, x)) = Len(s) + 1
         /\ \A k \in 1..Len(s) : Append(s, x)[k] = s[k]
         /\ Append(s, x)[Len(s) + 1] = x
<1>1. PICK X : s \in Seq(X)
  BY DEF IsList
<1> DEFINE Y == X \cup {x}
<1>2. s \in Seq(Y) /\ x \in Y
  BY <1>1
<1> HIDE DEF Y
<1>3. Append(s, x) \in Seq(Y)
  BY <1>2
<1> QED
  BY <1>2, <1>3 DEF IsList

LEMMA ListJoin ==
  ASSUME NEW s, IsList(s), NEW t, IsList(t)
  PROVE  /\ IsList(s \o t) /\ Len(s \o t) = Len(s) + Len(t)
         /\ \A k \in 1..Len(s) : (s \o t)[k] = s[k]
         /\ \A k \in 1..Len(t) : (s \o t)[Len(s) + k] = t[k]
<1>1. PICK X : s \in Seq(X)
  BY DEF IsList
<1>2. PICK Z : t \in Seq(Z)
  BY DEF IsList
<1> DEFINE Y == X \cup Z
<1>3. s \in Seq(Y) /\ t \in Seq(Y)
  BY <1>1, <1>2
<1> HIDE DEF Y
<1>4. s \o t \in Seq(Y)
  BY <1>3
<1> QED
  BY <1>3, <1>4 DEF IsList

-----------------------------------------------------------------------------
\* R puts members of S before others, never round in a circle.
StrictOrder(R, S) ==
  /\ \A x \in S : <<x, x>> \notin R
  /\ \A x, y, z \in S : <<x, y>> \in R /\ <<y, z>> \in R => <<x, z>> \in R

\* It leaves no two of them apart.
TotalOrder(R, S) ==
  StrictOrder(R, S) /\ \A x, y \in S : x # y => <<x, y>> \in R \/ <<y, x>> \in R

\* How many come before x.
Rank(x, R, S) == Cardinality({y \in S : <<y, x>> \in R})

\* Ranks are below the number of members, and in their order.
LEMMA RankIs ==
  ASSUME NEW S, IsFiniteSet(S), NEW R, StrictOrder(R, S)
  PROVE  /\ \A x \in S : Rank(x, R, S) \in 0 .. (Cardinality(S) - 1)
         /\ \A x, y \in S : <<x, y>> \in R => Rank(x, R, S) < Rank(y, R, S)
<1> DEFINE B(x) == {y \in S : <<y, x>> \in R}
<1>1. \A x \in S : IsFiniteSet(B(x)) /\ Cardinality(B(x)) \in Nat /\ B(x) \in SUBSET S /\ x \notin B(x)
  <2> TAKE x \in S
  <2>1. B(x) \in SUBSET S /\ x \notin B(x)
    BY DEF StrictOrder
  <2> HIDE DEF B
  <2>2. IsFiniteSet(B(x))
    BY <2>1, FS_Subset
  <2> QED
    BY <2>1, <2>2, FS_CardinalityType
<1>2. \A x, y \in S : <<x, y>> \in R => B(x) \cup {x} \in SUBSET B(y)
  BY DEF StrictOrder
<1>3. \A x \in S : Rank(x, R, S) = Cardinality(B(x))
  BY DEF Rank
<1> HIDE DEF B
<1>4. ASSUME NEW x \in S, NEW V, IsFiniteSet(V), B(x) \cup {x} \in SUBSET V
      PROVE  Cardinality(B(x)) + 1 <= Cardinality(V) /\ Cardinality(V) \in Nat
  <2>1. Cardinality(B(x) \cup {x}) = Cardinality(B(x)) + 1
    BY <1>1, FS_AddElement
  <2>2. Cardinality(B(x) \cup {x}) <= Cardinality(V) /\ Cardinality(V) \in Nat
    BY <1>4, FS_Subset, FS_CardinalityType
  <2> QED
    BY <2>1, <2>2
<1>5. ASSUME NEW x \in S PROVE Cardinality(B(x)) \in 0 .. (Cardinality(S) - 1)
  <2>1. B(x) \cup {x} \in SUBSET S
    BY <1>1
  <2>2. Cardinality(B(x)) + 1 <= Cardinality(S) /\ Cardinality(S) \in Nat
    BY <1>4, <2>1
  <2> QED
    BY <1>1, <2>2
<1>6. ASSUME NEW x \in S, NEW y \in S, <<x, y>> \in R PROVE Cardinality(B(x)) < Cardinality(B(y))
  <2>1. B(x) \cup {x} \in SUBSET B(y) /\ IsFiniteSet(B(y))
    BY <1>1, <1>2, <1>6
  <2>2. Cardinality(B(x)) + 1 <= Cardinality(B(y)) /\ Cardinality(B(y)) \in Nat
    BY <1>4, <2>1
  <2> QED
    BY <1>1, <2>2
<1> QED
  BY <1>3, <1>5, <1>6

\* Some member comes before no other.
LEMMA LastMember ==
  ASSUME NEW S, IsFiniteSet(S), S # {}, NEW R, StrictOrder(R, S)
  PROVE  \E x \in S : \A y \in S : <<x, y>> \notin R
<1> DEFINE N == {Cardinality(S) - Rank(x, R, S) : x \in S}
<1>1. /\ \A x \in S : Rank(x, R, S) \in 0 .. (Cardinality(S) - 1)
      /\ \A x, y \in S : <<x, y>> \in R => Rank(x, R, S) < Rank(y, R, S)
  BY RankIs
<1>2. Cardinality(S) \in Nat
  BY FS_CardinalityType
<1>3. PICK n \in N : \A m \in N : n <= m
  <2>1. N \in SUBSET Nat /\ N # {}
    BY <1>1, <1>2
  <2> HIDE DEF N
  <2> QED
    BY <2>1, Smallest
<1>4. PICK x \in S : n = Cardinality(S) - Rank(x, R, S)
  OBVIOUS
<1>5. ASSUME NEW y \in S, <<x, y>> \in R PROVE FALSE
  <2>1. Rank(x, R, S) < Rank(y, R, S) /\ Rank(x, R, S) \in Int /\ Rank(y, R, S) \in Int
    BY <1>1, <1>5
  <2>2. n <= Cardinality(S) - Rank(y, R, S)
    BY <1>3
  <2> QED
    BY <1>2, <1>4, <2>1, <2>2
<1> QED
  BY <1>5

\* All members of S, none twice, and none behind one it comes before.
SortedBy(list, R, S) ==
  /\ list \in [1 .. Cardinality(S) -> S]
  /\ \A j, k \in 1 .. Cardinality(S) : j # k => list[j] # list[k]
  /\ \A j, k \in 1 .. Cardinality(S) : j < k => <<list[k], list[j]>> \notin R

\* Whatever is finite can be sorted.
LEMMA SortedExists ==
  ASSUME NEW S, IsFiniteSet(S), NEW R, StrictOrder(R, S)
  PROVE  \E list : SortedBy(list, R, S)
<1> SUFFICES ASSUME ~\E list : SortedBy(list, R, S) PROVE FALSE
  OBVIOUS
<1> DEFINE B == {T \in SUBSET S : ~\E list : SortedBy(list, R, T)}
<1>1. PICK T \in B : \A x \in T : T \ {x} \notin B
  <2>1. B \in SUBSET SUBSET S /\ B # {}
    OBVIOUS
  <2> HIDE DEF B
  <2> QED
    BY <2>1, SmallestSet
<1>2. T \in SUBSET S /\ IsFiniteSet(T) /\ StrictOrder(R, T) /\ Cardinality(T) \in Nat
  <2>1. T \in SUBSET S
    OBVIOUS
  <2>2. IsFiniteSet(T)
    BY <2>1, FS_Subset
  <2>3. StrictOrder(R, T)
    BY <2>1 DEF StrictOrder
  <2> QED
    BY <2>1, <2>2, <2>3, FS_CardinalityType
<1>3. T # {}
  <2>1. ASSUME T = {} PROVE SortedBy([k \in {} |-> 0], R, T)
    <3>1. Cardinality(T) = 0
      BY <2>1, FS_EmptySet
    <3>2. 1 .. Cardinality(T) = {}
      BY <3>1
    <3> QED
      BY <3>2 DEF SortedBy
  <2> QED
    BY <2>1
<1>4. PICK x \in T : \A y \in T : <<x, y>> \notin R
  BY <1>2, <1>3, LastMember
<1>5. PICK s : SortedBy(s, R, T \ {x})
  BY <1>1
<1>6. PICK n \in Nat : n = Cardinality(T \ {x}) /\ Cardinality(T) = n + 1
  <2>1. Cardinality(T \ {x}) = Cardinality(T) - 1 /\ IsFiniteSet(T \ {x})
    BY <1>2, FS_RemoveElement
  <2>2. Cardinality(T \ {x}) \in Nat
    BY <2>1, FS_CardinalityType
  <2> QED
    BY <1>2, <2>1, <2>2
<1> DEFINE list == [k \in 1 .. n + 1 |-> IF k = n + 1 THEN x ELSE s[k]]
<1>7. /\ \A k \in 1 .. n : s[k] \in T /\ s[k] # x
      /\ \A j, k \in 1 .. n : j # k => s[j] # s[k]
      /\ \A j, k \in 1 .. n : j < k => <<s[k], s[j]>> \notin R
  BY <1>5, <1>6 DEF SortedBy
<1>8. list[n + 1] = x /\ \A k \in 1 .. n : list[k] = s[k]
  OBVIOUS
<1>9. \A k \in 1 .. n + 1 : k = n + 1 \/ k \in 1 .. n
  OBVIOUS
<1>10. list \in [1 .. n + 1 -> T]
  BY <1>7, <1>9
<1> HIDE DEF list
<1>11. \A j, k \in 1 .. n + 1 : j # k => list[j] # list[k]
  BY <1>7, <1>8, <1>9
<1>12. \A j, k \in 1 .. n + 1 : j < k => <<list[k], list[j]>> \notin R
  <2> SUFFICES ASSUME NEW j \in 1 .. n + 1, NEW k \in 1 .. n + 1, j < k PROVE <<list[k], list[j]>> \notin R
    OBVIOUS
  <2>1. j \in 1 .. n
    OBVIOUS
  <2>2. CASE k = n + 1
    BY <1>4, <1>7, <1>8, <2>1, <2>2
  <2>3. CASE k \in 1 .. n
    BY <1>7, <1>8, <2>1, <2>3
  <2> QED
    BY <1>9, <2>2, <2>3
<1>13. SortedBy(list, R, T)
  BY <1>6, <1>10, <1>11, <1>12 DEF SortedBy
<1> QED
  BY <1>13

\* So many members have a rank below n.
LEMMA FirstRanks ==
  ASSUME NEW S, IsFiniteSet(S), NEW R, TotalOrder(R, S), NEW n \in Nat, n <= Cardinality(S)
  PROVE  Cardinality({x \in S : Rank(x, R, S) < n}) = n
<1> DEFINE N == Cardinality(S)
           I == 0 .. (N - 1)
           rank == [x \in S |-> Rank(x, R, S)]
           L == {x \in S : Rank(x, R, S) < n}
           J == 0 .. (n - 1)
           low == [x \in L |-> Rank(x, R, S)]
<1>1. N \in Nat /\ IsFiniteSet(I) /\ Cardinality(I) = N /\ IsFiniteSet(J) /\ Cardinality(J) = n
  <2>1. N \in Nat
    BY FS_CardinalityType
  <2> HIDE DEF N
  <2>2. ASSUME NEW m \in Nat PROVE IsFiniteSet(0 .. (m - 1)) /\ Cardinality(0 .. (m - 1)) = m
    <3>1. 0 \in Int /\ m - 1 \in Int
      OBVIOUS
    <3>2. PICK k \in Int : k = m - 1
      BY <3>1
    <3>3. IsFiniteSet(0 .. k) /\ Cardinality(0 .. k) = IF 0 > k THEN 0 ELSE k - 0 + 1
      BY <3>1, FS_Interval
    <3> QED
      BY <3>2, <3>3
  <2> QED
    BY <2>1, <2>2
<1>2. /\ \A x \in S : Rank(x, R, S) \in I
      /\ \A x, y \in S : <<x, y>> \in R => Rank(x, R, S) < Rank(y, R, S)
  BY RankIs DEF TotalOrder
<1>3. \A x, y \in S : Rank(x, R, S) = Rank(y, R, S) => x = y
  <2> SUFFICES ASSUME NEW x \in S, NEW y \in S, Rank(x, R, S) = Rank(y, R, S), x # y PROVE FALSE
    OBVIOUS
  <2>1. Rank(x, R, S) \in Int /\ Rank(y, R, S) \in Int
    BY <1>2
  <2>2. <<x, y>> \in R \/ <<y, x>> \in R
    BY DEF TotalOrder
  <2>3. Rank(x, R, S) < Rank(y, R, S) \/ Rank(y, R, S) < Rank(x, R, S)
    BY <1>2, <2>2
  <2> QED
    BY <2>1, <2>3
<1>4. rank \in Injection(S, I)
  BY <1>2, <1>3 DEF Injection, IsInjective
<1>5. rank \in Surjection(S, I)
  <2> HIDE DEF rank, I, N
  <2>1. Cardinality(S) = Cardinality(I)
    BY <1>1 DEF N
  <2> QED
    BY <1>1, <1>4, <2>1, FS_Injection
<1>6. \A i \in I : \E x \in S : Rank(x, R, S) = i
  BY <1>5 DEF Surjection
<1>7. low \in Bijection(L, J)
  <2>1. \A x \in L : low[x] \in J
    BY <1>1, <1>2
  <2>2. \A j \in J : \E x \in L : low[x] = j
    <3>1. \A j \in J : j \in I /\ j < n
      BY <1>1
    <3> QED
      BY <1>6, <3>1
  <2>3. \A x, y \in L : low[x] = low[y] => x = y
    BY <1>3
  <2>4. low = [x \in L |-> low[x]]
    OBVIOUS
  <2> HIDE DEF low, J, L
  <2>5. low \in [L -> J]
    BY <2>1, <2>4
  <2> QED
    BY <2>2, <2>3, <2>5 DEF Bijection, Injection, IsInjective, Surjection
<1>8. IsFiniteSet(L)
  <2>1. L \in SUBSET S
    OBVIOUS
  <2> QED
    BY <2>1, FS_Subset
<1> HIDE DEF low, L, J
<1>9. Cardinality(J) = Cardinality(L)
  BY <1>7, <1>8, FS_Bijection DEF ExistsBijection
<1> QED
  BY <1>1, <1>9 DEF L

-----------------------------------------------------------------------------
\* Factors are compared as their products are.
LEMMA Products ==
  /\ \A a, b, c \in Int : a <= b /\ c >= 0 => a * c <= b * c
  /\ \A a, b, c \in Int : a * c < b * c /\ c >= 0 => a < b
  /\ \A a, b, c \in Int : a * c <= b * c /\ c > 0 => a <= b
<1>1. ASSUME NEW d \in Int, NEW c \in Int, d >= 0, c >= 0 PROVE d * c >= 0
  BY <1>1
<1>2. ASSUME NEW a \in Int, NEW b \in Int, NEW c \in Int, a <= b, c >= 0 PROVE a * c <= b * c
  <2>1. (b - a) * c >= 0
    BY <1>1, <1>2
  <2>2. (b - a) * c = b * c - a * c
    OBVIOUS
  <2> QED
    BY <2>1, <2>2
<1>3. ASSUME NEW a \in Int, NEW b \in Int, NEW c \in Int, a * c < b * c, c >= 0 PROVE a < b
  <2>1. b <= a => b * c <= a * c
    BY <1>2, <1>3
  <2> QED
    BY <1>3, <2>1
<1>4. ASSUME NEW a \in Int, NEW b \in Int, NEW c \in Int, a * c <= b * c, c > 0 PROVE a <= b
  <2>1. ASSUME a >= b + 1 PROVE FALSE
    <3>1. (b + 1) * c <= a * c
      BY <1>2, <1>4, <2>1
    <3>2. (b + 1) * c = b * c + c
      OBVIOUS
    <3> QED
      BY <1>4, <3>1, <3>2
  <2> QED
    BY <2>1
<1> QED
  BY <1>2, <1>3, <1>4

\* The powers of ten are what their definition by recursion says.
LEMMA TenToIs == \A k \in Nat : TenTo[k] = IF k = 0 THEN 1 ELSE 10 * TenTo[k - 1]
<1> DEFINE Rec(s) == [k \in Nat |-> IF k = 0 THEN 1 ELSE 10 * s[k - 1]]
           Begins(s, n) == s[0] = 1 /\ \A k \in 1..n : s[k] = 10 * s[k - 1]
<1>1. \A n \in Nat : \E s : Begins(s, n)
  <2> SUFFICES ASSUME NEW m \in Nat, ~\E s : Begins(s, m) PROVE FALSE
    OBVIOUS
  <2> DEFINE T == {n \in Nat : ~\E s : Begins(s, n)}
  <2>1. PICK n \in T : \A k \in T : n <= k
    <3>1. T \in SUBSET Nat /\ T # {}
      OBVIOUS
    <3> HIDE DEF T
    <3> QED
      BY <3>1, Smallest
  <2>2. n # 0
    <3>1. Begins([k \in {0} |-> 1], 0)
      OBVIOUS
    <3> QED
      BY <3>1
  <2>3. PICK s : Begins(s, n - 1)
    BY <2>1, <2>2
  <2>4. Begins([k \in 0..n |-> IF k = n THEN 10 * s[n - 1] ELSE s[k]], n)
    BY <2>1, <2>2, <2>3
  <2> QED
    BY <2>1, <2>4
<1>2. \A n, m \in Nat : \A s, t : n <= m /\ Begins(s, n) /\ Begins(t, m) => s[n] = t[n]
  <2> SUFFICES ASSUME NEW i \in Nat, NEW m \in Nat, NEW s, NEW t,
                      i <= m, Begins(s, i), Begins(t, m), s[i] # t[i]
               PROVE  FALSE
    OBVIOUS
  <2> DEFINE T == {n \in Nat : n <= i /\ s[n] # t[n]}
  <2>1. PICK n \in T : \A k \in T : n <= k
    <3>1. T \in SUBSET Nat /\ T # {}
      OBVIOUS
    <3> HIDE DEF T
    <3> QED
      BY <3>1, Smallest
  <2>2. n # 0
    BY <2>1
  <2>3. s[n - 1] = t[n - 1]
    BY <2>1, <2>2
  <2> QED
    BY <2>1, <2>2, <2>3
<1> QED
  <2> DEFINE Of(n) == CHOOSE s : Begins(s, n)
             f == [k \in Nat |-> Of(k)[k]]
  <2>1. \A n \in Nat : Begins(Of(n), n)
    BY <1>1
  <2>2. f[0] = 1
    BY <2>1
  <2>3. \A n \in Nat : n # 0 => f[n] = 10 * f[n - 1]
    <3> SUFFICES ASSUME NEW n \in Nat, n # 0 PROVE Of(n)[n] = 10 * Of(n - 1)[n - 1]
      OBVIOUS
    <3>1. Begins(Of(n), n) /\ Begins(Of(n - 1), n - 1)
      BY <2>1
    <3>2. Of(n)[n - 1] = Of(n - 1)[n - 1]
      <4> HIDE DEF Of, Begins
      <4> QED
        BY <1>2, <3>1
    <3> HIDE DEF Of
    <3> QED
      BY <3>1, <3>2
  <2>4. f = Rec(f)
    <3>1. f = [k \in Nat |-> f[k]]
      OBVIOUS
    <3> HIDE DEF f
    <3>2. \A n \in Nat : f[n] = IF n = 0 THEN 1 ELSE 10 * f[n - 1]
      BY <2>2, <2>3
    <3> QED
      BY <3>1, <3>2
  <2>5. TenTo = CHOOSE s : s = Rec(s)
    BY DEF TenTo
  <2>6. TenTo = Rec(TenTo)
    <3> HIDE DEF f, Rec
    <3> QED
      BY <2>4, <2>5
  <2> QED
    BY <2>6

LEMMA TenToType == \A k \in Nat : TenTo[k] \in Nat /\ TenTo[k] >= 1
<1> SUFFICES ASSUME NEW m \in Nat, ~(TenTo[m] \in Nat /\ TenTo[m] >= 1) PROVE FALSE
  OBVIOUS
<1> DEFINE T == {k \in Nat : ~(TenTo[k] \in Nat /\ TenTo[k] >= 1)}
<1>1. PICK n \in T : \A k \in T : n <= k
  <2>1. T \in SUBSET Nat /\ T # {}
    OBVIOUS
  <2> HIDE DEF T
  <2> QED
    BY <2>1, Smallest
<1>2. n # 0
  BY <1>1, TenToIs
<1>3. n - 1 \in Nat /\ TenTo[n - 1] \in Nat /\ TenTo[n - 1] >= 1
  BY <1>1, <1>2
<1>4. TenTo[n] = 10 * TenTo[n - 1]
  BY <1>1, <1>2, TenToIs
<1> QED
  BY <1>1, <1>3, <1>4

\* Powers are multiplied by adding their exponents.
LEMMA TenToPlus == \A a, b \in Nat : TenTo[a + b] = TenTo[a] * TenTo[b]
<1> SUFFICES ASSUME NEW a \in Nat, NEW m \in Nat, TenTo[a + m] # TenTo[a] * TenTo[m] PROVE FALSE
  OBVIOUS
<1> DEFINE T == {b \in Nat : TenTo[a + b] # TenTo[a] * TenTo[b]}
<1>1. PICK n \in T : \A k \in T : n <= k
  <2>1. T \in SUBSET Nat /\ T # {}
    OBVIOUS
  <2> HIDE DEF T
  <2> QED
    BY <2>1, Smallest
<1>2. n # 0
  BY <1>1, TenToIs, TenToType
<1>3. TenTo[a + (n - 1)] = TenTo[a] * TenTo[n - 1] /\ n - 1 \in Nat
  BY <1>1, <1>2
<1>4. TenTo[n] = 10 * TenTo[n - 1] /\ TenTo[a + n] = 10 * TenTo[a + (n - 1)]
  <2>1. a + n \in Nat /\ a + n # 0 /\ (a + n) - 1 = a + (n - 1)
    BY <1>1, <1>2
  <2> QED
    BY <1>1, <1>2, <2>1, TenToIs
<1>5. TenTo[a] * (10 * TenTo[n - 1]) = 10 * (TenTo[a] * TenTo[n - 1])
  <2>1. TenTo[a] \in Int /\ TenTo[n - 1] \in Int
    BY <1>3, TenToType
  <2>2. \A p, q \in Int : p * (10 * q) = 10 * (p * q)
    OBVIOUS
  <2> QED
    BY <2>1, <2>2
<1> QED
  BY <1>1, <1>3, <1>4, <1>5

\* A lower power divides a higher one.
LEMMA TenToDivides ==
  ASSUME NEW a \in Nat, NEW b \in Nat, a <= b
  PROVE  TenTo[b] = TenTo[b - a] * TenTo[a] /\ TenTo[b - a] \in Nat \ {0} /\ TenTo[a] <= TenTo[b]
<1>1. b - a \in Nat /\ (b - a) + a = b
  OBVIOUS
<1>2. TenTo[b] = TenTo[b - a] * TenTo[a]
  BY <1>1, TenToPlus
<1>3. TenTo[b - a] \in Nat /\ TenTo[b - a] >= 1 /\ TenTo[a] \in Nat
  BY <1>1, TenToType
<1>4. \A p, q \in Nat : p >= 1 => q <= p * q
  OBVIOUS
<1> QED
  BY <1>2, <1>3, <1>4

\* A division with its remainder, and there is only one.
LEMMA DivisionIs ==
  ASSUME NEW a \in Int, NEW b \in Nat \ {0}
  PROVE  /\ a \div b \in Int /\ a % b \in Int /\ a = b * (a \div b) + (a % b) /\ 0 <= a % b /\ a % b < b
         /\ \A q, r \in Int : a = b * q + r /\ 0 <= r /\ r < b => a \div b = q /\ a % b = r
<1>1. a \div b \in Int /\ a % b \in Int /\ a = b * (a \div b) + (a % b) /\ 0 <= a % b /\ a % b < b
  OBVIOUS
<1>2. ASSUME NEW q \in Int, NEW r \in Int, NEW p \in Int, NEW s \in Int,
             b * q + r = b * p + s, 0 <= r, r < b, 0 <= s, s < b
      PROVE  q = p /\ r = s
  <2>1. b * (q - p) = s - r
    BY <1>2
  <2>2. q - p < 1
    <3>1. ASSUME NEW d \in Int, d >= 1 PROVE b * d >= b
      BY <3>1
    <3> QED
      BY <1>2, <2>1, <3>1
  <2>3. q - p > -1
    <3>1. ASSUME NEW d \in Int, d <= -1 PROVE b * d <= 0 - b
      BY <3>1
    <3> QED
      BY <1>2, <2>1, <3>1
  <2>4. q = p
    BY <2>2, <2>3
  <2> QED
    BY <2>1, <2>4
<1> QED
  BY <1>1, <1>2

LEMMA DivisionOf ==
  ASSUME NEW a \in Int, NEW b \in Nat \ {0}, NEW q \in Int, NEW r \in Int, a = b * q + r, 0 <= r, r < b
  PROVE  a \div b = q /\ a % b = r
<1>1. \A p, s \in Int : a = b * p + s /\ 0 <= s /\ s < b => a \div b = p /\ a % b = s
  BY DivisionIs
<1> QED
  BY <1>1

\* Rounded to a multiple of step: off by half a step at most, and a multiple of
\* step that x reaches is not lost.
LEMMA RoundedIs ==
  ASSUME NEW x \in Nat, NEW step \in Nat \ {0}, NEW r, r = ((x + step \div 2) \div step) * step
  PROVE  /\ r \in Nat /\ 2 * (r - x) <= step /\ 2 * (x - r) <= step
         /\ \A j \in Nat : (x >= j * step => r >= j * step) /\ (x = j * step => r = x)
<1> DEFINE h == step \div 2
           k == (x + h) \div step
           m == (x + h) % step
<1>1. h \in Nat /\ 2 * h <= step /\ step <= 2 * h + 1 /\ h < step
  OBVIOUS
<1>2. x + h \in Int /\ r = k * step
  BY <1>1
<1> HIDE DEF h
<1>3. k \in Int /\ m \in Int /\ x + h = step * k + m /\ 0 <= m /\ m < step
  BY <1>2, DivisionIs
<1>4. \A j \in Int : x + h = step * j + h => k = j
  BY <1>1, <1>2, DivisionIs
<1> HIDE DEF k, m
<1>5. r \in Int /\ r = x + h - m
  BY <1>1, <1>2, <1>3
<1>6. 2 * (r - x) <= step /\ 2 * (x - r) <= step
  BY <1>1, <1>3, <1>5
<1>7. k >= 0
  <2>1. ASSUME k <= -1 PROVE FALSE
    <3>1. step * k <= 0 - step
      BY <1>3, <2>1
    <3> QED
      BY <1>1, <1>3, <3>1
  <2> QED
    BY <1>3, <2>1
<1>8. r \in Nat
  BY <1>2, <1>3, <1>7
<1>9. ASSUME NEW j \in Nat, x >= j * step PROVE r >= j * step
  <2>1. ASSUME k <= j - 1 PROVE FALSE
    <3>1. step * k <= step * j - step
      BY <1>3, <2>1
    <3>2. step * j = j * step
      OBVIOUS
    <3> QED
      BY <1>1, <1>3, <1>9, <3>1, <3>2
  <2>2. k >= j
    BY <1>3, <2>1
  <2> QED
    BY <1>2, <1>3, <2>2
<1>10. ASSUME NEW j \in Nat, x = j * step PROVE r = x
  <2>1. x + h = step * j + h
    BY <1>1, <1>10
  <2>2. j \in Int
    OBVIOUS
  <2>3. k = j
    BY <1>4, <2>1, <2>2, Zenon
  <2> QED
    BY <1>2, <1>10, <2>3
<1> QED
  BY <1>6, <1>8, <1>9, <1>10
=============================================================================
