--------------------------- MODULE RpoDigestProofs ---------------------------
(***************************************************************************)
(* Proofs about Ord::cmp of RpoDigest (module RpoDigest) for every         *)
(* DIGEST_SIZE, byte width and modulus.  The fold of cmp is a recursive    *)
(* function; it is tied to a closed form, the ordering of the limbs at the *)
(* first index where the digests' inner values differ, by showing that the *)
(* closed form satisfies the fold's equation and that the equation has one *)
(* solution (a least-element argument on the natural numbers).             *)
(***************************************************************************)
EXTENDS MC_RpoDigest, WellFoundedInduction, TLAPS

\* Limb i of both digests has the same inner value.
Agree(d1, d2, i) == Inner(d1[i]) = Inner(d2[i])

\* k is the first limb where the inner values differ.
IsFirstDiff(d1, d2, k) == ~Agree(d1, d2, k) /\ \A i \in 1..k-1 : Agree(d1, d2, i)

FirstDiff(d1, d2, j) == CHOOSE k \in 1..j : IsFirstDiff(d1, d2, k)

\* What the fold has computed after the first j limbs.
CmpUpTo(d1, d2, j) ==
  IF \A i \in 1..j : Agree(d1, d2, i) THEN "Equal"
  ELSE CmpInt(Inner(d1[FirstDiff(d1, d2, j)]), Inner(d2[FirstDiff(d1, d2, j)]))

\* One step of the fold of Ord::cmp, as a function of the previous steps.
FoldBody(f, d1, d2, j) ==
  IF j = 0 THEN "Equal"
  ELSE IF f[j-1] = "Equal" THEN CmpInt(Inner(d1[j]), Inner(d2[j]))
       ELSE f[j-1]

LEMMA U64BoundNat == U64Bound \in Nat \ {0}
  BY DigestAssumption DEF U64Bound

LEMMA InnerNat == ASSUME NEW a \in Felt PROVE Inner(a) \in 0..Modulus - 1
  BY U64BoundNat, DigestAssumption DEF Inner, Felt

\* The inner value of a limb of a digest is a natural number.
LEMMA InnerLimbNat ==
  ASSUME NEW d \in Digest, NEW i \in 1..DigestSize
  PROVE  Inner(d[i]) \in Nat
  BY InnerNat DEF Digest

(* The least-number principle for a set of naturals. *)
LEMMA LeastElement ==
  ASSUME NEW T \in SUBSET Nat, T # {}
  PROVE  \E k \in T : \A i \in T : k <= i
<1>1. PICK m \in T : \A n \in T : ~ (<<n, m>> \in OpToRel(<, Nat))
  BY NatLessThanWellFounded, WFMin, Zenon
<1>2. \A n \in T : <<n, m>> \in OpToRel(<, Nat) <=> n < m
  BY Zenon DEF OpToRel
<1>3. \A n \in T : ~(n < m)
  BY <1>1, <1>2, Zenon
<1>4. \A n \in T : m <= n
  BY <1>3, SMT
<1>5. QED
  BY <1>4, Zenon

(* The first difference exists when some limb differs, and is unique. *)
LEMMA FirstDiffIsFirst ==
  ASSUME NEW d1 \in Digest, NEW d2 \in Digest, NEW j \in 0..DigestSize,
         ~ \A i \in 1..j : Agree(d1, d2, i)
  PROVE  /\ FirstDiff(d1, d2, j) \in 1..j
         /\ IsFirstDiff(d1, d2, FirstDiff(d1, d2, j))
<1>1. \E k \in 1..j : IsFirstDiff(d1, d2, k)
  <2> DEFINE D == {i \in 1..j : ~Agree(d1, d2, i)}
  <2>0. D \in SUBSET Nat /\ D # {}
    OBVIOUS
  <2>1. PICK k \in D : \A i \in D : k <= i
    BY <2>0, LeastElement
  <2>2. QED
    BY <2>1 DEF IsFirstDiff
<1>2. QED
  BY <1>1 DEF FirstDiff

LEMMA FirstDiffUnique ==
  ASSUME NEW d1 \in Digest, NEW d2 \in Digest, NEW k \in Nat \ {0}, NEW m \in Nat \ {0},
         IsFirstDiff(d1, d2, k), IsFirstDiff(d1, d2, m)
  PROVE  k = m
  BY DEF IsFirstDiff

(* CmpInt says Equal exactly of equal arguments. *)
LEMMA CmpIntEqual ==
  ASSUME NEW a \in Nat, NEW b \in Nat
  PROVE  CmpInt(a, b) = "Equal" <=> a = b
  BY DEF CmpInt

(***************************************************************************)
(* The closed form follows the fold: after limb j it is the fold's step    *)
(* applied to its value after limb j - 1.                                  *)
(***************************************************************************)
LEMMA CmpUpToStep ==
  ASSUME NEW d1 \in Digest, NEW d2 \in Digest, NEW j \in 1..DigestSize
  PROVE  CmpUpTo(d1, d2, j) =
           IF CmpUpTo(d1, d2, j-1) = "Equal" THEN CmpInt(Inner(d1[j]), Inner(d2[j]))
           ELSE CmpUpTo(d1, d2, j-1)
<1>1. CASE \A i \in 1..j-1 : Agree(d1, d2, i)
  <2>1. CmpUpTo(d1, d2, j-1) = "Equal"
    BY <1>1 DEF CmpUpTo
  <2>2. CASE Agree(d1, d2, j)
    <3>1. \A i \in 1..j : Agree(d1, d2, i)
      BY <1>1, <2>2
    <3>2. CmpInt(Inner(d1[j]), Inner(d2[j])) = "Equal"
      BY <2>2, CmpIntEqual, InnerLimbNat DEF Agree
    <3>3. QED
      BY <2>1, <3>1, <3>2 DEF CmpUpTo
  <2>3. CASE ~Agree(d1, d2, j)
    <3>1. ~ \A i \in 1..j : Agree(d1, d2, i)
      BY <2>3
    <3>2. FirstDiff(d1, d2, j) \in 1..j /\ IsFirstDiff(d1, d2, FirstDiff(d1, d2, j))
      BY <3>1, FirstDiffIsFirst
    <3>3. IsFirstDiff(d1, d2, j)
      BY <1>1, <2>3 DEF IsFirstDiff
    <3>4. FirstDiff(d1, d2, j) = j
      BY <3>2, <3>3, FirstDiffUnique
    <3>5. QED
      BY <2>1, <3>1, <3>4 DEF CmpUpTo
  <2>4. QED
    BY <2>2, <2>3
<1>2. CASE ~ \A i \in 1..j-1 : Agree(d1, d2, i)
  <2> DEFINE k == FirstDiff(d1, d2, j-1)
  <2>0. j - 1 \in 0..DigestSize
    BY DigestAssumption
  <2>1. k \in 1..j-1 /\ IsFirstDiff(d1, d2, k)
    BY <1>2, <2>0, FirstDiffIsFirst
  <2>2. CmpUpTo(d1, d2, j-1) = CmpInt(Inner(d1[k]), Inner(d2[k]))
    BY <1>2 DEF CmpUpTo
  <2>3. CmpUpTo(d1, d2, j-1) # "Equal"
    <3>1. k \in 1..DigestSize
      BY <2>1, DigestAssumption
    <3>2. Inner(d1[k]) \in Nat /\ Inner(d2[k]) \in Nat
      BY <3>1, InnerLimbNat
    <3>3. Inner(d1[k]) # Inner(d2[k])
      BY <2>1 DEF IsFirstDiff, Agree
    <3>4. QED
      BY <2>2, <3>2, <3>3, CmpIntEqual
  <2>4. ~ \A i \in 1..j : Agree(d1, d2, i)
    BY <1>2
  <2>5. FirstDiff(d1, d2, j) \in 1..j /\ IsFirstDiff(d1, d2, FirstDiff(d1, d2, j))
    BY <2>4, FirstDiffIsFirst
  <2>6. FirstDiff(d1, d2, j) = k
    BY <2>1, <2>5, FirstDiffUnique
  <2>7. CmpUpTo(d1, d2, j) = CmpInt(Inner(d1[k]), Inner(d2[k]))
    BY <2>4, <2>6 DEF CmpUpTo
  <2>8. QED
    BY <2>2, <2>3, <2>7
<1>3. QED
  BY <1>1, <1>2

(***************************************************************************)
(* The equation of the fold has at most one solution: two solutions that  *)
(* differed would differ at a least index, where both are the same step    *)
(* applied to equal earlier values.                                        *)
(***************************************************************************)
LEMMA FoldUnique ==
  ASSUME NEW d1 \in Digest, NEW d2 \in Digest, NEW f, NEW g,
         f = [j \in 0..DigestSize |-> FoldBody(f, d1, d2, j)],
         g = [j \in 0..DigestSize |-> FoldBody(g, d1, d2, j)]
  PROVE  f = g
<1> SUFFICES ASSUME f # g PROVE FALSE
  OBVIOUS
<1> DEFINE D == {j \in 0..DigestSize : f[j] # g[j]}
<1>1. \E j \in 0..DigestSize : f[j] # g[j]
  OBVIOUS
<1>2. D \in SUBSET Nat /\ D # {}
  <2>1. D # {}
    BY <1>1, Zenon
  <2>2. D \in SUBSET Nat
    BY DigestAssumption
  <2>3. QED
    BY <2>1, <2>2
<1>3. PICK m \in D : \A i \in D : m <= i
  BY <1>2, LeastElement
<1>4. f[m] = FoldBody(f, d1, d2, m) /\ g[m] = FoldBody(g, d1, d2, m)
  BY <1>3, Zenon
<1>5. CASE m = 0
  BY <1>3, <1>4, <1>5 DEF FoldBody
<1>6. CASE m # 0
  <2>1. m - 1 \in 0..DigestSize /\ m - 1 \notin D
    BY <1>3, <1>6, DigestAssumption
  <2>2. f[m-1] = g[m-1]
    BY <2>1
  <2>3. FoldBody(f, d1, d2, m) = FoldBody(g, d1, d2, m)
    BY <2>2, <1>6 DEF FoldBody
  <2>4. QED
    BY <1>3, <1>4, <2>3
<1>7. QED
  BY <1>5, <1>6

(***************************************************************************)
(* Ord::cmp computes the closed form: the ordering of the inner values at  *)
(* the first limb where they differ, Equal if there is none.               *)
(***************************************************************************)
LEMMA CmpIsFirstDiff ==
  ASSUME NEW d1 \in Digest, NEW d2 \in Digest
  PROVE  Cmp(d1, d2) = CmpUpTo(d1, d2, DigestSize)
<1> DEFINE G == [j \in 0..DigestSize |-> CmpUpTo(d1, d2, j)]
           F == CHOOSE f : f = [j \in 0..DigestSize |-> FoldBody(f, d1, d2, j)]
<1>1. G = [j \in 0..DigestSize |-> FoldBody(G, d1, d2, j)]
  <2> SUFFICES ASSUME NEW j \in 0..DigestSize PROVE G[j] = FoldBody(G, d1, d2, j)
    OBVIOUS
  <2>1. CASE j = 0
    BY <2>1 DEF CmpUpTo, FoldBody
  <2>2. CASE j # 0
    <3>1. j \in 1..DigestSize /\ j - 1 \in 0..DigestSize
      BY <2>2, DigestAssumption
    <3>2. QED
      BY <3>1, CmpUpToStep DEF FoldBody
  <2>3. QED
    BY <2>1, <2>2
<1>2. F = [j \in 0..DigestSize |-> FoldBody(F, d1, d2, j)]
  BY <1>1, Zenon
<1>3. Cmp(d1, d2) = F[DigestSize]
  BY DEF Cmp, FoldBody
<1>4. G[DigestSize] = CmpUpTo(d1, d2, DigestSize)
  BY DigestAssumption
<1> HIDE DEF F, G
<1>5. F = G
  BY <1>1, <1>2, FoldUnique
<1>6. QED
  BY <1>3, <1>4, <1>5, Zenon

-----------------------------------------------------------------------------
(* Limbs agree exactly when they are equal, by InnerAssumption. *)
LEMMA AgreeIsEqual ==
  ASSUME NEW d1 \in Digest, NEW d2 \in Digest, NEW i \in 1..DigestSize
  PROVE  Agree(d1, d2, i) <=> d1[i] = d2[i]
  BY InnerAssumption DEF Agree, Digest

(* Ord::cmp says Equal exactly of equal digests (the derived PartialEq). *)
LEMMA CmpEqualIff ==
  ASSUME NEW d1 \in Digest, NEW d2 \in Digest
  PROVE  Cmp(d1, d2) = "Equal" <=> d1 = d2
<1>1. Cmp(d1, d2) = CmpUpTo(d1, d2, DigestSize)
  BY CmpIsFirstDiff
<1>2. CASE \A i \in 1..DigestSize : Agree(d1, d2, i)
  <2>0. \A i \in 1..DigestSize : d1[i] = d2[i]
    BY <1>2, AgreeIsEqual
  <2>1. d1 = d2
    <3> DEFINE I == 1..DigestSize
    <3>1. d1 \in [I -> Felt] /\ d2 \in [I -> Felt] /\ \A i \in I : d1[i] = d2[i]
      BY <2>0 DEF Digest
    <3> HIDE DEF I
    <3>2. QED
      BY <3>1
  <2>2. QED
    BY <1>1, <1>2, <2>1 DEF CmpUpTo
<1>3. CASE ~ \A i \in 1..DigestSize : Agree(d1, d2, i)
  <2> DEFINE k == FirstDiff(d1, d2, DigestSize)
  <2>1. k \in 1..DigestSize /\ IsFirstDiff(d1, d2, k)
    BY <1>3, FirstDiffIsFirst, DigestAssumption
  <2>2. Cmp(d1, d2) # "Equal"
    BY <1>1, <1>3, <2>1, CmpIntEqual, InnerLimbNat DEF CmpUpTo, IsFirstDiff, Agree
  <2>3. d1 # d2
    BY <2>1 DEF IsFirstDiff, Agree
  <2>4. QED
    BY <2>2, <2>3
<1>4. QED
  BY <1>2, <1>3

(* Less is witnessed by a first difference with the smaller inner value. *)
LEMMA CmpLessAt ==
  ASSUME NEW d1 \in Digest, NEW d2 \in Digest
  PROVE  Cmp(d1, d2) = "Less" <=>
           \E k \in 1..DigestSize : IsFirstDiff(d1, d2, k) /\ Inner(d1[k]) < Inner(d2[k])
<1>1. Cmp(d1, d2) = CmpUpTo(d1, d2, DigestSize)
  BY CmpIsFirstDiff
<1>2. CASE \A i \in 1..DigestSize : Agree(d1, d2, i)
  BY <1>1, <1>2 DEF CmpUpTo, IsFirstDiff
<1>3. CASE ~ \A i \in 1..DigestSize : Agree(d1, d2, i)
  <2> DEFINE k == FirstDiff(d1, d2, DigestSize)
  <2>1. k \in 1..DigestSize /\ IsFirstDiff(d1, d2, k)
    BY <1>3, FirstDiffIsFirst, DigestAssumption
  <2>2. Cmp(d1, d2) = CmpInt(Inner(d1[k]), Inner(d2[k]))
    BY <1>1, <1>3 DEF CmpUpTo
  <2>3. Inner(d1[k]) \in Nat /\ Inner(d2[k]) \in Nat
    BY <2>1, InnerNat DEF Digest
  <2>4. \A m \in 1..DigestSize : IsFirstDiff(d1, d2, m) => m = k
    BY <2>1, FirstDiffUnique
  <2>5. Cmp(d1, d2) = "Less" =>
          \E m \in 1..DigestSize : IsFirstDiff(d1, d2, m) /\ Inner(d1[m]) < Inner(d2[m])
    BY <2>1, <2>2, <2>3 DEF CmpInt
  <2>6. ASSUME NEW m \in 1..DigestSize, IsFirstDiff(d1, d2, m), Inner(d1[m]) < Inner(d2[m])
        PROVE  Cmp(d1, d2) = "Less"
    <3>1. m = k
      BY <2>4, <2>6
    <3>2. QED
      BY <2>2, <2>6, <3>1 DEF CmpInt
  <2>7. QED
    BY <2>5, <2>6
<1>4. QED
  BY <1>2, <1>3

(* Swapping the arguments of Ord::cmp swaps Less and Greater. *)
LEMMA CmpAntisymmetric ==
  ASSUME NEW d1 \in Digest, NEW d2 \in Digest
  PROVE  Cmp(d1, d2) = "Less" <=> Cmp(d2, d1) = "Greater"
<1>1. Cmp(d1, d2) = CmpUpTo(d1, d2, DigestSize) /\ Cmp(d2, d1) = CmpUpTo(d2, d1, DigestSize)
  BY CmpIsFirstDiff
<1>2. \A i \in 1..DigestSize : Agree(d1, d2, i) <=> Agree(d2, d1, i)
  BY DEF Agree
<1>3. CASE \A i \in 1..DigestSize : Agree(d1, d2, i)
  BY <1>1, <1>2, <1>3 DEF CmpUpTo
<1>4. CASE ~ \A i \in 1..DigestSize : Agree(d1, d2, i)
  <2> DEFINE k == FirstDiff(d1, d2, DigestSize)
             l == FirstDiff(d2, d1, DigestSize)
  <2>1. k \in 1..DigestSize /\ IsFirstDiff(d1, d2, k)
    BY <1>4, FirstDiffIsFirst, DigestAssumption
  <2>2. l \in 1..DigestSize /\ IsFirstDiff(d2, d1, l)
    BY <1>2, <1>4, FirstDiffIsFirst, DigestAssumption
  <2>3. IsFirstDiff(d1, d2, l)
    BY <2>2 DEF IsFirstDiff, Agree
  <2>4. k = l
    BY <2>1, <2>2, <2>3, FirstDiffUnique
  <2>5. Cmp(d1, d2) = CmpInt(Inner(d1[k]), Inner(d2[k]))
        /\ Cmp(d2, d1) = CmpInt(Inner(d2[k]), Inner(d1[k]))
    BY <1>1, <1>2, <1>4, <2>4 DEF CmpUpTo
  <2>6. Inner(d1[k]) \in Nat /\ Inner(d2[k]) \in Nat
    BY <2>1, InnerNat DEF Digest
  <2>7. QED
    BY <2>5, <2>6 DEF CmpInt
<1>5. QED
  BY <1>3, <1>4


(***************************************************************************)
(* Less is transitive: the first difference of d1 and d3 is the earlier of *)
(* the first differences of d1, d2 and of d2, d3, where d1 is below d3.    *)
(***************************************************************************)
LEMMA CmpTransitive ==
  ASSUME NEW d1 \in Digest, NEW d2 \in Digest, NEW d3 \in Digest,
         Cmp(d1, d2) = "Less", Cmp(d2, d3) = "Less"
  PROVE  Cmp(d1, d3) = "Less"
<1>1. PICK k1 \in 1..DigestSize : IsFirstDiff(d1, d2, k1) /\ Inner(d1[k1]) < Inner(d2[k1])
  BY CmpLessAt
<1>2. PICK k2 \in 1..DigestSize : IsFirstDiff(d2, d3, k2) /\ Inner(d2[k2]) < Inner(d3[k2])
  BY CmpLessAt
<1> DEFINE km == IF k1 <= k2 THEN k1 ELSE k2
<1>3. km \in 1..DigestSize /\ km <= k1 /\ km <= k2
  OBVIOUS
<1>4. \A i \in 1..km-1 : Agree(d1, d3, i)
  BY <1>1, <1>2, <1>3 DEF IsFirstDiff, Agree
<1>5. Inner(d1[km]) < Inner(d3[km])
  <2>1. CASE k1 < k2
    <3>1. Agree(d2, d3, k1)
      BY <1>2, <2>1 DEF IsFirstDiff
    <3>2. QED
      BY <1>1, <2>1, <3>1 DEF Agree
  <2>2. CASE k1 = k2
    <3>1. Inner(d1[k1]) \in Nat /\ Inner(d2[k1]) \in Nat /\ Inner(d3[k1]) \in Nat
      BY InnerLimbNat
    <3>2. QED
      BY <1>1, <1>2, <2>2, <3>1
  <2>3. CASE k2 < k1
    <3>1. Agree(d1, d2, k2)
      BY <1>1, <2>3 DEF IsFirstDiff
    <3>2. QED
      BY <1>2, <2>3, <3>1 DEF Agree
  <2>4. QED
    BY <2>1, <2>2, <2>3
<1>6. IsFirstDiff(d1, d3, km)
  <2>1. Inner(d1[km]) \in Nat /\ Inner(d3[km]) \in Nat
    BY <1>3, InnerLimbNat
  <2>2. ~Agree(d1, d3, km)
    BY <1>5, <2>1 DEF Agree
  <2>3. QED
    BY <1>4, <2>2 DEF IsFirstDiff
<1>7. QED
  BY <1>3, <1>5, <1>6, CmpLessAt

-----------------------------------------------------------------------------
\* The caller's digests are digests in every reachable state.
HarnessInv == x \in Digest /\ y \in Digest

LEMMA HarnessInvariant == Spec => []HarnessInv
<1>1. Init => HarnessInv
  BY DEF Init, HarnessInv
<1>2. HarnessInv /\ [Next]_vars => HarnessInv'
  BY DEF HarnessInv, Next, PickX, PickY, PickStream, vars
<1>3. QED
  BY <1>1, <1>2, PTL DEF Spec

(***************************************************************************)
(* For every DIGEST_SIZE, byte width and modulus for which the Montgomery  *)
(* map is injective on canonical limbs, Ord::cmp of RpoDigest is a total   *)
(* order agreeing with equality: Equal exactly of equal digests, Less of   *)
(* (d1, d2) exactly when Greater of (d2, d1), and Less transitive.         *)
(***************************************************************************)
THEOREM CmpTotalOrder == Spec => []CmpIsTotalOrder
<1>1. HarnessInv => CmpIsTotalOrder
  <2> SUFFICES ASSUME HarnessInv PROVE CmpIsTotalOrder
    OBVIOUS
  <2>1. (Cmp(x, y) = "Equal") <=> (x = y)
    BY CmpEqualIff DEF HarnessInv
  <2>2. (Cmp(x, y) = "Less") <=> (Cmp(y, x) = "Greater")
    BY CmpAntisymmetric DEF HarnessInv
  <2>3. \A z \in Digest : (Cmp(x, y) = "Less" /\ Cmp(y, z) = "Less") => Cmp(x, z) = "Less"
    BY CmpTransitive DEF HarnessInv
  <2>4. QED
    BY <2>1, <2>2, <2>3 DEF CmpIsTotalOrder
<1>2. QED
  BY <1>1, HarnessInvariant, PTL

=============================================================================
