-------------------------- MODULE LmOtsLms_proofs --------------------------
(***************************************************************************)
(* Proofs about LmOtsLms, for every height of the tree, every number of    *)
(* coefficients, every length of the chains and every set of digests.      *)
(***************************************************************************)
EXTENDS LmOtsLms, FiniteSetTheorems, TLAPS

-----------------------------------------------------------------------------
(* Arithmetic *)

LEMMA Shape ==
    /\ LMS_LEAVES \in Nat /\ LMS_LEAVES >= 2
    /\ LMS_LEAVES = 2 * NodesAt[1] /\ NodesAt[1] \in Nat
    /\ LMS_HEIGHT \in Nat /\ LMS_HEIGHT >= 1
    /\ MAX_CHAIN \in Nat /\ DigestDigits \in Nat /\ DigestDigits >= 1
<1>1. 0 \in 0..LMS_HEIGHT-1 /\ 0 \in 0..LMS_HEIGHT /\ 1 \in 0..LMS_HEIGHT
  BY LmsAssumption
<1>2. NodesAt[0] \in Nat \ {0} /\ NodesAt[1] \in Nat \ {0} /\ NodesAt[0] = 2 * NodesAt[0 + 1]
  BY <1>1, LmsAssumption
<1> QED
  BY <1>2, LmsAssumption DEF LMS_LEAVES

LEMMA DivMod ==
    ASSUME NEW n \in Nat
    PROVE  /\ n \div 2 \in Nat
           /\ n % 2 \in {0, 1}
           /\ n = 2 * (n \div 2) + (n % 2)
BY SMT

\* Where the way up from a node goes, and where its sibling is.
LEMMA UpOne ==
    ASSUME NEW l \in 0..LMS_HEIGHT-1, NEW n \in NodesAt[l]..2 * NodesAt[l] - 1
    PROVE  n \div 2 \in NodesAt[l + 1]..2 * NodesAt[l + 1] - 1
<1>1. l \in 0..LMS_HEIGHT /\ l + 1 \in 0..LMS_HEIGHT
  BY LmsAssumption
<1>2. /\ NodesAt[l] \in Nat /\ NodesAt[l + 1] \in Nat
      /\ NodesAt[l] = 2 * NodesAt[l + 1]
  BY <1>1, LmsAssumption
<1>3. n \in Nat
  BY <1>2
<1> QED
  BY <1>2, <1>3, DivMod

LEMMA Siblings ==
    ASSUME NEW n \in Nat, n >= 2
    PROVE  /\ Sibling(n) \in Nat
           /\ Sibling(n) \div 2 = n \div 2
           /\ n % 2 = 0 => n = 2 * (n \div 2) /\ Sibling(n) = 2 * (n \div 2) + 1
           /\ n % 2 = 1 => n = 2 * (n \div 2) + 1 /\ Sibling(n) = 2 * (n \div 2)
BY DivMod DEF Sibling

LEMMA SiblingInjective ==
    ASSUME NEW a \in Nat, NEW b \in Nat, a >= 2, b >= 2, Sibling(a) = Sibling(b)
    PROVE  a = b
BY DivMod DEF Sibling

-----------------------------------------------------------------------------
(* The sum of a digest *)

LEMMA Sizes == MAX_CHAIN \in Nat /\ DigestDigits \in Nat /\ DigestDigits >= 1
BY LmsAssumption

\* The steps left on each chain after a signature of d.
Remaining(d) == [i \in DOMAIN d |-> MAX_CHAIN - d[i]]

\* The index that the fold takes next.
Picked(s) == CHOOSE i \in s : TRUE

\* h sums F over every set of indices in D.
Sums(h, F, D) == h = [s \in SUBSET D |-> IF s = {} THEN 0 ELSE F[Picked(s)] + h[s \ {Picked(s)}]]

\* The fold of DigitSum, whichever index it takes first.
LEMMA SumUnfolds ==
    ASSUME NEW d
    PROVE  DigitSum(d) = (CHOOSE h : Sums(h, Remaining(d), DOMAIN Remaining(d)))[DOMAIN Remaining(d)]
BY Zenon DEF DigitSum, FoldFunction, FoldFunctionOnSet, MapThenFoldSet, Plus, Sums, Remaining, Picked

\* Those steps themselves, at the indices in s: the sum is their number.
Steps(F, s) == {c \in s \X (0..MAX_CHAIN-1) : c[2] < F[c[1]]}

LEMMA StepsFinite ==
    ASSUME NEW F, NEW s, IsFiniteSet(s)
    PROVE  /\ IsFiniteSet(Steps(F, s))
           /\ Cardinality(Steps(F, s)) \in Nat
           /\ Cardinality(Steps(F, s)) <= Cardinality(s) * MAX_CHAIN
<1>1. /\ IsFiniteSet(0..MAX_CHAIN-1)
      /\ Cardinality(0..MAX_CHAIN-1) = MAX_CHAIN
  BY Sizes, FS_Interval
<1>2. /\ IsFiniteSet(s \X (0..MAX_CHAIN-1))
      /\ Cardinality(s \X (0..MAX_CHAIN-1)) = Cardinality(s) * MAX_CHAIN
  BY <1>1, FS_Product
<1>3. Steps(F, s) \in SUBSET (s \X (0..MAX_CHAIN-1))
  BY DEF Steps
<1>4. IsFiniteSet(Steps(F, s)) /\ Cardinality(Steps(F, s)) <= Cardinality(s \X (0..MAX_CHAIN-1))
  BY <1>2, <1>3, FS_Subset
<1>5. Cardinality(Steps(F, s)) \in Nat
  BY <1>4, FS_CardinalityType
<1> QED
  BY <1>2, <1>4, <1>5

LEMMA StepsAdd ==
    ASSUME NEW D, IsFiniteSet(D), NEW F \in [D -> 0..MAX_CHAIN], NEW s \in SUBSET D, NEW x \in s
    PROVE  Cardinality(Steps(F, s)) = F[x] + Cardinality(Steps(F, s \ {x}))
<1> DEFINE column == {x} \X (0..F[x]-1)
<1>1. F[x] \in 0..MAX_CHAIN /\ F[x] \in Nat
  BY Sizes
<1>2. IsFiniteSet(column) /\ Cardinality(column) = F[x]
  <2>1. IsFiniteSet(0..F[x]-1) /\ Cardinality(0..F[x]-1) = F[x]
    BY <1>1, FS_Interval
  <2>2. IsFiniteSet({x}) /\ Cardinality({x}) = 1
    BY FS_Singleton
  <2>3. IsFiniteSet(column) /\ Cardinality(column) = Cardinality({x}) * Cardinality(0..F[x]-1)
    BY <2>1, <2>2, FS_Product
  <2> QED
    BY <1>1, <2>1, <2>2, <2>3
<1>3. Steps(F, s) = Steps(F, s \ {x}) \cup column
  <2>1. ASSUME NEW c PROVE c \in Steps(F, s) <=> c \in Steps(F, s \ {x}) \cup column
    BY <1>1, Sizes DEF Steps
  <2> QED
    BY <2>1
<1>4. Steps(F, s \ {x}) \cap column = {}
  BY DEF Steps
<1>5. IsFiniteSet(s \ {x})
  BY FS_Subset
<1>6. IsFiniteSet(Steps(F, s \ {x})) /\ Cardinality(Steps(F, s \ {x})) \in Nat
  BY <1>5, StepsFinite
<1> HIDE DEF column
<1>7. Cardinality(Steps(F, s)) = Cardinality(Steps(F, s \ {x})) + Cardinality(column) - Cardinality({})
  BY <1>2, <1>3, <1>4, <1>6, FS_Union
<1> QED
  BY <1>1, <1>2, <1>6, <1>7, FS_EmptySet

LEMMA StepsOfNone == ASSUME NEW F PROVE Steps(F, {}) = {}
BY DEF Steps

LEMMA PickedIn == ASSUME NEW s, s # {} PROVE Picked(s) \in s
BY DEF Picked

\* A sum over indices counts those steps: the count satisfies the equation of the
\* fold, and a least set of indices where the two differed could not exist.
LEMMA SumCountsSteps ==
    ASSUME NEW D, IsFiniteSet(D), NEW F \in [D -> 0..MAX_CHAIN]
    PROVE  (CHOOSE h : Sums(h, F, D))[D] = Cardinality(Steps(F, D))
<1> DEFINE g == [s \in SUBSET D |-> Cardinality(Steps(F, s))]
           h == CHOOSE f : Sums(f, F, D)
<1>1. Sums(g, F, D)
  <2>1. ASSUME NEW s \in SUBSET D
        PROVE  g[s] = IF s = {} THEN 0 ELSE F[Picked(s)] + g[s \ {Picked(s)}]
    <3>1. CASE s = {}
      BY <3>1, StepsOfNone, FS_EmptySet
    <3>2. CASE s # {}
      BY <3>2, PickedIn, StepsAdd
    <3> QED
      BY <3>1, <3>2
  <2> QED
    BY <2>1, Zenon DEF Sums
<1>2. Sums(h, F, D)
  BY <1>1
<1> HIDE DEF h
<1>3. ASSUME NEW s \in SUBSET D
      PROVE  h[s] = IF s = {} THEN 0 ELSE F[Picked(s)] + h[s \ {Picked(s)}]
  BY <1>2, Zenon DEF Sums
<1> DEFINE Bad == {s \in SUBSET D : h[s] # g[s]}
<1>4. Bad = {}
  <2>1. SUFFICES ASSUME Bad # {} PROVE FALSE
    OBVIOUS
  <2>2. IsWellFoundedOn(StrictSubsetOrdering(D), FiniteSubsetsOf(D))
    BY FS_StrictSubsetOrderingWellFounded
  <2>3. Bad \subseteq FiniteSubsetsOf(D)
    BY FS_FiniteSubsetsOfFinite
  <2>4. PICK s \in Bad : \A t \in Bad : ~(<<t, s>> \in StrictSubsetOrdering(D))
    <3> HIDE DEF Bad
    <3> QED
      BY <2>1, <2>2, <2>3, WFMin
  <2>5. s # {}
    <3>1. ASSUME s = {} PROVE FALSE
      <4>1. h[s] = 0
        BY <1>3, <3>1
      <4>2. g[s] = 0
        BY <1>1, <3>1, Zenon DEF Sums
      <4> QED
        BY <4>1, <4>2
    <3> QED
      BY <3>1
  <2>6. Picked(s) \in s
    BY <2>5, PickedIn
  <2>7. s \ {Picked(s)} \in SUBSET D /\ <<s \ {Picked(s)}, s>> \in StrictSubsetOrdering(D)
    BY <2>6 DEF StrictSubsetOrdering
  <2>8. h[s \ {Picked(s)}] = g[s \ {Picked(s)}]
    BY <2>4, <2>7
  <2>9. h[s] = F[Picked(s)] + h[s \ {Picked(s)}]
    BY <1>3, <2>5
  <2>10. g[s] = F[Picked(s)] + g[s \ {Picked(s)}]
    BY <2>6, StepsAdd
  <2> QED
    BY <2>8, <2>9, <2>10
<1>5. h[D] = g[D]
  BY <1>4
<1> QED
  BY <1>5 DEF h

\* The sum of a digest is a natural number and bounded.
LEMMA DigitSumCounts ==
    ASSUME NEW d \in AllDigests
    PROVE  /\ DigitSum(d) = Cardinality(Steps(Remaining(d), 0..DigestDigits-1))
           /\ DigitSum(d) \in Nat
           /\ DigitSum(d) <= DigestDigits * MAX_CHAIN
<1> DEFINE D == 0..DigestDigits-1
<1>1. IsFiniteSet(D) /\ Cardinality(D) = DigestDigits
  BY Sizes, FS_Interval
<1>2. DOMAIN Remaining(d) = D /\ Remaining(d) \in [D -> 0..MAX_CHAIN]
  BY Sizes DEF Remaining, AllDigests
<1> HIDE DEF D
<1>3. DigitSum(d) = (CHOOSE h : Sums(h, Remaining(d), D))[D]
  BY <1>2, SumUnfolds
<1>4. DigitSum(d) = Cardinality(Steps(Remaining(d), D))
  BY <1>1, <1>2, <1>3, SumCountsSteps
<1> QED
  BY <1>1, <1>4, StepsFinite DEF D

\* Coefficients nowhere smaller and not all equal leave a smaller sum.
LEMMA DigitSumOrder ==
    ASSUME NEW d \in AllDigests, NEW e \in AllDigests, d # e,
           \A i \in 0..DigestDigits-1 : d[i] >= e[i]
    PROVE  DigitSum(d) < DigitSum(e)
<1> DEFINE D == 0..DigestDigits-1
           A == Steps(Remaining(d), D)
           B == Steps(Remaining(e), D)
<1>1. IsFiniteSet(B) /\ Cardinality(B) \in Nat
  BY Sizes, FS_Interval, StepsFinite
<1>2. \A i \in D : /\ d[i] \in 0..MAX_CHAIN /\ e[i] \in 0..MAX_CHAIN
                   /\ Remaining(d)[i] = MAX_CHAIN - d[i]
                   /\ Remaining(e)[i] = MAX_CHAIN - e[i]
  BY DEF Remaining, AllDigests
<1>3. A \in SUBSET B
  BY <1>2, Sizes DEF Steps
<1>4. A # B
  <2>1. PICK i \in D : d[i] # e[i]
    <3>1. d = [i \in D |-> d[i]] /\ e = [i \in D |-> e[i]]
      BY DEF AllDigests
    <3> QED
      BY <3>1, Zenon
  <2>2. d[i] > e[i]
    BY <1>2, <2>1
  <2>3. <<i, MAX_CHAIN - d[i]>> \in B
    BY <1>2, <2>2, Sizes DEF Steps
  <2>4. <<i, MAX_CHAIN - d[i]>> \notin A
    BY <1>2 DEF Steps
  <2> QED
    BY <2>3, <2>4
<1> HIDE DEF A, B
<1>5. Cardinality(A) <= Cardinality(B) /\ Cardinality(A) # Cardinality(B)
  BY <1>1, <1>3, <1>4, FS_Subset
<1>6. DigitSum(d) = Cardinality(A) /\ DigitSum(e) = Cardinality(B) /\ DigitSum(d) \in Nat
  BY DigitSumCounts DEF A, B
<1> QED
  BY <1>1, <1>5, <1>6

-----------------------------------------------------------------------------
(* Coefficients and chains *)

LEMMA Modulus ==
    ASSUME NEW a \in Nat, NEW b \in Nat, b > 0
    PROVE  a % b \in 0..b-1
BY SMT

LEMMA Quotient ==
    ASSUME NEW a \in Nat, NEW b \in Nat, b > 0
    PROVE  a \div b \in Nat
BY SMT

LEMMA ProductPositive ==
    ASSUME NEW a \in Nat, NEW b \in Nat, a > 0, b > 0
    PROVE  a * b \in Nat /\ a * b > 0
BY SMT

LEMMA CoefficientType ==
    ASSUME NEW d \in Digests, NEW i \in 0..P-1
    PROVE  /\ Coefficients[d][i] \in 0..MAX_CHAIN
           /\ i < DigestDigits => Coefficients[d][i] = d[i]
<1>1. d \in AllDigests /\ i \in Nat
  BY LmsAssumption, Shape DEF P, ChecksumDigits
<1>2. Coefficients[d][i] = IF i < DigestDigits THEN d[i]
                           ELSE WordDigit(Checksum(d), i - DigestDigits)
  BY <1>1 DEF Coefficients
<1>3. CASE i < DigestDigits
  BY <1>1, <1>2, <1>3, Shape DEF AllDigests
<1>4. CASE ~(i < DigestDigits)
  <2>1. Checksum(d) \in Nat
    <3>1. DigitSum(d) * ChecksumShift \in Nat
      BY <1>1, DigitSumCounts, LmsAssumption
    <3> QED
      BY <3>1, Modulus DEF Checksum, Word
  <2>2. Base \in Nat /\ Base > 0 /\ Base - 1 = MAX_CHAIN
    BY Shape DEF Base
  <2>3. Base * Base \in Nat /\ Base * Base > 0
    BY <2>2, ProductPositive
  <2>4. Base * Base * Base \in Nat /\ Base * Base * Base > 0
    BY <2>2, <2>3, ProductPositive
  <2>5. \A b \in Nat : b > 0 => (Checksum(d) \div b) % Base \in 0..MAX_CHAIN
    BY <2>1, <2>2, Modulus, Quotient
  <2>6. WordDigit(Checksum(d), i - DigestDigits) \in 0..MAX_CHAIN
    BY <2>2, <2>3, <2>4, <2>5 DEF WordDigit
  <2> QED
    BY <1>2, <1>4, <2>6
<1> QED
  BY <1>3, <1>4

\* A chain value at a position.
At(s, leaf, i, pos) == [seed |-> s, q |-> leaf, i |-> i, pos |-> pos]

LEMMA ChainFromStart ==
    ASSUME NEW s, NEW leaf, NEW i, NEW a \in 0..MAX_CHAIN
    PROVE  Chain(Element(s, leaf, i), leaf, i, 0, a) = At(s, leaf, i, a)
BY Shape DEF Chain, Element, At

LEMMA ChainToEnd ==
    ASSUME NEW s, NEW leaf, NEW other, NEW i, NEW a \in 0..MAX_CHAIN, NEW b \in 0..MAX_CHAIN, NEW t
    PROVE  Chain(At(s, leaf, i, a), other, i, b, MAX_CHAIN) = At(t, other, i, MAX_CHAIN)
           <=> s = t /\ leaf = other /\ a = b
<1>1. CASE b = MAX_CHAIN
  BY <1>1, Shape DEF Chain, At
<1>2. CASE b # MAX_CHAIN
  <2>1. ~(b >= MAX_CHAIN) /\ OffChain # MAX_CHAIN
    BY <1>2, Shape DEF OffChain
  <2> QED
    BY <2>1 DEF Chain, At
<1> QED
  BY <1>1, <1>2

\* The signature values y were made with seed s and leaf of digest d.
Released(y, s, leaf, d) == \A i \in 0..P-1 : y[i] = At(s, leaf, i, Coefficients[d][i])

\* The candidate key of lmotsCandidatePublicHash is the key of the leaf exactly for
\* the seed, the leaf and the digest that were signed.
LEMMA CandidateIsKey ==
    ASSUME NEW s, NEW leaf \in Leaves, NEW other \in Leaves, NEW d \in Digests, NEW e \in Digests, NEW y,
           Released(y, s, leaf, d)
    PROVE  CandidateHash(other, e, y) = PublicHash(OwnSeed, other)
           <=> s = OwnSeed /\ leaf = other /\ d = e
<1>1. \A i \in 0..P-1 : Coefficients[d][i] \in 0..MAX_CHAIN /\ Coefficients[e][i] \in 0..MAX_CHAIN
  BY CoefficientType
<1>2. MAX_CHAIN \in 0..MAX_CHAIN
  BY Shape
<1>3. CandidateHash(other, e, y) = PublicHash(OwnSeed, other)
      <=> \A i \in 0..P-1 : Chain(y[i], other, i, Coefficients[e][i], MAX_CHAIN)
                            = At(OwnSeed, other, i, MAX_CHAIN)
  <2> DEFINE c == [i \in 0..P-1 |-> Chain(y[i], other, i, Coefficients[e][i], MAX_CHAIN)]
             k == [i \in 0..P-1 |-> At(OwnSeed, other, i, MAX_CHAIN)]
  <2>1. PublicHash(OwnSeed, other) = [q |-> other, ends |-> k]
    BY <1>2, ChainFromStart DEF PublicHash
  <2>2. CandidateHash(other, e, y) = [q |-> other, ends |-> c]
    BY DEF CandidateHash
  <2>3. c = k <=> \A i \in 0..P-1 : c[i] = k[i]
    <3>1. DOMAIN c = DOMAIN k /\ DOMAIN c = 0..P-1
      OBVIOUS
    <3>2. c = [i \in 0..P-1 |-> c[i]] /\ k = [i \in 0..P-1 |-> k[i]]
      OBVIOUS
    <3> HIDE DEF c, k
    <3> QED
      BY <3>2, Zenon
  <2>4. \A i \in 0..P-1 : /\ c[i] = Chain(y[i], other, i, Coefficients[e][i], MAX_CHAIN)
                           /\ k[i] = At(OwnSeed, other, i, MAX_CHAIN)
    OBVIOUS
  <2> HIDE DEF c, k
  <2>5. CandidateHash(other, e, y) = PublicHash(OwnSeed, other) <=> c = k
    BY <2>1, <2>2
  <2> QED
    BY <2>3, <2>4, <2>5
<1>4. \A i \in 0..P-1 : Chain(y[i], other, i, Coefficients[e][i], MAX_CHAIN) = At(OwnSeed, other, i, MAX_CHAIN)
                        <=> s = OwnSeed /\ leaf = other /\ Coefficients[d][i] = Coefficients[e][i]
  BY <1>1, ChainToEnd DEF Released
<1>5. (\A i \in 0..P-1 : Coefficients[d][i] = Coefficients[e][i]) => d = e
  <2>1. SUFFICES ASSUME \A i \in 0..P-1 : Coefficients[d][i] = Coefficients[e][i] PROVE d = e
    OBVIOUS
  <2>2. \A i \in 0..DigestDigits-1 : d[i] = e[i]
    BY <2>1, CoefficientType, Shape DEF P, ChecksumDigits
  <2>3. d \in AllDigests /\ e \in AllDigests
    BY LmsAssumption
  <2>4. d = [i \in 0..DigestDigits-1 |-> d[i]] /\ e = [i \in 0..DigestDigits-1 |-> e[i]]
    BY <2>3 DEF AllDigests
  <2> QED
    BY <2>2, <2>4
<1>6. 0 \in 0..P-1
  BY Shape DEF P, ChecksumDigits
<1> QED
  BY <1>3, <1>4, <1>5, <1>6

-----------------------------------------------------------------------------
(* The inductive invariant *)

GoodLeaf(j) == tree[LMS_LEAVES + j] = HashLeaf(LMS_LEAVES + j, PublicHash(OwnSeed, j))
GoodNode(n) == tree[n] = HashInternal(n, tree[2 * n], tree[2 * n + 1])

\* How far the tree is built, bottom up.
BuildInv ==
    /\ phase = "leaves" => seed = OwnSeed /\ \A j \in 0..cursor-1 : GoodLeaf(j)
    /\ phase = "nodes" => /\ cursor \in 1..LMS_LEAVES-1
                          /\ \A j \in Leaves : GoodLeaf(j)
                          /\ \A n \in cursor+1..LMS_LEAVES-1 : GoodNode(n)
    /\ phase = "ready" => /\ \A j \in Leaves : GoodLeaf(j)
                          /\ \A n \in 1..LMS_LEAVES-1 : GoodNode(n)

\* The last signature made holds the chains at the coefficients of its digest.
SignatureInv ==
    signature # NoSignature =>
        /\ phase = "ready"
        /\ Released(signature.y, signature.seed, signature.q, signature.digest)

\* The first n levels of the way up from a leaf, and the siblings along it.
Climbed(t, p, n) ==
    /\ DOMAIN p.nodes = Levels /\ DOMAIN p.way = Levels
    /\ n > 0 => p.way[0] = LMS_LEAVES + p.q
    /\ \A l \in 0..n-1 : p.nodes[l] = t[Sibling(p.way[l])]
    /\ \A l \in 0..n-2 : p.way[l + 1] = p.way[l] \div 2

\* Where an operation stands on its way up.
ClimbInv ==
    op \in {"extract", "verify"} =>
        /\ phase = "ready"
        /\ node \in NodesAt[level]..2 * NodesAt[level] - 1
        /\ node <= 2 * LMS_LEAVES - 1
        /\ level = 0 => node = LMS_LEAVES + q

PathInv ==
    /\ op = "extract" => /\ path # NoPath /\ path.q = q /\ level < LMS_HEIGHT
                         /\ Climbed(tree, path, level)
                         /\ level > 0 => node = path.way[level - 1] \div 2
    /\ path # NoPath /\ op # "extract" => phase = "ready" /\ Climbed(tree, path, LMS_HEIGHT)

\* What the arguments of verify have to be.
LeafMatches == signature.seed = OwnSeed /\ signature.q = q /\ signature.digest = digest

VerifyInv ==
    /\ op \in {"verify", "verdict"} => signature # NoSignature /\ path # NoPath /\ digest \in Digests
    /\ op = "verify" =>
          /\ path.q = q /\ level < LMS_HEIGHT => node = path.way[level]
          /\ level = 0 => (current = tree[node] <=> LeafMatches)
          /\ level > 0 => (current = tree[node] <=> LeafMatches /\ path.q = q)
    /\ op = "verdict" => (ok <=> LeafMatches /\ path.q = q)

LInv == TypeOK /\ BuildInv /\ SignatureInv /\ ClimbInv /\ PathInv /\ VerifyInv

LEMMA LInvInit == Init => LInv
<1>1. SUFFICES ASSUME Init PROVE LInv
  OBVIOUS
<1>2. TypeOK
  <2>1. 0 \in Leaves /\ 1 \in 0..2*LMS_LEAVES-1 /\ 0 \in 0..LMS_HEIGHT
    BY Shape DEF Leaves
  <2>2. DOMAIN tree = TreeNodes
    BY <1>1 DEF Init
  <2> QED
    BY <1>1, <2>1, <2>2 DEF Init, TypeOK
<1> QED
  BY <1>1, <1>2 DEF Init, LInv, BuildInv, SignatureInv, ClimbInv, PathInv, VerifyInv

\* Nothing is signed, extracted or verified before the tree is built.
LEMMA LInvBuild ==
    ASSUME LInv, Initialize \/ BuildLeaf \/ BuildNode \/ BuildFails
    PROVE  LInv'
<1>1. /\ phase # "ready"
      /\ UNCHANGED <<signature, path, op, q, node, level, digest, current, ok>>
  BY DEF Initialize, BuildLeaf, BuildNode, BuildFails, Quiet, climb
<1>2. signature = NoSignature /\ path = NoPath /\ op = "idle"
  BY <1>1 DEF LInv, TypeOK, SignatureInv, ClimbInv, PathInv, VerifyInv
<1>3. SignatureInv' /\ ClimbInv' /\ PathInv' /\ VerifyInv'
  BY <1>1, <1>2 DEF SignatureInv, ClimbInv, PathInv, VerifyInv
<1>4. CASE Initialize
  <2>1. TypeOK'
    BY <1>1, <1>4, Shape DEF LInv, TypeOK, Initialize, Leaves
  <2>2. BuildInv'
    BY <1>4 DEF BuildInv, Initialize
  <2> QED
    BY <1>3, <2>1, <2>2 DEF LInv
<1>5. CASE BuildLeaf
  <2>1. /\ phase = "leaves" /\ seed = OwnSeed /\ seed' = seed /\ cursor \in Leaves /\ DOMAIN tree = TreeNodes
        /\ tree' = [tree EXCEPT ![LMS_LEAVES + cursor] =
                      HashLeaf(LMS_LEAVES + cursor, PublicHash(OwnSeed, cursor))]
    BY <1>5 DEF LInv, TypeOK, BuildInv, BuildLeaf
  <2>2. DOMAIN tree' = TreeNodes /\ LMS_LEAVES + cursor \in TreeNodes
    BY <2>1, Shape DEF TreeNodes, Leaves
  <2>3. TypeOK'
    <3>1. cursor' \in Leaves /\ phase' \in {"leaves", "nodes"}
      BY <1>5, <2>1, Shape DEF BuildLeaf, MoreLeaves, Leaves
    <3> QED
      BY <1>1, <2>1, <2>2, <3>1 DEF LInv, TypeOK
  <2>4. \A j \in 0..cursor : GoodLeaf(j)'
    <3>1. SUFFICES ASSUME NEW j \in 0..cursor PROVE GoodLeaf(j)'
      OBVIOUS
    <3>2. CASE j = cursor
      BY <2>1, <2>2, <3>2 DEF GoodLeaf
    <3>3. CASE j # cursor
      <4>1. j \in 0..cursor-1 /\ LMS_LEAVES + j # LMS_LEAVES + cursor
        BY <2>1, <3>3, Shape DEF Leaves
      <4>2. GoodLeaf(j)
        BY <2>1, <4>1 DEF LInv, BuildInv
      <4>3. LMS_LEAVES + j \in TreeNodes
        <5>1. j \in Nat /\ j < LMS_LEAVES
          BY <2>1, <4>1, Shape DEF Leaves
        <5> QED
          BY <5>1, Shape DEF TreeNodes
      <4> QED
        BY <2>1, <4>1, <4>2, <4>3 DEF GoodLeaf
    <3> QED
      BY <3>2, <3>3
  <2>5. BuildInv'
    <3>1. CASE cursor + 1 < LMS_LEAVES
      <4>1. phase' = "leaves" /\ cursor' = cursor + 1
        BY <1>5, <2>1, <3>1 DEF BuildLeaf, MoreLeaves
      <4>2. 0..cursor'-1 = 0..cursor
        BY <2>1, <4>1, Shape DEF Leaves
      <4> QED
        BY <2>1, <2>4, <4>1, <4>2 DEF BuildInv
    <3>2. CASE ~(cursor + 1 < LMS_LEAVES)
      <4>1. phase' = "nodes" /\ cursor' = LMS_LEAVES - 1
        BY <1>5, <3>2 DEF BuildLeaf, MoreLeaves
      <4>2. 0..cursor = Leaves /\ cursor' \in 1..LMS_LEAVES-1 /\ cursor'+1..LMS_LEAVES-1 = {}
        BY <2>1, <3>2, <4>1, Shape DEF Leaves
      <4> QED
        BY <2>4, <4>1, <4>2 DEF BuildInv
    <3> QED
      BY <3>1, <3>2
  <2> QED
    BY <1>3, <2>3, <2>5 DEF LInv
<1>6. CASE BuildNode
  <2>1. /\ phase = "nodes" /\ cursor \in 1..LMS_LEAVES-1 /\ DOMAIN tree = TreeNodes
        /\ tree' = [tree EXCEPT ![cursor] = HashInternal(cursor, tree[2 * cursor], tree[2 * cursor + 1])]
    BY <1>6 DEF LInv, TypeOK, BuildInv, BuildNode, BuildOrder
  <2>2. /\ DOMAIN tree' = TreeNodes /\ cursor \in TreeNodes /\ cursor \in Nat
        /\ \A n \in TreeNodes : n # cursor => tree'[n] = tree[n]
        /\ tree'[cursor] = HashInternal(cursor, tree[2 * cursor], tree[2 * cursor + 1])
    BY <2>1, Shape DEF TreeNodes
  <2>3. TypeOK'
    <3>1. cursor' \in Leaves /\ phase' \in {"nodes", "ready"} /\ seed' \in {OwnSeed, Zeroed}
      BY <1>6, <2>1, Shape DEF LInv, TypeOK, BuildNode, Leaves
    <3> QED
      BY <1>1, <2>2, <3>1 DEF LInv, TypeOK
  <2>4. \A j \in Leaves : GoodLeaf(j)'
    <3>1. \A j \in Leaves : GoodLeaf(j) /\ LMS_LEAVES + j \in TreeNodes /\ LMS_LEAVES + j # cursor
      BY <2>1, Shape DEF LInv, BuildInv, Leaves, TreeNodes
    <3> QED
      BY <2>2, <3>1 DEF GoodLeaf
  <2>5. \A n \in cursor..LMS_LEAVES-1 : GoodNode(n)'
    <3>1. SUFFICES ASSUME NEW n \in cursor..LMS_LEAVES-1 PROVE GoodNode(n)'
      OBVIOUS
    <3>2. /\ n \in Nat /\ 2 * n \in TreeNodes /\ 2 * n + 1 \in TreeNodes /\ n \in TreeNodes
          /\ 2 * n # cursor /\ 2 * n + 1 # cursor
      BY <2>1, Shape DEF TreeNodes
    <3>3. tree'[2 * n] = tree[2 * n] /\ tree'[2 * n + 1] = tree[2 * n + 1]
      BY <2>2, <3>2
    <3>4. CASE n = cursor
      BY <2>2, <3>3, <3>4 DEF GoodNode
    <3>5. CASE n # cursor
      <4>1. GoodNode(n)
        BY <2>1, <3>5, Shape DEF LInv, BuildInv
      <4> QED
        BY <2>2, <3>2, <3>3, <3>5, <4>1 DEF GoodNode
    <3> QED
      BY <3>4, <3>5
  <2>6. BuildInv'
    <3>1. CASE cursor > 1
      <4>1. phase' = "nodes" /\ cursor' = cursor - 1
        BY <1>6, <2>1, <3>1 DEF BuildNode
      <4>2. cursor'+1..LMS_LEAVES-1 = cursor..LMS_LEAVES-1 /\ cursor' \in 1..LMS_LEAVES-1
        BY <2>1, <3>1, <4>1, Shape
      <4> QED
        BY <2>4, <2>5, <4>1, <4>2 DEF BuildInv
    <3>2. CASE cursor = 1
      <4>1. phase' = "ready"
        BY <1>6, <3>2 DEF BuildNode
      <4> QED
        BY <2>4, <2>5, <3>2, <4>1 DEF BuildInv
    <3> QED
      BY <2>1, <3>1, <3>2, Shape
  <2> QED
    BY <1>3, <2>3, <2>6 DEF LInv
<1>7. CASE BuildFails
  <2>1. TypeOK' /\ BuildInv'
    BY <1>1, <1>7 DEF LInv, TypeOK, BuildInv, BuildFails
  <2> QED
    BY <1>3, <2>1 DEF LInv
<1> QED
  BY <1>4, <1>5, <1>6, <1>7

\* A parent is right exactly if the child and its sibling are.
LEMMA ParentRight ==
    ASSUME BuildInv, phase = "ready", NEW n \in Nat, n >= 2, n <= 2 * LMS_LEAVES - 1,
           NEW here, NEW sibling
    PROVE  Parent(n, here, sibling) = tree[n \div 2]
           <=> here = tree[n] /\ sibling = tree[Sibling(n)]
<1>1. n \div 2 \in 1..LMS_LEAVES-1 /\ n % 2 \in {0, 1}
  BY DivMod, Shape
<1>2. tree[n \div 2] = HashInternal(n \div 2, tree[2 * (n \div 2)], tree[2 * (n \div 2) + 1])
  BY <1>1 DEF BuildInv, GoodNode
<1>3. CASE n % 2 = 0
  <2>1. n = 2 * (n \div 2) /\ Sibling(n) = 2 * (n \div 2) + 1
    BY <1>3, Siblings
  <2>2. tree[n \div 2] = HashInternal(n \div 2, tree[n], tree[Sibling(n)])
    BY <1>2, <2>1
  <2>3. Parent(n, here, sibling) = HashInternal(n \div 2, here, sibling)
    BY <1>3 DEF Parent
  <2> QED
    BY <2>2, <2>3 DEF HashInternal
<1>4. CASE n % 2 = 1
  <2>1. n = 2 * (n \div 2) + 1 /\ Sibling(n) = 2 * (n \div 2)
    BY <1>4, Siblings
  <2>2. tree[n \div 2] = HashInternal(n \div 2, tree[Sibling(n)], tree[n])
    BY <1>2, <2>1
  <2>3. Parent(n, here, sibling) = HashInternal(n \div 2, sibling, here)
    BY <1>4 DEF Parent
  <2> QED
    BY <2>2, <2>3 DEF HashInternal
<1> QED
  BY <1>1, <1>3, <1>4

\* Different leaves have different siblings.
LEMMA LeafSiblings ==
    ASSUME BuildInv, phase = "ready", NEW a \in Leaves, NEW b \in Leaves,
           tree[Sibling(LMS_LEAVES + a)] = tree[Sibling(LMS_LEAVES + b)]
    PROVE  a = b
<1>1. \A j \in Leaves : tree[LMS_LEAVES + j].node = LMS_LEAVES + j
  <2>1. \A j \in Leaves : tree[LMS_LEAVES + j] = HashLeaf(LMS_LEAVES + j, PublicHash(OwnSeed, j))
    BY DEF BuildInv, GoodLeaf
  <2>2. \A n, key : HashLeaf(n, key).node = n
    BY DEF HashLeaf
  <2> QED
    BY <2>1, <2>2
<1>2. \A j \in Leaves : \E k \in Leaves : Sibling(LMS_LEAVES + j) = LMS_LEAVES + k
  <2>1. SUFFICES ASSUME NEW j \in Leaves
        PROVE  \E k \in Leaves : Sibling(LMS_LEAVES + j) = LMS_LEAVES + k
    OBVIOUS
  <2>2. Sibling(LMS_LEAVES + j) \in LMS_LEAVES..2 * LMS_LEAVES - 1
    BY Shape, DivMod DEF Leaves, Sibling
  <2>3. Sibling(LMS_LEAVES + j) - LMS_LEAVES \in Leaves
    BY <2>2, Shape DEF Leaves
  <2>4. Sibling(LMS_LEAVES + j) = LMS_LEAVES + (Sibling(LMS_LEAVES + j) - LMS_LEAVES)
    BY <2>2, Shape
  <2> QED
    BY <2>3, <2>4
<1>3. Sibling(LMS_LEAVES + a) = Sibling(LMS_LEAVES + b)
  BY <1>1, <1>2
<1>4. /\ LMS_LEAVES + a \in Nat /\ LMS_LEAVES + a >= 2
      /\ LMS_LEAVES + b \in Nat /\ LMS_LEAVES + b >= 2
      /\ a \in Nat /\ b \in Nat
  BY Shape DEF Leaves
<1>5. LMS_LEAVES + a = LMS_LEAVES + b
  BY <1>3, <1>4, SiblingInjective
<1> QED
  BY <1>4, <1>5, Shape

\* A leaf is at the bottom row.
LEMMA BottomRow ==
    ASSUME NEW leaf \in Leaves
    PROVE  /\ LMS_LEAVES + leaf \in NodesAt[0]..2 * NodesAt[0] - 1
           /\ LMS_LEAVES + leaf \in 0..2 * LMS_LEAVES - 1
           /\ LMS_LEAVES + leaf <= 2 * LMS_LEAVES - 1
           /\ 0 \in 0..LMS_HEIGHT /\ 0 < LMS_HEIGHT
BY Shape DEF Leaves, LMS_LEAVES

\* One level up.
LEMMA NextRow ==
    ASSUME NEW l \in 0..LMS_HEIGHT, l < LMS_HEIGHT, NEW n \in NodesAt[l]..2 * NodesAt[l] - 1,
           n <= 2 * LMS_LEAVES - 1
    PROVE  /\ l + 1 \in 0..LMS_HEIGHT /\ l + 1 > 0 /\ l \in 0..LMS_HEIGHT-1
           /\ n \in Nat /\ n >= 2
           /\ n \div 2 \in NodesAt[l + 1]..2 * NodesAt[l + 1] - 1
           /\ n \div 2 <= 2 * LMS_LEAVES - 1
           /\ n \div 2 \in 0..2 * LMS_LEAVES - 1
<1>1. l \in 0..LMS_HEIGHT-1 /\ l + 1 \in 0..LMS_HEIGHT /\ l + 1 > 0
  BY Shape
<1>2. NodesAt[l] \in Nat /\ NodesAt[l] >= 2
  BY <1>1, LmsAssumption
<1>3. n \in Nat /\ n >= 2
  BY <1>2
<1>4. n \div 2 \in NodesAt[l + 1]..2 * NodesAt[l + 1] - 1
  BY <1>1, UpOne
<1> QED
  BY <1>1, <1>3, <1>4, DivMod, Shape

LEMMA LInvStartExtract ==
    ASSUME LInv, NEW leaf \in Leaves, StartExtract(leaf)
    PROVE  LInv'
<1> USE DEF buildVars
<1>1. /\ op = "idle" /\ op' = "extract" /\ phase' = "ready" /\ phase = "ready"
      /\ q' = leaf /\ node' = LMS_LEAVES + leaf /\ level' = 0
      /\ UNCHANGED <<tree, seed, cursor, signature, digest, current, ok>>
      /\ path' = [q |-> leaf, nodes |-> [l \in Levels |-> NoNode], way |-> [l \in Levels |-> 0]]
  BY DEF StartExtract
<1>2. TypeOK'
  BY <1>1, BottomRow DEF LInv, TypeOK
<1>3. BuildInv' /\ SignatureInv' /\ ClimbInv' /\ VerifyInv'
  BY <1>1, BottomRow DEF LInv, BuildInv, GoodLeaf, GoodNode, SignatureInv, ClimbInv, VerifyInv
<1>4. path'.q = leaf /\ DOMAIN path'.nodes = Levels /\ DOMAIN path'.way = Levels
  BY <1>1
<1>5. Climbed(tree, path', 0)
  BY <1>4 DEF Climbed
<1>6. path' # NoPath
  BY <1>4, Shape DEF NoPath, Leaves
<1>7. PathInv'
  BY <1>1, <1>4, <1>5, <1>6, BottomRow DEF PathInv
<1> QED
  BY <1>2, <1>3, <1>7 DEF LInv

LEMMA LInvExtractLevel ==
    ASSUME LInv, ExtractLevel
    PROVE  LInv'
<1> USE DEF buildVars
<1>1. /\ op = "extract" /\ phase = "ready" /\ phase' = "ready"
      /\ UNCHANGED <<tree, seed, cursor, signature, digest, current, ok>>
      /\ path # NoPath /\ path.q = q /\ level < LMS_HEIGHT /\ Climbed(tree, path, level)
      /\ path'.q = path.q
      /\ path'.nodes = [path.nodes EXCEPT ![level] = tree[Sibling(node)]]
      /\ path'.way = [path.way EXCEPT ![level] = node]
  BY DEF ExtractLevel, LInv, ClimbInv, PathInv
<1>2. /\ level \in 0..LMS_HEIGHT /\ q \in Leaves
      /\ node \in NodesAt[level]..2 * NodesAt[level] - 1 /\ node <= 2 * LMS_LEAVES - 1
      /\ level = 0 => node = LMS_LEAVES + q
      /\ level > 0 => node = path.way[level - 1] \div 2
  BY <1>1 DEF LInv, TypeOK, ClimbInv, PathInv
<1>3. /\ level + 1 \in 0..LMS_HEIGHT /\ level \in Levels /\ level \in Nat
      /\ node \div 2 \in NodesAt[level + 1]..2 * NodesAt[level + 1] - 1
      /\ node \div 2 <= 2 * LMS_LEAVES - 1 /\ node \div 2 \in 0..2 * LMS_LEAVES - 1
  BY <1>1, <1>2, NextRow DEF Levels
<1>4. path' # NoPath
  BY <1>1, <1>2, Shape DEF NoPath, Leaves
<1>5. /\ DOMAIN path.nodes = Levels /\ DOMAIN path.way = Levels
      /\ level > 0 => path.way[0] = LMS_LEAVES + path.q
      /\ \A l \in 0..level-1 : path.nodes[l] = tree[Sibling(path.way[l])]
      /\ \A l \in 0..level-2 : path.way[l + 1] = path.way[l] \div 2
  BY <1>1 DEF Climbed
<1>6. /\ path'.way[level] = node /\ path'.nodes[level] = tree[Sibling(node)]
      /\ \A l \in 0..level-1 : path'.way[l] = path.way[l] /\ path'.nodes[l] = path.nodes[l]
      /\ DOMAIN path'.nodes = Levels /\ DOMAIN path'.way = Levels
  <2>1. \A l \in 0..level-1 : l \in Levels /\ l # level
    BY <1>3, Shape DEF Levels
  <2> QED
    BY <1>1, <1>3, <1>5, <2>1
<1>7. Climbed(tree, path', level + 1)
  <2>1. path'.way[0] = LMS_LEAVES + path'.q
    <3>1. CASE level = 0
      BY <1>1, <1>2, <1>6, <3>1
    <3>2. CASE level > 0
      BY <1>1, <1>3, <1>5, <1>6, <3>2
    <3> QED
      BY <1>3, <3>1, <3>2
  <2>2. \A l \in 0..(level + 1) - 1 : path'.nodes[l] = tree[Sibling(path'.way[l])]
    <3>1. \A l \in 0..(level + 1) - 1 : l = level \/ l \in 0..level-1
      BY <1>3
    <3> QED
      BY <1>5, <1>6, <3>1
  <2>3. \A l \in 0..(level + 1) - 2 : path'.way[l + 1] = path'.way[l] \div 2
    <3>1. SUFFICES ASSUME NEW l \in 0..(level + 1) - 2
          PROVE  path'.way[l + 1] = path'.way[l] \div 2
      OBVIOUS
    <3>2. CASE l = level - 1
      <4>1. l + 1 = level /\ level > 0 /\ l \in 0..level-1
        BY <1>3, <3>2
      <4> QED
        BY <1>2, <1>6, <3>2, <4>1
    <3>3. CASE l # level - 1
      <4>1. l \in 0..level-2 /\ l \in 0..level-1 /\ l + 1 \in 0..level-1
        BY <1>3, <3>3
      <4> QED
        BY <1>5, <1>6, <4>1
    <3> QED
      BY <3>2, <3>3
  <2> QED
    BY <1>1, <1>6, <2>1, <2>2, <2>3 DEF Climbed
<1>8. BuildInv' /\ SignatureInv'
  BY <1>1 DEF LInv, BuildInv, GoodLeaf, GoodNode, SignatureInv
<1>9. CASE level + 1 < LMS_HEIGHT
  <2>1. op' = "extract" /\ q' = q /\ level' = level + 1 /\ node' = node \div 2
    BY <1>1, <1>9 DEF ExtractLevel
  <2>2. TypeOK'
    BY <1>1, <1>2, <1>3, <2>1 DEF LInv, TypeOK
  <2>3. ClimbInv' /\ VerifyInv'
    BY <1>1, <1>3, <2>1 DEF ClimbInv, VerifyInv
  <2>4. PathInv'
    <3>1. level' - 1 = level
      BY <1>3, <2>1
    <3> QED
      BY <1>1, <1>4, <1>6, <1>7, <1>9, <2>1, <3>1 DEF PathInv
  <2> QED
    BY <1>8, <2>2, <2>3, <2>4 DEF LInv
<1>10. CASE ~(level + 1 < LMS_HEIGHT)
  <2>1. op' = "idle" /\ q' = 0 /\ node' = 1 /\ level' = 0
    BY <1>1, <1>10 DEF ExtractLevel
  <2>2. 0 \in Leaves /\ 1 \in 0..2 * LMS_LEAVES - 1 /\ 0 \in 0..LMS_HEIGHT /\ level + 1 = LMS_HEIGHT
    BY <1>1, <1>3, <1>10, Shape DEF Leaves
  <2>3. TypeOK'
    BY <1>1, <1>2, <2>1, <2>2 DEF LInv, TypeOK
  <2>4. ClimbInv' /\ VerifyInv' /\ PathInv'
    BY <1>1, <1>7, <2>1, <2>2 DEF ClimbInv, VerifyInv, PathInv
  <2> QED
    BY <1>8, <2>3, <2>4 DEF LInv
<1> QED
  BY <1>9, <1>10

LEMMA LInvSign ==
    ASSUME LInv, NEW leaf \in Leaves, NEW d \in Digests, NEW s \in {OwnSeed, OtherSeed}, Sign(leaf, d, s)
    PROVE  LInv'
<1> USE DEF buildVars, climb
<1>1. /\ op = "idle" /\ op' = op /\ phase = "ready" /\ phase' = "ready"
      /\ UNCHANGED <<tree, seed, cursor, path, q, node, level, digest, current, ok>>
      /\ signature'.q = leaf /\ signature'.digest = d /\ signature'.seed = s
      /\ \A i \in 0..P-1 : signature'.y[i] =
            Chain(Element(s, leaf, i), leaf, i, 0, Coefficients[d][i])
  BY DEF Sign
<1>2. \A i \in 0..P-1 : signature'.y[i] = At(s, leaf, i, Coefficients[d][i])
  BY <1>1, CoefficientType, ChainFromStart
<1>3. TypeOK'
  BY <1>1 DEF LInv, TypeOK
<1>4. SignatureInv'
  BY <1>1, <1>2 DEF SignatureInv, Released
<1>5. BuildInv' /\ ClimbInv' /\ PathInv' /\ VerifyInv'
  BY <1>1 DEF LInv, BuildInv, GoodLeaf, GoodNode, ClimbInv, PathInv, Climbed, VerifyInv
<1> QED
  BY <1>3, <1>4, <1>5 DEF LInv

LEMMA LInvStartVerify ==
    ASSUME LInv, NEW leaf \in Leaves, NEW d \in Digests, StartVerify(leaf, d)
    PROVE  LInv'
<1> USE DEF buildVars
<1>1. /\ op = "idle" /\ op' = "verify" /\ signature # NoSignature /\ path # NoPath
      /\ q' = leaf /\ node' = LMS_LEAVES + leaf /\ level' = 0 /\ digest' = d
      /\ current' = HashLeaf(LMS_LEAVES + leaf, CandidateHash(leaf, d, signature.y))
      /\ UNCHANGED <<phase, cursor, seed, tree, signature, path, ok>>
  BY DEF StartVerify
<1>2. /\ phase = "ready" /\ Climbed(tree, path, LMS_HEIGHT)
      /\ Released(signature.y, signature.seed, signature.q, signature.digest)
      /\ signature.q \in Leaves /\ signature.digest \in Digests
  BY <1>1 DEF LInv, PathInv, SignatureInv, TypeOK
<1>3. TypeOK'
  BY <1>1, BottomRow DEF LInv, TypeOK
<1>4. BuildInv' /\ SignatureInv' /\ ClimbInv' /\ PathInv'
  BY <1>1, <1>2, BottomRow
  DEF LInv, BuildInv, GoodLeaf, GoodNode, SignatureInv, ClimbInv, PathInv, Climbed
<1>5. current' = tree[LMS_LEAVES + leaf]
      <=> signature.seed = OwnSeed /\ signature.q = leaf /\ signature.digest = d
  <2>1. tree[LMS_LEAVES + leaf] = HashLeaf(LMS_LEAVES + leaf, PublicHash(OwnSeed, leaf))
    BY <1>2 DEF LInv, BuildInv, GoodLeaf
  <2>2. current' = tree[LMS_LEAVES + leaf]
        <=> CandidateHash(leaf, d, signature.y) = PublicHash(OwnSeed, leaf)
    BY <1>1, <2>1 DEF HashLeaf
  <2>3. CandidateHash(leaf, d, signature.y) = PublicHash(OwnSeed, leaf)
        <=> signature.seed = OwnSeed /\ signature.q = leaf /\ signature.digest = d
    BY <1>2, CandidateIsKey
  <2> QED
    BY <2>2, <2>3
<1>6. path.q = leaf => LMS_LEAVES + leaf = path.way[0]
  BY <1>2, Shape DEF Climbed
<1>7. VerifyInv'
  BY <1>1, <1>5, <1>6 DEF VerifyInv, LeafMatches
<1> QED
  BY <1>3, <1>4, <1>7 DEF LInv

LEMMA LInvVerifyLevel ==
    ASSUME LInv, VerifyLevel
    PROVE  LInv'
<1> USE DEF buildVars
<1>1. /\ op = "verify" /\ op' = op /\ level < LMS_HEIGHT
      /\ current' = Parent(node, current, path.nodes[level])
      /\ node' = node \div 2 /\ level' = level + 1
      /\ UNCHANGED <<phase, cursor, seed, tree, signature, path, q, digest, ok>>
  BY DEF VerifyLevel
<1>2. /\ phase = "ready" /\ level \in 0..LMS_HEIGHT /\ q \in Leaves /\ digest \in Digests
      /\ node \in NodesAt[level]..2 * NodesAt[level] - 1 /\ node <= 2 * LMS_LEAVES - 1
      /\ level = 0 => node = LMS_LEAVES + q
      /\ signature # NoSignature /\ path # NoPath /\ path.q \in Leaves
      /\ Climbed(tree, path, LMS_HEIGHT)
  BY <1>1 DEF LInv, TypeOK, ClimbInv, PathInv, VerifyInv
<1>3. /\ level + 1 \in 0..LMS_HEIGHT /\ level + 1 > 0 /\ level \in 0..LMS_HEIGHT-1 /\ level \in Nat
      /\ node \in Nat /\ node >= 2
      /\ node \div 2 \in NodesAt[level + 1]..2 * NodesAt[level + 1] - 1
      /\ node \div 2 <= 2 * LMS_LEAVES - 1 /\ node \div 2 \in 0..2 * LMS_LEAVES - 1
  BY <1>1, <1>2, NextRow
<1>4. /\ path.way[0] = LMS_LEAVES + path.q
      /\ path.nodes[level] = tree[Sibling(path.way[level])]
      /\ level + 1 < LMS_HEIGHT => path.way[level + 1] = path.way[level] \div 2
  BY <1>2, <1>3, Shape DEF Climbed
<1>5. /\ path.q = q => node = path.way[level]
      /\ level = 0 => (current = tree[node] <=> LeafMatches)
      /\ level > 0 => (current = tree[node] <=> LeafMatches /\ path.q = q)
  BY <1>1 DEF LInv, VerifyInv
<1>6. current' = tree[node \div 2]
      <=> current = tree[node] /\ path.nodes[level] = tree[Sibling(node)]
  BY <1>1, <1>2, <1>3, ParentRight DEF LInv
<1>7. current' = tree[node \div 2] <=> LeafMatches /\ path.q = q
  <2>1. CASE level = 0
    <3>1. path.nodes[0] = tree[Sibling(LMS_LEAVES + path.q)] /\ node = LMS_LEAVES + q
      BY <1>2, <1>4, <2>1
    <3>2. path.nodes[0] = tree[Sibling(node)] <=> path.q = q
      BY <1>2, <3>1, LeafSiblings DEF LInv
    <3> QED
      BY <1>5, <1>6, <2>1, <3>2
  <2>2. CASE level > 0
    BY <1>4, <1>5, <1>6, <2>2
  <2> QED
    BY <1>3, <2>1, <2>2
<1>8. TypeOK'
  BY <1>1, <1>3 DEF LInv, TypeOK
<1>9. BuildInv' /\ SignatureInv' /\ ClimbInv' /\ PathInv'
  BY <1>1, <1>2, <1>3
  DEF LInv, BuildInv, GoodLeaf, GoodNode, SignatureInv, ClimbInv, PathInv, Climbed
<1>10. VerifyInv'
  <2>1. path.q = q /\ level + 1 < LMS_HEIGHT => node \div 2 = path.way[level + 1]
    BY <1>4, <1>5
  <2> QED
    BY <1>1, <1>2, <1>3, <1>7, <2>1 DEF VerifyInv, LeafMatches
<1> QED
  BY <1>8, <1>9, <1>10 DEF LInv

LEMMA LInvCompare ==
    ASSUME LInv, Compare
    PROVE  LInv'
<1> USE DEF buildVars, climb
<1>1. /\ op = "verify" /\ op' = "verdict" /\ level = LMS_HEIGHT
      /\ ok' = (current = tree[1])
      /\ UNCHANGED <<phase, cursor, seed, tree, signature, path, q, node, level, digest, current>>
  BY DEF Compare
<1>2. node = 1
  <2>1. node \in NodesAt[LMS_HEIGHT]..2 * NodesAt[LMS_HEIGHT] - 1
    BY <1>1 DEF LInv, ClimbInv
  <2> QED
    BY <2>1, LmsAssumption
<1>3. current = tree[1] <=> LeafMatches /\ path.q = q
  BY <1>1, <1>2, Shape DEF LInv, VerifyInv
<1>4. ok' \in BOOLEAN
  BY <1>1
<1>5. TypeOK'
  BY <1>1, <1>4 DEF LInv, TypeOK
<1>6. BuildInv' /\ SignatureInv' /\ ClimbInv' /\ PathInv'
  BY <1>1 DEF LInv, BuildInv, GoodLeaf, GoodNode, SignatureInv, ClimbInv, PathInv, Climbed
<1>7. VerifyInv'
  BY <1>1, <1>3 DEF LInv, VerifyInv, LeafMatches
<1> QED
  BY <1>5, <1>6, <1>7 DEF LInv

LEMMA LInvReturn ==
    ASSUME LInv, Return
    PROVE  LInv'
<1> USE DEF buildVars
<1>1. /\ op \in {"verify", "verdict"} /\ op' = "idle"
      /\ q' = 0 /\ node' = 1 /\ level' = 0
      /\ digest' = NoDigest /\ current' = NoNode /\ ok' = FALSE
      /\ UNCHANGED <<phase, cursor, seed, tree, signature, path>>
  BY DEF Return
<1>2. 0 \in Leaves /\ 1 \in 0..2 * LMS_LEAVES - 1 /\ 0 \in 0..LMS_HEIGHT
  BY Shape DEF Leaves
<1>3. TypeOK'
  BY <1>1, <1>2 DEF LInv, TypeOK
<1>4. BuildInv' /\ SignatureInv' /\ ClimbInv' /\ PathInv' /\ VerifyInv'
  BY <1>1
  DEF LInv, BuildInv, GoodLeaf, GoodNode, SignatureInv, ClimbInv, PathInv, Climbed, VerifyInv
<1> QED
  BY <1>3, <1>4 DEF LInv

LEMMA LInvStutter ==
    ASSUME LInv, UNCHANGED vars
    PROVE  LInv'
<1>1. TypeOK' /\ BuildInv' /\ SignatureInv'
  BY DEF LInv, TypeOK, BuildInv, GoodLeaf, GoodNode, SignatureInv, vars
<1>2. ClimbInv' /\ PathInv' /\ VerifyInv'
  BY DEF LInv, ClimbInv, PathInv, Climbed, VerifyInv, LeafMatches, vars
<1> QED
  BY <1>1, <1>2 DEF LInv

LEMMA LInvStep == LInv /\ [Next]_vars => LInv'
<1>1. SUFFICES ASSUME LInv, [Next]_vars PROVE LInv'
  OBVIOUS
<1>2. CASE Initialize \/ BuildLeaf \/ BuildNode \/ BuildFails
  BY <1>1, <1>2, LInvBuild
<1>3. CASE \E leaf \in Leaves : StartExtract(leaf)
  BY <1>1, <1>3, LInvStartExtract
<1>4. CASE ExtractLevel
  BY <1>1, <1>4, LInvExtractLevel
<1>5. CASE \E leaf \in Leaves, d \in Digests, s \in {OwnSeed, OtherSeed} : Sign(leaf, d, s)
  BY <1>1, <1>5, LInvSign
<1>6. CASE \E leaf \in Leaves, d \in Digests : StartVerify(leaf, d)
  BY <1>1, <1>6, LInvStartVerify
<1>7. CASE VerifyLevel \/ Compare \/ Return
  BY <1>1, <1>7, LInvVerifyLevel, LInvCompare, LInvReturn
<1>8. CASE UNCHANGED vars
  BY <1>1, <1>8, LInvStutter
<1> QED
  BY <1>1, <1>2, <1>3, <1>4, <1>5, <1>6, <1>7, <1>8 DEF Next

LEMMA LmsInvariance == Spec => []LInv
BY LInvInit, LInvStep, PTL DEF Spec

\* Type correctness of the LMS object, for every height and every set of digests.
THEOREM LmsTypeCorrect == Spec => []TypeOK
BY LmsInvariance, PTL DEF LInv

\* A tree in use is the hash tree over the device's own keys, for every height.
THEOREM BuiltIsTreeHolds == Spec => []BuiltIsTree
<1>1. LInv => BuiltIsTree
  BY DEF LInv, BuildInv, BuiltIsTree, GoodLeaf, GoodNode
<1> QED
  BY <1>1, LmsInvariance, PTL

\* verify accepts exactly the signed digest with its index, seed and path, for every
\* height of the tree, every leaf, every length of digests and chains.
THEOREM VerdictIsRightHolds == Spec => []VerdictIsRight
<1>1. LInv => VerdictIsRight
  BY DEF LInv, VerifyInv, VerdictIsRight, LeafMatches
<1> QED
  BY <1>1, LmsInvariance, PTL

-----------------------------------------------------------------------------
(* The checksum at full size *)

\* The sums that a checksum has room for, and a sum moved to the digits that are read.
SumRange == 0..4095
Shifted(s) == (s * 16) % Word

\* Between two checksums, the one that is larger has a larger digit: with 64
\* coefficients of at most 15 the sum is at most 960, and any below 4096 will do.
THEOREM ChecksumOrder ==
    ASSUME MAX_CHAIN = 15, NEW s \in SumRange, NEW t \in SumRange, s < t
    PROVE  \E j \in 0..2 : WordDigit(Shifted(s), j) < WordDigit(Shifted(t), j)
<1>1. Base = 16
  BY DEF Base
<1>2. (s * 16) % Word = s * 16 /\ (t * 16) % Word = t * 16
  BY DEF Word, SumRange
<1>3. ASSUME NEW c \in Nat, c < 4096
      PROVE  /\ WordDigit(c * 16, 0) = c \div 256
             /\ WordDigit(c * 16, 1) = (c \div 16) % 16
             /\ WordDigit(c * 16, 2) = c % 16
  <2>1. (c * 16) \div 4096 = c \div 256 /\ (c * 16) \div 256 = c \div 16 /\ (c * 16) \div 16 = c
    BY <1>3
  <2>2. (c \div 256) % 16 = c \div 256
    BY <1>3
  <2>3. Base * Base * Base = 4096 /\ Base * Base = 256
    BY <1>1
  <2>4. WordDigit(c * 16, 0) = ((c * 16) \div 4096) % 16
    BY <1>1, <2>3 DEF WordDigit
  <2>5. WordDigit(c * 16, 1) = ((c * 16) \div 256) % 16
    BY <1>1, <2>3 DEF WordDigit
  <2>6. WordDigit(c * 16, 2) = ((c * 16) \div 16) % 16
    BY <1>1 DEF WordDigit
  <2> QED
    BY <2>1, <2>2, <2>4, <2>5, <2>6
<1>4. s \in Nat /\ s < 4096 /\ t \in Nat /\ t < 4096
  BY DEF SumRange
<1>5. SUFFICES ASSUME \A j \in 0..2 : ~(WordDigit(s * 16, j) < WordDigit(t * 16, j))
               PROVE  FALSE
  BY <1>2 DEF Shifted
<1>6. /\ ~(WordDigit(s * 16, 0) < WordDigit(t * 16, 0))
      /\ ~(WordDigit(s * 16, 1) < WordDigit(t * 16, 1))
      /\ ~(WordDigit(s * 16, 2) < WordDigit(t * 16, 2))
  BY <1>5
<1>7. /\ ~(s \div 256 < t \div 256)
      /\ ~((s \div 16) % 16 < (t \div 16) % 16)
      /\ ~(s % 16 < t % 16)
  BY <1>3, <1>4, <1>6
<1>8. ASSUME NEW c \in Nat
      PROVE  c = 256 * (c \div 256) + (16 * ((c \div 16) % 16)) + (c % 16)
  <2>1. c = (16 * (c \div 16)) + (c % 16) /\ (c \div 16) \div 16 = c \div 256
    OBVIOUS
  <2>2. c \div 16 \in Nat
    OBVIOUS
  <2>3. c \div 16 = 16 * ((c \div 16) \div 16) + ((c \div 16) % 16)
    BY <2>2
  <2> QED
    BY <2>1, <2>3
<1>9. /\ s = 256 * (s \div 256) + (16 * ((s \div 16) % 16)) + (s % 16)
      /\ t = 256 * (t \div 256) + (16 * ((t \div 16) % 16)) + (t % 16)
  BY <1>4, <1>8
<1>10. /\ s \div 256 \in Nat /\ (s \div 16) % 16 \in Nat /\ s % 16 \in Nat
       /\ t \div 256 \in Nat /\ (t \div 16) % 16 \in Nat /\ t % 16 \in Nat
  BY <1>4
<1>11. ASSUME NEW a \in Nat, NEW b \in Nat, NEW c \in Nat, NEW i \in Nat, NEW j \in Nat, NEW k \in Nat,
              ~(a < i), ~(b < j), ~(c < k)
       PROVE  ~(256 * a + (16 * b) + c < 256 * i + (16 * j) + k)
  BY <1>11
<1>12. ~(s < t)
  BY <1>7, <1>9, <1>10, <1>11
<1> QED
  BY <1>12

\* Whatever the two digests, some coefficient of the first is smaller: one of the
\* digest itself or, if none is, one of the checksum.
LEMMA NoDigestDominates ==
    ASSUME MAX_CHAIN = 15, ChecksumShift = 16, DigestDigits * MAX_CHAIN < 4096,
           NEW d \in AllDigests, NEW e \in AllDigests, d # e
    PROVE  \E i \in 0..P-1 : Coefficients[d][i] < Coefficients[e][i]
<1>1. \A i \in 0..P-1 : /\ Coefficients[d][i] = IF i < DigestDigits THEN d[i]
                                               ELSE WordDigit(Checksum(d), i - DigestDigits)
                        /\ Coefficients[e][i] = IF i < DigestDigits THEN e[i]
                                               ELSE WordDigit(Checksum(e), i - DigestDigits)
  BY DEF Coefficients
<1>2. CASE \E i \in 0..DigestDigits-1 : d[i] < e[i]
  <2>1. PICK i \in 0..DigestDigits-1 : d[i] < e[i]
    BY <1>2
  <2>2. i \in 0..P-1 /\ i < DigestDigits
    BY Sizes DEF P, ChecksumDigits
  <2> QED
    BY <1>1, <2>1, <2>2
<1>3. CASE ~\E i \in 0..DigestDigits-1 : d[i] < e[i]
  <2>1. \A i \in 0..DigestDigits-1 : d[i] >= e[i]
    <3>1. \A i \in 0..DigestDigits-1 : d[i] \in 0..MAX_CHAIN /\ e[i] \in 0..MAX_CHAIN
      BY DEF AllDigests
    <3> QED
      BY <1>3, <3>1, Sizes
  <2>2. DigitSum(d) < DigitSum(e)
    BY <2>1, DigitSumOrder
  <2>3. ASSUME NEW c \in AllDigests PROVE DigitSum(c) \in SumRange
    <3>1. DigitSum(c) \in Nat /\ DigitSum(c) <= DigestDigits * MAX_CHAIN
      BY DigitSumCounts
    <3>2. DigestDigits * MAX_CHAIN \in Nat
      BY Sizes
    <3> QED
      BY <3>1, <3>2 DEF SumRange
  <2>4. PICK j \in 0..2 : WordDigit(Checksum(d), j) < WordDigit(Checksum(e), j)
    <3>1. Checksum(d) = Shifted(DigitSum(d)) /\ Checksum(e) = Shifted(DigitSum(e))
      BY DEF Checksum, Shifted
    <3> QED
      BY <2>2, <2>3, <3>1, ChecksumOrder
  <2>5. /\ DigestDigits + j \in 0..P-1
        /\ ~(DigestDigits + j < DigestDigits)
        /\ (DigestDigits + j) - DigestDigits = j
    BY Sizes DEF P, ChecksumDigits
  <2> QED
    BY <1>1, <2>4, <2>5
<1> QED
  BY <1>2, <1>3

\* A signature is good for one digest only, with the code's chains of 15 steps and
\* its shift of 4: what hashMessageWithChecksum appends makes some coefficient of
\* every other digest smaller.  64 coefficients are well within the bound.
THEOREM NoDominationHolds ==
    ASSUME MAX_CHAIN = 15, ChecksumShift = 16, DigestDigits * MAX_CHAIN < 4096
    PROVE  Spec => []NoDomination
<1>1. TypeOK => NoDomination
  <2> SUFFICES ASSUME TypeOK, signature # NoSignature, NEW d \in AllDigests \ {signature.digest}
               PROVE  \E i \in 0..P-1 : Coefficients[d][i] < Coefficients[signature.digest][i]
    BY DEF NoDomination
  <2>1. signature.digest \in AllDigests
    BY LmsAssumption DEF TypeOK
  <2> QED
    BY <2>1, NoDigestDominates
<1> QED
  BY <1>1, LmsTypeCorrect, PTL
=============================================================================
