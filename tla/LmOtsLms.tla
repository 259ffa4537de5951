------------------------------ MODULE LmOtsLms ------------------------------
(***************************************************************************)
(* LmotsLms: one-time signatures of Winternitz chains under a Merkle tree  *)
(* of their public keys.  The owner builds the tree, extracts the path of  *)
(* a leaf and signs; a peer that knows the root verifies a digest against  *)
(* a signature, an index and a path, of which any may be the wrong one.    *)
(*                                                                         *)
(* A hash is its input, a record: two hashes are equal only if everything  *)
(* hashed is.  The value of a chain is the chain and the position reached; *)
(* a step from a value that is not at the step's own chain and position    *)
(* leaves the chain.  Hashing a message is external: a digest is the       *)
(* sequence of its coefficients.                                           *)
(***************************************************************************)
EXTENDS Naturals, Functions

CONSTANTS
    LMS_HEIGHT,
    NodesAt,        \* NodesAt[l]: nodes l levels above the leaves
    DigestDigits,   \* coefficients of a digest, 64 in the code
    MAX_CHAIN,
    ChecksumShift,  \* LS
    Digests,        \* the digests signed and verified
    OwnSeed, OtherSeed, Zeroed,
    NoSignature, NoNode, NoDigest

LMS_LEAVES == NodesAt[0]
Base == MAX_CHAIN + 1
ChecksumDigits == 3
P == DigestDigits + ChecksumDigits
OffChain == MAX_CHAIN + 1

Leaves == 0..LMS_LEAVES-1
TreeNodes == 1..2*LMS_LEAVES-1
Levels == 0..LMS_HEIGHT-1
\* No path extracted yet: the path of no leaf.
NoPath == [q |-> LMS_LEAVES, nodes |-> [l \in Levels |-> NoNode], way |-> [l \in Levels |-> 0]]

AllDigests == [0..DigestDigits-1 -> 0..MAX_CHAIN]

\* uint16_t
Word == 65536

-----------------------------------------------------------------------------
(* hashMessageWithChecksum and coefficientW4 *)

Plus(a, b) == a + b
DigitSum(d) == FoldFunction(Plus, 0, [i \in DOMAIN d |-> MAX_CHAIN - d[i]])

\* Slip: the sum is not moved to the digits that are read.
ChecksumUnshifted(d) == DigitSum(d) % Word

Checksum(d) == (DigitSum(d) * ChecksumShift) % Word

\* Digit j of a 16-bit number, the highest first.
WordDigit(c, j) == CASE j = 0 -> (c \div (Base * Base * Base)) % Base
                     [] j = 1 -> (c \div (Base * Base)) % Base
                     [] OTHER -> (c \div Base) % Base

\* coefficientW4 over digest and checksum
Coefficients ==
    [d \in AllDigests |-> [i \in 0..P-1 |-> IF i < DigestDigits THEN d[i]
                                          ELSE WordDigit(Checksum(d), i - DigestDigits)]]

ASSUME LmsAssumption ==
    /\ LMS_HEIGHT \in Nat \ {0}
    /\ NodesAt \in [0..LMS_HEIGHT -> Nat \ {0}]
    /\ NodesAt[LMS_HEIGHT] = 1
    /\ \A l \in 0..LMS_HEIGHT-1 : NodesAt[l] = 2 * NodesAt[l + 1]
    /\ DigestDigits \in Nat \ {0}
    /\ MAX_CHAIN \in Nat \ {0}
    /\ ChecksumShift \in Nat
    /\ Digests \subseteq AllDigests
    /\ OwnSeed # OtherSeed

-----------------------------------------------------------------------------
(* Hashes *)

\* derivePrivateElement
Element(seed, q, i) == [seed |-> seed, q |-> q, i |-> i, pos |-> 0]

\* chainHash: steps from..to-1 of chain i of leaf q, applied to value v.
Chain(v, q, i, from, to) ==
    IF from >= to THEN v
    ELSE IF v.q = q /\ v.i = i /\ v.pos = from THEN [v EXCEPT !.pos = to]
    ELSE [v EXCEPT !.pos = OffChain]

\* lmotsPublicHash
PublicHash(seed, q) ==
    [q |-> q, ends |-> [i \in 0..P-1 |-> Chain(Element(seed, q, i), q, i, 0, MAX_CHAIN)]]

HashLeaf(n, key) == [node |-> n, key |-> key]
HashInternal(n, l, r) == [node |-> n, left |-> l, right |-> r]

\* lmotsCandidatePublicHash
CandidateHash(q, d, y) ==
    [q |-> q, ends |-> [i \in 0..P-1 |-> Chain(y[i], q, i, Coefficients[d][i], MAX_CHAIN)]]

-----------------------------------------------------------------------------
VARIABLES
    phase,      \* blank, leaves, nodes, ready or failed
    cursor,     \* the next leaf or node to build
    seed,       \* m_seed
    tree,       \* m_tree
    signature,  \* the last signature made
    path,       \* the last path extracted: leaf, nodes; history: the way up
    op,         \* idle, extract, verify or verdict
    q, node, level,     \* the leaf of the operation and how far up it is
    digest, current,    \* verify: the digest, and the hash so far
    ok                  \* verdict: what verify returned

buildVars == <<phase, cursor, seed, tree>>
climb == <<q, node, level>>
vars == <<phase, cursor, seed, tree, signature, path, op, q, node, level, digest, current, ok>>

Init == /\ phase = "blank"
        /\ cursor = 0
        /\ seed = Zeroed
        /\ tree = [n \in TreeNodes |-> NoNode]
        /\ signature = NoSignature
        /\ path = NoPath
        /\ op = "idle"
        /\ q = 0 /\ node = 1 /\ level = 0
        /\ digest = NoDigest
        /\ current = NoNode
        /\ ok = FALSE

Quiet == UNCHANGED <<signature, path, op, climb, digest, current, ok>>

-----------------------------------------------------------------------------
(* initialize and buildTree *)

Initialize ==
    /\ phase = "blank"
    /\ \/ /\ phase' = "leaves"
          /\ seed' = OwnSeed
          /\ tree' = [n \in TreeNodes |-> NoNode]
       \/ /\ phase' = "failed"       \* heap_caps_malloc
          /\ seed' = OwnSeed
          /\ UNCHANGED tree
    /\ cursor' = 0
    /\ Quiet

\* Slip: the loop over the leaves runs once too often.
MoreLeavesLate(c) == c < LMS_LEAVES

MoreLeaves(c) == c + 1 < LMS_LEAVES

BuildLeaf ==
    /\ phase = "leaves"
    /\ tree' = [tree EXCEPT ![LMS_LEAVES + cursor] =
                    HashLeaf(LMS_LEAVES + cursor, PublicHash(seed, cursor))]
    /\ IF MoreLeaves(cursor)
       THEN phase' = phase /\ cursor' = cursor + 1
       ELSE phase' = "nodes" /\ cursor' = LMS_LEAVES - 1
    /\ UNCHANGED seed
    /\ Quiet

\* Slip: the inner nodes are hashed from the root down.
TopDown(c) == LMS_LEAVES - c

BuildOrder(c) == c

BuildNode ==
    /\ phase = "nodes"
    /\ LET n == BuildOrder(cursor)
       IN  tree' = [tree EXCEPT ![n] = HashInternal(n, tree[2 * n], tree[2 * n + 1])]
    /\ IF cursor > 1
       THEN cursor' = cursor - 1 /\ UNCHANGED <<phase, seed>>
       ELSE phase' = "ready" /\ seed' = Zeroed /\ UNCHANGED cursor
    /\ Quiet

\* A hash fails: only a failure above the leaves erases the seed.
BuildFails ==
    /\ phase \in {"leaves", "nodes"}
    /\ phase' = "failed"
    /\ seed' = IF phase = "nodes" THEN Zeroed ELSE seed
    /\ UNCHANGED <<cursor, tree>>
    /\ Quiet

-----------------------------------------------------------------------------
(* extractPath *)

\* node ^ 1
Sibling(n) == IF n % 2 = 0 THEN n + 1 ELSE n - 1

StartExtract(leaf) ==
    /\ phase = "ready" /\ op = "idle"
    /\ leaf < LMS_LEAVES
    /\ op' = "extract"
    /\ q' = leaf /\ node' = LMS_LEAVES + leaf /\ level' = 0
    /\ path' = [q |-> leaf, nodes |-> [l \in Levels |-> NoNode], way |-> [l \in Levels |-> 0]]
    /\ UNCHANGED <<buildVars, signature, digest, current, ok>>

ExtractLevel ==
    /\ op = "extract"
    /\ path' = [q |-> path.q, nodes |-> [path.nodes EXCEPT ![level] = tree[Sibling(node)]],
                              way |-> [path.way EXCEPT ![level] = node]]
    /\ IF level + 1 < LMS_HEIGHT
       THEN node' = node \div 2 /\ level' = level + 1 /\ UNCHANGED <<op, q>>
       ELSE op' = "idle" /\ q' = 0 /\ node' = 1 /\ level' = 0
    /\ UNCHANGED <<buildVars, signature, digest, current, ok>>

-----------------------------------------------------------------------------
(* sign: the seed is rebuilt for each signature, rightly or not *)

Sign(leaf, d, runtimeSeed) ==
    /\ phase = "ready" /\ op = "idle"
    /\ leaf < LMS_LEAVES
    /\ signature' = [q |-> leaf, digest |-> d, seed |-> runtimeSeed,
                     y |-> [i \in 0..P-1 |->
                              Chain(Element(runtimeSeed, leaf, i), leaf, i, 0, Coefficients[d][i])]]
    /\ UNCHANGED <<buildVars, path, op, climb, digest, current, ok>>

-----------------------------------------------------------------------------
(* verify, against the root *)

StartVerify(leaf, d) ==
    /\ op = "idle"
    /\ signature # NoSignature /\ path # NoPath
    /\ leaf < LMS_LEAVES
    /\ op' = "verify"
    /\ q' = leaf /\ node' = LMS_LEAVES + leaf /\ level' = 0
    /\ digest' = d
    /\ current' = HashLeaf(LMS_LEAVES + leaf, CandidateHash(leaf, d, signature.y))
    /\ UNCHANGED <<buildVars, signature, path, ok>>

\* Slip: left and right are exchanged.
ParentSwapped(n, here, sibling) ==
    IF n % 2 = 0 THEN HashInternal(n \div 2, sibling, here)
    ELSE HashInternal(n \div 2, here, sibling)

Parent(n, here, sibling) ==
    IF n % 2 = 0 THEN HashInternal(n \div 2, here, sibling)
    ELSE HashInternal(n \div 2, sibling, here)

VerifyLevel ==
    /\ op = "verify" /\ level < LMS_HEIGHT
    /\ current' = Parent(node, current, path.nodes[level])
    /\ node' = node \div 2
    /\ level' = level + 1
    /\ UNCHANGED <<buildVars, signature, path, op, q, digest, ok>>

Compare ==
    /\ op = "verify" /\ level = LMS_HEIGHT
    /\ ok' = (current = tree[1])
    /\ op' = "verdict"
    /\ UNCHANGED <<buildVars, signature, path, climb, digest, current>>

\* The caller has the answer; or a hash failed, and verify returned false without one.
Return ==
    /\ op \in {"verify", "verdict"}
    /\ op' = "idle"
    /\ q' = 0 /\ node' = 1 /\ level' = 0
    /\ digest' = NoDigest /\ current' = NoNode /\ ok' = FALSE
    /\ UNCHANGED <<buildVars, signature, path>>

Next == \/ Initialize \/ BuildLeaf \/ BuildNode \/ BuildFails
        \/ \E leaf \in Leaves : StartExtract(leaf)
        \/ ExtractLevel
        \/ \E leaf \in Leaves, d \in Digests, s \in {OwnSeed, OtherSeed} : Sign(leaf, d, s)
        \/ \E leaf \in Leaves, d \in Digests : StartVerify(leaf, d)
        \/ VerifyLevel \/ Compare \/ Return

Spec == Init /\ [][Next]_vars

-----------------------------------------------------------------------------
(* Properties *)

TypeOK ==
    /\ phase \in {"blank", "leaves", "nodes", "ready", "failed"}
    /\ cursor \in Leaves
    /\ seed \in {OwnSeed, Zeroed}
    /\ DOMAIN tree = TreeNodes
    /\ op \in {"idle", "extract", "verify", "verdict"}
    /\ q \in Leaves /\ node \in 0..2*LMS_LEAVES-1 /\ level \in 0..LMS_HEIGHT
    /\ digest \in Digests \cup {NoDigest}
    /\ ok \in BOOLEAN
    /\ signature # NoSignature =>
          /\ signature.q \in Leaves /\ signature.digest \in Digests
          /\ signature.seed \in {OwnSeed, OtherSeed}
    /\ path # NoPath => path.q \in Leaves

\* A tree in use is a hash tree over the one-time public keys of the device's own
\* seed: no node was hashed before its children, or after the seed was erased.
BuiltIsTree ==
    phase = "ready" =>
        /\ \A leaf \in Leaves :
              tree[LMS_LEAVES + leaf] = HashLeaf(LMS_LEAVES + leaf, PublicHash(OwnSeed, leaf))
        /\ \A n \in 1..LMS_LEAVES-1 : tree[n] = HashInternal(n, tree[2 * n], tree[2 * n + 1])

\* verify accepts exactly what was signed: the digest, the index and the seed of the
\* signature and the path of that index.  Sibling and parity of extractPath and verify
\* agree at every level of every leaf, and no wrong combination reaches the root.
VerdictIsRight ==
    op = "verdict" =>
        (ok <=> /\ signature.seed = OwnSeed
                /\ signature.q = q
                /\ signature.digest = digest
                /\ path.q = q)

\* A signature is good for one digest only: whatever other digest, some chain of it
\* ends before the position the signature has released.  That is what the checksum,
\* its shift and the order of its digits are for.
NoDomination ==
    signature # NoSignature =>
        \A d \in AllDigests \ {signature.digest} :
            \E i \in 0..P-1 : Coefficients[d][i] < Coefficients[signature.digest][i]
=============================================================================
