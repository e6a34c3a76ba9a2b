-------------------------------- MODULE Mmr --------------------------------
(***************************************************************************)
(* The fully materialised Merkle mountain range `Mmr` of                   *)
(* src/crypto/src/merkle/mmr/full.rs: the forest descriptor, the postorder *)
(* node buffer, `add`, and the read-only operations `get`, `open` and     *)
(* `accumulator`, together with `MmrPeaks::verify` (spec section 4.4).     *)
(*                                                                         *)
(* Digests.  Rpo256::merge is abstracted as a collision-free hash: a       *)
(* digest is the postfix (reverse Polish) encoding of the tree it hashes,  *)
(* a sequence over Leaf \cup {MergeTag}.  A leaf digest x is <<x>>, and    *)
(* Merge(l, r) is l \o r \o <<MergeTag>>, which is injective.  A read of   *)
(* the buffer outside its bounds (a panic in the code) yields OutOfBounds, *)
(* the empty sequence, and a merge with it stays OutOfBounds.              *)
(***************************************************************************)
EXTENDS ForestMath, Sequences
LOCAL INSTANCE SequencesExt

CONSTANTS
  Leaf,        \* the digests a caller appends
  MergeTag,    \* the marker of an inner node in a postfix digest
  MaxLeaves    \* bound on the number of calls of add

ASSUME MergeTagAssumption == MergeTag \notin Leaf

\* The model's bound keeps nodes_in_forest of every forest below 2^W, the
\* code's documented precondition (no forest above usize::MAX / 2).
ASSUME MaxLeavesAssumption == MaxLeaves \in Nat /\ 2 * MaxLeaves < 2^W

VARIABLES
  forest,    \* Mmr.forest
  nodes,     \* Mmr.nodes, a sequence of digests (index i of the code is nodes[i+1])
  history    \* auxiliary: the leaves appended so far, in order (not in the code)

vars == <<forest, nodes, history>>

OutOfBounds == <<>>

Digest == Seq(Leaf \cup {MergeTag}) \ {OutOfBounds}

LeafDigest(x) == <<x>>

Merge(l, r) ==
  IF l = OutOfBounds \/ r = OutOfBounds THEN OutOfBounds ELSE l \o r \o <<MergeTag>>

\* `nodes[i]` for a 0-based usize index i.
At(s, i) == IF i \in 0..Len(s) - 1 THEN s[i + 1] ELSE OutOfBounds

-----------------------------------------------------------------------------
(* Mmr::new *)
Init ==
  /\ forest = 0
  /\ nodes = <<>>
  /\ history = <<>>

\* Mutant: left_offset moves back by the leaf count of the left tree.
AddMergeStepByLeaves(s) ==
  LET right == Merge(At(s.nodes, s.left_offset), s.right)
  IN  [nodes       |-> Append(s.nodes, right),
       left_offset |-> SatSub(s.left_offset, s.left_tree),
       right       |-> right,
       left_tree   |-> Shl(s.left_tree, 1)]

(***************************************************************************)
(* One iteration of the merge loop of Mmr::add: merge the left tree's root *)
(* at left_offset with the running right root, push the parent, and move   *)
(* left_offset back over the tree of left_tree leaves.                     *)
(***************************************************************************)
AddMergeStep(s) ==
  LET right == Merge(At(s.nodes, s.left_offset), s.right)
  IN  [nodes       |-> Append(s.nodes, right),
       left_offset |-> SatSub(s.left_offset, NodesInForest(s.left_tree)),
       right       |-> right,
       left_tree   |-> Shl(s.left_tree, 1)]

\* Mutant: the leaf is never pushed before the merge loop.
AddNodesNoPush(f, ns, el) ==
  LET loop[k \in 0..W] ==
        IF k = 0
        THEN [nodes |-> ns, left_offset |-> SatSub(Len(ns) + 1, 2),
              right |-> LeafDigest(el), left_tree |-> 1]
        ELSE IF (f & loop[k-1].left_tree) # 0
             THEN AddMergeStep(loop[k-1])
             ELSE loop[k-1]
  IN  loop[W].nodes

\* The buffer after Mmr::add(el): the push of el and the whole merge loop.
\* left_tree wraps to 0 after W doublings, so the loop runs at most W times.
AddNodes(f, ns, el) ==
  LET pushed == Append(ns, LeafDigest(el))
      loop[k \in 0..W] ==
        IF k = 0
        THEN [nodes |-> pushed, left_offset |-> SatSub(Len(pushed), 2),
              right |-> LeafDigest(el), left_tree |-> 1]
        ELSE IF (f & loop[k-1].left_tree) # 0
             THEN AddMergeStep(loop[k-1])
             ELSE loop[k-1]
  IN  loop[W].nodes

(* Mmr::add *)
Add(el) ==
  /\ forest < MaxLeaves
  /\ nodes' = AddNodes(forest, nodes, el)
  /\ forest' = forest + 1
  /\ history' = Append(history, el)

Next == \E el \in Leaf : Add(el)

Spec == Init /\ [][Next]_vars

-----------------------------------------------------------------------------
(***************************************************************************)
(* The read-only operations, evaluated in the current state.               *)
(***************************************************************************)

\* Mutant: the walk descends to the sibling instead of the node.
CollectMerklePathSwapped(tree_bit, relative_pos, index_offset, index) ==
  LET walk[k \in 0..W] ==
        IF k = 0
        THEN [tree_depth |-> tree_bit, index |-> index, path |-> <<>>]
        ELSE LET s == walk[k-1]
                 bit == relative_pos & s.tree_depth
                 right_offset == s.index - 1
                 left_offset == right_offset - NodesInForest(s.tree_depth)
             IN  IF s.tree_depth = 0
                 THEN s
                 ELSE [tree_depth |-> s.tree_depth \div 2,
                       index |-> IF bit # 0 THEN left_offset ELSE right_offset,
                       path |-> Append(s.path,
                                       IF bit # 0
                                       THEN At(nodes, index_offset + left_offset)
                                       ELSE At(nodes, index_offset + right_offset))]
  IN  [value |-> At(nodes, index_offset + walk[W].index),
       path  |-> Reverse(walk[W].path)]

\* Mutant: the path is left root-to-leaf.
CollectMerklePathNoReverse(tree_bit, relative_pos, index_offset, index) ==
  LET walk[k \in 0..W] ==
        IF k = 0
        THEN [tree_depth |-> tree_bit, index |-> index, path |-> <<>>]
        ELSE LET s == walk[k-1]
                 bit == relative_pos & s.tree_depth
                 right_offset == s.index - 1
                 left_offset == right_offset - NodesInForest(s.tree_depth)
             IN  IF s.tree_depth = 0
                 THEN s
                 ELSE [tree_depth |-> s.tree_depth \div 2,
                       index |-> IF bit # 0 THEN right_offset ELSE left_offset,
                       path |-> Append(s.path,
                                       IF bit # 0
                                       THEN At(nodes, index_offset + left_offset)
                                       ELSE At(nodes, index_offset + right_offset))]
  IN  [value |-> At(nodes, index_offset + walk[W].index),
       path  |-> walk[W].path]

\* collect_merkle_path_and_value: walk down from the root at `index`, one
\* level per iteration while tree_depth > 0, then reverse the path.
CollectMerklePathAndValue(tree_bit, relative_pos, index_offset, index) ==
  LET walk[k \in 0..W] ==
        IF k = 0
        THEN [tree_depth |-> tree_bit, index |-> index, path |-> <<>>]
        ELSE LET s == walk[k-1]
                 bit == relative_pos & s.tree_depth
                 right_offset == s.index - 1
                 left_offset == right_offset - NodesInForest(s.tree_depth)
             IN  IF s.tree_depth = 0
                 THEN s
                 ELSE [tree_depth |-> s.tree_depth \div 2,
                       index |-> IF bit # 0 THEN right_offset ELSE left_offset,
                       path |-> Append(s.path,
                                       IF bit # 0
                                       THEN At(nodes, index_offset + left_offset)
                                       ELSE At(nodes, index_offset + right_offset))]
  IN  [value |-> At(nodes, index_offset + walk[W].index),
       path  |-> Reverse(walk[W].path)]

\* The lookup shared by Mmr::open and Mmr::get, for a pos that has a tree.
Locate(pos) ==
  LET tree_bit == LeafToCorrespondingTree(pos, forest)
      forest_target == Shl(1, tree_bit)
      forest_before == forest & HighBitmask(tree_bit + 1)
  IN  CollectMerklePathAndValue(tree_bit, pos - forest_before,
                                NodesInForest(forest_before),
                                NodesInForest(forest_target) - 1)

InvalidPosition(pos) == [ok |-> FALSE, pos |-> pos]

(* Mmr::open *)
Open(pos) ==
  IF LeafToCorrespondingTree(pos, forest) = NoTree
  THEN InvalidPosition(pos)
  ELSE [ok |-> TRUE, forest |-> forest, position |-> pos,
        merkle_path |-> Locate(pos).path]

(* Mmr::get *)
Get(pos) ==
  IF LeafToCorrespondingTree(pos, forest) = NoTree
  THEN InvalidPosition(pos)
  ELSE [ok |-> TRUE, value |-> Locate(pos).value]

\* TrueBitPositionIterator::new(f).rev(): the set bits of f, highest first.
BitsHighToLow(f) == SetToSortSeq({i \in 0..W-1 : BitOf(f, i) = 1}, >)

\* Mutant: the trees are taken lowest bit first (no .rev()).
AccumulatorLowFirst ==
  LET bits == SetToSortSeq({i \in 0..W-1 : BitOf(forest, i) = 1}, <)
      offset[k \in 0..Len(bits)] ==
        IF k = 0 THEN 0 ELSE offset[k-1] + NodesInForest(Shl(1, bits[k]))
  IN  [num_leaves |-> forest,
       peaks |-> [k \in 1..Len(bits) |-> At(nodes, offset[k] - 1)]]

(* Mmr::accumulator: the root of each tree, largest tree first. *)
Accumulator ==
  LET bits == BitsHighToLow(forest)
      offset[k \in 0..Len(bits)] ==
        IF k = 0 THEN 0 ELSE offset[k-1] + NodesInForest(Shl(1, bits[k]))
  IN  [num_leaves |-> forest,
       peaks |-> [k \in 1..Len(bits) |-> At(nodes, offset[k] - 1)]]

(***************************************************************************)
(* MmrPeaks::verify (spec section 4.4; not under src/): fold the path from *)
(* the leaf up, the bit of the relative position at each level telling     *)
(* whether the node is a right child, and compare with the peak of the     *)
(* owning tree, peaks being ordered from the highest tree bit down.        *)
(***************************************************************************)
Verify(acc, value, proof) ==
  LET tree_bit == LeafToCorrespondingTree(proof.position, proof.forest)
      relative_pos == proof.position - (proof.forest & HighBitmask(tree_bit + 1))
      path == proof.merkle_path
      root[k \in 0..Len(path)] ==
        IF k = 0 THEN value
        ELSE IF BitOf(relative_pos, k - 1) = 1
             THEN Merge(path[k], root[k-1])
             ELSE Merge(root[k-1], path[k])
      peak_index == CountOnes(proof.forest & HighBitmask(tree_bit + 1)) + 1
  IN  /\ tree_bit # NoTree
      /\ proof.forest = acc.num_leaves
      /\ peak_index \in 1..Len(acc.peaks)
      /\ root[Len(path)] = acc.peaks[peak_index]

-----------------------------------------------------------------------------
(* The type of the state: every buffer entry is a digest, never the result *)
(* of a read outside the buffer (a panic of add).                          *)
TypeOK ==
  /\ forest \in 0..MaxLeaves
  /\ nodes \in Seq(Digest)
  /\ history \in Seq(Leaf)

=============================================================================
