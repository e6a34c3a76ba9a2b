------------------------------ MODULE MmrNodes ------------------------------
(***************************************************************************)
(* The inner-node iterator of src/crypto/src/merkle/mmr/full.rs composed   *)
(* with the Mmr it borrows.  Mmr::inner_nodes creates an MmrNodes that     *)
(* holds `&Mmr`, so while it lives no `add` can run (the borrow checker);  *)
(* once it is dropped the Mmr can grow again and a new iterator be made.   *)
(* Each call of `next` yields one InnerNodeInfo {value, left, right} read  *)
(* from the buffer, or None once its forest reaches the Mmr's forest       *)
(* without the single-leaf tree.                                           *)
(***************************************************************************)
EXTENDS Mmr

VARIABLES
  iter,      \* the live MmrNodes {forest, last_right, index}, or NoIter
  yielded    \* auxiliary: the InnerNodeInfo values it has returned, in order

nvars == <<forest, nodes, history, iter, yielded>>

NoIter == [none |-> TRUE]

NodesInit ==
  /\ Init
  /\ iter = NoIter
  /\ yielded = <<>>

(* Mmr::add, allowed only while no iterator borrows the Mmr. *)
AddNoIter(el) ==
  /\ iter = NoIter
  /\ Add(el)
  /\ UNCHANGED <<iter, yielded>>

(* Mmr::inner_nodes *)
InnerNodes ==
  /\ iter = NoIter
  /\ iter' = [forest |-> 0, last_right |-> 0, index |-> 0]
  /\ yielded' = <<>>
  /\ UNCHANGED vars

\* `self.mmr.forest & (usize::MAX << 1)`: the trees that have inner nodes.
Target == forest & Shl(UsizeMax, 1)

\* `next` has something to yield.
HasNext == iter # NoIter /\ iter.forest < Target

\* Mutant: next yields without comparing the forest with the target.
NextNodeNoTarget ==
  /\ iter # NoIter
  /\ LET pair == IF iter.last_right = 0
                 THEN [forest |-> iter.forest | 1, last_right |-> 1,
                       index |-> iter.index + 2]
                 ELSE iter
         right_nodes == NodesInForest(pair.last_right)
         parent == Shl(pair.last_right, 1)
         paired == pair.forest ^^ pair.last_right
         left_parent == (paired & parent) = 0
     IN  /\ iter' = [forest     |-> IF left_parent THEN paired ^^ parent ELSE paired,
                     last_right |-> IF left_parent THEN 0 ELSE parent,
                     index      |-> pair.index + 1]
         /\ yielded' = Append(yielded,
                              [value |-> At(nodes, pair.index),
                               left  |-> At(nodes, pair.index - 1 - right_nodes),
                               right |-> At(nodes, pair.index - 1)])
  /\ UNCHANGED vars

\* Mutant: the left child is read one slot too far right.
NextNodeLeftOffByOne ==
  /\ HasNext
  /\ LET pair == IF iter.last_right = 0
                 THEN [forest |-> iter.forest | 1, last_right |-> 1,
                       index |-> iter.index + 2]
                 ELSE iter
         right_nodes == NodesInForest(pair.last_right)
         parent == Shl(pair.last_right, 1)
         paired == pair.forest ^^ pair.last_right
         left_parent == (paired & parent) = 0
     IN  /\ iter' = [forest     |-> IF left_parent THEN paired ^^ parent ELSE paired,
                     last_right |-> IF left_parent THEN 0 ELSE parent,
                     index      |-> pair.index + 1]
         /\ yielded' = Append(yielded,
                              [value |-> At(nodes, pair.index),
                               left  |-> At(nodes, pair.index - right_nodes),
                               right |-> At(nodes, pair.index - 1)])
  /\ UNCHANGED vars

\* Mutant: the left leaf of a new pair is not marked in forest.
NextNodeNoLeftLeaf ==
  /\ HasNext
  /\ LET pair == IF iter.last_right = 0
                 THEN [forest |-> iter.forest, last_right |-> 1,
                       index |-> iter.index + 2]
                 ELSE iter
         right_nodes == NodesInForest(pair.last_right)
         parent == Shl(pair.last_right, 1)
         paired == pair.forest ^^ pair.last_right
         left_parent == (paired & parent) = 0
     IN  /\ iter' = [forest     |-> IF left_parent THEN paired ^^ parent ELSE paired,
                     last_right |-> IF left_parent THEN 0 ELSE parent,
                     index      |-> pair.index + 1]
         /\ yielded' = Append(yielded,
                              [value |-> At(nodes, pair.index),
                               left  |-> At(nodes, pair.index - 1 - right_nodes),
                               right |-> At(nodes, pair.index - 1)])
  /\ UNCHANGED vars

(***************************************************************************)
(* MmrNodes::next when `self.forest < target`: pair up the next two leaves *)
(* if no right node is pending, yield the parent of the pending pair, and  *)
(* update the pending-left mask (forest) and the pending right node.       *)
(***************************************************************************)
NextNode ==
  /\ HasNext
  /\ LET pair == IF iter.last_right = 0
                 THEN [forest |-> iter.forest | 1, last_right |-> 1,
                       index |-> iter.index + 2]
                 ELSE iter
         right_nodes == NodesInForest(pair.last_right)
         parent == Shl(pair.last_right, 1)
         paired == pair.forest ^^ pair.last_right
         left_parent == (paired & parent) = 0
     IN  /\ iter' = [forest     |-> IF left_parent THEN paired ^^ parent ELSE paired,
                     last_right |-> IF left_parent THEN 0 ELSE parent,
                     index      |-> pair.index + 1]
         /\ yielded' = Append(yielded,
                              [value |-> At(nodes, pair.index),
                               left  |-> At(nodes, pair.index - 1 - right_nodes),
                               right |-> At(nodes, pair.index - 1)])
  /\ UNCHANGED vars

(* Dropping the iterator, at any point, releases the borrow. *)
DropIter ==
  /\ iter # NoIter
  /\ iter' = NoIter
  /\ UNCHANGED <<forest, nodes, history, yielded>>

NodesNext ==
  \/ \E el \in Leaf : AddNoIter(el)
  \/ InnerNodes
  \/ NextNode
  \/ DropIter

NodesSpec == NodesInit /\ [][NodesNext]_nvars

(* The type of the state.  Every InnerNodeInfo next returns is made of    *)
(* digests, never of a read past the buffer (an index panic in next).     *)
NodesTypeOK ==
  /\ TypeOK
  /\ iter \in {NoIter} \cup [forest : 0..UsizeMax, last_right : 0..UsizeMax,
                             index : Nat]
  /\ yielded \in Seq([value : Digest, left : Digest, right : Digest])

=============================================================================
