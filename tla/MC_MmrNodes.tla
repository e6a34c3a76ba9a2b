---------------------------- MODULE MC_MmrNodes ----------------------------
(***************************************************************************)
(* Model-checking harness for the inner-node iterator MmrNodes composed    *)
(* with the Mmr it borrows.                                                *)
(***************************************************************************)
EXTENDS MmrNodes, MmrReference, TLC
LOCAL INSTANCE SequencesExt

CONSTANTS a, b, Tag

MCLeaf == {a, b}

MCSymmetry == Permutations(MCLeaf)

(***************************************************************************)
(* MmrNodes::next yields the inner nodes of the Mmr exactly as they sit in *)
(* the buffer: what it has returned so far is a prefix of the postorder    *)
(* list of inner nodes with their two children, and once it returns None   *)
(* it has returned all of them, each once (test_mmr_inner_nodes checks     *)
(* this for seven leaves).                                                 *)
(***************************************************************************)
IterYieldsInnerNodes ==
  iter # NoIter =>
    /\ IsPrefix(yielded, RefInnerNodes(history))
    /\ ~HasNext => yielded = RefInnerNodes(history)

(***************************************************************************)
(* The debug_assert!s of MmrNodes::next hold whenever next is called:      *)
(* last_right has at most one bit, a pending right node has its left       *)
(* sibling pending in forest, and when no right node is pending the next   *)
(* node to pair is a left leaf (bit 0 of forest clear).                    *)
(***************************************************************************)
IterDebugAssertions ==
  HasNext =>
    /\ CountOnes(iter.last_right) <= 1
    /\ iter.last_right # 0 => (iter.forest & iter.last_right) # 0
    /\ iter.last_right = 0 => (iter.forest & 1) = 0

=============================================================================
