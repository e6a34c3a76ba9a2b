------------------------------- MODULE MC_Mmr -------------------------------
(***************************************************************************)
(* Model-checking harness for Mmr: constants for TLC and the properties    *)
(* that compare the code's results with the reference of MmrReference.    *)
(***************************************************************************)
EXTENDS MmrReference, TLC

CONSTANTS a, b, Tag

MCLeaf == {a, b}

MCSymmetry == Permutations(MCLeaf)

-----------------------------------------------------------------------------
(***************************************************************************)
(* Mmr::add keeps the buffer equal to the postorder listing of the trees   *)
(* of the forest, largest tree first: every leaf and every merged parent   *)
(* is at the place the offset arithmetic of add, open and accumulator      *)
(* assumes (the test test_mmr_simple checks this for seven leaves).        *)
(***************************************************************************)
BufferIsPostorder == nodes = RefBuffer(history)

(***************************************************************************)
(* Mmr::accumulator returns the number of leaves and the root of every     *)
(* tree of the forest, largest first (the offsets scanned from the high    *)
(* bits of the forest point at the trees' roots).                          *)
(***************************************************************************)
AccumulatorIsPeaks ==
  Accumulator = [num_leaves |-> Len(history), peaks |-> RefPeaks(history)]

(***************************************************************************)
(* Mmr::get returns, for every position below the number of leaves, the    *)
(* leaf appended at that position, and InvalidPosition for the first       *)
(* positions past the end.                                                 *)
(***************************************************************************)
GetReturnsLeaf ==
  \A pos \in 0..forest + 1 :
    Get(pos) = IF pos < Len(history)
               THEN [ok |-> TRUE, value |-> LeafDigest(history[pos + 1])]
               ELSE InvalidPosition(pos)

(***************************************************************************)
(* Mmr::open returns for every position the sibling path of its leaf up to *)
(* the root of its tree, and MmrPeaks::verify accepts that proof for the   *)
(* leaf against the current accumulator (the round trip of spec section    *)
(* 8); positions past the end are rejected.                                *)
(***************************************************************************)
OpenIsValidProof ==
  \A pos \in 0..forest + 1 :
    IF pos < Len(history)
    THEN /\ Open(pos).ok
         /\ Open(pos).merkle_path = RefPath(history, pos)
         /\ Verify(Accumulator, LeafDigest(history[pos + 1]), Open(pos))
    ELSE Open(pos) = InvalidPosition(pos)

=============================================================================
