----------------------------- MODULE ForestMath -----------------------------
(***************************************************************************)
(* The integer arithmetic of the Merkle mountain range forest descriptor   *)
(* (src/crypto/src/merkle/mmr/full.rs, "UTILITIES").  A forest is a usize  *)
(* whose set bits are the trees of the MMR: bit p set means one perfect    *)
(* tree with 2^p leaves.  usize is modelled as a W-bit unsigned integer:   *)
(* shifts and products are taken modulo 2^W, as the release build does.   *)
(***************************************************************************)
EXTENDS Integers, FiniteSets, Bitwise

CONSTANT W            \* usize::BITS

ASSUME WAssumption == W \in Nat \ {0}

UsizeMax == 2^W - 1

\* Wrapping left shift of a usize, `x << k` for k < W.
Shl(x, k) == (x * 2^k) % 2^W

\* Saturating subtraction, `usize::saturating_sub`.
SatSub(a, b) == IF a >= b THEN a - b ELSE 0

\* Bit i of x.
BitOf(x, i) == (x \div 2^i) % 2

\* `usize::count_ones`.
CountOnes(x) == Cardinality({i \in 0..W-1 : BitOf(x, i) = 1})

\* `usize::ilog2` of a non-zero value: the position of its highest set bit.
ILog2(x) == CHOOSE i \in 0..W-1 : 2^i <= x /\ x < 2^(i+1)

\* The result `None` of `leaf_to_corresponding_tree`.
NoTree == -1

(***************************************************************************)
(* leaf_to_corresponding_tree: the tree bit that owns leaf position pos,   *)
(* or NoTree when pos >= forest.                                           *)
(***************************************************************************)
LeafToCorrespondingTree(pos, forest) ==
  IF pos >= forest
  THEN NoTree
  ELSE LET before == forest & pos
           after  == forest ^^ before
       IN  ILog2(after)

\* high_bitmask: the bits at and above `bit`, 0 once bit reaches the width.
HighBitmask(bit) == IF bit > W - 1 THEN 0 ELSE Shl(UsizeMax, bit)

(***************************************************************************)
(* nodes_in_forest: forest * 2 - count_ones(forest).  The product wraps    *)
(* at 2^W and the difference may go below zero (a usize underflow, a panic *)
(* in a debug build); callers check that it does not.                      *)
(***************************************************************************)
NodesInForest(forest) == ((forest * 2) % 2^W) - CountOnes(forest)

=============================================================================
