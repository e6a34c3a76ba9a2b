--------------------------- MODULE MmrReference ---------------------------
(***************************************************************************)
(* A reference Merkle mountain range built by plain recursion over the     *)
(* appended leaves, independent of the forest bit arithmetic of the code:  *)
(* the properties of the model-checking runs compare the code's results    *)
(* with it.  Only TLC uses this module.                                    *)
(***************************************************************************)
EXTENDS Mmr

(***************************************************************************)
(* The forest of n leaves is the sequence of perfect trees obtained by     *)
(* repeatedly taking the largest power of two that fits.                   *)
(***************************************************************************)
RECURSIVE Pow2Floor(_)
Pow2Floor(n) == IF n <= 1 THEN 1 ELSE 2 * Pow2Floor(n \div 2)

\* The trees of a forest of n leaves starting at leaf lo: [lo, size] records.
RECURSIVE RefTrees(_, _)
RefTrees(n, lo) ==
  IF n = 0 THEN <<>>
  ELSE LET size == Pow2Floor(n)
       IN  <<[lo |-> lo, size |-> size]>> \o RefTrees(n - size, lo + size)

\* The digest of the perfect tree over leaves lo .. lo+size-1 of h.
RECURSIVE RefRoot(_, _, _)
RefRoot(h, lo, size) ==
  IF size = 1 THEN LeafDigest(h[lo + 1])
  ELSE Merge(RefRoot(h, lo, size \div 2), RefRoot(h, lo + size \div 2, size \div 2))

\* Its nodes in postorder.
RECURSIVE RefPostorder(_, _, _)
RefPostorder(h, lo, size) ==
  IF size = 1 THEN <<LeafDigest(h[lo + 1])>>
  ELSE RefPostorder(h, lo, size \div 2)
         \o RefPostorder(h, lo + size \div 2, size \div 2)
         \o <<RefRoot(h, lo, size)>>

\* The sibling digests of leaf p inside that tree, from the leaf up.
RECURSIVE RefPathIn(_, _, _, _)
RefPathIn(h, lo, size, p) ==
  IF size = 1 THEN <<>>
  ELSE LET half == size \div 2
       IN  IF p < lo + half
           THEN RefPathIn(h, lo, half, p) \o <<RefRoot(h, lo + half, half)>>
           ELSE RefPathIn(h, lo + half, half, p) \o <<RefRoot(h, lo, half)>>

RefForest(h) == RefTrees(Len(h), 0)

RefBuffer(h) ==
  LET ts == RefForest(h)
      acc[k \in 0..Len(ts)] ==
        IF k = 0 THEN <<>> ELSE acc[k-1] \o RefPostorder(h, ts[k].lo, ts[k].size)
  IN  acc[Len(ts)]

RefPeaks(h) ==
  LET ts == RefForest(h) IN [k \in 1..Len(ts) |-> RefRoot(h, ts[k].lo, ts[k].size)]

RefPath(h, p) ==
  LET ts == RefForest(h)
      t == ts[CHOOSE k \in 1..Len(ts) : ts[k].lo <= p /\ p < ts[k].lo + ts[k].size]
  IN  RefPathIn(h, t.lo, t.size, p)

\* The inner nodes of the tree over lo .. lo+size-1 with their children, in
\* postorder.
RECURSIVE RefInnerIn(_, _, _)
RefInnerIn(h, lo, size) ==
  IF size = 1 THEN <<>>
  ELSE LET half == size \div 2
       IN  RefInnerIn(h, lo, half) \o RefInnerIn(h, lo + half, half)
             \o <<[value |-> RefRoot(h, lo, size),
                   left  |-> RefRoot(h, lo, half),
                   right |-> RefRoot(h, lo + half, half)]>>

RefInnerNodes(h) ==
  LET ts == RefForest(h)
      acc[k \in 0..Len(ts)] ==
        IF k = 0 THEN <<>> ELSE acc[k-1] \o RefInnerIn(h, ts[k].lo, ts[k].size)
  IN  acc[Len(ts)]

=============================================================================
