# Verification of the Merkle mountain range and the memory controller

This directory holds TLA+ models of three components of the repository,
the TLC runs that model-check them on small instances, and TLAPS proofs.
The components are:

- the Merkle mountain range (MMR) in `src/crypto/src/merkle/mmr/full.rs`;
- the VM memory controller in `src/processor/src/memory/mod.rs`;
- the byte encoding and the order of `RpoDigest` in `src/crypto/src/hash/rpo/digest.rs`.

## Inventory of the source

| Part | Source | What changes state | Status |
|---|---|---|---|
| ForestMath | `full.rs` 345-386 | nothing (pure functions) | modelled: `ForestMath` |
| Mmr | `full.rs` 33-255 | `new`, `add`, and `From<T>` (repeated `add`) | modelled: `Mmr` |
| MmrNodes | `full.rs` 257-333 | `inner_nodes`, `next`, drop | modelled: `MmrNodes` |
| MmrPeaks / MmrProof | not under `src/` (spec 4.4) | nothing (immutable values) | `verify` modelled from the spec; `hash_peaks` not modelled |
| BitPositions | not under `src/` | nothing | modelled from the spec as `BitsHighToLow` |
| Memory | `memory/mod.rs` | `new`, `read`, `write`, `advance_clock` | partly: `Memory` |
| RpoDigest | `hash/rpo/digest.rs` | nothing (values) | partly: `RpoDigest` (bytes, decoding, `Ord`); hex strings not modelled |
| CLI, benchmark, re-exports | `crypto/src/main.rs`, `crypto/src/lib.rs`, `miden/src/*` | I/O only | not modelled |
| Errors | `core/src/errors.rs` | nothing | not modelled |
| StarkProof | `winterfell/air/src/proof/mod.rs` | nothing (serialization) | not modelled |

How the parts interact:

- A caller appends digests to an `Mmr` with `add`.
- `open` and `get` locate a leaf through the ForestMath functions.
- `accumulator` snapshots the peaks.
- `MmrPeaks::verify` checks a proof from `open` against a snapshot.
- `inner_nodes` borrows the `Mmr` immutably. While the `MmrNodes` iterator lives, no `add` can run.
- The memory controller is independent of the MMR. The VM calls `read`, `write` and `advance_clock` in any order.
- The memory trace is later turned into range-check deltas and trace rows.

## Modules

- **`ForestMath`** models `leaf_to_corresponding_tree`, `high_bitmask` and `nodes_in_forest`.
  - `usize` is a W-bit integer.
  - Shifts and products wrap modulo 2^W (`Shl`).
  - `saturating_sub` is `SatSub`.
  - `None` is `NoTree`.
  - This module uses Bitwise, for `&` and `^^`.
- **`Mmr`** models the Mmr itself.
  - Its state is `forest` and `nodes` (the `Mmr` fields), plus the auxiliary `history` of the leaves appended.
  - There is one action, `Add(el)`. It is the whole of `Mmr::add`: the push, the merge loop (a recursive function over at most W iterations, `AddMergeStep`) and the increment of `forest`.
  - `Get`, `Open`, `Accumulator` and `Verify` are operators evaluated in a state.
  - A digest is the postfix encoding of the tree it hashes: a leaf is `<<x>>` and `Merge(l, r)` is `l \o r \o <<MergeTag>>`. This is a collision-free abstraction of `Rpo256::merge`, and it lets a property say which tree a node hashes.
  - An out-of-range index, a panic in the code, gives `OutOfBounds`.
- **`MmrReference`** is used by TLC only and holds RECURSIVE operators. From the list of appended leaves it builds the forest of perfect trees the spec describes, with:
  - its postorder buffer;
  - its peaks;
  - the Merkle path of every leaf;
  - the list of inner nodes in postorder.

  It is the independent definition the code is checked against.
- **`MmrNodes`** composes the iterator with the Mmr.
  - `iter` holds the `MmrNodes` fields or `NoIter`. `yielded` is auxiliary.
  - `AddNoIter` is `add`, guarded by the borrow.
  - `InnerNodes` is `Mmr::inner_nodes`.
  - `NextNode` is one whole call of `next` that returns `Some`: it pairs two leaves, computes the parent and updates the masks. The `None` case changes nothing.
  - `DropIter` drops the iterator.
- **`Memory`** models the memory controller.
  - Its state is `step`, `trace` (the BTreeMap as a function from addresses to sequences; an absent key is `<<>>`) and `num_trace_rows`, plus the auxiliary `mem` that holds the last word written.
  - Its actions are `Read`, `Write` and `AdvanceClock`.
  - `GetValue`, `GetValues`, `GetValueAt` and `GetFirstRowInfo` are read-only operators. `GetValueAt` returns the set of words that `binary_search_by` may return.
  - `FillTrace` is the sequence of rows `fill_trace` writes: address, clock, old word and new word. Its delta columns are `RangeCheckDelta`. The loops of `fill_trace` go through the addresses in ascending order (the BTreeMap's order) and through each trace in order. The model states that order directly: `RowBefore` is the loop order on the entries `TraceRows`, `RowRank(r)` counts the entries visited before `r`, and row `p` (the loop counter `i = p - 1`) holds the entry `RowAt(p)` of rank `p - 1`. `prev_value` is `INIT_MEM_VALUE` at the first entry of an address and the previous entry's word after that.
  - `RangeCheckDelta` is the delta that `append_range_checks` computes for one row. Its subtractions are u64 subtractions of a debug build (`U64Sub`): a result below zero is `Panic`, which a well-formed delta never is.
- **`RpoDigest`** models a digest of `DigestSize` limbs.
  - The widths are constants: a byte is a digit below `ByteBase`, a u64 is `LimbBytes` of them, and `Modulus` stands for `Felt::MODULUS`. The runs use 2 limbs, binary digits, 3 digits per limb and modulus 5, so the limb values 5, 6 and 7 are non-canonical, just as [p, 2^64) is in the code.
  - `AsBytes` is `as_bytes` and `write_into` (little-endian limbs). `TryFromBytes` is `TryFrom<[u8; 32]>`: it rejects any limb `>= MODULUS` and otherwise applies `Felt::new` (a reduction). `ReadFrom` is `read_from`: `read_u64` limb by limb, failing at the first short read or out-of-range limb.
  - `Cmp` is `Ord::cmp`: the fold over zipped limbs that keeps the first non-Equal ordering of their `Felt::inner` values. `Inner` is the Montgomery form `x * 2^64 mod p` (here `x * ByteBase^LimbBytes mod p`), as winterfell's `f64` field stores it; that field is not under `src/`.
- **`MC_Mmr`, `MC_MmrNodes`, `MC_Memory`, `MC_RpoDigest`** instantiate the models for TLC:
  - leaves and words are model values;
  - the leaf set is declared symmetric;
  - these modules state the properties that need the reference.
- **`MemoryProofs`** holds the TLAPS proofs about `Memory`.
- **`RpoDigestProofs`** holds the TLAPS proofs about `Cmp` of `RpoDigest`. It extends `MC_RpoDigest`, so its invariant is stated of the same caller state that the `digest` run checks.

Each operator that stands for a mutated form of the code is marked `Mutant:` in a comment. The mutants are listed in `PROJECT.json`. Each one is a plausible bug in the code, and the property it belongs to must catch it.

## Runs

| Run | Checks | Result |
|---|---|---|
| `mmr_add` (`MC_Mmr_add.cfg`, W=5, up to 15 adds, 2 leaf values) | `TypeOK`, `BufferIsPostorder`, `AccumulatorIsPeaks` | pass, 32768 states |
| `mmr_query` (`MC_Mmr_query.cfg`, up to 7 adds) | `GetReturnsLeaf`, `OpenIsValidProof` | pass |
| `mmr_get_depth3` (up to 8 adds) | `GetReturnsLeaf` | violation |
| `mmr_open_depth3` (up to 8 adds) | `OpenIsValidProof` | violation |
| `mmr_nodes` (`MC_MmrNodes.cfg`, up to 12 adds) | `NodesTypeOK`, `IterYieldsInnerNodes`, `IterDebugAssertions` | pass, 80028 states |
| `memory_trace` (`MC_Memory.cfg`, addresses {0,1,3}, 3 words, 2 clock steps, 4 accesses) | `TraceMatchesMemory`, `ClocksOrdered`, `GetValuesAtSeesCurrent`, `NumTraceRowsIsCount`, `AccessesAreAppended` | pass, 58458 states |
| `memory_same_cycle` (`MC_Memory_deltas.cfg`) | `RangeCheckDeltasInRange` | violation |
| `memory_first_row` (`MC_Memory_first_row.cfg`) | `FirstRowDeltaZero` | violation |
| `digest` (`MC_RpoDigest.cfg`) | `CmpIsTotalOrder`, `SerializationRoundTrip`, `DecodingIsCanonical` | pass, 159375 states |

What the properties say:

- `BufferIsPostorder`: the node buffer after any sequence of adds equals the postorder concatenation of the reference trees.
- `AccumulatorIsPeaks`: `accumulator` returns the reference roots, highest tree first.
- `GetReturnsLeaf`: for every position below the forest, `get` returns the leaf appended there. Every position at or past the end gives `InvalidPosition`.
- `OpenIsValidProof`: `open` returns the reference sibling path, leaf to root, and `verify` accepts it against `accumulator`.
- `IterYieldsInnerNodes`: while the iterator lives, what it has yielded is a prefix of the reference inner nodes. Once it returns `None`, it has yielded all of them.
- `IterDebugAssertions`: the `debug_assert!`s of `next` hold on every call.
- `NodesTypeOK`: besides the types, `next` never reads past the buffer.
- `TraceMatchesMemory`: the last entry of every address trace is the address's current word. That is the word `read`, `get_value` and the final row of `fill_trace` report.
- `ClocksOrdered`: every address trace is sorted by clock, with no entry later than `step`. The binary search of `get_values_at` and the deltas rely on this.
- `NumTraceRowsIsCount`: the cached `num_trace_rows`, which `read` and `write` bump by hand and `trace_len` returns, is the number of entries over all address traces (`TraceRows`).
- `AccessesAreAppended` (an action property): no step moves the clock back. Each address trace is either unchanged or gets one new entry stamped with the current clock. `num_trace_rows` grows by the number of traces that changed. A write that merged two accesses of one cycle into one entry would break it.
- `GetValuesAtSeesCurrent`: for every accessed address, the current word is among the words `get_values_at` may return for the start of the next cycle.
- `CmpIsTotalOrder`: `cmp` says Equal exactly of equal digests, is antisymmetric and is transitive. It holds because `Inner` is a bijection on canonical values, which the comment at `digest.rs:73` relies on.
- `SerializationRoundTrip`: `read_from(write_into(d))` is `d`, consuming 32 bytes, and `TryFrom(as_bytes(d))` is `d`, for every digest (the repository's test tries one random digest).
- `DecodingIsCanonical`: `TryFrom` accepts a byte array exactly when it is `as_bytes` of a digest, and `read_from` accepts a stream exactly when it starts with such an encoding. So the reduction in `Felt::new` never makes two byte strings decode to one digest.

### Fairness

No property is a liveness property, so no run assumes fairness. That the iterator eventually yields every inner node follows from `IterYieldsInnerNodes` and the bound on what it yields: while it lives no `add` runs, and each `next` yields one more node of a finite list.

### Bounds

- W=5 allows forests up to 31. `MaxLeavesAssumption` (2·MaxLeaves < 2^W) keeps `nodes_in_forest` from overflowing, the code's documented precondition.
- 15 adds reach every forest below 16, with trees of depth 0 to 3 and merge cascades of length 3.
- Two leaf values are enough: the postfix digests separate different trees, and the symmetry of the leaf set is sound because no definition names a leaf.
- The iterator run goes up to 12 leaves, which includes a tree of depth 3. It interleaves drops and re-creations at every point.
- The digest runs enumerate every digest (25), every pair of digests in the state with the third of transitivity quantified, and every byte stream up to 7 digits (255) for decoding, including every non-canonical limb value and streams that stop in each limb.
- For memory, 4 accesses over 3 addresses and 3 clock values give every order of repeated and interleaved accesses, including two in one cycle. Gaps between addresses exercise the address delta.
- `CHECK_DEADLOCK FALSE` in the Mmr and Memory runs: their only limit is the model's bound, and the code never stops. The iterator run checks deadlock, because dropping and re-creating the iterator is always possible.

### Findings

1. **`collect_merkle_path_and_value` is wrong for trees of depth 3 and more** (`full.rs:216-227`).
   - `tree_depth` starts at `tree_bit`, the depth as a number. It is then used as the bit mask of the relative position (`relative_pos & tree_depth`) and as the argument of `nodes_in_forest`, and it is halved each step.
   - For depths 1 and 2 the number happens to coincide with the masks 1 and 2.
   - For an 8-leaf tree the walk takes 2 steps instead of 3, with the wrong masks. `get` then returns a node that is not the leaf, and `open` returns a short path that `verify` rejects.
   - The repository's tests use 7 leaves only.
   - Runs `mmr_get_depth3` and `mmr_open_depth3` show it, and `mmr_query` shows that everything below depth 3 is right.
2. **Two accesses of one address in one clock cycle** (`memory/mod.rs:175`).
   - Nothing in `read` or `write` prevents them.
   - `append_range_checks` then computes `clk - prev_clk - 1` with `clk = prev_clk`, which underflows on u64.
   - Run `memory_same_cycle` shows it.
   - The layout comment assumes consecutive accesses to an address are in distinct cycles. The model leaves that to the caller and records it as a spec gap.
3. **A first access in cycle 0** (`memory/mod.rs:159`). `append_range_checks` sets `prev_clk` to the first clock minus one, as a u64. With the first access in cycle 0 this panics in a debug build, so the comment's promise that the first delta ends up ZERO does not hold. Run `memory_first_row` shows it. Whether the VM accesses memory in cycle 0 depends on its caller, so this is recorded as a spec gap.

`get_values_at` (`memory/mod.rs:312`) binary-searches an address trace by clock. With several entries of one clock, which one it finds is decided by the standard library's `binary_search_by`. Its documented contract allows any of them, and `GetValueAt` models exactly that contract. Under the contract the answer is not determined, so no property is stated about it. `GetValuesAtSeesCurrent` shows that, with at most one access per address per cycle (which finding 2 says the layout assumes), the answer is the current word.

## Proofs

`MemoryProofs` proves, for every set of addresses and words and every bound:

- `TypeCorrect`: `Spec => []TypeOK`.
- `MemorySafety`: `Spec => [](TraceMatchesMemory /\ ClocksOrdered)`.
- `ValuesAtSeesCurrent`: `Spec => []GetValuesAtSeesCurrent`.

The inductive invariant is `MemInv == TypeOK /\ TraceMatchesMemory /\ ClocksOrdered /\ ClocksSorted`. `ClocksSorted` says that clocks never decrease along any address trace, between any two entries and not only neighbours. The binary search needs it: `ValuesAtSeesCurrent` counts the entries with clock below `step`, and that count is the index of an entry only if the trace is sorted. The lemma `AppendKeepsSorted` shows that appending an entry whose clock is at least the last one keeps a trace sorted. `ClocksSorted` is preserved by `Read` and `Write` because the appended clock is `step`, which `ClocksOrdered` bounds every earlier clock by. `MemInvValuesAt` then splits on whether the last entry has clock `step`: if it does, the search finds an exact match; if not, every entry is below `step` and the search returns the last one. Neither `TraceMatchesMemory` nor `ClocksOrdered` is inductive alone:

- the step of `Read` preserves `TraceMatchesMemory` only because the last entry it copies is a typed `Entry`;
- the step of `AdvanceClock` preserves `ClocksOrdered` only because clocks are naturals, so `clk <= step` implies `clk <= step + 1`.

The proof has one step per action, with one sub-step per conjunct. It uses only `MemoryAssumption`.

`MemoryProofs` also proves:

- `ClocksOrderedInvariant`: `Spec => []ClocksOrdered`.
- `NumTraceRowsCounted`: `Spec => []NumTraceRowsIsCount`. The invariant is not inductive as it stands: the cardinality of a set grows by one under the addition of an element only if the set is finite. The inductive invariant is therefore `CountInv == TypeOK /\ IsFiniteSet(TraceRows) /\ NumTraceRowsIsCount`. It holds for every address set, even an infinite one, because only finitely many traces are ever non-empty. The lemma `TraceRowsAppend` shows that replacing one trace by a sequence one entry longer adds exactly one new pair to `TraceRows`; `FS_AddElement` from `FiniteSetTheorems` gives the cardinality. `ReadAppends` shows that both branches of `read` append one entry (the copied last word, or `INIT_MEM_VALUE` for a fresh address).
- `TraceAppendOnly`: `Spec => AccessesAreAppended`. Its proof shows `TypeOK /\ [Next]_mvars => [AccessStep]_mvars` action by action (`AccessStepHolds`), then combines it with `TypeCorrect` by PTL.

`RpoDigestProofs` proves `CmpTotalOrder`: `Spec => []CmpIsTotalOrder` for every `DigestSize`, `ByteBase`, `LimbBytes` and `Modulus` allowed by `DigestAssumption`. It also assumes `InnerAssumption`: two canonical limbs with one Montgomery form are equal. In the code, this holds because p = 2^64 - 2^32 + 1 is prime and does not divide R = 2^64, so x -> x·R mod p is a bijection of [0, p). TLC evaluates the assumption on the run's widths. The argument has three parts:

- **The fold.** `Cmp` is a recursive function (the fold over the zipped limbs). It is tied to a closed form, `CmpUpTo`: the ordering of the inner values at the first limb where they differ, or Equal if none does.
  - `CmpUpToStep` shows that the closed form satisfies the fold's equation.
  - `FoldUnique` shows that the equation has only one solution: two solutions that differed would differ at a least index, where both apply the same step to equal earlier values.
  - The least index comes from `LeastElement`, the least-number principle, obtained from `WFMin` and `NatLessThanWellFounded` of `WellFoundedInduction`. Neither takes an operator parameter.
- **The first difference.** `FirstDiffIsFirst` and `FirstDiffUnique` say that the first difference exists and is unique. From them, `CmpEqualIff`, `CmpLessAt` and `CmpAntisymmetric` follow.
- **Transitivity.** `CmpTransitive` takes the earlier of the two first differences.

What stays with TLC:

- Every Mmr and MmrNodes property is only model-checked. They depend on recursive functions over the bits of a forest (induction over data, which the provers cannot instantiate) and on Bitwise, which a module with theorems may not reach.
- The reference MMR is built from RECURSIVE operators.
- `SerializationRoundTrip` and `DecodingIsCanonical` are checked by TLC over the scaled widths only. Proving them needs the digit arithmetic of `FromLeBytes` and `LeBytes` (`x \div B^k % B` with a symbolic exponent). The installed provers know no facts about `^`: `B^0 = 1`, `B^(k+1) = B^k * B` and `B^k > 0` are each refused by both SMT and Zenon. Stating them as assumptions would take the base case of the arithmetic on trust, so the round trip is left to TLC. `CmpIsTotalOrder` is proved for all widths.
- The properties checked by the violation runs are disproved by TLC's counterexamples.

## Not modelled, and the plan for later work

- `hash_peaks`: padding plus a hash of field elements. It is abstracted with the digest. A model of its padding rule (`max(16, next_even(len))`) is a candidate.
- `fill_trace`'s field-element delta and inverse columns and its aux-bus calls are not modelled, and neither is `MemoryLookup`. Next step: model the field subtraction of the delta and compare it with `append_range_checks`.
- The digest's hex-string conversions go through `bytes_to_hex_string` and `hex_to_bytes`, which are not under `src/`. `Display`, `Randomizable` and the `From` conversions to arrays only copy the limbs.
- `StarkProof` (`winterfell/air/src/proof/mod.rs`), the error enums (`core/src/errors.rs`), and the CLIs and benchmark drivers (`crypto/src/main.rs`, `miden/src/*`) have no state machine. They are serialization, formatting and I/O, and are left out.
- Proofs for the MMR need ForestMath rewritten without Bitwise (bits via `BitOf`). That is planned as a separate arithmetic module.
