------------------------------- MODULE Memory -------------------------------
(***************************************************************************)
(* The VM's memory controller, src/processor/src/memory/mod.rs.  Memory is *)
(* word-addressable; every read and write appends (clk, word) to the trace *)
(* of its address (a BTreeMap<u64, Vec<(Felt, Word)>>), the clock only     *)
(* moves by advance_clock, and the trace is later turned into range-check  *)
(* deltas (append_range_checks) and trace rows (fill_trace).               *)
(*                                                                         *)
(* Words are members of the set Word with InitMemValue ([ZERO; 4]) in it;  *)
(* addresses are a finite set of naturals (u64 keys, in their order).  An  *)
(* address without an entry in the BTreeMap has the empty trace <<>>: the  *)
(* code never stores an empty vector.                                      *)
(***************************************************************************)
EXTENDS Integers, Sequences, FiniteSets

CONSTANTS
  Addr,          \* addresses that are accessed
  Word,          \* words that are written
  InitMemValue,  \* INIT_MEM_VALUE
  MaxStep,       \* bound on advance_clock calls
  MaxRows        \* bound on read and write calls

ASSUME MemoryAssumption ==
  /\ Addr \subseteq Nat
  /\ InitMemValue \in Word
  /\ MaxStep \in Nat
  /\ MaxRows \in Nat

VARIABLES
  step,            \* Memory.step, the current clock cycle
  trace,           \* Memory.trace: address -> sequence of [clk, value]
  num_trace_rows,  \* Memory.num_trace_rows
  mem              \* auxiliary: the word last written to each address

mvars == <<step, trace, num_trace_rows, mem>>

Entry == [clk : Nat, value : Word]

Last(s) == s[Len(s)]

-----------------------------------------------------------------------------
(* Memory::new *)
Init ==
  /\ step = 0
  /\ trace = [a \in Addr |-> <<>>]
  /\ num_trace_rows = 0
  /\ mem = [a \in Addr |-> InitMemValue]

\* Mutant: a read of an accessed address reports INIT_MEM_VALUE.
ReadInitValue(addr) ==
  /\ num_trace_rows < MaxRows
  /\ num_trace_rows' = num_trace_rows + 1
  /\ trace' = [trace EXCEPT ![addr] = Append(@, [clk |-> step, value |-> InitMemValue])]
  /\ UNCHANGED <<step, mem>>

(***************************************************************************)
(* Memory::read: append (clk, last value) to the address trace, or start   *)
(* it with (clk, INIT_MEM_VALUE); the word returned is the last entry's.   *)
(***************************************************************************)
Read(addr) ==
  /\ num_trace_rows < MaxRows
  /\ num_trace_rows' = num_trace_rows + 1
  /\ trace' = [trace EXCEPT ![addr] =
                 IF @ # <<>>
                 THEN Append(@, [clk |-> step, value |-> Last(@).value])
                 ELSE <<[clk |-> step, value |-> InitMemValue]>>]
  /\ UNCHANGED <<step, mem>>

\* Mutant: the entry is stamped with the next cycle.
WriteNextClk(addr, value) ==
  /\ num_trace_rows < MaxRows
  /\ num_trace_rows' = num_trace_rows + 1
  /\ trace' = [trace EXCEPT ![addr] = Append(@, [clk |-> step + 1, value |-> value])]
  /\ mem' = [mem EXCEPT ![addr] = value]
  /\ UNCHANGED step

\* Mutant: the row counter is not advanced.
WriteNoCount(addr, value) ==
  /\ num_trace_rows < MaxRows
  /\ trace' = [trace EXCEPT ![addr] = Append(@, [clk |-> step, value |-> value])]
  /\ mem' = [mem EXCEPT ![addr] = value]
  /\ UNCHANGED <<step, num_trace_rows>>

\* Mutant: a second write of an address in one cycle overwrites the entry of
\* that cycle instead of appending one.
WriteCoalesce(addr, value) ==
  /\ num_trace_rows < MaxRows
  /\ IF trace[addr] # <<>> /\ Last(trace[addr]).clk = step
     THEN /\ trace' = [trace EXCEPT ![addr] =
                          [@ EXCEPT ![Len(@)] = [clk |-> step, value |-> value]]]
          /\ UNCHANGED num_trace_rows
     ELSE /\ trace' = [trace EXCEPT ![addr] = Append(@, [clk |-> step, value |-> value])]
          /\ num_trace_rows' = num_trace_rows + 1
  /\ mem' = [mem EXCEPT ![addr] = value]
  /\ UNCHANGED step

(* Memory::write *)
Write(addr, value) ==
  /\ num_trace_rows < MaxRows
  /\ num_trace_rows' = num_trace_rows + 1
  /\ trace' = [trace EXCEPT ![addr] = Append(@, [clk |-> step, value |-> value])]
  /\ mem' = [mem EXCEPT ![addr] = value]
  /\ UNCHANGED step

(* Memory::advance_clock *)
AdvanceClock ==
  /\ step < MaxStep
  /\ step' = step + 1
  /\ UNCHANGED <<trace, num_trace_rows, mem>>

Next ==
  \/ \E a \in Addr : Read(a)
  \/ \E a \in Addr, v \in Word : Write(a, v)
  \/ AdvanceClock

Spec == Init /\ [][Next]_mvars

-----------------------------------------------------------------------------
(***************************************************************************)
(* Read-only operations.                                                   *)
(***************************************************************************)

\* The addresses present in the BTreeMap.
Accessed == {a \in Addr : trace[a] # <<>>}

(* Memory::get_value: the last word of the address trace, if any. *)
GetValue(addr) == IF trace[addr] = <<>> THEN {} ELSE {Last(trace[addr]).value}

\* Mutant: an exact match on the clock is handled like a miss.
GetValueAtNoExact(addr, s) ==
  LET t == trace[addr]
      ins == Cardinality({i \in 1..Len(t) : t[i].clk < s - 1})
  IN  IF s = 0 THEN {} ELSE IF ins > 0 THEN {t[ins].value} ELSE {}

(***************************************************************************)
(* Memory::get_values_at for one address: the words the binary search on  *)
(* clk for search_step = s - 1 may return.  binary_search_by returns any   *)
(* one of several matching entries; without a match it returns the        *)
(* insertion point i and the entry before it is used if i > 0.  {} means  *)
(* the address is left out of the result.                                  *)
(***************************************************************************)
GetValueAt(addr, s) ==
  LET t == trace[addr]
      matches == {i \in 1..Len(t) : t[i].clk = s - 1}
      ins == Cardinality({i \in 1..Len(t) : t[i].clk < s - 1})
  IN  IF s = 0 THEN {}
      ELSE IF matches # {} THEN {t[i].value : i \in matches}
      ELSE IF ins > 0 THEN {t[ins].value}
      ELSE {}

(* Memory::get_values: the last word of each accessed address in lo..hi. *)
GetValues(lo, hi) == {<<a, Last(trace[a]).value>> : a \in Accessed \cap lo..hi}

(* Memory::get_first_row_info: the first address and its first clock. *)
GetFirstRowInfo ==
  LET first == CHOOSE x \in Accessed : \A y \in Accessed : x <= y
  IN  [addr |-> first, clk |-> trace[first][1].clk]

\* The rows fill_trace writes, one per entry of an address trace.
TraceRows == UNION {{<<a, i>> : i \in 1..Len(trace[a])} : a \in Addr}

\* Entry q comes before entry r in the loops of fill_trace: the BTreeMap
\* yields the addresses in ascending order, each with its entries in order.
RowBefore(q, r) == q[1] < r[1] \/ (q[1] = r[1] /\ q[2] < r[2])

\* The number of entries fill_trace visits before entry r.
RowRank(r) == Cardinality({q \in TraceRows : RowBefore(q, r)})

\* The entry visited at row p (the counter i of fill_trace is p - 1).
RowAt(p) == CHOOSE r \in TraceRows : RowRank(r) = p - 1

(***************************************************************************)
(* Memory::fill_trace: one row per trace entry, addresses ascending and    *)
(* entries in order, each with (addr, clk, old word, new word); the old    *)
(* word restarts at INIT_MEM_VALUE with every address and is otherwise    *)
(* the word of the row before.  The delta columns are those of            *)
(* append_range_checks (RangeCheckDelta); the empty trace writes no row.   *)
(***************************************************************************)
FillTrace ==
  [p \in 1..Cardinality(TraceRows) |->
     LET a == RowAt(p)[1]
         j == RowAt(p)[2]
     IN  [addr |-> a, clk |-> trace[a][j].clk,
          prev_value |-> IF j = 1 THEN InitMemValue ELSE trace[a][j-1].value,
          value |-> trace[a][j].value]]

\* The outcome of a u64 subtraction that underflows: a panic in the debug
\* build (overflow checks on), which the model follows.
Panic == -1

\* u64 subtraction with the debug build's overflow check.
U64Sub(a, b) == IF a = Panic \/ b = Panic \/ a < b THEN Panic ELSE a - b

(***************************************************************************)
(* The delta append_range_checks computes for entry i of the trace of     *)
(* address addr.  The loop walks the addresses in ascending order and      *)
(* their entries in order, carrying prev_addr and prev_clk from the row    *)
(* before; the first row starts from get_first_row_info with prev_clk set  *)
(* to its clk minus one, so that its delta is zero.                        *)
(***************************************************************************)
PrevAddr(addr) ==
  LET below == {x \in Accessed : x < addr}
  IN  IF below = {} THEN addr ELSE CHOOSE x \in below : \A y \in below : y <= x

RangeCheckDelta(addr, i) ==
  LET t == trace[addr]
      first == GetFirstRowInfo
      prev_clk == IF i > 1 THEN t[i-1].clk ELSE U64Sub(first.clk, 1)
  IN  IF i = 1 /\ addr # first.addr
      THEN addr - PrevAddr(addr)
      ELSE U64Sub(U64Sub(t[i].clk, prev_clk), 1)

-----------------------------------------------------------------------------
TypeOK ==
  /\ step \in 0..MaxStep
  /\ trace \in [Addr -> Seq(Entry)]
  /\ num_trace_rows \in 0..MaxRows
  /\ mem \in [Addr -> Word]

(***************************************************************************)
(* Memory::read returns the word last written to the address and          *)
(* INIT_MEM_VALUE before any write: the last entry of every address trace  *)
(* holds the address's current word, which is also what get_value and     *)
(* fill_trace's final row report.                                          *)
(***************************************************************************)
TraceMatchesMemory ==
  \A a \in Addr :
    IF trace[a] = <<>> THEN mem[a] = InitMemValue ELSE Last(trace[a]).value = mem[a]

(***************************************************************************)
(* The trace of every address is ordered by clock and no entry is later    *)
(* than the current step, the order the binary search of get_values_at     *)
(* and the deltas of append_range_checks rely on.                          *)
(***************************************************************************)
ClocksOrdered ==
  \A a \in Addr : \A i \in 1..Len(trace[a]) :
    /\ trace[a][i].clk <= step
    /\ i > 1 => trace[a][i-1].clk <= trace[a][i].clk

(***************************************************************************)
(* Memory::get_values_at(range, step + 1), asked for the memory at the     *)
(* start of the next cycle, can return the current word of every accessed  *)
(* address: the binary search on the sorted address trace lands on an      *)
(* entry of the current cycle or, without one, just after the last entry.  *)
(***************************************************************************)
GetValuesAtSeesCurrent ==
  \A a \in Addr : trace[a] # <<>> => mem[a] \in GetValueAt(a, step + 1)

(***************************************************************************)
(* The cached Memory.num_trace_rows, kept by hand in read and write, is    *)
(* the number of entries of all address traces: the count fill_trace's    *)
(* debug_assert_eq compares with the rows it writes.                       *)
(***************************************************************************)
NumTraceRowsIsCount == num_trace_rows = Cardinality(TraceRows)

(***************************************************************************)
(* No step of Memory rewrites the past: the clock never goes back, every   *)
(* address trace is left as it is or gets one new entry stamped with the   *)
(* current clock, and num_trace_rows grows by the number of traces that    *)
(* got one.  fill_trace and append_range_checks replay these traces as a   *)
(* record of every access in order.                                        *)
(***************************************************************************)
AccessStep ==
  /\ step <= step'
  /\ \A a \in Addr :
       \/ trace'[a] = trace[a]
       \/ \E v \in Word : trace'[a] = Append(trace[a], [clk |-> step, value |-> v])
  /\ num_trace_rows' - num_trace_rows = Cardinality({a \in Addr : trace'[a] # trace[a]})

AccessesAreAppended == [][AccessStep]_mvars

=============================================================================
