---------------------------- MODULE MemoryProofs ----------------------------
(***************************************************************************)
(* Proofs about the memory controller (module Memory) for every set of     *)
(* addresses and words and every bound.                                    *)
(***************************************************************************)
EXTENDS Memory, FiniteSetTheorems, TLAPS

\* Every address trace is sorted by clock, for any two entries and not only
\* for neighbours: what a binary search on the trace needs.
ClocksSorted ==
  \A a \in Addr : \A i, j \in 1..Len(trace[a]) :
    i <= j => trace[a][i].clk <= trace[a][j].clk

\* The inductive invariant: the type, with the last-write and clock-order
\* properties the runs check.  Each is preserved only given the others'
\* types, so they are proved together.
MemInv == TypeOK /\ TraceMatchesMemory /\ ClocksOrdered /\ ClocksSorted

(***************************************************************************)
(* Memory::read, write and advance_clock keep every variable in its type.  *)
(***************************************************************************)
LEMMA TypeStep == TypeOK /\ [Next]_mvars => TypeOK'
<1> SUFFICES ASSUME TypeOK, [Next]_mvars PROVE TypeOK'
  OBVIOUS
<1>1. ASSUME NEW a \in Addr, Read(a) PROVE TypeOK'
  <2>1. trace[a] # <<>> => Last(trace[a]) \in Entry
    BY DEF TypeOK, Last
  <2>2. [clk |-> step, value |-> InitMemValue] \in Entry
    BY MemoryAssumption DEF TypeOK, Entry
  <2>3. trace[a] # <<>> => [clk |-> step, value |-> Last(trace[a]).value] \in Entry
    BY <2>1 DEF TypeOK, Entry
  <2>4. trace' \in [Addr -> Seq(Entry)]
    BY <1>1, <2>2, <2>3 DEF Read, TypeOK
  <2>5. QED
    BY <1>1, <2>4, MemoryAssumption DEF Read, TypeOK
<1>2. ASSUME NEW a \in Addr, NEW v \in Word, Write(a, v) PROVE TypeOK'
  <2>1. [clk |-> step, value |-> v] \in Entry
    BY MemoryAssumption DEF TypeOK, Entry
  <2>2. QED
    BY <1>2, <2>1, MemoryAssumption DEF Write, TypeOK
<1>3. CASE AdvanceClock
  BY <1>3, MemoryAssumption DEF AdvanceClock, TypeOK
<1>4. CASE UNCHANGED mvars
  BY <1>4 DEF mvars, TypeOK
<1>5. QED
  BY <1>1, <1>2, <1>3, <1>4 DEF Next

(***************************************************************************)
(* Appending an entry no earlier than every entry of a sorted trace keeps  *)
(* it sorted: what read and write do to the trace of their address.        *)
(***************************************************************************)
LEMMA AppendKeepsSorted ==
  ASSUME NEW t \in Seq(Entry), NEW e \in Entry,
         \A k \in 1..Len(t) : t[k].clk <= e.clk,
         \A i, j \in 1..Len(t) : i <= j => t[i].clk <= t[j].clk
  PROVE  \A i, j \in 1..Len(Append(t, e)) :
           i <= j => Append(t, e)[i].clk <= Append(t, e)[j].clk
<1> SUFFICES ASSUME NEW i \in 1..Len(Append(t, e)), NEW j \in 1..Len(Append(t, e)), i <= j
             PROVE  Append(t, e)[i].clk <= Append(t, e)[j].clk
  OBVIOUS
<1>1. CASE j <= Len(t)
  BY <1>1
<1>2. CASE j = Len(t) + 1 /\ i <= Len(t)
  BY <1>2
<1>3. CASE j = Len(t) + 1 /\ i = Len(t) + 1
  BY <1>3 DEF Entry
<1>4. QED
  BY <1>1, <1>2, <1>3

(***************************************************************************)
(* Every state of Memory is well typed.                                    *)
(***************************************************************************)
LEMMA TypeCorrect == Spec => []TypeOK
<1>1. Init => TypeOK
  BY MemoryAssumption DEF Init, TypeOK
<1>2. QED
  BY <1>1, TypeStep, PTL DEF Spec

(* The invariant holds in the initial state of Memory::new. *)
LEMMA MemInvInit == Init => MemInv
  BY MemoryAssumption DEF Init, MemInv, TypeOK, TraceMatchesMemory, ClocksOrdered, ClocksSorted

(* read, write and advance_clock preserve the invariant. *)
LEMMA MemInvStep == MemInv /\ [Next]_mvars => MemInv'
<1> SUFFICES ASSUME MemInv, [Next]_mvars PROVE MemInv'
  OBVIOUS
<1> USE DEF MemInv
<1>0. TypeOK'
  BY TypeStep
<1>1. ASSUME NEW a \in Addr, Read(a) PROVE MemInv'
  <2>1. TraceMatchesMemory'
    <3> SUFFICES ASSUME NEW x \in Addr
                 PROVE  IF trace'[x] = <<>> THEN mem'[x] = InitMemValue
                        ELSE Last(trace'[x]).value = mem'[x]
      BY DEF TraceMatchesMemory
    <3>1. CASE x = a /\ trace[a] # <<>>
      BY <1>1, <3>1 DEF Read, TypeOK, TraceMatchesMemory, Last
    <3>2. CASE x = a /\ trace[a] = <<>>
      BY <1>1, <3>2 DEF Read, TypeOK, TraceMatchesMemory, Last
    <3>3. CASE x # a
      BY <1>1, <3>3 DEF Read, TypeOK, TraceMatchesMemory
    <3>4. QED
      BY <3>1, <3>2, <3>3
  <2>2. ClocksOrdered'
    BY <1>1 DEF Read, TypeOK, ClocksOrdered, Last, Entry
  <2>4. ClocksSorted'
    <3> SUFFICES ASSUME NEW x \in Addr
                 PROVE  \A i, j \in 1..Len(trace'[x]) :
                          i <= j => trace'[x][i].clk <= trace'[x][j].clk
      BY DEF ClocksSorted
    <3>1. CASE x # a
      BY <1>1, <3>1 DEF Read, TypeOK, ClocksSorted
    <3>2. CASE x = a /\ trace[a] = <<>>
      BY <1>1, <3>2 DEF Read, TypeOK
    <3>3. CASE x = a /\ trace[a] # <<>>
      <4>1. Last(trace[a]) \in Entry
        BY <3>3 DEF TypeOK, Last
      <4>2. [clk |-> step, value |-> Last(trace[a]).value] \in Entry
        BY <4>1 DEF TypeOK, Entry
      <4>3. \A k \in 1..Len(trace[a]) : trace[a][k].clk <= step
        BY DEF ClocksOrdered
      <4>4. trace'[a] = Append(trace[a], [clk |-> step, value |-> Last(trace[a]).value])
        BY <1>1, <3>3 DEF Read, TypeOK
      <4>5. QED
        BY <3>3, <4>2, <4>3, <4>4, AppendKeepsSorted DEF TypeOK, ClocksSorted
    <3>4. QED
      BY <3>1, <3>2, <3>3
  <2>3. QED
    BY <1>0, <2>1, <2>2, <2>4
<1>2. ASSUME NEW a \in Addr, NEW v \in Word, Write(a, v) PROVE MemInv'
  <2>1. TraceMatchesMemory'
    BY <1>2 DEF Write, TypeOK, TraceMatchesMemory, Last
  <2>2. ClocksOrdered'
    BY <1>2 DEF Write, TypeOK, ClocksOrdered, Entry
  <2>4. ClocksSorted'
    <3> SUFFICES ASSUME NEW x \in Addr
                 PROVE  \A i, j \in 1..Len(trace'[x]) :
                          i <= j => trace'[x][i].clk <= trace'[x][j].clk
      BY DEF ClocksSorted
    <3>1. CASE x # a
      BY <1>2, <3>1 DEF Write, TypeOK, ClocksSorted
    <3>2. CASE x = a
      <4>1. [clk |-> step, value |-> v] \in Entry
        BY MemoryAssumption DEF TypeOK, Entry
      <4>2. \A k \in 1..Len(trace[a]) : trace[a][k].clk <= step
        BY DEF ClocksOrdered
      <4>3. trace'[a] = Append(trace[a], [clk |-> step, value |-> v])
        BY <1>2 DEF Write, TypeOK
      <4>4. QED
        BY <3>2, <4>1, <4>2, <4>3, AppendKeepsSorted DEF TypeOK, ClocksSorted
    <3>3. QED
      BY <3>1, <3>2
  <2>3. QED
    BY <1>0, <2>1, <2>2, <2>4
<1>3. CASE AdvanceClock
  <2>1. TraceMatchesMemory'
    BY <1>3 DEF AdvanceClock, TraceMatchesMemory
  <2>2. ClocksOrdered'
    <3> SUFFICES ASSUME NEW x \in Addr, NEW i \in 1..Len(trace'[x])
                 PROVE  /\ trace'[x][i].clk <= step'
                        /\ i > 1 => trace'[x][i-1].clk <= trace'[x][i].clk
      BY DEF ClocksOrdered
    <3>1. trace' = trace /\ step' = step + 1
      BY <1>3 DEF AdvanceClock
    <3>2. trace[x] \in Seq(Entry) /\ i \in 1..Len(trace[x])
      BY <3>1 DEF TypeOK
    <3>3. trace[x][i] \in Entry
      BY <3>2
    <3>4. trace[x][i].clk \in Nat /\ step \in Nat
      BY <3>3 DEF TypeOK, Entry
    <3>5. trace[x][i].clk <= step /\ (i > 1 => trace[x][i-1].clk <= trace[x][i].clk)
      BY <3>2 DEF ClocksOrdered
    <3>6. QED
      BY <3>1, <3>4, <3>5
  <2>4. ClocksSorted'
    BY <1>3 DEF AdvanceClock, ClocksSorted
  <2>3. QED
    BY <1>0, <2>1, <2>2, <2>4
<1>4. CASE UNCHANGED mvars
  BY <1>0, <1>4 DEF mvars, TraceMatchesMemory, ClocksOrdered, ClocksSorted
<1>5. QED
  BY <1>1, <1>2, <1>3, <1>4 DEF Next

(* Every state of Memory satisfies the invariant. *)
LEMMA MemInvariant == Spec => []MemInv
  BY MemInvInit, MemInvStep, PTL DEF Spec

(***************************************************************************)
(* For every behaviour of Memory: read returns the word last written to    *)
(* the address (INIT_MEM_VALUE before any write), and every address trace  *)
(* is ordered by clock with no entry later than the current step.          *)
(***************************************************************************)
THEOREM MemorySafety == Spec => [](TraceMatchesMemory /\ ClocksOrdered)
<1>1. MemInv => TraceMatchesMemory /\ ClocksOrdered
  BY DEF MemInv
<1>2. QED
  BY <1>1, MemInvariant, PTL

(***************************************************************************)
(* Under the invariant, get_values_at(range, step + 1) can return the      *)
(* current word of an accessed address: either the last entry is of the    *)
(* current cycle and is a match, or no entry is, every entry is earlier    *)
(* (the trace is sorted) and the insertion point is just after the last.   *)
(***************************************************************************)
LEMMA MemInvValuesAt == MemInv => GetValuesAtSeesCurrent
<1> SUFFICES ASSUME MemInv, NEW a \in Addr, trace[a] # <<>>
             PROVE  mem[a] \in GetValueAt(a, step + 1)
  BY DEF GetValuesAtSeesCurrent
<1> DEFINE t == trace[a]
           n == Len(t)
<1>1. t \in Seq(Entry) /\ n \in Nat /\ n >= 1 /\ step \in Nat
  BY DEF MemInv, TypeOK
<1>2. t[n].value = mem[a]
  BY <1>1 DEF MemInv, TraceMatchesMemory, Last
<1>3. \A i \in 1..n : t[i] \in Entry /\ t[i].clk <= t[n].clk /\ t[i].clk <= step
  BY <1>1 DEF MemInv, ClocksSorted, ClocksOrdered
<1>4. CASE t[n].clk = step
  <2>1. n \in {i \in 1..n : t[i].clk = (step + 1) - 1}
    BY <1>1, <1>4
  <2>2. GetValueAt(a, step + 1) = {t[i].value : i \in {i \in 1..n : t[i].clk = (step + 1) - 1}}
    BY <1>1, <2>1 DEF GetValueAt
  <2>3. QED
    BY <1>2, <2>1, <2>2
<1>5. CASE t[n].clk # step
  <2>1. t[n].clk \in Nat /\ t[n].clk < step
    BY <1>1, <1>3, <1>5 DEF Entry
  <2>2. {i \in 1..n : t[i].clk = (step + 1) - 1} = {}
    BY <1>1, <1>3, <2>1 DEF Entry
  <2>3. {i \in 1..n : t[i].clk < (step + 1) - 1} = 1..n
    BY <1>1, <1>3, <2>1 DEF Entry
  <2>4. Cardinality(1..n) = n
    BY <1>1, FS_Interval
  <2>5. Cardinality({i \in 1..n : t[i].clk < (step + 1) - 1}) = n
    BY <2>3, <2>4
  <2>6. step + 1 # 0 /\ n > 0
    BY <1>1
  <2>7. GetValueAt(a, step + 1) = {t[n].value}
    BY <2>2, <2>5, <2>6, Zenon DEF GetValueAt
  <2>8. QED
    BY <1>2, <2>7
<1>6. QED
  BY <1>4, <1>5

(***************************************************************************)
(* For every behaviour of Memory, get_values_at at the start of the next   *)
(* cycle can return the current word of every accessed address.            *)
(***************************************************************************)
THEOREM ValuesAtSeesCurrent == Spec => []GetValuesAtSeesCurrent
  BY MemInvValuesAt, MemInvariant, PTL


(***************************************************************************)
(* For every behaviour of Memory, every address trace is ordered by clock  *)
(* and holds no entry later than the current step.                         *)
(***************************************************************************)
THEOREM ClocksOrderedInvariant == Spec => []ClocksOrdered
  BY MemorySafety, PTL

-----------------------------------------------------------------------------
(***************************************************************************)
(* read and write replace the trace of one address by a sequence one       *)
(* entry longer: the rows gain exactly one pair, which is new.             *)
(***************************************************************************)
LEMMA TraceRowsAppend ==
  ASSUME TypeOK, NEW a \in Addr, NEW s \in Seq(Entry),
         Len(s) = Len(trace[a]) + 1,
         trace' = [trace EXCEPT ![a] = s]
  PROVE  /\ TraceRows' = TraceRows \cup {<<a, Len(trace[a]) + 1>>}
         /\ <<a, Len(trace[a]) + 1>> \notin TraceRows
<1> DEFINE n == Len(trace[a])
<1>1. n \in Nat
  BY DEF TypeOK
<1>2. \A x \in Addr \ {a} : trace'[x] = trace[x]
  BY DEF TypeOK
<1>3. trace'[a] = s
  BY DEF TypeOK
<1>4. 1..Len(s) = (1..n) \cup {n + 1}
  BY <1>1
<1>5. ASSUME NEW p \in TraceRows' PROVE p \in TraceRows \cup {<<a, n + 1>>}
  <2>1. PICK x \in Addr : p \in {<<x, i>> : i \in 1..Len(trace'[x])}
    BY <1>5 DEF TraceRows
  <2>2. PICK i \in 1..Len(trace'[x]) : p = <<x, i>>
    BY <2>1
  <2>3. CASE x = a
    BY <1>3, <1>4, <2>2, <2>3 DEF TraceRows
  <2>4. CASE x # a
    BY <1>2, <2>2, <2>4 DEF TraceRows
  <2>5. QED
    BY <2>3, <2>4
<1>6. ASSUME NEW p \in TraceRows \cup {<<a, n + 1>>} PROVE p \in TraceRows'
  <2>1. CASE p = <<a, n + 1>>
    BY <1>3, <1>4, <2>1 DEF TraceRows
  <2>2. CASE p \in TraceRows
    <3>1. PICK x \in Addr : p \in {<<x, i>> : i \in 1..Len(trace[x])}
      BY <2>2 DEF TraceRows
    <3>2. PICK i \in 1..Len(trace[x]) : p = <<x, i>>
      BY <3>1
    <3>3. CASE x = a
      BY <1>3, <1>4, <3>2, <3>3 DEF TraceRows
    <3>4. CASE x # a
      BY <1>2, <3>2, <3>4 DEF TraceRows
    <3>5. QED
      BY <3>3, <3>4
  <2>3. QED
    BY <1>6, <2>1, <2>2
<1>7. <<a, n + 1>> \notin TraceRows
  BY <1>1 DEF TraceRows, TypeOK
<1>8. QED
  BY <1>5, <1>6, <1>7

\* The row count and the finiteness the cardinality argument needs.
CountInv == TypeOK /\ IsFiniteSet(TraceRows) /\ NumTraceRowsIsCount

(* A step that appends one entry keeps the count, from TraceRowsAppend. *)
LEMMA CountAppend ==
  ASSUME CountInv, NEW a \in Addr, NEW s \in Seq(Entry),
         Len(s) = Len(trace[a]) + 1,
         trace' = [trace EXCEPT ![a] = s],
         num_trace_rows' = num_trace_rows + 1
  PROVE  IsFiniteSet(TraceRows') /\ NumTraceRowsIsCount'
<1>1. /\ TraceRows' = TraceRows \cup {<<a, Len(trace[a]) + 1>>}
      /\ <<a, Len(trace[a]) + 1>> \notin TraceRows
  BY TraceRowsAppend DEF CountInv
<1>2. /\ IsFiniteSet(TraceRows \cup {<<a, Len(trace[a]) + 1>>})
      /\ Cardinality(TraceRows \cup {<<a, Len(trace[a]) + 1>>}) = Cardinality(TraceRows) + 1
  BY <1>1, FS_AddElement DEF CountInv
<1>3. QED
  BY <1>1, <1>2 DEF CountInv, NumTraceRowsIsCount

\* Every address trace starts empty, and so do the rows.
LEMMA CountInvInit == Init => CountInv
<1> SUFFICES ASSUME Init PROVE CountInv
  OBVIOUS
<1>1. TraceRows = {}
  BY DEF Init, TraceRows
<1>2. QED
  BY <1>1, FS_EmptySet, MemoryAssumption DEF Init, CountInv, TypeOK, NumTraceRowsIsCount

\* The entry that read appends to a non-empty trace is an Entry.
LEMMA ReadEntry ==
  ASSUME TypeOK, NEW a \in Addr, trace[a] # <<>>
  PROVE  [clk |-> step, value |-> Last(trace[a]).value] \in Entry
<1>1. Last(trace[a]) \in Entry
  BY DEF TypeOK, Last
<1>2. QED
  BY <1>1 DEF TypeOK, Entry

\* What read does to the trace of its address: one entry appended.
LEMMA ReadAppends ==
  ASSUME TypeOK, NEW a \in Addr, Read(a)
  PROVE  \E v \in Word :
           /\ trace' = [trace EXCEPT ![a] = Append(trace[a], [clk |-> step, value |-> v])]
           /\ num_trace_rows' = num_trace_rows + 1
           /\ step' = step
<1>1. CASE trace[a] # <<>>
  <2>1. Last(trace[a]).value \in Word
    BY <1>1, ReadEntry DEF Entry
  <2>2. QED
    BY <1>1, <2>1 DEF Read
<1>2. CASE trace[a] = <<>>
  <2>1. <<[clk |-> step, value |-> InitMemValue]>> =
          Append(trace[a], [clk |-> step, value |-> InitMemValue])
    BY <1>2
  <2>2. QED
    BY <1>2, <2>1, MemoryAssumption DEF Read
<1>3. QED
  BY <1>1, <1>2

\* Appending an entry stamped at the current clock keeps the row count.
LEMMA CountAppendEntry ==
  ASSUME CountInv, NEW a \in Addr, NEW v \in Word,
         trace' = [trace EXCEPT ![a] = Append(trace[a], [clk |-> step, value |-> v])],
         num_trace_rows' = num_trace_rows + 1
  PROVE  IsFiniteSet(TraceRows') /\ NumTraceRowsIsCount'
<1>1. [clk |-> step, value |-> v] \in Entry
  BY MemoryAssumption DEF CountInv, TypeOK, Entry
<1>2. /\ Append(trace[a], [clk |-> step, value |-> v]) \in Seq(Entry)
      /\ Len(Append(trace[a], [clk |-> step, value |-> v])) = Len(trace[a]) + 1
  BY <1>1 DEF CountInv, TypeOK
<1>3. QED
  BY <1>2, CountAppend

LEMMA CountInvStep == CountInv /\ [Next]_mvars => CountInv'
<1> SUFFICES ASSUME CountInv, [Next]_mvars PROVE CountInv'
  OBVIOUS
<1>0. TypeOK'
  BY TypeStep DEF CountInv
<1>1. ASSUME NEW a \in Addr, Read(a) PROVE CountInv'
  <2>1. PICK v \in Word :
          /\ trace' = [trace EXCEPT ![a] = Append(trace[a], [clk |-> step, value |-> v])]
          /\ num_trace_rows' = num_trace_rows + 1
    BY <1>1, ReadAppends DEF CountInv
  <2>2. QED
    BY <1>0, <2>1, CountAppendEntry DEF CountInv
<1>2. ASSUME NEW a \in Addr, NEW v \in Word, Write(a, v) PROVE CountInv'
  BY <1>0, <1>2, CountAppendEntry DEF Write, CountInv
<1>3. CASE AdvanceClock \/ UNCHANGED mvars
  <2>1. trace' = trace /\ num_trace_rows' = num_trace_rows
    BY <1>3 DEF AdvanceClock, mvars
  <2>2. TraceRows' = TraceRows
    BY <2>1 DEF TraceRows
  <2>3. QED
    BY <1>0, <2>1, <2>2 DEF CountInv, NumTraceRowsIsCount
<1>4. QED
  BY <1>1, <1>2, <1>3 DEF Next

(***************************************************************************)
(* For every behaviour of Memory, the cached num_trace_rows is the number  *)
(* of entries of all address traces, the count fill_trace asserts.         *)
(***************************************************************************)
THEOREM NumTraceRowsCounted == Spec => []NumTraceRowsIsCount
<1>1. CountInv => NumTraceRowsIsCount
  BY DEF CountInv
<1>2. QED
  BY <1>1, CountInvInit, CountInvStep, PTL DEF Spec

-----------------------------------------------------------------------------
(***************************************************************************)
(* A step that changes the trace of address a only, to Append(trace[a], e) *)
(* with e stamped at the current clock, and counts one row, is an          *)
(* AccessStep when the clock stays.                                        *)
(***************************************************************************)
LEMMA AppendIsAccessStep ==
  ASSUME TypeOK, NEW a \in Addr, NEW v \in Word,
         trace' = [trace EXCEPT ![a] = Append(trace[a], [clk |-> step, value |-> v])],
         num_trace_rows' = num_trace_rows + 1,
         step' = step
  PROVE  AccessStep
<1>1. \A x \in Addr : \/ trace'[x] = trace[x]
                      \/ \E w \in Word : trace'[x] = Append(trace[x], [clk |-> step, value |-> w])
  BY DEF TypeOK
<1>2. {x \in Addr : trace'[x] # trace[x]} = {a}
  <2>1. Len(trace'[a]) = Len(trace[a]) + 1
    BY DEF TypeOK
  <2>2. trace'[a] # trace[a]
    BY <2>1 DEF TypeOK
  <2>3. QED
    BY <2>2 DEF TypeOK
<1>3. Cardinality({a}) = 1
  BY FS_Singleton
<1>4. num_trace_rows' - num_trace_rows = 1
  BY DEF TypeOK
<1>5. num_trace_rows' - num_trace_rows = Cardinality({x \in Addr : trace'[x] # trace[x]})
  BY <1>2, <1>3, <1>4, Zenon
<1>6. step <= step'
  BY DEF TypeOK
<1>7. QED
  BY <1>1, <1>5, <1>6 DEF AccessStep

(* read, write and advance_clock are access steps; a stutter is allowed. *)
LEMMA AccessStepHolds == TypeOK /\ [Next]_mvars => [AccessStep]_mvars
<1> SUFFICES ASSUME TypeOK, [Next]_mvars PROVE [AccessStep]_mvars
  OBVIOUS
<1>1. ASSUME NEW a \in Addr, Read(a) PROVE AccessStep
  BY <1>1, ReadAppends, AppendIsAccessStep
<1>2. ASSUME NEW a \in Addr, NEW v \in Word, Write(a, v) PROVE AccessStep
  BY <1>2, AppendIsAccessStep DEF Write
<1>3. CASE AdvanceClock
  <2>1. trace' = trace /\ num_trace_rows' = num_trace_rows /\ step' = step + 1
    BY <1>3 DEF AdvanceClock
  <2>2. {x \in Addr : trace'[x] # trace[x]} = {}
    BY <2>1
  <2>3. Cardinality({x \in Addr : trace'[x] # trace[x]}) = 0
    BY <2>2, FS_EmptySet
  <2>4. num_trace_rows' - num_trace_rows = Cardinality({x \in Addr : trace'[x] # trace[x]})
    BY <2>1, <2>3 DEF TypeOK
  <2>5. step <= step'
    BY <2>1 DEF TypeOK
  <2>6. \A x \in Addr : trace'[x] = trace[x]
    BY <2>1
  <2>7. QED
    BY <2>4, <2>5, <2>6 DEF AccessStep
<1>4. CASE UNCHANGED mvars
  BY <1>4
<1>5. QED
  BY <1>1, <1>2, <1>3, <1>4 DEF Next

(***************************************************************************)
(* For every behaviour of Memory, no step moves the clock back, rewrites   *)
(* or removes an entry of an address trace, or appends one stamped with    *)
(* another cycle, and num_trace_rows counts exactly the entries appended.  *)
(***************************************************************************)
THEOREM TraceAppendOnly == Spec => AccessesAreAppended
  BY TypeCorrect, AccessStepHolds, PTL DEF Spec, AccessesAreAppended

=============================================================================
