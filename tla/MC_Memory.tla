----------------------------- MODULE MC_Memory -----------------------------
(***************************************************************************)
(* Model-checking harness for Memory.                                      *)
(***************************************************************************)
EXTENDS Memory, TLC

CONSTANTS zero, w1, w2

MCWord == {zero, w1, w2}

(***************************************************************************)
(* The layout comment of Memory: for two rows of the same address the      *)
(* range-checked delta is new_clk - old_clk - 1, so clk must increase      *)
(* strictly along an address trace and every such delta append_range_checks *)
(* computes is a u64 that does not underflow.                               *)
(***************************************************************************)
RangeCheckDeltasInRange ==
  \A a \in Accessed : \A i \in 2..Len(trace[a]) :
    RangeCheckDelta(a, i) \in Nat

(***************************************************************************)
(* The comment of append_range_checks: prev_clk starts at the first clk    *)
(* minus one so that the delta of the first row is ZERO.                   *)
(***************************************************************************)
FirstRowDeltaZero ==
  Accessed # {} => RangeCheckDelta(GetFirstRowInfo.addr, 1) = 0

=============================================================================
