---------------------------- MODULE MCFlowEscrow ----------------------------
(* One run of two steps, funded, executed and worked by an ordinary account *)
(* x and a contract c in every combination of roles: c as payee or funder   *)
(* re-enters the escrow.  Amounts let one step take the whole budget, both  *)
(* share it, and a re-allocation exceed it.                                 *)
EXTENDS FlowEscrow, TLC

CONSTANTS r1, w1, x, c, k1, k2

MCStatuses == {0, 1}
MCAmounts == {1, 2}
Symmetry == Permutations({k1, k2})
=============================================================================
