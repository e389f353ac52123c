----------------------------- MODULE MCRegistries -----------------------------
(***************************************************************************)
(* The registries of flows and receipts, and those of agents.  They share  *)
(* no state and call each other in no direction, so their calls are        *)
(* explored side by side.                                                  *)
(*                                                                         *)
(* Two runs of two flows, two executors, three steps each: enough for one  *)
(* account to try the other's run, for a receipt naming the wrong flow,    *)
(* and for seals before, between and after the receipts.  Two identities   *)
(* and two keys: transfers to oneself and to the other, an operator that   *)
(* outlives the owner who appointed it, keys that replace each other, and  *)
(* directories listed in either order.                                     *)
(***************************************************************************)
EXTENDS ExecutionReceipts, AgentRegistry, TLC

CONSTANTS f1, f2, r1, r2, a1, a2, w1, k1, k2, u1, u2

MCStatuses == {0, 1, 4}
MCModulus == 4
MCPrices == {0}
Symmetry == UNION {Permutations(S) : S \in {{f1, f2}, {r1, r2}, {a1, a2}, {k1, k2}, {u1, u2}}}

Init == ReceiptsInit /\ AgentsInit
Next ==
    \/ nextId = 1 /\ ReceiptsNext /\ UNCHANGED agentVars
    \/ (\A f \in Flows : flowOwner[f] = Zero) /\ AgentsNext /\ UNCHANGED receiptVars
Spec == Init /\ [][Next]_<<receiptVars, agentVars>>
=============================================================================
