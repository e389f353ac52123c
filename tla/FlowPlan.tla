------------------------------ MODULE FlowPlan ------------------------------
(***************************************************************************)
(* plan.ts: which flow specifications are accepted, and the waves the      *)
(* executor runs an accepted one in.                                       *)
(*                                                                         *)
(* A flow of n steps declares, per step index, the steps it needs and the  *)
(* steps its input template reads.  A step is named by its index; n itself *)
(* stands for a name no step has.                                          *)
(***************************************************************************)
EXTENDS Integers

\* The upstream steps of a planned step: `needs` and whatever it reads.
DependsOn(n, needs, reads) == [i \in 0 .. n - 1 |-> needs[i] \cup reads[i]]

\* buildWaves: after round k of Kahn's algorithm, the steps whose turn came in
\* one of the first k waves.
DoneAfter(n, dependsOn) ==
    LET done[k \in 0 .. n] ==
            IF k = 0 THEN {}
            ELSE done[k - 1] \cup {i \in 0 .. n - 1 : dependsOn[i] \subseteq done[k - 1]}
    IN  done

\* The k-th wave, k from 1: what that round added; none after the last.
Wave(n, dependsOn, k) ==
    {i \in 0 .. n - 1 : k <= n /\ i \in DoneAfter(n, dependsOn)[k] \ DoneAfter(n, dependsOn)[k - 1]}

\* An empty wave while steps remain is a dependency cycle.
HasCycle(n, dependsOn) == DoneAfter(n, dependsOn)[n] # 0 .. n - 1

\* Steps are declared after what they depend on, so that a verifier can
\* re-derive inputs in index order.
InDeclarationOrder(n, dependsOn) ==
    \A i \in 0 .. n - 1 : \A upstream \in dependsOn[i] : upstream < i

\* planFlow: no empty flow, no unknown name, no undeclared read, no cycle, no
\* forward reference.
Accepted(n, needs, reads) ==
    /\ n > 0
    /\ \A i \in 0 .. n - 1 :
          /\ needs[i] \subseteq 0 .. n - 1
          /\ reads[i] \subseteq needs[i]
    /\ ~HasCycle(n, DependsOn(n, needs, reads))
    /\ InDeclarationOrder(n, DependsOn(n, needs, reads))
=============================================================================
