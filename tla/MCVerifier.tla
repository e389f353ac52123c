----------------------------- MODULE MCVerifier -----------------------------
\* One run of three steps: a1 works on the inputs, a second step hires a run
\* with a1's output, a2 works on the inputs in the same wave as a1.  The hired
\* run has one step, by a2, who may say that it hired the first run.
EXTENDS Verifier, TLC

CONSTANTS a1, a2, k1, k2, k3, stranger, tee, p, c, asked, answer

MCAgents == {a1, a2}
MCRunIds == {p, c}
Lax == [attestation |-> FALSE, binding |-> "present", signedOutput |-> FALSE]
Bound == [attestation |-> TRUE, binding |-> "bound", signedOutput |-> FALSE]
Signed == [attestation |-> FALSE, binding |-> "present", signedOutput |-> TRUE]
Step(agent, reads, requires, child) ==
    [agent |-> agent, reads |-> reads, readsInputs |-> reads = {}, needs |-> reads,
     requires |-> requires, child |-> child]
MCFlows == [parent |-> [i \in 0 .. 2 |->
                CASE i = 0 -> Step(a1, {}, Signed, NoRun)
                  [] i = 1 -> Step(a1, {0}, Lax, c)
                  [] OTHER -> Step(a2, {}, Bound, NoRun)],
            hired |-> [i \in 0 .. 0 |-> Step(a2, {}, Signed, NoRun)]]
MCFlowOf == (p :> "parent") @@ (c :> "hired")
MCKeysOf == (a1 :> <<k1, k2>>) @@ (a2 :> <<k3>>)
MCOwns == [adapters |-> {a1, a2}, erc |-> {a1}]
Manner(bundle, signs, hired) == [bundle |-> bundle, signs |-> signs, hired |-> hired]
Quote(v) == {[response |-> {[signer |-> tee, carries |-> v]}]}
MCManners == (p :> (0 :> {Manner({}, TRUE, {})} @@ 1 :> {} @@
                    2 :> {Manner(Quote(answer), FALSE, {}), Manner(Quote(Other), FALSE, {})}))
             @@ (c :> (0 :> {Manner({}, TRUE, {}), Manner({}, TRUE, {p})}))
\* What two of the theorems take of the runs holds of these.
ASSUME ProofHypotheses == NoLooseQuotes /\ HiringIsShallow
=============================================================================
