------------------------------ MODULE MCIndexer ------------------------------
(***************************************************************************)
(* The contract of the bonds (AgentReputation) and the indexer that        *)
(* follows the chain (Indexer), explored side by side: each of them is run *)
(* while the other rests.                                                  *)
(*                                                                         *)
(* The contract has one agent, an ordinary account and a contract that     *)
(* calls back, two keys and two works about one step; bonds of odd and     *)
(* even amounts.  The indexer follows three blocks, that hold a run of two *)
(* receipts, an agent's listings and its bond, in batches of two, over one *)
(* replacement of up to two blocks and one failure.                        *)
(***************************************************************************)
EXTENDS AgentReputation, Indexer

Init == ReputationInit /\ IndexInit
Follows == PassStep /\ ReputationInit /\ UNCHANGED reputationVars
Next ==
    \/ ReputationNext /\ IndexInit /\ UNCHANGED indexVars
    \/ IndexNext /\ ReputationInit /\ UNCHANGED reputationVars

\* cli.ts polls for ever, and catches what a pass throws.
FairSpec ==
    Init /\ [][Next]_<<reputationVars, indexVars>> /\ WF_<<reputationVars, indexVars>>(Follows)

-----------------------------------------------------------------------------
MCAmounts == {1, 2}

MCSteps == {0, 1}
E(kind, value) == [kind |-> kind, value |-> value]
RunContents == {<<>>, <<E("step", 0)>>, <<E("step", 1), E("step", 0)>>, <<E("step", 1), E("seal", 2)>>,
                <<E("seal", 1)>>}
AgentContents == {<<E("list", 1), E("stake", 1)>>, <<E("stake", 2)>>, <<E("unlist", 0), E("unstake", 1)>>,
                  <<E("list", 2), E("withdraw", 0)>>, <<E("list", 2), E("slash", 0)>>}
MCContents == RunContents \cup AgentContents
=============================================================================
