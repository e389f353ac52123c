------------------------------ MODULE MCExplorer ------------------------------
(***************************************************************************)
(* The rows the indexer writes into both stores, with the probes and the   *)
(* pages that read them.                                                   *)
(*                                                                         *)
(* Three blocks hold two runs, two agents' listings and a bond; the last   *)
(* block is replaced once, one pass fails, and agents are probed once.     *)
(***************************************************************************)
EXTENDS Explorer

Step(run, index, agent, status) ==
    [kind |-> "step", run |-> run, index |-> index, agent |-> agent, status |-> status,
     attested |-> status = "ok", block |-> 0]
Seal(run, outcome) == [kind |-> "seal", run |-> run, root |-> Null, outcome |-> outcome, block |-> 0]
List(agent, version) ==
    [kind |-> "list", agent |-> agent, version |-> version, active |-> TRUE, block |-> 0]
Unlist(agent) == [kind |-> "unlist", agent |-> agent, block |-> 0]
Bond(agent, amount, slashed) ==
    [kind |-> "bond", agent |-> agent, amount |-> amount, slashed |-> slashed, block |-> 0]

MCRuns == {"q", "r"}
MCAgents == {1, 2}
MCBlocks ==
    {<<Step("r", 0, 1, "ok")>>, <<Step("r", 1, 1, "skipped"), Seal("r", "ok")>>,
     <<Step("r", 1, 2, "failed"), Step("r", 0, 1, "ok"), Seal("r", "failed")>>,
     <<Step("q", 0, 2, "unattested"), Seal("q", "unattested"), Step("r", 0, 2, "failed")>>,
     <<List(1, 1), List(2, 1), List(1, 2)>>,
     <<Bond(1, 2, FALSE), Unlist(1), Bond(1, 0, TRUE)>>}

\* Two blocks, a step of one run or of the other in each.
RecentBlocks == {<<Step("q", 0, 1, "ok")>>, <<Step("r", 0, 2, "ok")>>}
==============================================================================
