------------------------------ MODULE MCHiring ------------------------------
(***************************************************************************)
(* Two steps that hire the same agent, in one wave or one after the other; *)
(* with and without a bar, a caller-supplied endpoint and the SDK.         *)
(***************************************************************************)
EXTENDS Hiring

Config(override, parallel, bar, signedOnly, sdk) ==
    [override |-> override, parallel |-> parallel, bar |-> bar, signedOnly |-> signedOnly, sdk |-> sdk]

MCConfigs == {Config(FALSE, FALSE, 1, TRUE, TRUE), Config(TRUE, TRUE, 0, FALSE, FALSE)}
=============================================================================
