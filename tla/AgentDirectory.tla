---------------------------- MODULE AgentDirectory ----------------------------
(***************************************************************************)
(* What the agent registry promises to a contract that pays agents: an     *)
(* agent is unlisted, with no signer and no payee, until it is listed;     *)
(* from then on it always has both, and either may change at any time.     *)
(* AgentRegistry shows that the identity and adapter registries implement  *)
(* this.                                                                   *)
(***************************************************************************)
CONSTANTS AgentIds, Keys, Accounts, Zero

VARIABLE listing    \* id -> the key that speaks for it and where it is paid

Unlisted == [signer |-> Zero, payTo |-> Zero]
Listed == [signer : Keys, payTo : Accounts]

DirectoryTypeOK == listing \in [AgentIds -> Listed \cup {Unlisted}]

DirectoryInit == listing = [id \in AgentIds |-> Unlisted]

List(id, entry) == listing' = [listing EXCEPT ![id] = entry]

DirectoryNext == \E id \in AgentIds, entry \in Listed : List(id, entry)

DirectorySpec == DirectoryInit /\ [][DirectoryNext]_listing
=============================================================================
