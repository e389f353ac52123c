---------------------------- MODULE AgentAuthority ----------------------------
(***************************************************************************)
(* What the two agent registries promise to a contract that asks who may   *)
(* act for an agent and which key speaks for it: an identity, once minted, *)
(* always has an owner; an agent, once listed, always has a signing key;   *)
(* owner, operator and key may change at any time, one at a time.          *)
(* AgentRegistry shows that the registries implement this.                 *)
(***************************************************************************)
CONSTANTS AgentIds, Keys, Accounts, Zero

VARIABLES owner, operator, signer

authorityVars == <<owner, operator, signer>>

AuthorityTypeOK ==
    /\ owner \in [AgentIds -> Accounts \cup {Zero}]
    /\ operator \in [AgentIds -> Accounts \cup {Zero}]
    /\ signer \in [AgentIds -> Keys \cup {Zero}]

AuthorityInit ==
    /\ owner = [id \in AgentIds |-> Zero]
    /\ operator = [id \in AgentIds |-> Zero]
    /\ signer = [id \in AgentIds |-> Zero]

HandTo(id, account) ==
    owner' = [owner EXCEPT ![id] = account] /\ UNCHANGED <<operator, signer>>

Appoint(id, account) ==
    owner[id] # Zero /\ operator' = [operator EXCEPT ![id] = account] /\ UNCHANGED <<owner, signer>>

Publish(id, key) ==
    owner[id] # Zero /\ signer' = [signer EXCEPT ![id] = key] /\ UNCHANGED <<owner, operator>>

AuthorityNext ==
    \E id \in AgentIds :
        \/ \E account \in Accounts : HandTo(id, account)
        \/ \E account \in Accounts \cup {Zero} : Appoint(id, account)
        \/ \E key \in Keys : Publish(id, key)

AuthoritySpec == AuthorityInit /\ [][AuthorityNext]_authorityVars
=============================================================================
