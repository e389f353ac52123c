--------------------------- MODULE AgentReputation ---------------------------
(***************************************************************************)
(* AgentReputationV1.sol: a bond attached to an agent identity, withdrawn  *)
(* after a cooldown and lost when the agent's key is shown to have signed  *)
(* two different claims about one step.  Composed with the registries it   *)
(* asks who owns an agent, who operates it and which key speaks for it.    *)
(*                                                                         *)
(* A withdrawal pays the owner and a proof pays the prover by a call, which *)
(* may run the code of a contract: it may call any of the contracts again, *)
(* and fail, which undoes all the call did.  `stack` holds the storage to  *)
(* go back to, one frame per call in progress, as in FlowEscrow.           *)
(* `_proven` is written where `slashed` is, and is not kept twice.         *)
(***************************************************************************)
EXTENDS Integers, Sequences

CONSTANTS
    AgentIds, Keys, Accounts, Zero,
    Contracts,          \* the accounts that are contracts
    Jobs,               \* (run, step) pairs an agent signs claims about
    Works,              \* (input hash, output hash) pairs
    Amounts,            \* wei amounts a caller may stake
    UnbondingPeriod,    \* UNBONDING_PERIOD, in ticks of the model's clock
    MaxStaked,          \* bound: wei ever staked for one agent
    MaxTime,            \* bound: the last block timestamp
    MaxDepth            \* bound: nested payments in one transaction

ASSUME ZeroIsNobody == Zero \notin Accounts \cup Keys
ASSUME ContractsAreAccounts == Contracts \subseteq Accounts
ASSUME ReputationBounds ==
    /\ Amounts \subseteq Nat \ {0} /\ UnbondingPeriod \in Nat \ {0}
    /\ MaxStaked \in Nat /\ MaxTime \in Nat /\ MaxDepth \in Nat

VARIABLES
    owner, operator, signer,    \* the registries
    bonds,      \* id -> its Bond
    account,    \* id -> wei staked, withdrawn, rewarded and burned, from the log
    lastStake,  \* id -> when it was last staked for, from the log
    now,        \* block.timestamp, never 0
    signed,     \* the claims agents have signed off chain, with the key
    stack       \* payments whose call has not returned

Authority == INSTANCE AgentAuthority

authorityVars == <<owner, operator, signer>>
storageVars == <<owner, operator, signer, bonds, account, lastStake>>
reputationVars == <<owner, operator, signer, bonds, account, lastStake, now, signed, stack>>

NoBond == [amount |-> 0, unlockAt |-> 0, slashed |-> FALSE]
NothingMoved == [staked |-> 0, withdrawn |-> 0, rewarded |-> 0, burned |-> 0]

Claims == [agent : AgentIds, job : Jobs, work : Works]

ReputationInit ==
    /\ Authority!AuthorityInit
    /\ bonds = [id \in AgentIds |-> NoBond]
    /\ account = [id \in AgentIds |-> NothingMoved]
    /\ lastStake = [id \in AgentIds |-> 0]
    /\ now = 1
    /\ signed = {}
    /\ stack = <<>>

-----------------------------------------------------------------------------
\* Calls in progress.
MayCall(caller) == stack = <<>> \/ caller \in Contracts

Storage == [owner |-> owner, operator |-> operator, signer |-> signer,
            bonds |-> bonds, account |-> account, lastStake |-> lastStake]

\* To an externally owned account the payment cannot fail; the code of a
\* contract runs before it returns.
PayTo(payee) ==
    IF payee \in Contracts
    THEN Len(stack) < MaxDepth /\ stack' = Append(stack, Storage)
    ELSE UNCHANGED stack

PaymentReturns ==
    /\ stack # <<>>
    /\ stack' = SubSeq(stack, 1, Len(stack) - 1)
    /\ UNCHANGED <<storageVars, now, signed>>

\* TransferFailed: the whole call is undone.
PaymentFails ==
    /\ stack # <<>>
    /\ stack' = SubSeq(stack, 1, Len(stack) - 1)
    /\ LET s == stack[Len(stack)]
       IN  /\ owner' = s.owner /\ operator' = s.operator /\ signer' = s.signer
           /\ bonds' = s.bonds /\ account' = s.account /\ lastStake' = s.lastStake
    /\ UNCHANGED <<now, signed>>

-----------------------------------------------------------------------------
\* Variant for the mutation checks: a stake leaves a withdrawal under way.
Topped_KeepsClock(bond, amount) == [bond EXCEPT !.amount = @ + amount]

MayStake(id) == ~bonds[id].slashed /\ owner[id] # Zero

\* A stake cancels a withdrawal under way.
Topped(bond, amount) == [bond EXCEPT !.amount = @ + amount, !.unlockAt = 0]

Stake(id, amount) ==
    /\ MayStake(id)
    /\ account[id].staked + amount <= MaxStaked
    /\ bonds' = [bonds EXCEPT ![id] = Topped(@, amount)]
    /\ account' = [account EXCEPT ![id].staked = @ + amount]
    /\ lastStake' = [lastStake EXCEPT ![id] = now]
    /\ UNCHANGED <<authorityVars, stack>>

Bonded(id) == ~bonds[id].slashed /\ bonds[id].amount # 0

Authorised(caller, id) == owner[id] # Zero /\ caller \in {owner[id], operator[id]}

RequestUnstake(caller, id) ==
    /\ Bonded(id)
    /\ Authorised(caller, id)
    /\ bonds' = [bonds EXCEPT ![id].unlockAt = now + UnbondingPeriod]
    /\ UNCHANGED <<authorityVars, account, lastStake, stack>>

\* Variant for the mutation checks: the amount is not cleared before the call.
Emptied_Not(bond) == [bond EXCEPT !.unlockAt = 0]
Emptied(bond) == [bond EXCEPT !.amount = 0, !.unlockAt = 0]

\* The bond goes to the owner, whoever calls.
Withdraw(caller, id) ==
    /\ Bonded(id)
    /\ bonds[id].unlockAt # 0
    /\ now >= bonds[id].unlockAt
    /\ Authorised(caller, id)
    /\ bonds' = [bonds EXCEPT ![id] = Emptied(@)]
    /\ account' = [account EXCEPT ![id].withdrawn = @ + bonds[id].amount]
    /\ UNCHANGED <<authorityVars, lastStake>>
    /\ PayTo(owner[id])

\* Variant for the mutation checks: one claim shown twice is proof enough.
Equivocates_Same(id, job, a, b) ==
    /\ signer[id] # Zero
    /\ \A work \in {a, b} :
          [key |-> signer[id], claim |-> [agent |-> id, job |-> job, work |-> work]] \in signed

\* Two different claims about one step, both signed by the key the agent
\* publishes now.
Equivocates(id, job, a, b) ==
    /\ a # b
    /\ signer[id] # Zero
    /\ \A work \in {a, b} :
          [key |-> signer[id], claim |-> [agent |-> id, job |-> job, work |-> work]] \in signed

\* Half of the bond, rounded down, goes to the prover; the rest stays in the
\* contract for ever.
ProveEquivocation(caller, id, job, a, b) ==
    LET reward == bonds[id].amount \div 2
    IN  /\ Bonded(id)
        /\ Equivocates(id, job, a, b)
        /\ bonds' = [bonds EXCEPT ![id] = [NoBond EXCEPT !.slashed = TRUE]]
        /\ account' = [account EXCEPT ![id].rewarded = @ + reward,
                                      ![id].burned = @ + (bonds[id].amount - reward)]
        /\ UNCHANGED <<authorityVars, lastStake>>
        /\ IF reward > 0 THEN PayTo(caller) ELSE UNCHANGED stack

ReputationCall(caller) ==
    \E id \in AgentIds :
        \/ \E amount \in Amounts : Stake(id, amount)
        \/ RequestUnstake(caller, id)
        \/ Withdraw(caller, id)
        \/ \E job \in Jobs, a \in Works, b \in Works : ProveEquivocation(caller, id, job, a, b)

\* An agent signs off chain.
Sign(key, claim) ==
    /\ stack = <<>>
    /\ signed' = signed \cup {[key |-> key, claim |-> claim]}
    /\ UNCHANGED <<storageVars, now, stack>>

Tick ==
    /\ stack = <<>>
    /\ now < MaxTime
    /\ now' = now + 1
    /\ UNCHANGED <<storageVars, signed, stack>>

ReputationNext ==
    \/ \E caller \in Accounts :
          /\ MayCall(caller)
          /\ \/ ReputationCall(caller)
             \/ Authority!AuthorityNext /\ UNCHANGED <<bonds, account, lastStake, stack>>
          /\ UNCHANGED <<now, signed>>
    \/ PaymentReturns
    \/ PaymentFails
    \/ \E key \in Keys, claim \in Claims : Sign(key, claim)
    \/ Tick

ReputationSpec == ReputationInit /\ [][ReputationNext]_reputationVars

-----------------------------------------------------------------------------
Bonds == [amount : Nat, unlockAt : Nat, slashed : BOOLEAN]
Accountings == [staked : Nat, withdrawn : Nat, rewarded : Nat, burned : Nat]
Storages == [owner : [AgentIds -> Accounts \cup {Zero}],
             operator : [AgentIds -> Accounts \cup {Zero}],
             signer : [AgentIds -> Keys \cup {Zero}],
             bonds : [AgentIds -> Bonds], account : [AgentIds -> Accountings],
             lastStake : [AgentIds -> Nat]]

\* The types; a clock runs only for a bond, and for no longer than the period.
ReputationTypeOK ==
    /\ Authority!AuthorityTypeOK
    /\ \A id \in AgentIds : bonds[id].unlockAt # 0 =>
          bonds[id].amount > 0 /\ bonds[id].unlockAt <= now + UnbondingPeriod
    /\ bonds \in [AgentIds -> Bonds]
    /\ account \in [AgentIds -> Accountings]
    /\ lastStake \in [AgentIds -> Nat]
    /\ now \in Nat \ {0}
    /\ signed \subseteq [key : Keys, claim : Claims]
    /\ stack \in Seq(Storages)

\* What was staked for an agent is its bond, went back to its owner, rewarded
\* the prover or is burned: whoever is paid and calls back, or refuses the
\* payment, no bond is paid from another one, and nothing is lost.
BondsAreConserved ==
    \A id \in AgentIds :
        account[id].staked = bonds[id].amount
            + account[id].withdrawn + account[id].rewarded + account[id].burned

\* Only an agent one of whose keys signed two different claims about one step
\* is ever slashed; and then it has no bond, no withdrawal under way, and half
\* of the bond, rounded up, is burned: proving one's own fault is no way around
\* the cooldown.
SlashesAreProven ==
    \A id \in AgentIds : bonds[id].slashed =>
        /\ bonds[id] = [NoBond EXCEPT !.slashed = TRUE]
        /\ account[id].burned - account[id].rewarded \in {0, 1}
        /\ account[id].burned > 0
        /\ \E key \in Keys, job \in Jobs, a \in Works, b \in Works :
              /\ a # b
              /\ \A work \in {a, b} :
                    [key |-> key, claim |-> [agent |-> id, job |-> job, work |-> work]] \in signed

\* A slashed identity is never rehabilitated: whoever stakes for it, owns it or
\* publishes a new key, it never holds a bond again (unless the payment of the
\* prover failed, which undoes the slash).
SlashedForGood ==
    [][\A id \in AgentIds :
          bonds[id].slashed => bonds'[id] = bonds[id] \/ PaymentFails]_reputationVars

\* No bond leaves before the cooldown: every part of a bond withdrawn was shown
\* for a whole period after it was staked, however stakes, requests and changes
\* of the owner interleave.
CooldownProtectsHirers ==
    [][\A id \in AgentIds :
          account'[id].withdrawn > account[id].withdrawn =>
              now >= lastStake[id] + UnbondingPeriod]_reputationVars

=============================================================================
