----------------------------- MODULE FlowEscrow -----------------------------
(***************************************************************************)
(* FlowEscrowV2.sol, composed with the two contracts it reads: the         *)
(* receipts (is the step anchored, with which status, for which agent and  *)
(* work) and the agent registry (which key speaks for the agent, where it  *)
(* is paid).                                                               *)
(*                                                                         *)
(* A payment ends in a call of the payee, and a payee that is a contract   *)
(* runs code before the call returns: it may call any function of any of   *)
(* the contracts, and it may fail, which undoes everything the call did.   *)
(* `stack` holds one frame per such call in progress, with the storage to  *)
(* go back to.  Between transactions it is empty; while it is not, only    *)
(* contracts act and the block's time stands still.                        *)
(***************************************************************************)
EXTENDS Integers, Sequences, FiniteSets

CONSTANTS
    Runs, NumSteps, Works, Statuses,    \* receipts
    AgentIds, Keys,                     \* agents
    Accounts, Zero,
    Contracts,      \* the accounts that are contracts
    Amounts,        \* wei amounts a caller may send or allocate
    MaxFunding,     \* bound: wei ever sent to one run
    MaxTime,        \* bound: the last block timestamp
    MaxDepth        \* bound: nested payments in one transaction

ASSUME NumStepsAssumption == NumSteps \in Nat \ {0}
\* The zero address is nobody and signs nothing.
ASSUME ZeroAssumption == Zero \notin Accounts \cup Keys \cup AgentIds
ASSUME StatusAssumption == Statuses \subseteq Nat
ASSUME ContractsAreAccounts == Contracts \subseteq Accounts
ASSUME EscrowBounds ==
    Amounts \subseteq Nat /\ MaxFunding \in Nat /\ MaxTime \in Nat /\ MaxDepth \in Nat \ {0}

VARIABLES
    executorOf, receiptOf, sealed,  \* the receipts contract
    listing,    \* the agent registry
    escrow,     \* run -> its Funding, allocations and releases
    now,        \* block.timestamp
    signed,     \* the claims agents have signed off chain, with the key
    stack       \* payments whose call has not returned

Ledger == INSTANCE ReceiptLedger
Directory == INSTANCE AgentDirectory

ledgerVars == <<executorOf, receiptOf, sealed>>
vars == <<executorOf, receiptOf, sealed, listing, escrow, now, signed, stack>>

Steps == 0 .. NumSteps - 1
StatusOk == 0

\* The three mappings of the contract, per run.  paidIn, paidOut, refunded and
\* payouts sum up the events RunFunded and RunToppedUp, StepReleased,
\* RunRefunded, and StepReleased per step: what an observer of the log knows.
NotFunded == [funder |-> Zero, balance |-> 0, allocated |-> 0, deadline |-> 0,
              closed |-> FALSE, exists |-> FALSE,
              allocation |-> [i \in Steps |-> 0],
              released |-> [i \in Steps |-> FALSE],
              paidIn |-> 0, paidOut |-> 0, refunded |-> 0,
              payouts |-> [i \in Steps |-> 0]]

\* What an agent signs: the digest names the run, the step, the agent and the
\* work, so a signature moves to no other claim.
Claim(r, i, agent, work) == [run |-> r, step |-> i, agent |-> agent, work |-> work]
Claims == [run : Runs, step : Steps, agent : AgentIds, work : Works]

Init ==
    /\ Ledger!LedgerInit
    /\ Directory!DirectoryInit
    /\ escrow = [r \in Runs |-> NotFunded]
    /\ now = 0
    /\ signed = {}
    /\ stack = <<>>

-----------------------------------------------------------------------------
\* Calls in progress.
MayCall(caller) == stack = <<>> \/ caller \in Contracts

Storage == [executorOf |-> executorOf, receiptOf |-> receiptOf, sealed |-> sealed,
            listing |-> listing, escrow |-> escrow]

Restore(s) ==
    /\ executorOf' = s.executorOf /\ receiptOf' = s.receiptOf /\ sealed' = s.sealed
    /\ listing' = s.listing
    /\ escrow' = s.escrow

\* The effects on a run's record, then the call that hands `payee` the money:
\* to an externally owned account it cannot fail, to a contract it opens a
\* frame that remembers the storage from before the effects.
PayAfter(r, effects, payee) ==
    /\ escrow' = [escrow EXCEPT ![r] = effects]
    /\ IF payee \in Contracts
       THEN /\ Len(stack) < MaxDepth
            /\ stack' = Append(stack, Storage)
       ELSE stack' = stack

\* The payee's code is done: on success its effects stand; on failure the
\* escrow reverts with TransferFailed and all of it is undone.
PaymentReturns ==
    /\ stack # <<>>
    /\ stack' = SubSeq(stack, 1, Len(stack) - 1)
    /\ UNCHANGED <<ledgerVars, listing, escrow, now, signed>>

PaymentFails ==
    /\ stack # <<>>
    /\ stack' = SubSeq(stack, 1, Len(stack) - 1)
    /\ Restore(stack[Len(stack)])
    /\ UNCHANGED <<now, signed>>

-----------------------------------------------------------------------------
IsOpen(r) == escrow[r].exists /\ ~escrow[r].closed

FundRun(caller, r, amount, deadline) ==
    /\ ~escrow[r].exists
    /\ deadline > now
    /\ escrow' = [escrow EXCEPT ![r] =
           [NotFunded EXCEPT !.funder = caller, !.balance = amount, !.deadline = deadline,
                             !.exists = TRUE, !.paidIn = amount]]
    /\ UNCHANGED stack

TopUp(r, amount) ==
    /\ IsOpen(r)
    /\ escrow[r].paidIn + amount <= MaxFunding
    /\ escrow' = [escrow EXCEPT ![r] =
           [escrow[r] EXCEPT !.balance = @ + amount, !.paidIn = @ + amount]]
    /\ UNCHANGED stack

\* Variant for the mutation checks: a re-allocation adds to the previous one.
Committed_Forgotten(e, i) == e.allocated

\* What the other steps of a run have earmarked: re-allocating a step
\* overwrites its previous figure.
Committed(e, i) == e.allocated - e.allocation[i]

Allocate(caller, r, i, amount) ==
    LET e == escrow[r]
    IN  /\ caller = executorOf[r]
        /\ IsOpen(r)
        /\ ~e.released[i]
        /\ Committed(e, i) + amount <= e.balance
        /\ escrow' = [escrow EXCEPT ![r] =
               [e EXCEPT !.allocated = Committed(e, i) + amount, !.allocation[i] = amount]]
        /\ UNCHANGED stack

\* Variant for the mutation checks: any anchored status pays.
ClaimHolds_AnyStatus(r, i) ==
    LET receipt == receiptOf[r][i]
        signer == listing[receipt.agent].signer
    IN  /\ receipt.anchored
        /\ signer # Zero
        /\ [key |-> signer, claim |-> Claim(r, i, receipt.agent, receipt.work)] \in signed

\* _checkClaim: the step is anchored ok; the agent its receipt names has a
\* signer; that signer signed exactly this claim.
ClaimHolds(r, i) ==
    LET receipt == receiptOf[r][i]
        signer == listing[receipt.agent].signer
    IN  /\ receipt.anchored /\ receipt.status = StatusOk
        /\ signer # Zero
        /\ [key |-> signer, claim |-> Claim(r, i, receipt.agent, receipt.work)] \in signed

\* Variant for the mutation checks: the release is not remembered.
Paid_Forgotten(e, i) ==
    [e EXCEPT !.allocation[i] = 0,
              !.allocated = @ - e.allocation[i], !.balance = @ - e.allocation[i],
              !.paidOut = @ + e.allocation[i], !.payouts[i] = @ + 1]

\* Effects of releaseStep, all before the call.
Paid(e, i) ==
    [e EXCEPT !.released[i] = TRUE, !.allocation[i] = 0,
              !.allocated = @ - e.allocation[i], !.balance = @ - e.allocation[i],
              !.paidOut = @ + e.allocation[i], !.payouts[i] = @ + 1]

ReleaseStep(r, i) ==
    /\ IsOpen(r)
    /\ ~escrow[r].released[i]
    /\ escrow[r].allocation[i] # 0
    /\ ClaimHolds(r, i)
    /\ PayAfter(r, Paid(escrow[r], i), listing[receiptOf[r][i].agent].payTo)

\* The part of the balance nobody was promised.
Unspent(e) == e.balance - e.allocated

Swept(e) ==
    [e EXCEPT !.balance = @ - Unspent(e), !.refunded = @ + Unspent(e)]

RefundUnspent(r) ==
    /\ IsOpen(r)
    /\ sealed[r]
    /\ Unspent(escrow[r]) # 0
    /\ PayAfter(r, Swept(escrow[r]), escrow[r].funder)

\* Variants for the mutation checks: no deadline; an expired run must be sealed.
MayExpire_AnyTime(caller, r) == IsOpen(r) /\ caller = escrow[r].funder
MayExpire_Sealed(caller, r) ==
    IsOpen(r) /\ sealed[r] /\ caller = escrow[r].funder /\ now >= escrow[r].deadline

MayExpire(caller, r) ==
    IsOpen(r) /\ caller = escrow[r].funder /\ now >= escrow[r].deadline

Expired(e) ==
    [e EXCEPT !.closed = TRUE, !.balance = 0, !.allocated = 0, !.refunded = @ + e.balance]

RefundExpired(caller, r) ==
    /\ MayExpire(caller, r)
    /\ IF escrow[r].balance > 0
       THEN PayAfter(r, Expired(escrow[r]), caller)
       ELSE escrow' = [escrow EXCEPT ![r] = Expired(escrow[r])] /\ UNCHANGED stack

EscrowCall(caller) ==
    \/ \E r \in Runs, amount \in Amounts \cup {0}, deadline \in 0 .. MaxTime :
           FundRun(caller, r, amount, deadline)
    \/ \E r \in Runs, amount \in Amounts : TopUp(r, amount)
    \/ \E r \in Runs, i \in Steps, amount \in Amounts \cup {0} : Allocate(caller, r, i, amount)
    \/ \E r \in Runs, i \in Steps : ReleaseStep(r, i)
    \/ \E r \in Runs : RefundUnspent(r)
    \/ \E r \in Runs : RefundExpired(caller, r)

-----------------------------------------------------------------------------
\* An agent signs what it did, off chain, before or after it is anchored.
Sign(key, claim) ==
    /\ stack = <<>>
    /\ signed' = signed \cup {[key |-> key, claim |-> claim]}
    /\ UNCHANGED <<ledgerVars, listing, escrow, now, stack>>

Tick ==
    /\ stack = <<>>
    /\ now < MaxTime
    /\ now' = now + 1
    /\ UNCHANGED <<ledgerVars, listing, escrow, signed, stack>>

Next ==
    \/ \E caller \in Accounts :
          /\ MayCall(caller)
          /\ \/ EscrowCall(caller) /\ UNCHANGED <<ledgerVars, listing>>
             \/ Ledger!LedgerCall(caller) /\ UNCHANGED <<listing, escrow, stack>>
             \/ Directory!DirectoryNext /\ UNCHANGED <<ledgerVars, escrow, stack>>
          /\ UNCHANGED <<now, signed>>
    \/ PaymentReturns
    \/ PaymentFails
    \/ \E key \in Keys, claim \in Claims : Sign(key, claim)
    \/ Tick

Spec == Init /\ [][Next]_vars

-----------------------------------------------------------------------------
Fundings == [funder : Accounts \cup {Zero}, balance : Nat, allocated : Nat, deadline : Nat,
             closed : BOOLEAN, exists : BOOLEAN,
             allocation : [Steps -> Nat], released : [Steps -> BOOLEAN],
             paidIn : Nat, paidOut : Nat, refunded : Nat, payouts : [Steps -> Nat]]

Storages == [executorOf : [Runs -> Accounts \cup {Zero}],
             receiptOf : [Runs -> [Steps -> Ledger!Receipts]],
             sealed : [Runs -> BOOLEAN],
             listing : [AgentIds -> Directory!Listed \cup {Directory!Unlisted}],
             escrow : [Runs -> Fundings]]

TypeOK ==
    /\ Ledger!LedgerTypeOK
    /\ Directory!DirectoryTypeOK
    /\ escrow \in [Runs -> Fundings]
    /\ now \in Nat
    /\ signed \subseteq [key : Keys, claim : Claims]
    /\ stack \in Seq(Storages)

\* `total` is a running total of f over the steps that ends at `sum`.
RunsUpTo(total, f, sum) ==
    /\ total[0] = 0
    /\ \A i \in Steps : total[i + 1] = total[i] + f[i]
    /\ total[NumSteps] = sum

\* The allocations of a run add up to `allocated`, and the balance covers
\* them: whatever the executor allocates and re-allocates, whoever tops up,
\* collects or sweeps, and in the middle of a payment, every promise the
\* escrow made can be kept.  A closed run holds nothing.
Backed(e) ==
    /\ ~e.closed => \E total \in [0 .. NumSteps -> 0 .. e.allocated] :
                        RunsUpTo(total, e.allocation, e.allocated)
    /\ e.allocated <= e.balance
    /\ e.closed => e.balance = 0

AllocationsAreBacked == \A r \in Runs : Backed(escrow[r])

\* What came in for a run is what is held, was paid to agents or went back to
\* the funder.  A payment re-entered, or undone after nested payments, counts
\* on neither side twice; and no step is paid more than once.
Conserved(e) ==
    /\ e.paidIn = e.balance + e.paidOut + e.refunded
    /\ \A i \in Steps : e.payouts[i] = IF e.released[i] THEN 1 ELSE 0

MoneyIsConserved == \A r \in Runs : Conserved(escrow[r])

\* A paid step has a receipt that says ok, and some key signed exactly what
\* that receipt says the agent did: neither the executor alone, nor the
\* agent alone, nor both about different work, moves money.
Earned(funds, receipts, claims) ==
    \A r \in Runs, i \in Steps :
        funds[r].released[i] =>
            /\ receipts[r][i].anchored /\ receipts[r][i].status = StatusOk
            /\ \E key \in Keys :
                  [key |-> key, claim |-> Claim(r, i, receipts[r][i].agent, receipts[r][i].work)]
                      \in claims

PaymentsAreEarned == Earned(escrow, receiptOf, signed)

Payable(r, i) ==
    IsOpen(r) /\ ~escrow[r].released[i] /\ escrow[r].allocation[i] # 0 /\ ClaimHolds(r, i)

\* Once an agent could collect for a step it keeps that right until it is
\* paid, changes its own listing, the executor re-prices the step, or the
\* deadline has passed and the funder closes the run.  Sealing, sweeping the
\* remainder and whatever happens to other steps do not take it away.  (A
\* failed payment undoes what was done during it.)
EarnedStaysPayable ==
    [][\A r \in Runs, i \in Steps : Payable(r, i) /\ ~Payable(r, i)' =>
          \/ escrow'[r].payouts[i] = 1
          \/ listing'[receiptOf[r][i].agent] # listing[receiptOf[r][i].agent]
          \/ Allocate(executorOf[r], r, i, 0)
          \/ escrow'[r].closed /\ now >= escrow[r].deadline
          \/ PaymentFails]_vars

-----------------------------------------------------------------------------
\* Fairness: time passes; a transaction ends, because gas does, so the
\* outermost payment returns; and a funder that is not a contract keeps
\* claiming an expired budget until a block includes the claim.
FundersCollect(r) ==
    stack = <<>> /\ RefundExpired(escrow[r].funder, r)
        /\ UNCHANGED <<ledgerVars, listing, now, signed>>

OutermostReturns == Len(stack) = 1 /\ (PaymentReturns \/ PaymentFails)

Fairness ==
    /\ SF_vars(Tick)
    /\ SF_vars(OutermostReturns)
    /\ \A r \in Runs : SF_vars(FundersCollect(r))

FairSpec == Spec /\ Fairness

\* No budget stays locked: whatever the executor and the agents do or fail to
\* do, what an ordinary account put in has left the escrow some day.
FundsAreNeverLocked ==
    \A r \in Runs :
        escrow[r].balance > 0 /\ escrow[r].funder \notin Contracts ~> escrow[r].balance = 0

\* "Sealed means finished; finished means the funder gets back what was not
\* earned": after a sweep of a sealed run only steps that succeeded still
\* hold an allocation.
SweepReturnsTheUnearned ==
    [][\A r \in Runs : RefundUnspent(r) =>
          \A i \in Steps : escrow'[r].allocation[i] > 0 =>
              receiptOf[r][i].anchored /\ receiptOf[r][i].status = StatusOk]_vars

=============================================================================
