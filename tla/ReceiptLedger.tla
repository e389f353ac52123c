---------------------------- MODULE ReceiptLedger ----------------------------
(***************************************************************************)
(* What FlowRegistry and ExecutionReceiptsV2 promise together to the       *)
(* contracts that read them: a run gets one executor, its executor writes  *)
(* each step's receipt at most once and seals the run once, and nothing is *)
(* written after the seal.  Flows, counters and malformed calls are gone:  *)
(* ExecutionReceipts shows that the contracts implement this.              *)
(***************************************************************************)
EXTENDS Integers

CONSTANTS Runs, Accounts, Zero, NumSteps, AgentIds, Works,
          Statuses    \* status values receipts carry, StatusOk among them

Steps == 0 .. NumSteps - 1

VARIABLES
    executorOf,     \* run -> its executor, Zero until it is started
    receiptOf,      \* run -> step -> the receipt, NoReceipt until anchored
    sealed          \* run -> BOOLEAN

ledgerVars == <<executorOf, receiptOf, sealed>>

NoReceipt == [status |-> 0, agent |-> Zero, work |-> Zero, anchored |-> FALSE]
Receipt(status, agent, work) ==
    [status |-> status, agent |-> agent, work |-> work, anchored |-> TRUE]
Receipts == [status : Statuses, agent : AgentIds, work : Works, anchored : {TRUE}] \cup {NoReceipt}

LedgerTypeOK ==
    /\ executorOf \in [Runs -> Accounts \cup {Zero}]
    /\ receiptOf \in [Runs -> [Steps -> Receipts]]
    /\ sealed \in [Runs -> BOOLEAN]

LedgerInit ==
    /\ executorOf = [r \in Runs |-> Zero]
    /\ receiptOf = [r \in Runs |-> [i \in Steps |-> NoReceipt]]
    /\ sealed = [r \in Runs |-> FALSE]

Start(r, executor) ==
    /\ executorOf[r] = Zero
    /\ executorOf' = [executorOf EXCEPT ![r] = executor]
    /\ UNCHANGED <<receiptOf, sealed>>

Anchor(caller, r, i, status, agent, work) ==
    /\ executorOf[r] = caller
    /\ ~sealed[r]
    /\ ~receiptOf[r][i].anchored
    /\ receiptOf' = [receiptOf EXCEPT ![r][i] = Receipt(status, agent, work)]
    /\ UNCHANGED <<executorOf, sealed>>

Seal(caller, r) ==
    /\ executorOf[r] = caller
    /\ ~sealed[r]
    /\ sealed' = [sealed EXCEPT ![r] = TRUE]
    /\ UNCHANGED <<executorOf, receiptOf>>

LedgerCall(caller) ==
    \/ \E r \in Runs, executor \in Accounts : Start(r, executor)
    \/ \E r \in Runs, i \in Steps, status \in Statuses, agent \in AgentIds, work \in Works :
           Anchor(caller, r, i, status, agent, work)
    \/ \E r \in Runs : Seal(caller, r)

LedgerNext == \E caller \in Accounts : LedgerCall(caller)

LedgerSpec == LedgerInit /\ [][LedgerNext]_ledgerVars
=============================================================================
