CONSTANTS
    r1 = r1
    w1 = w1
    x = x
    c = c
    k1 = k1
    k2 = k2
    Zero = Zero
    Runs = {r1}
    NumSteps = 2
    Works = {w1}
    Statuses <- MCStatuses
    AgentIds = {1}
    Keys = {k1}
    Accounts = {x, c}
    Contracts = {c}
    Amounts <- MCAmounts
    MaxFunding = 2
    MaxTime = 2
    MaxDepth = 2

SPECIFICATION FairSpec
INVARIANTS
    AllocationsAreBacked
    MoneyIsConserved
    PaymentsAreEarned
PROPERTIES
    EarnedStaysPayable
    FundsAreNeverLocked
CHECK_DEADLOCK FALSE
