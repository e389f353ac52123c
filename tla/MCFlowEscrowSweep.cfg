CONSTANTS
    r1 = r1
    w1 = w1
    x = x
    c = c
    k1 = k1
    k2 = k2
    Zero = Zero
    Runs = {r1}
    NumSteps = 2
    Works = {w1}
    Statuses <- MCStatuses
    AgentIds = {1}
    Keys = {k1, k2}
    Accounts = {x, c}
    Contracts = {c}
    Amounts <- MCAmounts
    MaxFunding = 2
    MaxTime = 1
    MaxDepth = 2
SYMMETRY Symmetry
SPECIFICATION Spec
PROPERTIES
    SweepReturnsTheUnearned
CHECK_DEADLOCK FALSE
