CONSTANTS
    f1 = f1
    f2 = f2
    r1 = r1
    r2 = r2
    a1 = a1
    a2 = a2
    w1 = w1
    k1 = k1
    k2 = k2
    u1 = u1
    u2 = u2
    Zero = Zero
    Accounts = {a1, a2}
    Flows = {f1, f2}
    Runs = {r1, r2}
    NumSteps = 3
    AgentIds = {1}
    Works = {w1}
    ReportedStatuses <- MCStatuses
    CountModulus <- MCModulus
    Keys = {k1, k2}
    MaxAgents = 2
    URIs = {u1, u2}
    MaxVersion = 2
    Prices <- MCPrices
SYMMETRY Symmetry
SPECIFICATION Spec
INVARIANTS
    SealCountsTheReceipts
    PagesCoverTheDirectory
PROPERTIES
    ImplementsReceiptLedger
    ImplementsAgentDirectory
    ImplementsAgentAuthority
CHECK_DEADLOCK FALSE
