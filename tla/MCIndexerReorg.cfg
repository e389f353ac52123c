CONSTANTS
    AgentIds = {1}
    Keys = {k1, k2}
    Accounts = {eoa, con}
    Contracts = {con}
    Zero = Zero
    Jobs = {job}
    Works = {w1, w2}
    Amounts <- MCAmounts
    UnbondingPeriod = 2
    MaxStaked = 3
    MaxTime = 4
    MaxDepth = 1
    StepIndexes <- MCSteps
    Contents <- RunContents
    DeploymentBlock = 1
    BatchSize = 2
    FinalityDepth = 2
    MaxHeight = 3
    MaxReorgs = 1
    MaxFailures = 1
SPECIFICATION FairSpec
PROPERTIES
    ReplacedBlocksAreForgotten
CHECK_DEADLOCK FALSE
