CONSTANTS
    Null = Null
    Blocks <- MCBlocks
    Runs <- MCRuns
    Agents <- MCAgents
    RecentRuns = 2
    MaxBlocks = 3
    MaxReplaced = 1
    MaxLostPasses = 1
    MaxProbes = 1
    MaxPage = 2
SPECIFICATION ExplorerSpec
INVARIANTS
    StoresAgree
    HonestRunsAddUp
PROPERTIES
    ProbesSpareTheWithdrawn
CHECK_DEADLOCK FALSE
