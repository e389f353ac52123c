CONSTANTS
    Null = Null
    Blocks <- RecentBlocks
    Runs <- MCRuns
    Agents <- MCAgents
    RecentRuns = 1
    MaxBlocks = 2
    MaxReplaced = 1
    MaxLostPasses = 1
    MaxProbes = 1
    MaxPage = 1
SPECIFICATION ExplorerSpec
INVARIANTS
    AgentRunsAgree
CHECK_DEADLOCK FALSE
