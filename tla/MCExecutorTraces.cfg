CONSTANTS
    runDiamond = runDiamond
    runFork = runFork
    runPair = runPair
    runOuter = runOuter
    childB = childB
    childC = childC
    childD = childD
    runLoop = runLoop
    childE = childE
    childNone = childNone
    diamond = diamond
    fork = fork
    pair = pair
    outer = outer
    single = single
    loop = loop
    worker = worker
    other = other
    work1 = work1
    Zero = Zero
    Flows = {diamond, fork, pair, outer, single, loop}
    Runs = {runDiamond, runFork, runPair, runOuter, childB, childC, childD, runLoop, childE, childNone}
    Accounts = {worker, other}
    NumSteps = 3
    AgentIds = {1}
    Works = {work1}
    ReportedStatuses <- MCStatuses
    CountModulus <- MCModulus
    Worker = worker
    Requests <- MCLoop
    FlowOf <- MCFlowOf
    Width <- MCWidth
    Upstream <- MCUpstream
    ChildOf <- MCChildOf
    MaxLineage = 2
    Attempts <- MCAttempts
    Contested <- MCContested
    MaxStarts <- MCMaxStarts
SPECIFICATION ExecFairSpec
PROPERTIES
    LostTracesAreRecorded
CHECK_DEADLOCK FALSE
