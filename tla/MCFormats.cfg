CONSTANTS
    p = p
    other = other
    k1 = k1
    k2 = k2
    e1 = e1
    e2 = e2
    u = u
    Zero = Zero
    Malformed = Malformed
    Publisher = p
    Accounts = {p, other}
    Keys = {k1, k2}
    Endpoints = {e1, e2}
    URIs = {u}
    MaxAgents = 2
    MaxVersion = 4
    Prices <- MCPrices
    Forms <- MCForms
    Jobs = {1, 2}
    MaxChecks = 1
    MaxMeddling = 1
    Absent = Absent
    Null = Null
    Unhashable = Unhashable
    Bad = Bad
    Agents <- MCAgents
    MaxFlakes = 1
    Error = Error
    Base = 8
    W = 4
    Samples <- MCSamples
    Strings <- MCStrings
    Domain = 4000
    ChainId = 16
    ReceiptsAddress = 77
    Rejected = Rejected
    MAX_PLAN_DEPTH = 1
    IndexOf <- MCIndexOf
    Flows <- MCFlows
    RunInputs <- MCRunInputs
    StepAnswers <- MCAnswers
SPECIFICATION FairSpec
INVARIANTS
    CallsMeanWhatTheySay
    AnswersAreReadRight
    InputsRestOnNeeds
    AgentsSignWhatIsAnchored
    HashesIdentifyDocuments
    ConformantAgentsCompose
    GoldenInputsFit
    PublishedListingsAreKept
PROPERTIES
    NoListingIsLostUnseen
    PublishingEnds
CHECK_DEADLOCK FALSE
