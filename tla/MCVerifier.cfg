SPECIFICATION VerifySpec
CONSTANTS
    a1 = a1  a2 = a2  k1 = k1  k2 = k2  k3 = k3  stranger = stranger  tee = tee
    p = p  c = c  asked = asked  answer = answer
    Empty = Empty  Other = Other
    RunIds <- MCRunIds  Root = p  Flows <- MCFlows  FlowOf <- MCFlowOf
    RunInputs = asked  Answer = answer  Agents <- MCAgents  KeysOf <- MCKeysOf
    Stranger = stranger  TeeKey = tee
    Registries = {"adapters", "erc"}  Governing = "adapters"  Owns <- MCOwns
    Manners <- MCManners
    SpecSupplied = {TRUE}  MaxHireDepth = 2  MaxUnread = 1  MaxChanges = 1
    Misrecords = {"input", "trace", "status", "bundle", "signature", "agent", "child", "root"}
CHECK_DEADLOCK FALSE
INVARIANTS
    VerifiedRunsAreSound
    HonestRunsNeverFail
    ReadableHonestRunsVerify
