SPECIFICATION FairSpec
CHECK_DEADLOCK FALSE
CONSTANTS
    Null = Null
    Unhashable = Unhashable
    Bad = Bad
    NumSteps = 2
    Configs <- MCConfigs
    Keys = {k1, k2}
    Prices = {0, 1}
    Stakes = {1}
    Outputs = {o1}
    Budget = 2
    MaxAttempts = 2
    Timeout = 1
    MaxTrickles = 1
    MaxChanges = 1
INVARIANTS
    PaymentReportsAreTrue
    PaidAsHired
PROPERTIES
    EveryStepSettles
