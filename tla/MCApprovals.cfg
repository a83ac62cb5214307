SPECIFICATION FairSpec
CONSTANTS
    w1 = w1
    w2 = w2
    Workers = {w1, w2}
    MaxGates = 1
    MaxPresses = 1
    ListLimit = 2
    RestActs = TRUE
    MaxRestarts = 1
    Deployments <- MCDeployments
INVARIANTS
    RunsOnlyApproved
PROPERTIES
    DecisionIsFinal
    ButtonsStayWhilePending
    EveryRowAnswered
    EveryRequestAnnounced
CHECK_DEADLOCK FALSE
