SPECIFICATION MCSpec
CONSTANTS
    q1 = q1
    q2 = q2
    None = None
    NumReplicas = 2
    Requests <- MCTwoRequests
    Policy = "least_loaded"
    NPrompts <- MCSinglePrompts
    AskInfo = TRUE
    MaxLoad = 3
CHECK_DEADLOCK FALSE
INVARIANTS
    LoadIsActiveRequests
    HealthyTakeTurns
PROPERTIES
    FewestActivePicked
