SPECIFICATION Spec
CONSTANTS
    q1 = q1
    q2 = q2
    None = None
    NumReplicas = 2
    Requests <- MCTwoRequests
    Policy = "least_loaded"
    NPrompts <- MCTwoPrompts
    AskInfo = TRUE
    MaxLoad = 5
CHECK_DEADLOCK FALSE
PROPERTIES
    FewestActivePicked
