SPECIFICATION FairSpec
CONSTANTS
    q1 = q1
    q2 = q2
    None = None
    NumReplicas = 2
    Requests <- MCOneRequest
    Policy = "random"
    NPrompts <- MCNoPrompts
    AskInfo = TRUE
    MaxLoad = 3
CHECK_DEADLOCK FALSE
INVARIANTS
    TypeOK
PROPERTIES
    DeadLeavesRotation
    RecoveredReturns
    RequestsAreAnswered
