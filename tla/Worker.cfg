SPECIFICATION FairSpec
CONSTANTS
    MaxCalls = 8
    MaxOutOfTurn = 1
INVARIANTS
    OnlyRefusedStartsTwice
    CrashNeedsRefusedStart
    CleanExit
    PamUndone
PROPERTIES
    ImplementsLoginTransaction
    AcceptedIsAnswered
CHECK_DEADLOCK FALSE
