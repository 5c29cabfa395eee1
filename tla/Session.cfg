SPECIFICATION Spec
CONSTANTS
    Services = {"password", "autologin"}
    Autologin = "autologin"
    MaxWorkers = 2
    MaxQueued = 2
    MaxOutOfTurn = 1
    SpawnMayFail = FALSE
INVARIANTS MemorySafe TableIsExact OneProgram
CHECK_DEADLOCK FALSE
