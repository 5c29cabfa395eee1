SPECIFICATION Spec
CONSTANTS
    Services = {"password", "autologin"}
    Autologin = "autologin"
    MaxWorkers = 2
    MaxQueued = 1
    MaxOutOfTurn = 0
    SpawnMayFail = TRUE
INVARIANT MemorySafe
CHECK_DEADLOCK FALSE
