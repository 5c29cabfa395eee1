SPECIFICATION FairSpec
CONSTANTS
    Services = {"autologin"}
    Autologin = "autologin"
    MaxWorkers = 2
    MaxQueued = 1
    MaxOutOfTurn = 1
    SpawnMayFail = FALSE
PROPERTIES StoppedIsFreed QueuedStartEnds
CHECK_DEADLOCK FALSE
