SPECIFICATION RemoteSpec
CONSTANTS
    Users = {u1, u2}
    Greeter = greeter
    MaxRemoteDisplays = 4
INVARIANTS NoInhibitorLost InhibitedWhileRemote
PROPERTY ReleasedOnlyAfterLast
CHECK_DEADLOCK FALSE
