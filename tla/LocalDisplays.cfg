SPECIFICATION FairSpec
CONSTANTS
    Seats = {"seat0"}
    MaxDisplays = 3
    MaxVt = 2
    MAX_DISPLAY_FAILURES = 1
    AutoLogin = FALSE
    InitialSetup = FALSE
    UidMayFail = FALSE
INVARIANTS ActiveLoginScreenIsKept
PROPERTIES AddsOnlyIfNone LoginScreenComes
CHECK_DEADLOCK FALSE
