SPECIFICATION Spec
CONSTANTS
    Seats = {"seat0", "seat1"}
    MaxDisplays = 2
    MaxVt = 2
    MAX_DISPLAY_FAILURES = 2
    AutoLogin = TRUE
    InitialSetup = TRUE
    UidMayFail = TRUE
 
PROPERTIES OnlySuccessOrNoUserResets
CHECK_DEADLOCK FALSE
