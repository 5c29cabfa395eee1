SPECIFICATION FairSpec
CONSTANTS
    Envs = {e1, e2, e3}
    Preferred = {"gdm-greeter", "gnome-initial-setup"}
    GREETER_UID_MIN = 1
    GREETER_UID_MAX = 2
    LockWorks = TRUE
INVARIANTS IndexesAgree AbortsOnlyIfFull UidsAreOurs
PROPERTY CreateEnds
CHECK_DEADLOCK FALSE
