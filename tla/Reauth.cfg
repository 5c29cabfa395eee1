SPECIFICATION Spec
CONSTANTS
    Sessions = {s1, s2}
    LoginScreens = {l1}
    Unmanaged = {u1}
    Remote = {s1, l1}
    MaxRequests = 2
    MaxSignals = 1
    None = None
INVARIANTS OwnChannel UnlockIsEarned
PROPERTIES AloneIsAnswered ChannelsEndWithCaller
CHECK_DEADLOCK FALSE
