SPECIFICATION Spec
CONSTANTS
    Fallback = {PATH}
    SessionVars = {DISPLAY}
    OtherVars = {BUS}
    ServerVars = {DISPLAY}
    BusVars = {BUS}
INVARIANTS NoOrphans StatusFollowsCause NoStaleVariables
PROPERTIES DisplayRegisteredInTime LauncherEnds
CHECK_DEADLOCK FALSE
