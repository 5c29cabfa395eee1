SPECIFICATION Spec
CONSTANTS
    Requests = {r1, r2}
    Connections = {c1, c2}
    Supported = {choice, json}
    Unsupported = {other}
    Lists = {{choice, json}, {other}}
    None = None
INVARIANTS CompletedOnce AgreeOnProxy
PROPERTIES ProxiesFollowConnections RequestsComplete
CHECK_DEADLOCK FALSE
