SPECIFICATION Spec
CONSTANTS
    Services = {password, autologin}
    Autologin = autologin
    Extensions = {json}
    Json = json
    MaxConvs = 3
    MaxQueries = 2
    MaxBatch = 1
    InTurn = TRUE
    None = None
INVARIANTS RightAnswer NoQueryLost NeverAborts
PROPERTIES AnswersGetThrough
CHECK_DEADLOCK FALSE
