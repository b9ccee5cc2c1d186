SPECIFICATION Spec
CONSTANTS
    Artifacts = {results, logs, config}
    Scaffolding = {logs, config}
    Pollers = {TRUE, FALSE}
    MaxAttempts = 3
    MaxFailures = 2
INVARIANTS
    NothingErased
    NothingInTheWay
    ViewIsCurrent
CHECK_DEADLOCK FALSE
