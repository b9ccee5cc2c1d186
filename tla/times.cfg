SPECIFICATION Spec
CONSTANTS
    AgentStatuses = {"queued", "setup", "running", "finished"}
    Notifiable = {"queued", "running"}
    HistoryLimit = 2
    MaxTime = 3
    MaxReturns = 1
INVARIANTS
    TimesTypeOK
    StartInAttempt
    DurationsAddUp
    HistoryKept
CHECK_DEADLOCK FALSE
