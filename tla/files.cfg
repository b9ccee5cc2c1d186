SPECIFICATION Spec
CONSTANTS
    None = None
    Jobs = {j1}
    Workers = {w1, w2}
    FencingWorkers = {w1, w2}
    LegacyWorkers = {w2}
    DurableHosts = {w2}
    Deucalion = Deucalion
    LaunchHosts = {None, w1}
    RequeueHosts = {None, w2}
    RequeueModes = {"keep", "require"}
    Forces = {TRUE, FALSE}
    AgentStatuses = {"dispatched", "setup", "running", "recovering", "finished", "failed", "queued"}
    Losable = {}
    Raising = {j1}
    SqlStore = FALSE
    MaxReturns = 2
    Profile <- AllCpu
    SlotLimit <- OneSlot
    Runnable <- AnyWorker
INVARIANTS
    TypeOK
    OnlyOwnerValidates
    FencedWriter
    OwnerValidates
    FencedNumbersDistinct
PROPERTIES
    ImplementsFencing
    ForgottenOnlyByError
    OutcomeStands
    RecoveringIsPreserved
CHECK_DEADLOCK FALSE
