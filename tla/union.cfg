SPECIFICATION RecoverySpec
CONSTANTS
    None = None
    Jobs = {j1}
    Workers = {u, w}
    Union = u
    FencingWorkers = {u, w}
    LegacyWorkers = {}
    DurableHosts = {u}
    Deucalion = Deucalion
    LaunchHosts = {None}
    RequeueHosts = {None}
    RequeueModes = {"keep"}
    Forces = {TRUE}
    AgentStatuses = {"running", "recovering", "failed", "finished"}
    Losable = {}
    Raising = {}
    SqlStore = FALSE
    MaxReturns = 1
    MaxFaults = 1
    MaxRequests = 2
    Profile <- AllCpu
    SlotLimit <- OneSlot
    Runnable <- AnyWorker
INVARIANTS
    RequestSurvives
    CommandsFollowStatus
    RecoveringCanReport
PROPERTIES
    ReopenedOnPurpose
CHECK_DEADLOCK FALSE
