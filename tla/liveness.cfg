SPECIFICATION FairSpec
CONSTANTS
    None = None
    Jobs = {j1, j2}
    Workers = {w1}
    FencingWorkers = {w1}
    LegacyWorkers = {}
    DurableHosts = {}
    Deucalion = Deucalion
    LaunchHosts = {None}
    RequeueHosts = {None}
    RequeueModes = {"keep"}
    Forces = {TRUE}
    AgentStatuses = {"running"}
    Losable = {}
    Raising = {j1}
    SqlStore = FALSE
    MaxReturns = 1
    Profile <- AllCpu
    SlotLimit <- OneSlot
    Runnable <- AnyWorker
PROPERTIES
    SoundJobsAreTaken
    SilentJobsEnd
CHECK_DEADLOCK FALSE
