SPECIFICATION CrashSpec
CONSTANTS
    None = None
    Jobs = {j1}
    Workers = {w1, w2}
    FencingWorkers = {w1, w2}
    LegacyWorkers = {}
    DurableHosts = {}
    Deucalion = Deucalion
    LaunchHosts = {None}
    RequeueHosts = {None}
    RequeueModes = {"keep"}
    Forces = {FALSE}
    AgentStatuses = {"queued", "setup", "running", "finished"}
    Losable = {}
    Raising = {}
    SqlStore = TRUE
    MaxReturns = 1
    MaxFaults = 1
    Profile <- AllCpu
    SlotLimit <- OneSlot
    Runnable <- AnyWorker
INVARIANTS
    OneValidAttempt
PROPERTIES
    StopIsKept
CHECK_DEADLOCK FALSE
