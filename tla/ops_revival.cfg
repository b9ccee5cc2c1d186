SPECIFICATION OpsSpec
CONSTANTS
    None = None
    Jobs = {j1}
    Workers = {w1, w2}
    FencingWorkers = {w1, w2}
    LegacyWorkers = {}
    DurableHosts = {}
    Deucalion = Deucalion
    LaunchHosts = {None}
    RequeueHosts = {None}
    RequeueModes = {"keep"}
    Forces = {FALSE}
    AgentStatuses = {"running", "finished"}
    Losable = {}
    Raising = {}
    SqlStore = FALSE
    MaxReturns = 1
    OpsForces = {FALSE}
    Profile <- AllCpu
    SlotLimit <- OneSlot
    Runnable <- AnyWorker
INVARIANT OnlyOwnerValidates
CHECK_DEADLOCK FALSE
