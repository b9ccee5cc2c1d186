SPECIFICATION Spec
CONSTANTS
    None = None
    Jobs = {j1, j2}
    Workers = {w1, deucalion}
    FencingWorkers = {w1, deucalion}
    LegacyWorkers = {}
    DurableHosts = {}
    Deucalion = deucalion
    LaunchHosts = {deucalion}
    RequeueHosts = {None}
    RequeueModes = {"any"}
    Forces = {FALSE}
    AgentStatuses = {"queued", "running", "finished", "unknown"}
    Losable = {j2}
    Raising = {j1}
    SqlStore = TRUE
    MaxReturns = 1
    Profile <- AllCpu
    SlotLimit <- OneSlot
    Runnable <- AnyWorker
INVARIANTS
    DeucalionWithinSlots
PROPERTIES
    DispatchOnlyFromQueue
CHECK_DEADLOCK FALSE
