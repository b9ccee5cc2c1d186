SPECIFICATION OpsSpec
CONSTANTS
    None = None
    Jobs = {j1}
    Workers = {w1, w2}
    FencingWorkers = {w1, w2}
    LegacyWorkers = {}
    DurableHosts = {}
    Deucalion = Deucalion
    LaunchHosts = {None}
    RequeueHosts = {None}
    RequeueModes = {"keep"}
    Forces = {FALSE}
    AgentStatuses = {"running", "finished"}
    Losable = {}
    Raising = {}
    SqlStore = FALSE
    MaxReturns = 1
    OpsForces = {FALSE, TRUE}
    Profile <- AllCpu
    SlotLimit <- OneSlot
    Runnable <- AnyWorker
INVARIANTS
    OneValidAttempt
PROPERTIES
    OutcomeNeedsForce
CHECK_DEADLOCK FALSE
SYMMETRY InterchangeableWorkers
