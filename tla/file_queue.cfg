SPECIFICATION FairSpec
CONSTANTS
    None = None
    Jobs = {j1}
    Workers = {w1, w2}
    Pins = {None}
    Unlocked = {u1}
    Removers = {u1}
    MaxEntries = 2
    MaxKills = 1
INVARIANTS
    QueueTypeOK
PROPERTIES
    OnlyKillsLose
    ImplementsEntryQueue
    EntriesAreTaken
CHECK_DEADLOCK FALSE
