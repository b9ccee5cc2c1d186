SPECIFICATION Spec
CONSTANTS
    Clients = {lab}
    Requests = {r1, r2}
    Files = {model, schema}
    Values = {1, 2}
    Missing = Missing
INVARIANTS
    PublishedMatches
    RenamedOnce
CHECK_DEADLOCK FALSE
