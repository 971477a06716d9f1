SPECIFICATION Spec
CONSTANTS
    MaxCycle = 1
    CycleDays = 3
    GenerateLead = 2
    DraftLead = 1
    RetryLimit = 3
    Requests = {r1}
    MaxCrashes = 0
INVARIANTS
    RetriedOnce
