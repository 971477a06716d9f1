SPECIFICATION Spec
CONSTANTS
    MaxCycle = 2
    CycleDays = 3
    GenerateLead = 2
    DraftLead = 1
    RetryLimit = 1
    Requests = {r1}
    MaxCrashes = 1
SYMMETRY Interchangeable
INVARIANTS
    TypeOK
    OneJobPerPlan
    NeverSleepsThroughCycle
PROPERTIES
    SkipStopsGeneration
