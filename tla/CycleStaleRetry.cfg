SPECIFICATION Spec
CONSTANTS
    MaxCycle = 1
    CycleDays = 4
    GenerateLead = 3
    DraftLead = 1
    RetryLimit = 3
    Requests = {r1}
    MaxCrashes = 0
PROPERTIES
    LiveJobNotFailed
