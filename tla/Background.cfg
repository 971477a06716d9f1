SPECIFICATION BackgroundSpec
CONSTANTS
    MaxCycle = 2
    CycleDays = 3
    GenerateLead = 2
    DraftLead = 1
    RetryLimit = 1
    StageCrashes = 1
    Requests = {r1, r2}
    MaxCrashes = 1
    MaxPlan = 2
    MaxTask = 2
    Devices = {d1}
    SettingRequests = {r1}
    DayLength = 2
    MaxTime = 3
    MaxFailures = 1
    MaxLate = 1
    MaxOvertaken = 0
INVARIANTS
    TypesOK
    ProcessingBounded
PROPERTIES
    MealsOnlyReplaced
    ReadyIsDrafted
    StagesAreHandled
    ProcessingResolves
    ReminderIsHandled
CHECK_DEADLOCK FALSE
