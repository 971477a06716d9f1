SPECIFICATION ServicesSpec
CONSTANTS
    Profiles <- MCProfiles
    StageHour = 9
    Jitter = 0
    Zones <- MCZones
    Requests = {r1, r2}
    MaxUser = 2
    MaxToken = 3
    MaxCode = 1
    Tappers = {t1}
    Devices = {d1}
    SettingRequests = {r1}
INVARIANTS
    TypesOK
    StageOfItsCycle
    VerdictDescribesResult
    AnswersInTime
    RepairIsStable
    RepairMindsAllergies
    NoInflation
    OneUserPerIdentity
    CodeYieldsOneSession
    ReuseClosesSessions
    OnboardedIsComplete
    LastHouseholdKept
    RepeatsExplained
    EnabledIsScheduled
PROPERTIES
    AutoSpendWithinMonth
    PlansTile
    SettingsKept
CHECK_DEADLOCK FALSE
