SPECIFICATION QuotaSpec
CONSTANTS
    Accounts = {"a"}
    Dispatchers = {"d1"}
    DailyLimit = 2
    SafetyBuffer = 1
    MaxCrashes = 1
PROPERTY StopSurvivesCrash
CHECK_DEADLOCK FALSE
