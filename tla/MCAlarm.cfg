SPECIFICATION FairAlarmSpec
CONSTANTS
    Tables <- WakeTables
    UserOps = {"volume", "standby", "wake", "sleep", "table", "radio"}
    MaxLevel = 2
    SleepTimes = {0, 1}
    MinuteLength = 2
    MaxTime = 4
    MaxCalls = 2
    MaxFailures = 1
INVARIANTS
    FiresOncePerMinute
PROPERTIES
    SleepEnds
    WakesUp
