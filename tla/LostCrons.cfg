SPECIFICATION Spec
CONSTANTS
    CoreJobs = {"briefing"}
    TelegramJobs = {}
    NeedSchedule = {"briefing"}
    AlwaysOn = {}
    NeedContext = {}
    Gaps <- Weekdays
    WatchGap = 1
    Samples = 8
    GraceFloor = 1
    Zones = {"home", "away"}
    None = None
    Personality = "home"
    Own <- NoOwnZone
    LongestRun = 1
    MaxFails = 1
    Cap = 10
    Faults = {}
PROPERTIES
    FiresOnSchedule
