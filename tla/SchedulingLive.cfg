SPECIFICATION FairSpec
CONSTANTS
    r1 = r1
    t1 = t1
    t2 = t2
    g1 = g1
    Requests <- OneRequest
    Participants <- TwoOnTelegram
    Telegram <- TwoOnTelegram
    Slots = {1}
    Wirings <- BotAndCalendar
    NudgeAge = 1
    ExpireAge = 2
    SafetyCap = 3
    Faults = {"send", "calendar", "check"}
    MaxFaults = 1
PROPERTIES
    ConsensusSurfaces
    OutreachIsResolved
