SPECIFICATION FairSpec
CONSTANTS
    r1 = r1
    t1 = t1
    t2 = t2
    g1 = g1
    Requests <- OneRequest
    Participants <- TwoOnTelegram
    Telegram <- TwoOnTelegram
    Slots = {1}
    Wirings <- Everything
    NudgeAge = 1
    ExpireAge = 2
    SafetyCap = 3
    Faults = {}
    MaxFaults = 0
PROPERTIES
    StalledIsEscalated
