SPECIFICATION Spec
CONSTANTS
    r1 = r1
    t1 = t1
    t2 = t2
    g1 = g1
    Requests <- OneRequest
    Participants <- TelegramAndMail
    Telegram <- OnTelegram
    Slots = {1, 2}
    Wirings <- SomeWirings
    NudgeAge = 1
    ExpireAge = 2
    SafetyCap = 3
    Faults = {"crash", "send", "calendar", "notify", "check"}
    MaxFaults = 1
INVARIANTS
    PollingMeansContacted
    IndInv
    ConvergedIsUnanimous
    AnnouncedIsAgreed
    OneEventPerRequest
PROPERTIES
    AcceptanceStands
    LifecycleSpec
