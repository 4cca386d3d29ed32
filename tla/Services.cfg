SPECIFICATION Spec
CONSTANTS
    Services = {"mail", "debrief", "extract", "digest", "auth", "consult", "slots", "verify", "interview"}
    MaxMail = 3
    Page = 2
    MailFaults = {"db", "auth", "search", "send", "refused", "crash"}
    Meetings = {1, 2}
    Chunks = 2
    DebriefFaults = {"down", "list", "send", "refused", "db", "slow", "crash"}
    Mails = {1, 2}
    Transcripts = {3}
    MaxFacts = 2
    ExtractFaults = {"fetch", "model", "garbled", "store", "db", "crash"}
    Stories = {1, 2, 3}
    Candidates = 2
    IndexWeeks = 1
    IndexCap = 2
    DigestFaults = {"model", "garbled", "nourl", "send", "refused", "db", "crash"}
    Accounts = {1, 2}
    AuthFaults = {"network", "persist", "send", "refused", "flicker"}
    Callers = {1, 2}
    Limit = 2
    Window = 2
    MaxTime = 5
    MaxCalls = 5
    ConsultFaults = {"claude", "bug", "restart"}
    PerHour = 2
    Groups <- SomeGroups
    LastDay = 2
    Weekend = {2}
    OwnerZone = 16
    Durations = {1, 3, 24}
    Calendars <- SomeCalendars
    Step = 1
    TopN = 5
    OpenItems = 3
    Pool = 2
    VerifyFaults = {"search", "slow", "persist", "malformed"}
    MaxAppends = 3
    InterviewFaults = {"raise", "crash"}
INVARIANTS
    ServicesInv
    AlertedOnce
    NothingPassedOver
    DebriefedOnce
    ThreeChances
    MarkedIsWhole
    LeftOutWasReported
    ReadOnce
    OwnerKnows
    TwiceTheLimit
    RefusalIsEarned
    LongestWindow
    OfferIsBest
    EvidenceIsTold
    NothingSkipped
CHECK_DEADLOCK FALSE
