SPECIFICATION Spec
CONSTANTS
    SummarizeThreshold = 25
    KeepRecent = 10
    MinBatch = 5
    MaxMessages = 46
    Faults = {"api", "crash"}
INVARIANTS
    NothingVanishes
    SummaryComesFirst
    IndInv
