SPECIFICATION Spec
CONSTANTS
    SummarizeThreshold = 25
    KeepRecent = 10
    MinBatch = 5
    MaxMessages = 30
    Faults = {}
PROPERTIES
    HistoryIsRecent
