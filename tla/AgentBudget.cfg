SPECIFICATION FairSpec
CONSTANTS
    owner = owner
    job = job
    send = send
    respond = respond
    read = read
    Sessions <- OwnerAndJob
    Owner <- owner
    Tools <- OneTool
    Batches <- FreeBatches
    Rungs = 3
    Estimate <- Estimates
    CallCosts = {1, 2}
    MessageCap = 2
    DailyCap = 4
    MaxIterations = 3
    Threshold = 2
    Cooldown = 1
    TTL = 0
    Faults = {"api", "other", "cut", "restart"}
    PaidBound = 0
INVARIANTS
    FailuresBounded
    RunOverrunsByOneCall
    DailyBooksAgree
PROPERTIES
    BreakerRecovers
