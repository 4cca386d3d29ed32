SPECIFICATION Spec
CONSTANTS
    owner = owner
    job = job
    send = send
    respond = respond
    read = read
    Sessions <- OwnerAndJob
    Owner <- owner
    Tools <- AllTools
    Batches <- GatedBatches
    Rungs = 2
    Estimate <- NoEstimates
    CallCosts = {0}
    MessageCap = 0
    DailyCap = 0
    MaxIterations = 2
    Threshold = 2
    Cooldown = 1
    TTL = 1
    Faults = {"api", "cut", "restart"}
    PaidBound = 0
INVARIANTS
    GatedRunsAreConfirmed
    IndInv
