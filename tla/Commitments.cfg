SPECIFICATION FairSpec
CONSTANTS
    owner = owner
    job = job
    c1 = c1
    rela = rela
    None = None
    Callers <- ThreeThreads
    Commitments <- OneItem
    Faults = {"write", "crash"}
INVARIANTS
    ClosuresExplained
PROPERTIES
    OneClosurePerCaller
    CallsReturn
