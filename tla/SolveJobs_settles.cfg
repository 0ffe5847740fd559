CONSTANTS
    Jobs <- ThreeJobs
    Accounts = {alice}
    OwnerOf <- OneOwner
    Requests = {}
    MaxRunning = 1
    MaxPerAccount = 2
    MaxAttempts = 2
    MaxBoots = 2
    MaxFailures = 0
    Faults = {"refused"}
    CanCrash = TRUE
SPECIFICATION FairSpec
INVARIANTS
    QuotaHolds
PROPERTIES
    EverySolveSettles
    ShutdownEnds
CHECK_DEADLOCK FALSE
